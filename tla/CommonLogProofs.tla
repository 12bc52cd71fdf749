--------------------------- MODULE CommonLogProofs ---------------------------
(***************************************************************************)
(* Proofs about the log for any number of loggers, any capacity and any    *)
(* number of messages and pauses.  The properties speak of what has been   *)
(* added and printed; the code only has the ring and its indices, so the   *)
(* invariant says what the ring holds between them, slot by slot.          *)
(***************************************************************************)
EXTENDS CommonLog, SequenceTheorems, TLAPS

Messages == (Loggers \X Nat) \X Nat

\* The slot k places after slot a, and how far slot b is after slot a.
After(a, k) == IF a + k < Capacity THEN a + k ELSE a + k - Capacity
Distance(a, b) == IF a <= b THEN b - a ELSE b - a + Capacity

Printing == worker \in {"flushing", "stopping"}
Start == IF Printing THEN h ELSE head        \* the next slot to print
Pending == Len(accepted) - Len(printed)      \* accepted, not printed
Flushed == Distance(head, Start)             \* printed, slot not yet free

HistoryTypes == accepted \in Seq(Messages)
Prefix == /\ printed \in Seq(Messages) /\ Len(printed) <= Len(accepted)
          /\ \A i \in 1 .. Len(printed) : printed[i] = accepted[i]
PendingInFile == \A i \in Len(printed) + 1 .. Len(accepted) : accepted[i][2] = file

\* The messages that wait are in the ring, from the next slot to print on; when
\* the log is paused the end entry follows them, and the tail follows that.
PendingInRing ==
  worker \in {"waiting", "asleep", "flushing"} =>
    /\ Flushed + Pending <= Capacity - 1
    /\ \A k \in 0 .. Pending - 1 :
         queue[After(Start, k)] = Entry(accepted[Len(printed) + 1 + k][1])
    /\ running => tail = After(Start, Pending)
    /\ ~running => /\ queue[After(Start, Pending)] = End
                   /\ tail = After(After(Start, Pending), 1)

\* The worker's copy of the tail does not lie beyond what is there to print.
FlushInRing ==
  worker = "flushing" =>
    /\ Flushed + Distance(h, cached_tail) <= Capacity - 1
    /\ Distance(h, cached_tail) <= Pending + (IF running THEN 0 ELSE 1)

\* The worker stops only after everything is printed, and ends with an empty ring.
Stopped ==
  /\ worker \in {"stopping", "none"} => ~running /\ Pending = 0
  /\ worker = "stopping" => tail = h
  /\ worker = "none" => tail = head
  /\ owner \in {"idle", "resume"} /\ ~running => worker = "none"

RingInv == Prefix /\ PendingInFile /\ PendingInRing /\ FlushInRing /\ Stopped

----------------------------------------------------------------------------
(* The ring. *)

(* The next slot, without the modulus of flush_queue and add.              *)
LEMMA NextSlot == \A i \in Slots : next(i) = After(i, 1) /\ next(i) \in Slots
<1> SUFFICES ASSUME NEW i \in Slots PROVE next(i) = After(i, 1) /\ next(i) \in Slots
  OBVIOUS
<1>1. CASE i + 1 < Capacity
  <2>1. (i + 1) % Capacity = i + 1
    BY <1>1, CapacityAssumption DEF Slots
  <2> QED
    BY <1>1, <2>1, CapacityAssumption DEF Slots, next, After
<1>2. CASE i + 1 >= Capacity
  <2>1. i + 1 = Capacity
    BY <1>2, CapacityAssumption DEF Slots
  <2>2. Capacity % Capacity = 0
    BY CapacityAssumption
  <2> QED
    BY <2>1, <2>2, CapacityAssumption DEF Slots, next, After
<1> QED
  BY <1>1, <1>2, CapacityAssumption DEF Slots

LEMMA AfterFacts ==
  ASSUME NEW a \in Slots
  PROVE  /\ \A k \in 0 .. Capacity : After(a, k) \in Slots
         /\ \A j, k \in 0 .. Capacity - 1 : j # k => After(a, j) # After(a, k)
         /\ \A j, k \in 0 .. Capacity : j + k <= Capacity => After(After(a, j), k) = After(a, j + k)
         /\ After(a, 0) = a /\ After(a, Capacity) = a
         /\ \A k \in 0 .. Capacity - 1 : After(a, k) = a => k = 0
BY CapacityAssumption DEF Slots, After

LEMMA DistanceFacts ==
  ASSUME NEW a \in Slots, NEW b \in Slots
  PROVE  /\ Distance(a, b) \in 0 .. Capacity - 1
         /\ After(a, Distance(a, b)) = b
         /\ Distance(a, a) = 0 /\ (Distance(a, b) = 0 => a = b)
         /\ \A k \in 0 .. Capacity - 1 : Distance(a, After(a, k)) = k
         /\ a # b => Distance(After(a, 1), b) = Distance(a, b) - 1
BY CapacityAssumption DEF Slots, After, Distance

LEMMA EntryTypes ==
  /\ End \in Entries /\ End.is_end
  /\ \A m \in {<<>>} \union (Loggers \X Nat) :
       Entry(m) \in Entries /\ ~Entry(m).is_end /\ Entry(m).msg = m
BY DEF Entries, End, Entry

LEMMA MessageTypes ==
  /\ \A x \in Messages : x = <<x[1], x[2]>> /\ x[1] \in Loggers \X Nat /\ x[2] \in Nat
  /\ \A m \in Loggers \X Nat, f \in Nat :
       <<m, f>> \in Messages /\ <<m, f>>[1] = m /\ <<m, f>>[2] = f
BY DEF Messages

(* What Append does, for the two histories.                                *)
LEMMA Appended ==
  ASSUME NEW s \in Seq(Messages), NEW x \in Messages
  PROVE  /\ Append(s, x) \in Seq(Messages)
         /\ Len(s) \in Nat /\ Len(Append(s, x)) = Len(s) + 1
         /\ \A i \in 1 .. Len(s) : Append(s, x)[i] = s[i]
         /\ Append(s, x)[Len(s) + 1] = x
OBVIOUS

----------------------------------------------------------------------------
(* Types *)

TypeInv == TypeOK /\ HistoryTypes

LEMMA WokenLoggers ==
  TypeOK => /\ notify_full \in [Loggers -> {"idle", "adding", "asleep"}]
            /\ notify_new \in {"none", "waiting", "asleep", "flushing", "stopping"}
BY DEF TypeOK, notify_full, notify_new

LEMMA TypeInit == Init => TypeInv
<1> SUFFICES ASSUME Init PROVE TypeInv
  OBVIOUS
<1>1. queue \in [Slots -> Entries]
  BY EntryTypes DEF Init
<1>2. 0 \in Slots
  BY CapacityAssumption DEF Slots
<1>3. TypeOK
  BY <1>1, <1>2, BoundsAssumption DEF Init, TypeOK
<1>4. HistoryTypes
  BY DEF Init, HistoryTypes
<1> QED
  BY <1>3, <1>4 DEF TypeInv

LEMMA TypeStep == TypeInv /\ [Next]_vars => TypeInv'
<1> SUFFICES ASSUME TypeInv, [Next]_vars PROVE TypeInv'
  OBVIOUS
<1>1. TypeOK /\ HistoryTypes /\ queue \in [Slots -> Entries]
  BY DEF TypeInv, TypeOK
<1> USE DEF log, work, callers, history
<1>2. ASSUME NEW l \in Loggers, CallAdd(l) PROVE TypeInv'
  BY <1>1, <1>2, BoundsAssumption DEF TypeInv, TypeOK, HistoryTypes, CallAdd
<1>3. ASSUME NEW l \in Loggers, Add(l) PROVE TypeInv'
  <2>1. <<l, sent[l]>> \in Loggers \X Nat /\ <<<<l, sent[l]>>, file>> \in Messages
    BY <1>1, BoundsAssumption, MessageTypes DEF TypeOK
  <2>2. queue' \in [Slots -> Entries]
    BY <1>1, <1>3, <2>1, EntryTypes DEF Add
  <2>3. tail' \in Slots
    BY <1>1, <1>3, NextSlot DEF Add, TypeOK
  <2>4. HistoryTypes'
    <3>1. \/ accepted' = accepted
          \/ accepted' = Append(accepted, <<<<l, sent[l]>>, file>>)
      BY <1>3 DEF Add
    <3> QED
      BY <1>1, <2>1, <3>1, Appended DEF HistoryTypes
  <2>5. /\ logger' \in [Loggers -> {"idle", "adding", "asleep"}]
        /\ worker' \in {"none", "waiting", "asleep", "flushing", "stopping"}
    BY <1>1, <1>3, WokenLoggers DEF Add, TypeOK
  <2>6. TypeOK'
    BY <1>1, <1>3, <2>2, <2>3, <2>5 DEF Add, TypeOK
  <2> QED
    BY <2>4, <2>6 DEF TypeInv
<1>4. CASE SpuriousWake
  BY <1>1, <1>4 DEF TypeInv, TypeOK, HistoryTypes, SpuriousWake
<1>5. CASE WorkerWait
  BY <1>1, <1>5 DEF TypeInv, TypeOK, HistoryTypes, WorkerWait
<1>6. CASE PrintEntry
  BY <1>1, <1>6, NextSlot DEF TypeInv, TypeOK, HistoryTypes, PrintEntry
<1>7. CASE AdvanceHead
  BY <1>1, <1>7, WokenLoggers DEF TypeInv, TypeOK, HistoryTypes, AdvanceHead
<1>8. ASSUME NEW goal \in {"pause", "set_file", "flush"}, Pause(goal) PROVE TypeInv'
  <2>1. queue' \in [Slots -> Entries] /\ tail' \in Slots
    BY <1>1, <1>8, EntryTypes, NextSlot DEF Pause, TypeOK
  <2>2. /\ logger' \in [Loggers -> {"idle", "adding", "asleep"}]
        /\ worker' \in {"none", "waiting", "asleep", "flushing", "stopping"}
    BY <1>1, <1>8, WokenLoggers DEF Pause, TypeOK
  <2>3. running' \in BOOLEAN
    BY <1>1, <1>8 DEF Pause, TypeOK
  <2>4. calls' \in 0 .. MaxCalls /\ owner' \in {"idle", "pause", "set_file", "flush", "resume"}
    BY <1>1, <1>8, BoundsAssumption DEF Pause, TypeOK
  <2> QED
    BY <1>1, <1>8, <2>1, <2>2, <2>3, <2>4 DEF Pause, TypeInv, TypeOK, HistoryTypes
<1>9. CASE Join
  BY <1>1, <1>9 DEF TypeInv, TypeOK, HistoryTypes, Join
<1>10. CASE Resume
  BY <1>1, <1>10 DEF TypeInv, TypeOK, HistoryTypes, Resume
<1>11. CASE UNCHANGED vars
  BY <1>1, <1>11 DEF TypeInv, TypeOK, HistoryTypes, vars
<1> QED
  BY <1>2, <1>3, <1>4, <1>5, <1>6, <1>7, <1>8, <1>9, <1>10, <1>11 DEF Next

----------------------------------------------------------------------------
(* The ring, step by step.  Lens collects what every step needs to know.   *)

LEMMA Lens ==
  ASSUME TypeInv, RingInv
  PROVE  /\ accepted \in Seq(Messages) /\ printed \in Seq(Messages)
         /\ Len(accepted) \in Nat /\ Len(printed) \in Nat /\ Pending \in Nat
         /\ Start \in Slots /\ Flushed \in 0 .. Capacity - 1
         /\ head \in Slots /\ tail \in Slots /\ h \in Slots /\ cached_tail \in Slots
         /\ After(head, Flushed) = Start
<1>1. /\ head \in Slots /\ tail \in Slots /\ h \in Slots /\ cached_tail \in Slots
      /\ Start \in Slots
  BY DEF TypeInv, TypeOK, Start
<1>2. /\ accepted \in Seq(Messages) /\ printed \in Seq(Messages)
      /\ Len(printed) <= Len(accepted)
  BY DEF TypeInv, HistoryTypes, RingInv, Prefix
<1>3. Len(accepted) \in Nat /\ Len(printed) \in Nat
  BY <1>2, LenProperties
<1>4. Pending \in Nat
  BY <1>2, <1>3 DEF Pending
<1> QED
  BY <1>1, <1>2, <1>3, <1>4, DistanceFacts DEF Flushed

LEMMA RingInit == Init => RingInv
<1> SUFFICES ASSUME Init PROVE RingInv
  OBVIOUS
<1>1. Len(accepted) = 0 /\ Len(printed) = 0 /\ Pending = 0 /\ Start = 0 /\ Flushed = 0
  BY DEF Init, Pending, Start, Printing, Flushed, Distance
<1>2. Prefix /\ PendingInFile
  BY <1>1 DEF Init, Prefix, PendingInFile
<1>3. PendingInRing
  BY <1>1, CapacityAssumption DEF Init, PendingInRing, After
<1>4. FlushInRing /\ Stopped
  BY DEF Init, FlushInRing, Stopped
<1> QED
  BY <1>2, <1>3, <1>4 DEF RingInv

(* A message goes to the slot after those that wait; it overwrites none of *)
(* them, since the queue was not full.                                     *)
LEMMA RingAdd ==
  ASSUME TypeInv, RingInv, NEW l \in Loggers, Add(l), accepted' # accepted
  PROVE  RingInv'
<1> DEFINE m == <<l, sent[l]>>
<1>1. /\ running /\ ~is_full /\ queue' = [queue EXCEPT ![tail] = Entry(m)]
      /\ tail' = next(tail) /\ worker' = notify_new
      /\ accepted' = Append(accepted, <<m, file>>)
      /\ UNCHANGED <<head, running, h, cached_tail, file, owner, printed>>
  BY DEF Add
<1>2. worker \in {"waiting", "asleep", "flushing"}
  BY <1>1 DEF TypeInv, TypeOK, RingInv, Stopped
<1>3. /\ worker' \in {"waiting", "flushing"}
      /\ worker' = "flushing" <=> worker = "flushing"
      /\ Start' = Start /\ Flushed' = Flushed
  BY <1>1, <1>2 DEF notify_new, Start, Printing, Flushed
<1>4. m \in Loggers \X Nat /\ <<m, file>> \in Messages
  BY BoundsAssumption, MessageTypes DEF TypeInv, TypeOK
<1>5. /\ Len(accepted') = Len(accepted) + 1
      /\ \A i \in 1 .. Len(accepted) : accepted'[i] = accepted[i]
      /\ accepted'[Len(accepted) + 1] = <<m, file>>
  BY <1>1, <1>4, Lens, Appended
<1>6. Pending' = Pending + 1
  BY <1>1, <1>5, Lens DEF Pending
<1>7. tail = After(Start, Pending) /\ Flushed + Pending <= Capacity - 1
  BY <1>1, <1>2 DEF RingInv, PendingInRing
<1>8. Flushed + Pending <= Capacity - 2
  <2>1. SUFFICES ASSUME Flushed + Pending = Capacity - 1 PROVE FALSE
    BY <1>7, Lens, CapacityAssumption
  <2>2. After(tail, 1) = head
    <3>1. tail = After(After(head, Flushed), Pending)
      BY <1>7, Lens
    <3>2. Pending \in 0 .. Capacity /\ Flushed \in 0 .. Capacity
      BY <2>1, Lens, CapacityAssumption
    <3>3. tail = After(head, Capacity - 1)
      BY <2>1, <3>1, <3>2, Lens, AfterFacts, CapacityAssumption
    <3>4. After(tail, 1) = After(head, Capacity)
      BY <3>3, Lens, AfterFacts, CapacityAssumption
    <3> QED
      BY <3>4, Lens, AfterFacts
  <2> QED
    BY <1>1, <2>2, NextSlot, Lens DEF is_full
<1>9. Prefix' /\ PendingInFile'
  <2>1. Prefix'
    BY <1>1, <1>5, Lens DEF RingInv, Prefix
  <2>2. PendingInFile'
    <3> SUFFICES ASSUME NEW i \in Len(printed) + 1 .. Len(accepted) + 1
                 PROVE  accepted'[i][2] = file
      BY <1>1, <1>5 DEF PendingInFile
    <3>1. CASE i = Len(accepted) + 1
      BY <1>5, <3>1
    <3>2. CASE i # Len(accepted) + 1
      <4>1. i \in 1 .. Len(accepted) /\ i \in Len(printed) + 1 .. Len(accepted)
        BY <3>2, Lens
      <4> QED
        BY <1>5, <4>1 DEF RingInv, PendingInFile
    <3> QED
      BY <3>1, <3>2
  <2> QED
    BY <2>1, <2>2
<1>10. PendingInRing'
  <2>1. Flushed' + Pending' <= Capacity - 1
    BY <1>3, <1>6, <1>8, Lens, CapacityAssumption
  <2>2. ASSUME NEW k \in 0 .. Pending
        PROVE  queue'[After(Start, k)] = Entry(accepted'[Len(printed) + 1 + k][1])
    <3>1. CASE k = Pending
      <4>1. Len(printed) + 1 + k = Len(accepted) + 1
        BY <3>1, Lens DEF Pending
      <4>2. queue'[After(Start, k)] = Entry(m)
        BY <1>1, <1>7, <3>1, Lens DEF TypeInv, TypeOK
      <4>3. accepted'[Len(printed) + 1 + k] = <<m, file>>
        BY <1>5, <4>1
      <4>4. accepted'[Len(printed) + 1 + k][1] = m
        BY <4>3
      <4> QED
        BY <4>2, <4>4
    <3>2. CASE k # Pending
      <4>1. k \in 0 .. Pending - 1 /\ Pending \in 0 .. Capacity - 1
        BY <1>7, <3>2, Lens, CapacityAssumption
      <4>2. After(Start, k) # tail /\ After(Start, k) \in Slots
        <5>1. Start \in Slots /\ k \in 0 .. Capacity - 1 /\ k \in 0 .. Capacity /\ k # Pending
          BY <4>1, Lens, CapacityAssumption
        <5> QED
          BY <1>7, <4>1, <5>1, AfterFacts
      <4>3. queue'[After(Start, k)] = queue[After(Start, k)]
        BY <1>1, <4>2 DEF TypeInv, TypeOK
      <4>4. Len(printed) + 1 + k \in 1 .. Len(accepted)
        BY <4>1, Lens DEF Pending
      <4>5. queue[After(Start, k)] = Entry(accepted[Len(printed) + 1 + k][1])
        BY <1>2, <4>1 DEF RingInv, PendingInRing
      <4> QED
        BY <1>5, <4>3, <4>4, <4>5
    <3> QED
      BY <3>1, <3>2
  <2>3. tail' = After(Start, Pending + 1)
    <3>1. tail' = After(After(Start, Pending), 1)
      BY <1>1, <1>7, Lens, NextSlot
    <3>2. Pending \in 0 .. Capacity /\ 1 \in 0 .. Capacity /\ Pending + 1 <= Capacity
      BY <1>7, Lens, CapacityAssumption
    <3> QED
      BY <3>1, <3>2, Lens, AfterFacts
  <2>4. \A k \in 0 .. Pending' - 1 :
          queue'[After(Start', k)] = Entry(accepted'[Len(printed') + 1 + k][1])
    <3> SUFFICES ASSUME NEW k \in 0 .. Pending' - 1
                 PROVE queue'[After(Start', k)] = Entry(accepted'[Len(printed') + 1 + k][1])
      OBVIOUS
    <3>1. k \in 0 .. Pending
      BY <1>6, Lens
    <3>2. printed' = printed
      BY <1>1
    <3>3. queue'[After(Start, k)] = Entry(accepted'[Len(printed) + 1 + k][1])
      BY <2>2, <3>1
    <3>4. After(Start', k) = After(Start, k)
      BY <1>3
    <3> QED
      BY <3>2, <3>3, <3>4
  <2>5. running' /\ tail' = After(Start', Pending')
    BY <1>1, <1>3, <1>6, <2>3
  <2> QED
    BY <2>1, <2>4, <2>5 DEF PendingInRing
<1>11. FlushInRing'
  <2> SUFFICES ASSUME worker' = "flushing" PROVE FlushInRing'
    BY DEF FlushInRing
  <2>1. /\ Flushed + Distance(h, cached_tail) <= Capacity - 1
        /\ Distance(h, cached_tail) <= Pending
    BY <1>1, <1>3, Lens DEF RingInv, FlushInRing
  <2>2. Distance(h, cached_tail) <= Pending'
    <3>1. Distance(h, cached_tail) \in 0 .. Capacity - 1
      BY Lens, DistanceFacts
    <3> QED
      BY <1>6, <2>1, <3>1, Lens, CapacityAssumption
  <2>3. h' = h /\ cached_tail' = cached_tail /\ Flushed' = Flushed /\ running'
    BY <1>1, <1>3
  <2>4. Flushed' + Distance(h', cached_tail') <= Capacity - 1
    BY <2>1, <2>3
  <2>5. Distance(h', cached_tail') <= Pending' + 0
    BY <1>6, <2>2, <2>3, Lens
  <2> QED
    BY <2>3, <2>4, <2>5 DEF FlushInRing
<1>12. Stopped'
  BY <1>1, <1>3 DEF Stopped
<1> QED
  BY <1>9, <1>10, <1>11, <1>12 DEF RingInv

(* The end entry goes to the tail as well: whether or not the queue was    *)
(* full, the slot there holds nothing that waits.                          *)
LEMMA RingPause ==
  ASSUME TypeInv, RingInv, NEW goal \in {"pause", "set_file", "flush"}, Pause(goal)
  PROVE  RingInv'
<1>1. owner' = goal /\ UNCHANGED <<head, h, cached_tail, file, accepted, printed>>
  BY DEF Pause, history
<1>2. Pending' = Pending /\ Prefix' /\ PendingInFile'
  BY <1>1 DEF RingInv, Prefix, PendingInFile, Pending
<1>3. CASE ~running
  <2>1. UNCHANGED <<queue, tail, running, worker>>
    BY <1>3 DEF Pause
  <2>2. Start' = Start /\ Flushed' = Flushed
    BY <1>1, <2>1 DEF Start, Printing, Flushed
  <2>3. PendingInRing' /\ FlushInRing' /\ Stopped'
    BY <1>1, <1>2, <1>3, <2>1, <2>2 DEF RingInv, PendingInRing, FlushInRing, Stopped
  <2> QED
    BY <1>2, <2>3 DEF RingInv
<1>4. CASE running
  <2>1. /\ ~running' /\ queue' = [queue EXCEPT ![tail] = End]
        /\ tail' = next(tail) /\ worker' = notify_new
    BY <1>4 DEF Pause
  <2>2. worker \in {"waiting", "asleep", "flushing"}
    BY <1>4 DEF TypeInv, TypeOK, RingInv, Stopped
  <2>3. /\ worker' \in {"waiting", "flushing"}
        /\ worker' = "flushing" <=> worker = "flushing"
        /\ Start' = Start /\ Flushed' = Flushed
    BY <1>1, <2>1, <2>2 DEF notify_new, Start, Printing, Flushed
  <2>4. tail = After(Start, Pending) /\ Flushed + Pending <= Capacity - 1
    BY <1>4, <2>2 DEF RingInv, PendingInRing
  <2>5. Pending \in 0 .. Capacity - 1
    BY <2>4, Lens, CapacityAssumption
  <2>6. ASSUME NEW k \in 0 .. Pending - 1
        PROVE  queue'[After(Start, k)] = Entry(accepted[Len(printed) + 1 + k][1])
    <3>1. k \in 0 .. Capacity - 1 /\ k \in 0 .. Capacity /\ k # Pending
      BY <2>5, CapacityAssumption
    <3>2. After(Start, k) # tail /\ After(Start, k) \in Slots
      BY <2>4, <2>5, <3>1, Lens, AfterFacts
    <3>3. queue'[After(Start, k)] = queue[After(Start, k)]
      BY <2>1, <3>2 DEF TypeInv, TypeOK
    <3> QED
      BY <2>2, <3>3 DEF RingInv, PendingInRing
  <2>7. /\ queue'[After(Start, Pending)] = End
        /\ tail' = After(After(Start, Pending), 1)
    BY <2>1, <2>4, Lens, NextSlot DEF TypeInv, TypeOK
  <2>8. PendingInRing'
    <3>1. \A k \in 0 .. Pending' - 1 :
            queue'[After(Start', k)] = Entry(accepted'[Len(printed') + 1 + k][1])
      BY <1>1, <1>2, <2>3, <2>6
    <3>2. queue'[After(Start', Pending')] = End /\ tail' = After(After(Start', Pending'), 1)
      BY <1>2, <2>3, <2>7
    <3>3. Flushed' + Pending' <= Capacity - 1
      BY <1>2, <2>3, <2>4
    <3> QED
      BY <2>1, <3>1, <3>2, <3>3 DEF PendingInRing
  <2>9. FlushInRing'
    <3> SUFFICES ASSUME worker' = "flushing" PROVE FlushInRing'
      BY DEF FlushInRing
    <3>1. /\ Flushed + Distance(h, cached_tail) <= Capacity - 1
          /\ Distance(h, cached_tail) <= Pending + 0
      BY <1>4, <2>3 DEF RingInv, FlushInRing
    <3>2. Distance(h, cached_tail) \in 0 .. Capacity - 1
      BY Lens, DistanceFacts
    <3>3. Distance(h', cached_tail') <= Pending' + 1
      BY <1>1, <1>2, <3>1, <3>2, Lens, CapacityAssumption
    <3>4. Flushed' + Distance(h', cached_tail') <= Capacity - 1
      BY <1>1, <2>3, <3>1
    <3> QED
      BY <2>1, <3>3, <3>4 DEF FlushInRing
  <2>10. Stopped'
    BY <1>1, <2>3 DEF Stopped
  <2> QED
    BY <1>2, <2>8, <2>9, <2>10 DEF RingInv
<1> QED
  BY <1>3, <1>4

(* What the worker copies as the end of its flush is where the ring ends.  *)
LEMMA RingWait ==
  ASSUME TypeInv, RingInv, WorkerWait
  PROVE  RingInv'
<1>1. /\ worker = "waiting"
      /\ UNCHANGED <<queue, head, tail, running, file, owner, accepted, printed>>
  BY DEF WorkerWait, log, callers, history
<1>2. Pending' = Pending /\ Prefix' /\ PendingInFile'
  BY <1>1 DEF RingInv, Prefix, PendingInFile, Pending
<1>3. Start = head /\ Flushed = 0
  BY <1>1, Lens, DistanceFacts DEF Start, Printing, Flushed
<1>4. CASE is_empty
  <2>1. worker' = "asleep"
    BY <1>4 DEF WorkerWait
  <2>2. Start' = Start /\ Flushed' = Flushed
    BY <1>1, <2>1 DEF Start, Printing, Flushed
  <2>3. PendingInRing'
    BY <1>1, <1>2, <2>1, <2>2 DEF RingInv, PendingInRing
  <2>4. FlushInRing' /\ Stopped'
    BY <1>1, <2>1 DEF RingInv, FlushInRing, Stopped
  <2> QED
    BY <1>2, <2>3, <2>4 DEF RingInv
<1>5. CASE ~is_empty
  <2>1. worker' = "flushing" /\ h' = head /\ cached_tail' = tail
    BY <1>5 DEF WorkerWait
  <2>2. Start' = head' /\ Start' = Start /\ Flushed' = Flushed
    BY <1>1, <1>3, <2>1 DEF Start, Printing, Flushed
  <2>3. PendingInRing'
    BY <1>1, <1>2, <2>1, <2>2 DEF RingInv, PendingInRing
  <2>4. Pending \in 0 .. Capacity - 1
    BY <1>1, <1>3, Lens, CapacityAssumption DEF RingInv, PendingInRing
  <2>5. Distance(head, tail) \in 0 .. Capacity - 1
    BY Lens, DistanceFacts
  <2>6. Distance(head, tail) <= Pending + (IF running THEN 0 ELSE 1)
    <3>1. CASE running
      <4>1. tail = After(head, Pending)
        BY <1>1, <1>3, <3>1 DEF RingInv, PendingInRing
      <4> QED
        BY <2>4, <3>1, <4>1, Lens, DistanceFacts
    <3>2. CASE ~running
      <4>1. tail = After(After(head, Pending), 1)
        BY <1>1, <1>3, <3>2 DEF RingInv, PendingInRing
      <4>2. tail = After(head, Pending + 1)
        <5>1. Pending \in 0 .. Capacity /\ 1 \in 0 .. Capacity /\ Pending + 1 <= Capacity
          BY <2>4, CapacityAssumption
        <5> QED
          BY <4>1, <5>1, Lens, AfterFacts
      <4>3. tail # head
        BY <1>5 DEF is_empty
      <4>4. Pending + 1 \in 0 .. Capacity - 1
        BY <2>4, <4>2, <4>3, Lens, AfterFacts, CapacityAssumption
      <4>5. Distance(head, tail) = Pending + 1
        BY <4>2, <4>4, Lens, DistanceFacts
      <4> QED
        BY <2>4, <3>2, <4>5, CapacityAssumption
    <3> QED
      BY <3>1, <3>2
  <2>7. FlushInRing'
    <3>1. Flushed' + Distance(h', cached_tail') <= Capacity - 1
      BY <1>3, <2>1, <2>2, <2>5, CapacityAssumption
    <3>2. Distance(h', cached_tail') <= Pending' + (IF running' THEN 0 ELSE 1)
      BY <1>1, <1>2, <2>1, <2>6
    <3> QED
      BY <3>1, <3>2 DEF FlushInRing
  <2>8. Stopped'
    BY <1>1, <2>1 DEF RingInv, Stopped
  <2> QED
    BY <1>2, <2>3, <2>7, <2>8 DEF RingInv
<1> QED
  BY <1>4, <1>5

(* The entry printed is the message that has waited longest, or the end    *)
(* entry when none waits.                                                  *)
LEMMA RingPrint ==
  ASSUME TypeInv, RingInv, PrintEntry
  PROVE  RingInv'
<1>1. /\ worker = "flushing" /\ h # cached_tail /\ h' = next(h)
      /\ UNCHANGED <<queue, head, tail, running, cached_tail, file, owner, accepted>>
  BY DEF PrintEntry, log, callers
<1>2. Start = h
  BY <1>1 DEF Start, Printing
<1>3. h' = After(h, 1) /\ h' \in Slots
  BY <1>1, Lens, NextSlot
<1>4. /\ Distance(h, cached_tail) \in 1 .. Capacity - 1
      /\ Distance(h', cached_tail) = Distance(h, cached_tail) - 1
  <2>1. Distance(h, cached_tail) \in 0 .. Capacity - 1 /\ Distance(h, cached_tail) # 0
    BY <1>1, Lens, DistanceFacts
  <2>2. Distance(After(h, 1), cached_tail) = Distance(h, cached_tail) - 1
    BY <1>1, Lens, DistanceFacts
  <2> QED
    BY <1>3, <2>1, <2>2, CapacityAssumption
<1>5. /\ Flushed + Distance(h, cached_tail) <= Capacity - 1
      /\ Distance(h, cached_tail) <= Pending + (IF running THEN 0 ELSE 1)
  BY <1>1 DEF RingInv, FlushInRing
<1>6. Flushed \in 0 .. Capacity - 2
  BY <1>4, <1>5, Lens, CapacityAssumption
<1>7. Distance(head, h') = Flushed + 1
  <2>1. h' = After(After(head, Flushed), 1)
    BY <1>2, <1>3, Lens
  <2>2. Flushed \in 0 .. Capacity /\ 1 \in 0 .. Capacity /\ Flushed + 1 <= Capacity
    BY <1>6, CapacityAssumption
  <2>3. h' = After(head, Flushed + 1)
    BY <2>1, <2>2, Lens, AfterFacts
  <2>4. Flushed + 1 \in 0 .. Capacity - 1
    BY <1>6, CapacityAssumption
  <2> QED
    BY <2>3, <2>4, Lens, DistanceFacts
<1>8. CASE Pending = 0
  <2>1. ~running
    BY <1>4, <1>5, <1>8
  <2>2. queue[h] = End /\ tail = After(h, 1)
    BY <1>1, <1>2, <1>8, <2>1, Lens, AfterFacts DEF RingInv, PendingInRing
  <2>3. worker' = "stopping" /\ printed' = printed
    BY <2>2, EntryTypes DEF PrintEntry
  <2>4. Prefix' /\ PendingInFile'
    BY <1>1, <2>3 DEF RingInv, Prefix, PendingInFile
  <2>5. PendingInRing' /\ FlushInRing'
    BY <2>3 DEF PendingInRing, FlushInRing
  <2>6. Pending' = 0
    BY <1>1, <1>8, <2>3 DEF Pending
  <2>7. Stopped'
    BY <1>1, <1>3, <2>1, <2>2, <2>3, <2>6 DEF RingInv, Stopped
  <2> QED
    BY <2>4, <2>5, <2>7 DEF RingInv
<1>9. CASE Pending # 0
  <2> DEFINE a == accepted[Len(printed) + 1]
  <2>1. Pending \in 1 .. Capacity - 1 /\ Len(printed) + 1 \in 1 .. Len(accepted)
    BY <1>1, <1>9, Lens, CapacityAssumption DEF RingInv, PendingInRing, Pending
  <2>2. a \in Messages /\ a[2] = file /\ a[1] \in Loggers \X Nat
    <3>1. a \in Messages
      BY <2>1, Lens, ElementOfSeq
    <3>2. Len(printed) + 1 \in Len(printed) + 1 .. Len(accepted)
      BY <2>1, Lens
    <3>3. a[2] = file
      BY <3>2 DEF RingInv, PendingInFile
    <3> QED
      BY <3>1, <3>3, MessageTypes
  <2>3. queue[h] = Entry(a[1])
    <3>1. 0 \in 0 .. Pending - 1
      BY <2>1
    <3>2. queue[After(Start, 0)] = Entry(accepted[Len(printed) + 1 + 0][1])
      BY <1>1, <3>1 DEF RingInv, PendingInRing
    <3>3. Len(printed) + 1 + 0 = Len(printed) + 1
      BY Lens
    <3> QED
      BY <1>2, <3>2, <3>3, Lens, AfterFacts
  <2>4. ~queue[h].is_end /\ queue[h].msg = a[1]
    BY <2>2, <2>3, EntryTypes
  <2>5. worker' = "flushing" /\ printed' = Append(printed, a)
    <3>1. a = <<a[1], a[2]>>
      BY <2>2, MessageTypes
    <3> QED
      BY <1>1, <2>2, <2>4, <3>1 DEF PrintEntry
  <2>6. /\ printed' \in Seq(Messages) /\ Len(printed') = Len(printed) + 1
        /\ \A i \in 1 .. Len(printed) : printed'[i] = printed[i]
        /\ printed'[Len(printed) + 1] = a
    BY <2>2, <2>5, Lens, Appended
  <2>7. Pending' = Pending - 1 /\ Start' = h' /\ Flushed' = Flushed + 1
    BY <1>1, <1>7, <2>5, <2>6, Lens DEF Pending, Start, Printing, Flushed
  <2>8. Prefix'
    <3>1. Len(printed') <= Len(accepted')
      BY <1>1, <2>1, <2>6
    <3>2. ASSUME NEW i \in 1 .. Len(printed) + 1 PROVE printed'[i] = accepted[i]
      <4>1. i \in 1 .. Len(printed) \/ i = Len(printed) + 1
        BY Lens
      <4> QED
        BY <2>6, <4>1 DEF RingInv, Prefix
    <3> QED
      BY <1>1, <2>6, <3>1, <3>2 DEF Prefix
  <2>9. PendingInFile'
    BY <1>1, <2>6, Lens DEF RingInv, PendingInFile
  <2>10. PendingInRing'
    <3>1. Flushed' + Pending' <= Capacity - 1
      BY <1>1, <2>1, <2>7, Lens, CapacityAssumption DEF RingInv, PendingInRing
    <3>2. ASSUME NEW k \in 0 .. Pending - 1
          PROVE  After(h', k) = After(h, k + 1)
      <4>1. 1 \in 0 .. Capacity /\ k \in 0 .. Capacity /\ 1 + k <= Capacity /\ 1 + k = k + 1
        BY <2>1, CapacityAssumption
      <4> QED
        BY <1>3, <4>1, Lens, AfterFacts
    <3>3. ASSUME NEW k \in 0 .. Pending' - 1
          PROVE  queue'[After(Start', k)] = Entry(accepted'[Len(printed') + 1 + k][1])
      <4>1. k \in 0 .. Pending - 1 /\ k + 1 \in 0 .. Pending - 1
        BY <2>1, <2>7
      <4>2. queue[After(Start, k + 1)] = Entry(accepted[Len(printed) + 1 + (k + 1)][1])
        BY <1>1, <4>1 DEF RingInv, PendingInRing
      <4>3. Len(printed') + 1 + k = Len(printed) + 1 + (k + 1)
        BY <2>6, <4>1, Lens
      <4>4. After(Start', k) = After(Start, k + 1)
        BY <1>2, <2>7, <3>2, <4>1
      <4> QED
        BY <1>1, <4>2, <4>3, <4>4
    <3>4. After(Start', Pending') = After(Start, Pending)
      BY <1>2, <2>1, <2>7, <3>2
    <3>5. /\ running' => tail' = After(Start', Pending')
          /\ ~running' => /\ queue'[After(Start', Pending')] = End
                          /\ tail' = After(After(Start', Pending'), 1)
      BY <1>1, <3>4 DEF RingInv, PendingInRing
    <3> QED
      BY <3>1, <3>3, <3>5 DEF PendingInRing
  <2>11. FlushInRing'
    <3>1. Flushed' + Distance(h', cached_tail') <= Capacity - 1
      BY <1>1, <1>4, <1>5, <2>7, Lens, CapacityAssumption
    <3>2. Distance(h', cached_tail') <= Pending' + (IF running' THEN 0 ELSE 1)
      BY <1>1, <1>4, <1>5, <2>1, <2>7, CapacityAssumption
    <3> QED
      BY <3>1, <3>2 DEF FlushInRing
  <2>12. Stopped'
    BY <1>1, <2>5 DEF RingInv, Stopped
  <2> QED
    BY <2>8, <2>9, <2>10, <2>11, <2>12 DEF RingInv
<1> QED
  BY <1>8, <1>9

(* The head catches up with what is printed; after the end entry that is   *)
(* the tail.                                                               *)
LEMMA RingAdvance ==
  ASSUME TypeInv, RingInv, AdvanceHead
  PROVE  RingInv'
<1>1. /\ head' = h /\ worker' = IF worker = "stopping" THEN "none" ELSE "waiting"
      /\ UNCHANGED <<queue, tail, running, h, cached_tail, file, owner, accepted, printed>>
  BY DEF AdvanceHead, history
<1>2. Pending' = Pending /\ Prefix' /\ PendingInFile'
  BY <1>1 DEF RingInv, Prefix, PendingInFile, Pending
<1>3. FlushInRing'
  BY <1>1 DEF FlushInRing
<1>4. CASE worker = "stopping"
  <2>1. worker' = "none" /\ tail = h /\ ~running /\ Pending = 0
    BY <1>1, <1>4 DEF RingInv, Stopped
  <2>2. PendingInRing' /\ Stopped'
    BY <1>1, <1>2, <2>1 DEF PendingInRing, Stopped
  <2> QED
    BY <1>2, <1>3, <2>2 DEF RingInv
<1>5. CASE worker # "stopping"
  <2>1. worker = "flushing" /\ worker' = "waiting"
    BY <1>1, <1>5 DEF AdvanceHead
  <2>2. Start = h /\ Start' = h /\ Flushed' = 0
    BY <1>1, <2>1, Lens, DistanceFacts DEF Start, Printing, Flushed
  <2>3. Pending \in 0 .. Capacity - 1
    BY <2>1, Lens, CapacityAssumption DEF RingInv, PendingInRing
  <2>4. PendingInRing'
    BY <1>1, <1>2, <2>1, <2>2, <2>3 DEF RingInv, PendingInRing
  <2>5. Stopped'
    BY <1>1, <2>1 DEF RingInv, Stopped
  <2> QED
    BY <1>2, <1>3, <2>4, <2>5 DEF RingInv
<1> QED
  BY <1>4, <1>5

(* Resume starts a worker where the last one has ended: on an empty ring.  *)
LEMMA RingResume ==
  ASSUME TypeInv, RingInv, Resume
  PROVE  RingInv'
<1>1. /\ owner \in {"idle", "resume"} /\ ~running /\ running' /\ worker' = "waiting"
      /\ UNCHANGED <<queue, head, tail, h, cached_tail, file, accepted, printed>>
  BY DEF Resume, history
<1>2. worker = "none" /\ Pending = 0 /\ tail = head
  BY <1>1 DEF RingInv, Stopped
<1>3. Pending' = 0 /\ Prefix' /\ PendingInFile'
  BY <1>1, <1>2 DEF RingInv, Prefix, PendingInFile, Pending
<1>4. Start' = head /\ Flushed' = 0
  BY <1>1, Lens, DistanceFacts DEF Start, Printing, Flushed
<1>5. After(head, 0) = head
  BY Lens, AfterFacts
<1>6. tail' = After(Start', Pending')
  BY <1>1, <1>2, <1>3, <1>4, <1>5
<1>7. PendingInRing'
  BY <1>1, <1>3, <1>4, <1>6, CapacityAssumption DEF PendingInRing
<1>8. FlushInRing' /\ Stopped'
  BY <1>1 DEF FlushInRing, Stopped
<1> QED
  BY <1>3, <1>7, <1>8 DEF RingInv

(* The other file is opened when nothing waits to be printed.              *)
LEMMA RingJoin ==
  ASSUME TypeInv, RingInv, Join
  PROVE  RingInv'
<1>1. /\ worker = "none"
      /\ UNCHANGED <<queue, head, tail, running, worker, h, cached_tail, accepted, printed>>
  BY DEF Join, log, work, history
<1>2. Pending = 0
  BY <1>1 DEF RingInv, Stopped
<1>3. Len(accepted) = Len(printed)
  BY <1>2, Lens DEF Pending
<1>4. Pending' = 0 /\ Prefix'
  BY <1>1, <1>2 DEF RingInv, Prefix, Pending
<1>5. PendingInFile'
  BY <1>1, <1>3, Lens DEF PendingInFile
<1>6. PendingInRing' /\ FlushInRing' /\ Stopped'
  BY <1>1, <1>4 DEF RingInv, PendingInRing, FlushInRing, Stopped
<1> QED
  BY <1>4, <1>5, <1>6 DEF RingInv

(* Steps that leave the ring alone: a logger calls, sleeps or drops its    *)
(* message, somebody wakes up for no reason.                               *)
LEMMA RingSame ==
  ASSUME TypeInv, RingInv,
         UNCHANGED <<queue, head, tail, running, h, cached_tail, file, owner, accepted, printed>>,
         worker' = worker \/ (worker = "asleep" /\ worker' = "waiting")
  PROVE  RingInv'
<1>1. Pending' = Pending /\ Prefix' /\ PendingInFile'
  BY DEF RingInv, Prefix, PendingInFile, Pending
<1>2. Start' = Start /\ Flushed' = Flushed
  BY DEF Start, Printing, Flushed
<1>3. PendingInRing'
  BY <1>1, <1>2 DEF RingInv, PendingInRing
<1>4. FlushInRing'
  BY <1>1, <1>2 DEF RingInv, FlushInRing
<1>5. Stopped'
  BY <1>1 DEF RingInv, Stopped
<1> QED
  BY <1>1, <1>3, <1>4, <1>5 DEF RingInv

LEMMA RingStep == TypeInv /\ RingInv /\ [Next]_vars => RingInv'
<1> SUFFICES ASSUME TypeInv, RingInv, [Next]_vars PROVE RingInv'
  OBVIOUS
<1> USE DEF log, work, callers, history
<1>1. ASSUME NEW l \in Loggers, CallAdd(l) PROVE RingInv'
  BY <1>1, RingSame DEF CallAdd
<1>2. ASSUME NEW l \in Loggers, Add(l) PROVE RingInv'
  <2>1. CASE accepted' # accepted
    BY <1>2, <2>1, RingAdd
  <2>2. CASE accepted' = accepted
    <3>1. <<<<l, sent[l]>>, file>> \in Messages
      BY BoundsAssumption, MessageTypes DEF TypeInv, TypeOK
    <3>2. accepted' # Append(accepted, <<<<l, sent[l]>>, file>>)
      BY <2>2, <3>1, Lens, Appended
    <3>3. UNCHANGED <<queue, head, tail, running, h, cached_tail, file, owner, printed, worker>>
      BY <1>2, <3>2 DEF Add
    <3> QED
      BY <2>2, <3>3, RingSame
  <2> QED
    BY <2>1, <2>2
<1>3. CASE SpuriousWake
  BY <1>3, RingSame DEF SpuriousWake
<1>4. CASE WorkerWait
  BY <1>4, RingWait
<1>5. CASE PrintEntry
  BY <1>5, RingPrint
<1>6. CASE AdvanceHead
  BY <1>6, RingAdvance
<1>7. ASSUME NEW goal \in {"pause", "set_file", "flush"}, Pause(goal) PROVE RingInv'
  BY <1>7, RingPause
<1>8. CASE Join
  BY <1>8, RingJoin
<1>9. CASE Resume
  BY <1>9, RingResume
<1>10. CASE UNCHANGED vars
  BY <1>10, RingSame DEF vars
<1> QED
  BY <1>1, <1>2, <1>3, <1>4, <1>5, <1>6, <1>7, <1>8, <1>9, <1>10 DEF Next

----------------------------------------------------------------------------
(* Theorems *)

LogInv == TypeInv /\ RingInv

LEMMA LogInvariant == Spec => []LogInv
<1>1. Init => LogInv
  BY TypeInit, RingInit DEF LogInv
<1>2. LogInv /\ [Next]_vars => LogInv'
  BY TypeStep, RingStep DEF LogInv
<1> QED
  BY <1>1, <1>2, PTL DEF Spec

(* The ring's indices stay inside the ring and its entries are messages or *)
(* the end entry (add, pause, resume).                                     *)
THEOREM LogTypeCorrect == Spec => []TypeOK
<1>1. LogInv => TypeOK
  BY DEF LogInv, TypeInv
<1> QED
  BY <1>1, LogInvariant, PTL

(* Whatever the capacity and the number of loggers, what is printed is the *)
(* beginning of what was added, each message in the file that was open     *)
(* when it was added (add, the worker of resume, set_file).                *)
THEOREM LogPrintsAsAdded == Spec => []PrintedAsAdded
<1>1. LogInv => PrintedAsAdded
  <2> SUFFICES ASSUME LogInv PROVE PrintedAsAdded
    OBVIOUS
  <2>1. TypeInv /\ RingInv
    BY DEF LogInv
  <2>2. \A i \in 1 .. Len(printed) : accepted[i] \in Messages
    BY <2>1, Lens, ElementOfSeq DEF RingInv, Prefix
  <2> DEFINE s == SubSeq(accepted, 1, Len(printed))
  <2>3. /\ s \in Seq(Messages)
        /\ Len(s) = Len(printed)
        /\ \A i \in 1 .. Len(printed) : s[i] = accepted[i]
    BY <2>1, <2>2, Lens, SubSeqProperties
  <2>4. printed = s
    BY <2>1, <2>3, Lens, SeqEqual DEF RingInv, Prefix
  <2> QED
    BY <2>4 DEF PrintedAsAdded
<1> QED
  BY <1>1, LogInvariant, PTL

(* A worker that has ended has printed everything that was accepted, so    *)
(* pause, flush and a change of the file lose nothing (pause).             *)
THEOREM LogPausedIsPrinted == Spec => []PausedMeansPrinted
<1>1. LogInv => PausedMeansPrinted
  <2> SUFFICES ASSUME LogInv, worker = "none" PROVE printed = accepted
    BY DEF PausedMeansPrinted
  <2>1. TypeInv /\ RingInv
    BY DEF LogInv
  <2>2. Len(printed) = Len(accepted)
    BY <2>1, Lens DEF RingInv, Stopped, Pending
  <2> QED
    BY <2>1, <2>2, Lens, SeqEqual DEF RingInv, Prefix
<1> QED
  BY <1>1, LogInvariant, PTL
=============================================================================
