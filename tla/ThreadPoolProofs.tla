-------------------------- MODULE ThreadPoolProofs --------------------------
(***************************************************************************)
(* The thread pool for any number of threads, any plans and any graphs.    *)
(*                                                                         *)
(* Threads may be far apart between two meetings: one still looks for work *)
(* or skips empty nodes while another already waits.  What holds them      *)
(* together is that all of them are on their way to the same barrier, of   *)
(* the same node and for the same purpose (Agreed), and that the barrier   *)
(* counts exactly those that wait (BarrierCounts).                         *)
(***************************************************************************)
EXTENDS ThreadPool, FiniteSetTheorems, WellFoundedInduction, TLAPS

(* A thread that is not computing.                                         *)
Away == {"idle", "join", "freed", "loop", "pausing", "asleep_paused", "unpaused",
         "exited", "poll", "lock", "asleep_work"}
Left == Away \union {"finish"}

Nodes == [op : {"none", "rows", "mul_mat"}, nchunk : Nat]

TypeOK ==
  /\ pc \in [Threads -> Left \union Barrier \union Busy \union {"wake", "start"}]
  /\ last_graph \in [Threads -> Nat \X Nat]
  /\ node_n \in [Threads -> Nat]
  /\ n_passed \in [Threads -> Nat]
  /\ ret \in [Threads -> {"chunk", "step", "finish"}]
  /\ n_graph \in Nat \X Nat
  /\ n_barrier \in Nat /\ n_barrier_passed \in Nat
  /\ abort \in Nat \union {NoAbort}
  /\ cgraph \in Seq(Nodes)
  /\ graphs \in Nat

(* Threads of the current graph; workers that have not noticed it yet.     *)
Participants == 0 .. n_graph[2] - 1
New(t) == t # 0 /\ last_graph[t] # n_graph

(* A thread that spins at an open barrier is as good as behind it.         *)
At(t) == IF pc[t] = "spin" /\ n_passed[t] # n_barrier_passed THEN ret[t] ELSE pc[t]

(* No graph has the number of an earlier one; who has not noticed a graph  *)
(* or has no part in it does not compute.                                  *)
GraphNumbers ==
  /\ graphs <= MaxGraphs /\ n_graph[1] = graphs /\ n_graph[2] <= NThreads
  /\ \A w \in Workers : last_graph[w][1] <= graphs
  /\ pc[0] \notin Away => n_graph[2] >= 1

OutsidersLeft ==
  /\ \A w \in Workers : w \notin Participants \/ New(w) => At(w) \in Left
  /\ \A t \in Threads : pc[t] \in Away \union {"wake", "start"} => node_n[t] = 0

----------------------------------------------------------------------------
(* The next barrier: of node k, to go on at r behind it. *)

Skipped(j) ==
  /\ j < NNodes /\ j # abort
  /\ Node(j).op = "none" \/ (Node(j).op = "rows" /\ j + 1 = NNodes)

MeetAt(k, r) ==
  \/ ~(k < NNodes /\ k # abort) /\ r = "finish"
  \/ k + 1 < NNodes /\ k # abort /\ Node(k).op = "rows" /\ r = "step"
  \/ k < NNodes /\ k # abort /\ Node(k).op = "mul_mat" /\ r = "chunk"

(* From the head of the loop at node i; from node i computed.              *)
LoopFrom(i, k, r) == i <= k /\ (\A j \in i .. k - 1 : Skipped(j)) /\ MeetAt(k, r)
AfterNode(i, k, r) == IF i + 1 < NNodes THEN k = i /\ r = "step" ELSE LoopFrom(i + 1, k, r)

Leads(a, i, l, k, r) ==
  \/ a \in {"wake", "start", "head"} /\ LoopFrom(i, k, r)
  \/ a \in {"rows", "chunk", "computed"} /\ AfterNode(i, k, r)
  \/ a = "pack" /\ k = i /\ r = "chunk"
  \/ a = "step" /\ LoopFrom(i + 1, k, r)
  \/ a \in Barrier /\ k = i /\ r = l
  \/ a \in Left /\ r = "done"

Aim(t, k, r) == IF New(t) THEN LoopFrom(0, k, r) ELSE Leads(At(t), node_n[t], ret[t], k, r)

(* All threads of the graph are on their way to the same barrier.          *)
Agreed ==
  \A t, u \in Participants, k \in Nat, r \in {"chunk", "step", "finish", "done"} :
    Aim(t, k, r) <=> Aim(u, k, r)

(* The graph is aborted only between two meetings of thread 0.             *)
AbortInTime ==
  \/ abort = NoAbort
  \/ At(0) \in Left
  \/ abort = node_n[0] + 1 /\ (At(0) = "step" \/ (At(0) \in Barrier /\ ret[0] = "step"))
  \/ abort = node_n[0] /\ (At(0) = "head" \/ (At(0) \in Barrier /\ ret[0] = "finish"))

----------------------------------------------------------------------------
(* The barrier. *)

Waiting(t) == pc[t] = "spin" /\ n_passed[t] = n_barrier_passed
Counted == {t \in Threads : pc[t] = "reset" \/ Waiting(t)}

BarrierCounts ==
  /\ \A t \in Threads : n_passed[t] <= n_barrier_passed
  /\ \A t \in Threads : pc[t] = "arrive" => n_passed[t] = n_barrier_passed
  /\ \A t \in Threads : pc[t] \in {"reset", "pass"} => \A u \in Participants \ {t} : Waiting(u)
  /\ n_barrier = IF \E t \in Threads : pc[t] = "pass" THEN 0 ELSE Cardinality(Counted)

MeetInv == TypeOK /\ GraphNumbers /\ OutsidersLeft /\ Agreed /\ AbortInTime /\ BarrierCounts

----------------------------------------------------------------------------
(* The loop over the nodes. *)

Marks == {"chunk", "step", "finish", "done"}

LEMMA NodesType ==
  ASSUME TypeOK
  PROVE  /\ NNodes \in Nat
         /\ \A i \in Nat : i < NNodes => Node(i) \in Nodes /\ Node(i).op \in {"none", "rows", "mul_mat"}
<1>1. cgraph \in Seq(Nodes)
  BY DEF TypeOK
<1>2. Len(cgraph) \in Nat /\ \A i \in 1 .. Len(cgraph) : cgraph[i] \in Nodes
  BY <1>1
<1>3. \A i \in Nat : i < Len(cgraph) => i + 1 \in 1 .. Len(cgraph)
  BY <1>2
<1>4. \A x \in Nodes : x.op \in {"none", "rows", "mul_mat"}
  BY DEF Nodes
<1> QED
  BY <1>2, <1>3, <1>4 DEF NNodes, Node

(* The head of the loop goes on behind a node that is skipped and stops at *)
(* every other one.                                                        *)
LEMMA LoopHead ==
  ASSUME TypeOK, NEW i \in Nat, NEW k \in Nat, NEW r
  PROVE  LoopFrom(i, k, r) <=> IF Skipped(i) THEN LoopFrom(i + 1, k, r) ELSE k = i /\ MeetAt(i, r)
<1>1. NNodes \in Nat
  BY NodesType
<1>2. CASE Skipped(i)
  <2>1. ~MeetAt(i, r)
    BY <1>1, <1>2 DEF Skipped, MeetAt
  <2>2. (\A j \in i .. k - 1 : Skipped(j)) <=> (\A j \in i + 1 .. k - 1 : Skipped(j))
    BY <1>2
  <2> QED
    BY <1>2, <2>1, <2>2 DEF LoopFrom
<1>3. CASE ~Skipped(i)
  <2>1. i < k => i \in i .. k - 1
    OBVIOUS
  <2>2. k = i => i .. k - 1 = {}
    OBVIOUS
  <2> QED
    BY <1>3, <2>1, <2>2 DEF LoopFrom
<1> QED
  BY <1>2, <1>3

(* There is one next barrier at most.                                      *)
LEMMA LoopUnique ==
  ASSUME TypeOK, NEW i \in Nat, NEW k1 \in Nat, NEW k2 \in Nat, NEW r1, NEW r2,
         LoopFrom(i, k1, r1), LoopFrom(i, k2, r2)
  PROVE  k1 = k2 /\ r1 = r2
<1>1. NNodes \in Nat
  BY NodesType
<1>2. ~Skipped(k1) /\ ~Skipped(k2)
  BY <1>1 DEF LoopFrom, MeetAt, Skipped
<1>3. ~(k1 < k2) /\ ~(k2 < k1)
  BY <1>2 DEF LoopFrom
<1>4. k1 = k2
  BY <1>3
<1> QED
  BY <1>1, <1>4 DEF LoopFrom, MeetAt

LEMMA LoopSame ==
  ASSUME UNCHANGED <<cgraph, abort>>
  PROVE  \A i, k, r : LoopFrom(i, k, r)' <=> LoopFrom(i, k, r)
BY DEF LoopFrom, Skipped, MeetAt, Node, NNodes

LEMMA LeadsSame ==
  ASSUME UNCHANGED <<cgraph, abort>>
  PROVE  \A a, i, l, k, r : Leads(a, i, l, k, r)' <=> Leads(a, i, l, k, r)
BY LoopSame DEF Leads, AfterNode, NNodes

(* An abort behind node i does not change the way of a thread that is to   *)
(* meet the others behind that node, or has met them all.                  *)
LEMMA LoopAbort ==
  ASSUME TypeOK, TypeOK', cgraph' = cgraph, abort = NoAbort, NEW i \in Nat, abort' = i + 1,
         NEW j \in Nat, i + 1 < NNodes => LoopFrom(j, i, "step")
  PROVE  \A k \in Nat : \A r : LoopFrom(j, k, r)' <=> LoopFrom(j, k, r)
<1>1. NNodes \in Nat /\ NNodes' = NNodes /\ \A k : Node(k)' = Node(k)
  BY NodesType DEF NNodes, Node
<1>2. CASE i + 1 < NNodes
  <2>1. \A m \in j .. i - 1 : Skipped(m)'
    BY <1>1, <1>2 DEF LoopFrom, Skipped, NoAbort
  <2>2. MeetAt(i, "step")'
    BY <1>1, <1>2 DEF LoopFrom, MeetAt
  <2>3. LoopFrom(j, i, "step")'
    BY <1>2, <2>1, <2>2 DEF LoopFrom
  <2>4. \A k \in Nat : \A r : LoopFrom(j, k, r) <=> k = i /\ r = "step"
    BY <1>2, LoopUnique
  <2>5. \A k \in Nat : \A r : LoopFrom(j, k, r)' <=> k = i /\ r = "step"
    <3> SUFFICES ASSUME NEW k \in Nat, NEW r, LoopFrom(j, k, r)' PROVE k = i /\ r = "step"
      BY <2>3
    <3>1. ~Skipped(k)' /\ ~Skipped(i)'
      BY <1>1, <2>3 DEF LoopFrom, MeetAt, Skipped
    <3>2. ~(k < i) /\ ~(i < k)
      BY <2>3, <3>1 DEF LoopFrom
    <3>3. k = i
      BY <3>2
    <3> QED
      BY <1>1, <2>2, <3>3 DEF LoopFrom, MeetAt
  <2> QED
    BY <2>4, <2>5
<1>3. CASE ~(i + 1 < NNodes)
  <2>1. \A m \in Nat : Skipped(m)' <=> Skipped(m)
    BY <1>1, <1>3 DEF Skipped, NoAbort
  <2>2. \A k \in Nat : \A r : MeetAt(k, r)' <=> MeetAt(k, r)
    BY <1>1, <1>3 DEF MeetAt, NoAbort
  <2> QED
    BY <2>1, <2>2 DEF LoopFrom
<1> QED
  BY <1>2, <1>3

----------------------------------------------------------------------------
(* A step of one thread. *)

OnlyMoves(t) ==
  /\ \A u \in Threads \ {t} : /\ pc'[u] = pc[u] /\ last_graph'[u] = last_graph[u] /\ node_n'[u] = node_n[u]
                              /\ n_passed'[u] = n_passed[u] /\ ret'[u] = ret[u]
  /\ UNCHANGED <<n_graph, cgraph, graphs, n_barrier_passed>>

LEMMA OthersStay ==
  ASSUME NEW t \in Threads, OnlyMoves(t), NEW u \in Threads \ {t}
  PROVE  /\ At(u)' = At(u) /\ New(u)' = New(u) /\ Waiting(u)' = Waiting(u)
         /\ abort' = abort => \A k, r : Aim(u, k, r)' <=> Aim(u, k, r)
<1>1. At(u)' = At(u) /\ New(u)' = New(u) /\ Waiting(u)' = Waiting(u)
  BY DEF OnlyMoves, At, New, Waiting
<1>2. node_n'[u] = node_n[u] /\ ret'[u] = ret[u] /\ cgraph' = cgraph
  BY DEF OnlyMoves
<1>3. ASSUME abort' = abort PROVE \A k, r : Aim(u, k, r)' <=> Aim(u, k, r)
  <2>1. \A i, k, r : LoopFrom(i, k, r)' <=> LoopFrom(i, k, r)
    BY <1>2, <1>3, LoopSame
  <2>2. \A a, i, l, k, r : Leads(a, i, l, k, r)' <=> Leads(a, i, l, k, r)
    BY <1>2, <1>3, LeadsSame
  <2> QED
    BY <1>1, <1>2, <2>1, <2>2 DEF Aim
<1> QED
  BY <1>1, <1>3

LEMMA ZeroIsThread == 0 \in Threads /\ Threads \subseteq Nat /\ Workers = Threads \ {0} /\ NThreads \in Nat \ {0}
BY ThreadsAssumption DEF Threads, Workers

LEMMA ParticipantsAreThreads ==
  ASSUME TypeOK, GraphNumbers
  PROVE  Participants \subseteq Threads /\ n_graph[2] \in Nat
BY ThreadsAssumption DEF TypeOK, GraphNumbers, Participants, Threads

(* Who computes takes part in this graph and has noticed it.               *)
LEMMA InsideIsNoticed ==
  ASSUME MeetInv, NEW t \in Threads, At(t) \notin Left
  PROVE  t \in Participants /\ ~New(t)
<1>1. CASE t = 0
  <2>1. pc[0] \notin Away
    BY <1>1 DEF At, Left, Away
  <2> QED
    BY <1>1, <2>1, ParticipantsAreThreads DEF MeetInv, GraphNumbers, Participants, New
<1>2. CASE t # 0
  BY <1>2, ZeroIsThread DEF MeetInv, OutsidersLeft
<1> QED
  BY <1>1, <1>2

LEMMA AgreedFrame ==
  ASSUME TypeOK, GraphNumbers, Agreed, NEW t \in Threads, OnlyMoves(t), abort' = abort,
         \/ t \notin Participants
         \/ n_graph[2] = 1
         \/ \A k \in Nat, r \in Marks : Aim(t, k, r)' <=> Aim(t, k, r)
  PROVE  Agreed'
<1>1. Participants' = Participants /\ Participants \subseteq Threads /\ n_graph[2] \in Nat
  BY ParticipantsAreThreads DEF OnlyMoves, Participants
<1>2. CASE n_graph[2] = 1
  <2>1. \A v, u \in Participants : v = u
    BY <1>2 DEF Participants
  <2> QED
    BY <1>1, <2>1 DEF Agreed
<1>3. CASE n_graph[2] # 1
  <2>1. \A u \in Participants, k \in Nat, r \in Marks : Aim(u, k, r)' <=> Aim(u, k, r)
    BY <1>1, <1>3, OthersStay
  <2> QED
    BY <1>1, <2>1 DEF Agreed, Marks
<1> QED
  BY <1>2, <1>3

LEMMA NumbersFrame ==
  ASSUME TypeOK, GraphNumbers, NEW t \in Threads, OnlyMoves(t),
         last_graph'[t] = last_graph[t] \/ last_graph'[t] = n_graph,
         t = 0 => pc[0] \notin Away \/ pc'[0] \in Away
  PROVE  GraphNumbers'
<1>1. ASSUME NEW w \in Workers PROVE last_graph'[w][1] <= graphs
  <2>1. w \in Threads /\ last_graph[w][1] <= graphs /\ n_graph[1] <= graphs
    BY ZeroIsThread DEF TypeOK, GraphNumbers
  <2>2. CASE w = t
    BY <2>1, <2>2
  <2>3. CASE w # t
    BY <2>1, <2>3 DEF OnlyMoves
  <2> QED
    BY <2>2, <2>3
<1>2. pc'[0] \notin Away => pc[0] \notin Away
  BY ZeroIsThread DEF OnlyMoves
<1> QED
  BY <1>1, <1>2 DEF GraphNumbers, OnlyMoves

LEMMA OutsidersFrame ==
  ASSUME OutsidersLeft, NEW t \in Threads, OnlyMoves(t),
         At(t)' \in Left \/ (t \in Participants /\ ~New(t)') \/ t = 0,
         pc'[t] \in Away \union {"wake", "start"} => node_n'[t] = 0
  PROVE  OutsidersLeft'
<1>1. Participants' = Participants
  BY DEF OnlyMoves, Participants
<1>2. \A w \in Workers : w \notin Participants \/ New(w)' => At(w)' \in Left
  BY <1>1, ZeroIsThread, OthersStay DEF OutsidersLeft
<1>3. \A u \in Threads : pc'[u] \in Away \union {"wake", "start"} => node_n'[u] = 0
  BY DEF OutsidersLeft, OnlyMoves
<1> QED
  BY <1>1, <1>2, <1>3 DEF OutsidersLeft

LEMMA AbortFrame ==
  ASSUME AbortInTime, NEW t \in Threads \ {0}, OnlyMoves(t), abort' = abort
  PROVE  AbortInTime'
<1>1. 0 \in Threads \ {t}
  BY ZeroIsThread
<1>2. At(0)' = At(0) /\ node_n'[0] = node_n[0] /\ ret'[0] = ret[0]
  BY <1>1, OthersStay DEF OnlyMoves
<1> QED
  BY <1>2 DEF AbortInTime

(* A step away from the counter of the barrier.                            *)
LEMMA BarrierFrame ==
  ASSUME TypeOK, GraphNumbers, BarrierCounts, NEW t \in Threads, OnlyMoves(t), n_barrier' = n_barrier,
         pc[t] \notin {"reset", "pass"}, pc'[t] \notin {"reset", "pass"}, ~Waiting(t), ~Waiting(t)',
         n_passed'[t] <= n_barrier_passed, pc'[t] = "arrive" => n_passed'[t] = n_barrier_passed
  PROVE  BarrierCounts'
<1>1. Participants' = Participants /\ Participants \subseteq Threads /\ n_barrier_passed' = n_barrier_passed
  BY ParticipantsAreThreads DEF OnlyMoves, Participants
<1>2. \A u \in Threads : Waiting(u)' <=> Waiting(u)
  BY OthersStay
<1>3. \A u \in Threads : (pc'[u] = "reset" <=> pc[u] = "reset") /\ (pc'[u] = "pass" <=> pc[u] = "pass")
  BY DEF OnlyMoves
<1>4. Counted' = Counted
  BY <1>2, <1>3 DEF Counted
<1>5. \A u \in Threads : n_passed'[u] <= n_barrier_passed
  BY DEF OnlyMoves, BarrierCounts
<1>6. \A u \in Threads : pc'[u] = "arrive" => n_passed'[u] = n_barrier_passed
  BY DEF OnlyMoves, BarrierCounts
<1>7. \A v \in Threads : pc'[v] \in {"reset", "pass"} => \A u \in Participants \ {v} : Waiting(u)'
  BY <1>1, <1>2, <1>3 DEF BarrierCounts
<1>8. n_barrier' = IF \E u \in Threads : pc'[u] = "pass" THEN 0 ELSE Cardinality(Counted')
  BY <1>3, <1>4 DEF BarrierCounts
<1> QED
  BY <1>1, <1>5, <1>6, <1>7, <1>8 DEF BarrierCounts

----------------------------------------------------------------------------
(* Types *)

LEMMA TypeInit ==
  ASSUME Init
  PROVE  TypeOK
<1>1. cgraph \in Seq(Nodes)
  BY DEF Init
<1>2. pc \in [Threads -> Left \union Barrier \union Busy \union {"wake", "start"}]
  BY DEF Init, Left, Away
<1> QED
  BY <1>1, <1>2 DEF Init, TypeOK

LEMMA BroadcastType ==
  ASSUME TypeOK, NEW l \in Away \union {"start"}, Broadcast(l)
  PROVE  pc' \in [Threads -> Left \union Barrier \union Busy \union {"wake", "start"}]
BY DEF TypeOK, Broadcast, Left, Away

(* The numbers of the graphs do not come round.                            *)
LEMMA NextGraphNumber ==
  ASSUME TypeOK, GraphNumbers, graphs < MaxGraphs
  PROVE  (n_graph[1] + 1) % GraphIds = graphs + 1
<1>1. \A a \in Nat, b \in Nat : a < b => a % b = a
  OBVIOUS
<1>2. n_graph[1] + 1 = graphs + 1 /\ graphs + 1 \in Nat /\ graphs + 1 < GraphIds /\ GraphIds \in Nat
  BY BoundsAssumption DEF TypeOK, GraphNumbers
<1> QED
  BY <1>1, <1>2

LEMMA TypeOfOwner ==
  ASSUME TypeOK, GraphNumbers,
                 \/ \E p \in Plans : GraphCompute(p)
                 \/ KickoffWake \/ Pause \/ Resume \/ FreeStop \/ FreeJoin
  PROVE  TypeOK'
<1>1. CASE \E p \in Plans : GraphCompute(p)
  <2>1. PICK p \in Plans : GraphCompute(p)
    BY <1>1
  <2>2. cgraph' \in Seq(Nodes) /\ n_graph' \in Nat \X Nat
    <3>1. graphs + 1 \in Nat /\ (n_graph[1] + 1) % GraphIds = graphs + 1
      BY <2>1, NextGraphNumber DEF GraphCompute, TypeOK
    <3>2. p.n_threads \in Nat /\ p.cgraph \in Seq(Nodes) /\ NThreads \in Nat
      BY PlansAssumption, ThreadsAssumption DEF Nodes
    <3> QED
      BY <2>1, <3>1, <3>2 DEF GraphCompute
  <2>3. pc' \in [Threads -> Left \union Barrier \union Busy \union {"wake", "start"}]
    BY <2>1 DEF GraphCompute, Goto, TypeOK
  <2>4. abort' \in Nat \union {NoAbort} /\ graphs' \in Nat
    BY <2>1 DEF GraphCompute, TypeOK
  <2> QED
    BY <2>1, <2>2, <2>3, <2>4 DEF GraphCompute, TypeOK, locals
<1>2. CASE KickoffWake \/ Pause \/ Resume \/ FreeStop
  <2>1. pc' \in [Threads -> Left \union Barrier \union Busy \union {"wake", "start"}]
    BY <1>2, BroadcastType DEF KickoffWake, Pause, Resume, FreeStop, Away
  <2>2. UNCHANGED <<locals, counters, abort, cgraph, n_graph, graphs>>
    BY <1>2 DEF KickoffWake, Pause, Resume, FreeStop
  <2> QED
    BY <2>1, <2>2 DEF TypeOK, locals, counters
<1>3. CASE FreeJoin
  BY <1>3 DEF FreeJoin, TypeOK, Goto, locals, counters, flags, Left, Away
<1> QED
  BY <1>1, <1>2, <1>3

LEMMA TypeOfSearch ==
  ASSUME TypeOK, NEW w \in Workers, Search(w) \/ SpuriousWake(w)
  PROVE  TypeOK'
<1> USE ZeroIsThread DEF TypeOK, Goto, locals, counters, flags, Left, Away
<1>1. CASE LookAtPause(w)
  BY <1>1 DEF LookAtPause
<1>2. CASE SleepPaused(w)
  BY <1>2 DEF SleepPaused
<1>3. CASE LookAtStop(w)
  BY <1>3 DEF LookAtStop
<1>4. CASE Poll(w)
  BY <1>4 DEF Poll, TakeNotice
<1>5. CASE CheckForWork(w)
  BY <1>5 DEF CheckForWork, TakeNotice
<1>6. CASE SpuriousWake(w)
  BY <1>6 DEF SpuriousWake
<1> QED
  BY <1>1, <1>2, <1>3, <1>4, <1>5, <1>6 DEF Search

LEMMA TypeOfCompute ==
  ASSUME TypeOK, NEW t \in Threads, Compute(t)
  PROVE  TypeOK'
<1> USE DEF TypeOK, Goto, locals, counters, flags, Left, Away, Barrier, Busy
<1>1. CASE Start(t)
  BY <1>1 DEF Start
<1>2. CASE NextNode(t)
  BY <1>2 DEF NextNode, EnterBarrier
<1>3. CASE ComputeRows(t)
  BY <1>3 DEF ComputeRows
<1>4. CASE Pack(t)
  BY <1>4 DEF Pack, EnterBarrier
<1>5. CASE ComputeChunk(t)
  BY <1>5 DEF ComputeChunk
<1>6. CASE NoChunkLeft(t)
  BY <1>6 DEF NoChunkLeft
<1>7. CASE NodeDone(t)
  <2>1. abort' \in Nat \union {NoAbort}
    BY <1>7 DEF NodeDone
  <2>2. pc' \in [Threads -> Left \union Barrier \union Busy \union {"wake", "start"}]
        /\ ret' \in [Threads -> {"chunk", "step", "finish"}]
    BY <1>7 DEF NodeDone, EnterBarrier
  <2> QED
    BY <1>7, <2>1, <2>2 DEF NodeDone
<1>8. CASE Step(t)
  BY <1>8 DEF Step
<1>9. CASE Finish(t)
  BY <1>9 DEF Finish
<1>10. CASE ReadPassed(t)
  BY <1>10 DEF ReadPassed
<1>11. CASE Arrive(t)
  BY <1>11 DEF Arrive
<1>12. CASE ResetBarrier(t)
  BY <1>12 DEF ResetBarrier
<1>13. CASE OpenBarrier(t)
  BY <1>13 DEF OpenBarrier
<1>14. CASE Spin(t)
  BY <1>14 DEF Spin
<1> QED
  BY <1>1, <1>2, <1>3, <1>4, <1>5, <1>6, <1>7, <1>8, <1>9, <1>10, <1>11, <1>12, <1>13, <1>14 DEF Compute

----------------------------------------------------------------------------
(* A worker that looks for work. *)

LEMMA MeetSearch ==
  ASSUME MeetInv, TypeOK', NEW w \in Workers, pc[w] \in Away, OnlyMoves(w),
         UNCHANGED <<node_n, n_passed, ret, abort, n_barrier>>,
         \/ pc'[w] \in Away /\ last_graph'[w] = last_graph[w]
         \/ pc'[w] \in Away /\ last_graph'[w] = n_graph /\ w \notin Participants
         \/ pc'[w] = "start" /\ last_graph'[w] = n_graph /\ New(w) /\ w \in Participants
  PROVE  MeetInv'
<1>1. w \in Threads /\ w # 0 /\ n_graph' = n_graph /\ cgraph' = cgraph
  BY ZeroIsThread DEF OnlyMoves
<1>2. At(w) = pc[w] /\ At(w)' = pc'[w] /\ At(w) \in Left /\ node_n[w] = 0 /\ node_n'[w] = 0
  BY <1>1 DEF MeetInv, OutsidersLeft, At, Away, Left
<1>3. GraphNumbers'
  BY <1>1, NumbersFrame DEF MeetInv
<1>4. OutsidersLeft'
  <2>1. At(w)' \in Left \/ (w \in Participants /\ ~New(w)')
    BY <1>1, <1>2 DEF Left, New
  <2> QED
    BY <1>1, <1>2, <2>1, OutsidersFrame DEF MeetInv
<1>5. Agreed'
  <2>1. ASSUME w \in Participants, NEW k \in Nat, NEW r \in Marks PROVE Aim(w, k, r)' <=> Aim(w, k, r)
    <3>1. \A i, x, y : LoopFrom(i, x, y)' <=> LoopFrom(i, x, y)
      BY <1>1, LoopSame
    <3>2. CASE pc'[w] \in Away /\ last_graph'[w] = last_graph[w]
      <4>1. New(w)' <=> New(w)
        BY <1>1, <3>2 DEF New
      <4>2. CASE New(w)
        BY <3>1, <4>1, <4>2 DEF Aim
      <4>3. CASE ~New(w)
        <5>1. pc'[w] \in Left /\ pc'[w] \notin Barrier \union {"wake", "start", "head", "rows", "chunk", "computed", "pack", "step"}
          BY <3>2 DEF Left, Away, Barrier
        <5>2. pc[w] \in Left /\ pc[w] \notin Barrier \union {"wake", "start", "head", "rows", "chunk", "computed", "pack", "step"}
          BY DEF Left, Away, Barrier
        <5>3. Aim(w, k, r)' <=> r = "done"
          BY <1>2, <4>1, <4>3, <5>1 DEF Aim, Leads
        <5>4. Aim(w, k, r) <=> r = "done"
          BY <1>2, <4>3, <5>2 DEF Aim, Leads
        <5> QED
          BY <5>3, <5>4
      <4> QED
        BY <4>2, <4>3
    <3>3. CASE pc'[w] = "start" /\ last_graph'[w] = n_graph /\ New(w)
      <4>1. ~New(w)'
        BY <1>1, <3>3 DEF New
      <4>2. Aim(w, k, r)' <=> LoopFrom(0, k, r)'
        BY <1>2, <3>3, <4>1 DEF Aim, Leads, Barrier, Left, Away
      <4>3. Aim(w, k, r) <=> LoopFrom(0, k, r)
        BY <3>3 DEF Aim
      <4> QED
        BY <3>1, <4>2, <4>3
    <3> QED
      BY <2>1, <3>2, <3>3
  <2> QED
    BY <1>1, <2>1, AgreedFrame DEF MeetInv
<1>6. AbortInTime'
  BY <1>1, AbortFrame DEF MeetInv
<1>7. BarrierCounts'
  <2>1. ~Waiting(w) /\ ~Waiting(w)' /\ pc[w] \notin {"reset", "pass"} /\ pc'[w] \notin {"reset", "pass", "arrive"}
    BY DEF Waiting, Away
  <2>2. n_passed'[w] <= n_barrier_passed
    BY <1>1 DEF MeetInv, BarrierCounts
  <2> QED
    BY <1>1, <2>1, <2>2, BarrierFrame DEF MeetInv
<1> QED
  BY <1>3, <1>4, <1>5, <1>6, <1>7 DEF MeetInv

LEMMA MeetOfSearch ==
  ASSUME MeetInv, NEW w \in Workers, Search(w) \/ SpuriousWake(w)
  PROVE  MeetInv'
<1>1. w \in Threads /\ w # 0
  BY ZeroIsThread
<1>2. TypeOK'
  BY TypeOfSearch DEF MeetInv
<1>3. UNCHANGED <<node_n, n_passed, ret, abort, n_barrier, n_graph, cgraph, graphs, n_barrier_passed>>
  BY DEF Search, LookAtPause, SleepPaused, LookAtStop, Poll, CheckForWork, SpuriousWake, locals, flags, counters
<1>4. pc \in [Threads -> Left \union Barrier \union Busy \union {"wake", "start"}] /\ last_graph \in [Threads -> Nat \X Nat]
  BY DEF MeetInv, TypeOK
<1>5. ASSUME NEW l, Goto(w, l), UNCHANGED last_graph, l \in Away, pc[w] \in Away PROVE MeetInv'
  <2>1. pc'[w] = l /\ last_graph'[w] = last_graph[w]
    BY <1>1, <1>4, <1>5 DEF Goto
  <2>2. OnlyMoves(w)
    BY <1>3, <1>4, <1>5 DEF OnlyMoves, Goto
  <2> QED
    BY <1>2, <1>3, <1>5, <2>1, <2>2, MeetSearch
<1>6. ASSUME NEW l, TakeNotice(w, l), Ready(w), l \in Away, pc[w] \in Away PROVE MeetInv'
  <2>1. CASE stop \/ pause
    BY <1>5, <1>6, <2>1 DEF TakeNotice
  <2>2. CASE ~(stop \/ pause)
    <3>1. last_graph' = [last_graph EXCEPT ![w] = n_graph] /\ pc' = [pc EXCEPT ![w] = IF w < n_graph[2] THEN "start" ELSE l]
      BY <1>6, <2>2 DEF TakeNotice, Goto
    <3>2. New(w)
      BY <1>1, <1>6, <2>2 DEF Ready, New
    <3>3. last_graph'[w] = n_graph /\ pc'[w] = IF w < n_graph[2] THEN "start" ELSE l
      BY <1>1, <1>4, <3>1
    <3>4. OnlyMoves(w)
      BY <1>3, <1>4, <3>1 DEF OnlyMoves
    <3>5. w \in Participants <=> w < n_graph[2]
      BY <1>1, ZeroIsThread, ParticipantsAreThreads DEF Participants, MeetInv
    <3> QED
      BY <1>2, <1>3, <1>6, <3>2, <3>3, <3>4, <3>5, MeetSearch
  <2> QED
    BY <2>1, <2>2
<1>7. CASE LookAtPause(w)
  BY <1>5, <1>7 DEF LookAtPause, Away, locals
<1>8. CASE SleepPaused(w)
  BY <1>5, <1>8 DEF SleepPaused, Away, locals
<1>9. CASE LookAtStop(w)
  BY <1>5, <1>9 DEF LookAtStop, Away, locals
<1>10. CASE Poll(w)
  BY <1>5, <1>6, <1>10 DEF Poll, Away
<1>11. CASE CheckForWork(w)
  BY <1>5, <1>6, <1>11 DEF CheckForWork, Away
<1>12. CASE SpuriousWake(w)
  BY <1>5, <1>12 DEF SpuriousWake, Asleep, Away, locals
<1> QED
  BY <1>7, <1>8, <1>9, <1>10, <1>11, <1>12 DEF Search

----------------------------------------------------------------------------
(* The calling thread between the graphs. *)

(* When thread 0 has left the graph, everybody has.                        *)
LEMMA AllLeft ==
  ASSUME MeetInv, At(0) \in Left, NEW t \in Threads
  PROVE  At(t) \in Left /\ (t \in Participants => ~New(t))
<1>1. CASE t = 0
  BY <1>1 DEF New
<1>2. CASE t # 0 /\ t \notin Participants
  BY <1>2, ZeroIsThread DEF MeetInv, OutsidersLeft
<1>3. CASE t # 0 /\ t \in Participants
  <2>1. 0 \in Participants
    BY <1>3, ZeroIsThread, ParticipantsAreThreads DEF MeetInv, Participants
  <2>2. Aim(0, 0, "done")
    BY DEF Aim, New, Leads
  <2>3. Aim(t, 0, "done")
    BY <1>3, <2>1, <2>2 DEF MeetInv, Agreed
  <2>4. \A i : ~LoopFrom(i, 0, "done") /\ ~AfterNode(i, 0, "done")
    BY DEF LoopFrom, AfterNode, MeetAt
  <2>5. ~New(t)
    BY <2>3, <2>4 DEF Aim
  <2>6. ret[t] # "done"
    BY DEF MeetInv, TypeOK
  <2>7. At(t) \in Left
    BY <2>3, <2>4, <2>5, <2>6 DEF Aim, Leads
  <2> QED
    BY <2>5, <2>7
<1> QED
  BY <1>1, <1>2, <1>3

LEMMA MeetShuffle ==
  ASSUME MeetInv, TypeOK', UNCHANGED <<locals, counters, n_graph, cgraph, graphs, abort>>,
         \A t \in Threads : \/ pc'[t] = pc[t]
                            \/ pc[t] \in Away /\ pc'[t] \in Away
                            \/ t = 0 /\ pc[t] = "wake" /\ pc'[t] = "start"
  PROVE  MeetInv'
<1>1. UNCHANGED <<last_graph, node_n, n_passed, ret, n_barrier, n_barrier_passed>>
  BY DEF locals, counters
<1>2. Participants' = Participants /\ \A t : New(t)' = New(t)
  BY <1>1 DEF Participants, New
<1>3. \A t \in Threads : At(t)' = At(t) \/ (At(t) \in Away /\ At(t)' \in Away) \/ (t = 0 /\ At(t) = "wake" /\ At(t)' = "start")
  BY <1>1 DEF At, Away
<1>4. GraphNumbers'
  BY <1>1, ZeroIsThread DEF MeetInv, GraphNumbers, Away
<1>5. OutsidersLeft'
  <2>1. \A w \in Workers : w \notin Participants \/ New(w) => At(w)' \in Left
    BY <1>3, ZeroIsThread DEF MeetInv, OutsidersLeft, Left
  <2>2. \A t \in Threads : pc'[t] \in Away \union {"wake", "start"} => node_n[t] = 0
    BY DEF MeetInv, OutsidersLeft
  <2> QED
    BY <1>1, <1>2, <2>1, <2>2 DEF OutsidersLeft
<1>6. Agreed'
  <2>1. ASSUME NEW t \in Threads PROVE \A k, r : Aim(t, k, r)' <=> Aim(t, k, r)
    <3>1. \A i, x, y : LoopFrom(i, x, y)' <=> LoopFrom(i, x, y)
      BY LoopSame
    <3>2. \A a, i, l, x, y : Leads(a, i, l, x, y)' <=> Leads(a, i, l, x, y)
      BY LeadsSame
    <3>3. \A a \in Away : \A i, l, x, y : Leads(a, i, l, x, y) <=> y = "done"
      BY DEF Leads, Away, Left, Barrier
    <3>4. \A i, l, x, y : Leads("wake", i, l, x, y) <=> Leads("start", i, l, x, y)
      BY DEF Leads, Away, Left, Barrier
    <3>5. \A x, y : Leads(At(t)', node_n[t], ret[t], x, y) <=> Leads(At(t), node_n[t], ret[t], x, y)
      <4>1. CASE At(t)' = At(t)
        BY <4>1
      <4>2. CASE At(t) \in Away /\ At(t)' \in Away
        BY <3>3, <4>2
      <4>3. CASE At(t) = "wake" /\ At(t)' = "start"
        BY <3>4, <4>3
      <4> QED
        BY <1>3, <4>1, <4>2, <4>3
    <3> QED
      BY <1>1, <1>2, <3>1, <3>2, <3>5 DEF Aim
  <2>2. Participants \subseteq Threads
    BY ParticipantsAreThreads DEF MeetInv
  <2> QED
    BY <1>2, <2>1, <2>2 DEF MeetInv, Agreed
<1>7. AbortInTime'
  <2>1. At(0)' = At(0) \/ (At(0) \in Left /\ At(0)' \in Left) \/ (At(0) = "wake" /\ At(0)' = "start")
    BY <1>3, ZeroIsThread DEF Left
  <2>2. At(0) = "wake" => abort = NoAbort
    BY DEF MeetInv, AbortInTime, Left, Away, Barrier
  <2> QED
    BY <1>1, <2>1, <2>2 DEF MeetInv, AbortInTime
<1>8. BarrierCounts'
  <2>1. \A t : \A l \in {"arrive", "reset", "pass", "spin"} : t \in Threads => (pc'[t] = l <=> pc[t] = l)
    BY DEF Away
  <2>2. \A t \in Threads : Waiting(t)' <=> Waiting(t)
    BY <1>1, <2>1 DEF Waiting
  <2>3. Counted' = Counted
    BY <2>1, <2>2 DEF Counted
  <2>4. Participants \subseteq Threads
    BY ParticipantsAreThreads DEF MeetInv
  <2> QED
    BY <1>1, <1>2, <2>1, <2>2, <2>3, <2>4 DEF MeetInv, BarrierCounts
<1> QED
  BY <1>4, <1>5, <1>6, <1>7, <1>8 DEF MeetInv

(* A new graph finds nobody computing, and no worker has noticed it.       *)
LEMMA NewGraph ==
  ASSUME MeetInv, NEW p \in Plans, GraphCompute(p)
  PROVE  /\ UNCHANGED <<last_graph, node_n, n_passed, ret, n_barrier, n_barrier_passed>> /\ abort' = NoAbort
         /\ pc[0] = "idle" /\ pc'[0] = "wake" /\ \A t \in Threads \ {0} : pc'[t] = pc[t]
         /\ graphs' = graphs + 1 /\ graphs < MaxGraphs /\ graphs \in Nat /\ MaxGraphs \in Nat
         /\ n_graph'[1] = graphs + 1 /\ n_graph'[2] \in 1 .. NThreads
         /\ \A t \in Threads : At(t) \in Left
         /\ At(0)' = "wake" /\ \A t \in Threads \ {0} : At(t)' = At(t)
         /\ \A w \in Workers : last_graph[w][1] <= graphs /\ last_graph[w][1] \in Nat
         /\ ~New(0)' /\ \A w \in Workers : New(w)'
<1> DEFINE n == IF p.n_threads > NThreads THEN NThreads ELSE p.n_threads
<1>2. UNCHANGED <<last_graph, node_n, n_passed, ret, n_barrier, n_barrier_passed>> /\ abort' = NoAbort
      /\ pc[0] = "idle" /\ pc' = [pc EXCEPT ![0] = "wake"]
  BY DEF GraphCompute, locals, Goto
<1>3. n_graph' = <<graphs + 1, n>> /\ graphs' = graphs + 1 /\ graphs < MaxGraphs /\ graphs \in Nat /\ MaxGraphs \in Nat
  BY NextGraphNumber, BoundsAssumption DEF GraphCompute, MeetInv, TypeOK
<1>4. n \in 1 .. NThreads
  BY PlansAssumption, ThreadsAssumption
<1>5. pc'[0] = "wake" /\ \A t \in Threads \ {0} : pc'[t] = pc[t]
  BY <1>2, ZeroIsThread DEF MeetInv, TypeOK
<1>6. \A t \in Threads : At(t) \in Left
  BY <1>2, AllLeft DEF At, Left, Away
<1>7. At(0)' = "wake" /\ \A t \in Threads \ {0} : At(t)' = At(t)
  BY <1>2, <1>5 DEF At
<1>8. \A w \in Workers : last_graph[w][1] <= graphs /\ last_graph[w][1] \in Nat
  BY ZeroIsThread DEF MeetInv, TypeOK, GraphNumbers
<1>9. ~New(0)' /\ \A w \in Workers : New(w)'
  BY <1>2, <1>3, <1>8, ZeroIsThread DEF New
<1> QED
  BY <1>2, <1>3, <1>4, <1>5, <1>6, <1>7, <1>8, <1>9

LEMMA MeetGraphCompute ==
  ASSUME MeetInv, NEW p \in Plans, GraphCompute(p)
  PROVE  MeetInv'
<1>1. TypeOK'
  BY TypeOfOwner DEF MeetInv
<1>2. UNCHANGED <<last_graph, node_n, n_passed, ret, n_barrier, n_barrier_passed>> /\ abort' = NoAbort /\ pc[0] = "idle"
  BY NewGraph
<1>3. graphs' = graphs + 1 /\ graphs < MaxGraphs /\ graphs \in Nat /\ MaxGraphs \in Nat
  BY NewGraph
<1>4. n_graph'[1] = graphs + 1 /\ n_graph'[2] \in 1 .. NThreads
  BY NewGraph
<1>5. pc'[0] = "wake" /\ \A t \in Threads \ {0} : pc'[t] = pc[t]
  BY NewGraph
<1>6. \A t \in Threads : At(t) \in Left
  BY NewGraph
<1>7. At(0)' = "wake" /\ \A t \in Threads \ {0} : At(t)' = At(t)
  BY NewGraph
<1>8. \A w \in Workers : last_graph[w][1] <= graphs /\ last_graph[w][1] \in Nat
  BY NewGraph
<1>9. ~New(0)' /\ \A w \in Workers : New(w)'
  BY NewGraph
<1>10. GraphNumbers'
  <2>1. \A w \in Workers : last_graph'[w][1] <= graphs'
    BY <1>2, <1>3, <1>8
  <2> QED
    BY <1>3, <1>4, <2>1 DEF GraphNumbers
<1>11. OutsidersLeft'
  <2>1. \A w \in Workers : At(w)' \in Left
    BY <1>6, <1>7, ZeroIsThread
  <2>2. node_n[0] = 0
    BY <1>2, ZeroIsThread DEF MeetInv, OutsidersLeft, Away
  <2> QED
    BY <1>2, <1>5, <2>1, <2>2 DEF MeetInv, OutsidersLeft
<1>12. Agreed'
  <2>1. \A k, r : Aim(0, k, r)' <=> LoopFrom(0, k, r)'
    <3>1. node_n'[0] = 0
      BY <1>2, ZeroIsThread DEF MeetInv, OutsidersLeft, Away
    <3> QED
      BY <1>7, <1>9, <3>1 DEF Aim, Leads, Left, Away, Barrier
  <2>2. \A w \in Workers : \A k, r : Aim(w, k, r)' <=> LoopFrom(0, k, r)'
    BY <1>9 DEF Aim
  <2>3. Participants' \subseteq Threads
    BY <1>3, <1>4, ZeroIsThread DEF Participants, Threads
  <2> QED
    BY <2>1, <2>2, <2>3, ZeroIsThread DEF Agreed
<1>13. AbortInTime'
  BY <1>2 DEF AbortInTime
<1>14. BarrierCounts'
  <2>1. \A t \in Threads : pc[t] \notin {"arrive", "reset", "pass"} /\ pc'[t] \notin {"arrive", "reset", "pass"}
    BY <1>5, <1>6 DEF At, Left, Away
  <2>2. \A t \in Threads : Waiting(t)' <=> Waiting(t)
    BY <1>2, <1>5 DEF Waiting
  <2>3. Counted' = Counted
    BY <2>1, <2>2 DEF Counted
  <2> QED
    BY <1>2, <2>1, <2>3 DEF MeetInv, BarrierCounts
<1> QED
  BY <1>1, <1>10, <1>11, <1>12, <1>13, <1>14 DEF MeetInv

(* Between the graphs the owner wakes sleepers and moves nobody else.      *)
LEMMA OwnerShuffles ==
  ASSUME MeetInv, KickoffWake \/ Pause \/ Resume \/ FreeStop \/ FreeJoin
  PROVE  /\ UNCHANGED <<locals, counters, work, n_graph, cgraph, graphs, abort>>
         /\ \A t \in Threads : \/ pc'[t] = pc[t]
                               \/ pc[t] \in Away /\ pc'[t] \in Away
                               \/ t = 0 /\ pc[t] = "wake" /\ pc'[t] = "start"
<1>1. CASE KickoffWake \/ Pause \/ Resume \/ FreeStop
  <2>1. UNCHANGED <<locals, counters, work, n_graph, cgraph, graphs, abort>>
    BY <1>1 DEF KickoffWake, Pause, Resume, FreeStop
  <2>2. \/ pc[0] = "wake" /\ Broadcast("start")
        \/ pc[0] = "idle" /\ Broadcast("idle")
        \/ pc[0] = "idle" /\ Broadcast("join")
    BY <1>1 DEF KickoffWake, Pause, Resume, FreeStop
  <2>3. \A t \in Threads : \/ pc'[t] = pc[t]
                           \/ pc[t] \in Away /\ pc'[t] \in Away
                           \/ t = 0 /\ pc[t] = "wake" /\ pc'[t] = "start"
    BY <2>2 DEF Broadcast, Away
  <2> QED
    BY <2>1, <2>3
<1>2. CASE FreeJoin
  <2>1. UNCHANGED <<locals, counters, work, n_graph, cgraph, graphs, abort>>
    BY <1>2 DEF FreeJoin, flags
  <2>2. \A t \in Threads : pc'[t] = pc[t] \/ (pc[t] \in Away /\ pc'[t] \in Away)
    BY <1>2 DEF FreeJoin, Goto, Away, MeetInv, TypeOK
  <2> QED
    BY <2>1, <2>2
<1> QED
  BY <1>1, <1>2

LEMMA MeetOfOwner ==
  ASSUME MeetInv, \/ \E p \in Plans : GraphCompute(p)
                  \/ KickoffWake \/ Pause \/ Resume \/ FreeStop \/ FreeJoin
  PROVE  MeetInv'
<1>1. TypeOK'
  BY TypeOfOwner DEF MeetInv
<1>2. CASE \E p \in Plans : GraphCompute(p)
  BY <1>2, MeetGraphCompute
<1>3. CASE KickoffWake \/ Pause \/ Resume \/ FreeStop \/ FreeJoin
  BY <1>1, <1>3, OwnerShuffles, MeetShuffle
<1> QED
  BY <1>2, <1>3

----------------------------------------------------------------------------
(* A thread of the graph on its way to the barrier. *)

LEMMA MeetWalk ==
  ASSUME MeetInv, TypeOK', NEW t \in Threads, OnlyMoves(t), UNCHANGED <<last_graph, n_barrier, abort>>,
         pc[t] \notin Left \union {"wake", "reset", "pass", "spin"},
         pc'[t] \notin Away \union {"wake", "start", "reset", "pass", "spin"},
         n_passed'[t] <= n_barrier_passed, pc'[t] = "arrive" => n_passed'[t] = n_barrier_passed,
         \/ n_graph[2] = 1
         \/ \A k \in Nat, r \in Marks :
              Leads(pc'[t], node_n'[t], ret'[t], k, r) <=> Leads(pc[t], node_n[t], ret[t], k, r),
         t = 0 => AbortInTime'
  PROVE  MeetInv'
<1>1. At(t) = pc[t] /\ At(t)' = pc'[t] /\ At(t) \notin Left
  BY DEF At
<1>2. t \in Participants /\ ~New(t) /\ ~New(t)'
  BY <1>1, InsideIsNoticed DEF New, OnlyMoves
<1>3. GraphNumbers'
  BY NumbersFrame DEF MeetInv, Left
<1>4. OutsidersLeft'
  BY <1>2, OutsidersFrame DEF MeetInv
<1>5. Agreed'
  <2>1. cgraph' = cgraph
    BY DEF OnlyMoves
  <2>2. \A a, i, l, k, r : Leads(a, i, l, k, r)' <=> Leads(a, i, l, k, r)
    BY <2>1, LeadsSame
  <2>3. \A k, r : Aim(t, k, r)' <=> Leads(pc'[t], node_n'[t], ret'[t], k, r)
    BY <1>1, <1>2, <2>2 DEF Aim
  <2>4. \A k, r : Aim(t, k, r) <=> Leads(pc[t], node_n[t], ret[t], k, r)
    BY <1>1, <1>2 DEF Aim
  <2> QED
    BY <2>3, <2>4, AgreedFrame DEF MeetInv
<1>6. AbortInTime'
  BY AbortFrame DEF MeetInv
<1>7. BarrierCounts'
  <2>1. ~Waiting(t) /\ ~Waiting(t)'
    BY DEF Waiting
  <2> QED
    BY <2>1, BarrierFrame DEF MeetInv
<1> QED
  BY <1>3, <1>4, <1>5, <1>6, <1>7 DEF MeetInv

(* What the actions of a thread at its own node share.                     *)
LEMMA MovesAlone ==
  ASSUME TypeOK, NEW t \in Threads,
         \E l : Goto(t, l),
         \E i : node_n' = [node_n EXCEPT ![t] = i],
         \E i : n_passed' = [n_passed EXCEPT ![t] = i],
         \E l : ret' = [ret EXCEPT ![t] = l],
         UNCHANGED <<last_graph, n_graph, cgraph, graphs, n_barrier_passed>>
  PROVE  OnlyMoves(t)
BY DEF TypeOK, OnlyMoves, Goto

LEMMA NoChange ==
  ASSUME TypeOK, NEW t \in Threads
  PROVE  /\ node_n' = node_n => \E i : node_n' = [node_n EXCEPT ![t] = i]
         /\ n_passed' = n_passed => \E i : n_passed' = [n_passed EXCEPT ![t] = i]
         /\ ret' = ret => \E l : ret' = [ret EXCEPT ![t] = l]
<1>1. node_n = [node_n EXCEPT ![t] = node_n[t]]
  BY DEF TypeOK
<1>2. n_passed = [n_passed EXCEPT ![t] = n_passed[t]]
  BY DEF TypeOK
<1>3. ret = [ret EXCEPT ![t] = ret[t]]
  BY DEF TypeOK
<1> QED
  BY <1>1, <1>2, <1>3

LEMMA MeetStart ==
  ASSUME MeetInv, NEW t \in Threads, Start(t)
  PROVE  MeetInv'
<1>1. TypeOK /\ TypeOK'
  BY TypeOfCompute DEF MeetInv, Compute
<1>2. UNCHANGED <<last_graph, node_n, n_passed, ret, n_graph, cgraph, graphs, n_barrier_passed, n_barrier, abort>>
      /\ Goto(t, "head") /\ pc[t] = "start"
  BY DEF Start, flags, counters
<1>3. OnlyMoves(t)
  BY <1>1, <1>2, NoChange, MovesAlone
<1>4. pc'[t] = "head"
  BY <1>1, <1>2 DEF Goto, TypeOK
<1>5. \A k \in Nat, r \in Marks : Leads("head", node_n[t], ret[t], k, r) <=> Leads("start", node_n[t], ret[t], k, r)
  BY DEF Leads, Barrier, Left, Away
<1>6. t = 0 => AbortInTime'
  BY <1>2, <1>4 DEF MeetInv, AbortInTime, At, Left, Away, Barrier
<1>7. n_passed[t] <= n_barrier_passed
  BY DEF MeetInv, BarrierCounts
<1> QED
  BY <1>1, <1>2, <1>3, <1>4, <1>5, <1>6, <1>7, MeetWalk DEF Left, Away

LEMMA MeetNextNode ==
  ASSUME MeetInv, NEW t \in Threads, NextNode(t)
  PROVE  MeetInv'
<1>1. TypeOK /\ TypeOK' /\ NNodes \in Nat /\ node_n[t] \in Nat
  BY TypeOfCompute, NodesType DEF MeetInv, Compute, TypeOK
<1>2. UNCHANGED <<last_graph, node_n, n_passed, n_graph, cgraph, graphs, n_barrier_passed, n_barrier, abort>> /\ pc[t] = "head"
  BY DEF NextNode, flags, counters
<1>3. n_passed[t] <= n_barrier_passed
  BY DEF MeetInv, BarrierCounts
<1>4. CASE node_n[t] < NNodes /\ abort # node_n[t]
  <2> DEFINE l == CASE Node(node_n[t]).op = "none" -> "step"
                    [] Node(node_n[t]).op = "rows" -> "rows"
                    [] OTHER -> "pack"
  <2>1. ret' = ret /\ Goto(t, l) /\ l \in {"step", "rows", "pack"}
    BY <1>4 DEF NextNode
  <2>2. OnlyMoves(t)
    BY <1>1, <1>2, <2>1, NoChange, MovesAlone
  <2>3. pc'[t] = l
    BY <1>1, <2>1 DEF Goto, TypeOK
  <2>4. ASSUME NEW k \in Nat, NEW r \in Marks
        PROVE  Leads(l, node_n[t], ret[t], k, r) <=> Leads("head", node_n[t], ret[t], k, r)
    <3>1. Leads("head", node_n[t], ret[t], k, r) <=> LoopFrom(node_n[t], k, r)
      BY DEF Leads, Barrier, Left, Away
    <3>2. LoopFrom(node_n[t], k, r) <=> IF Skipped(node_n[t]) THEN LoopFrom(node_n[t] + 1, k, r)
                                        ELSE k = node_n[t] /\ MeetAt(node_n[t], r)
      BY <1>1, LoopHead
    <3>3. CASE Node(node_n[t]).op = "none"
      <4>1. Skipped(node_n[t])
        BY <1>4, <3>3 DEF Skipped
      <4>2. l = "step"
        BY <3>3
      <4> QED
        BY <3>1, <3>2, <4>1, <4>2 DEF Leads, Barrier, Left, Away
    <3>4. CASE Node(node_n[t]).op = "rows"
      <4>1. l = "rows"
        BY <3>4
      <4>2. Leads("rows", node_n[t], ret[t], k, r) <=> AfterNode(node_n[t], k, r)
        BY DEF Leads, Barrier, Left, Away
      <4>3. Skipped(node_n[t]) <=> node_n[t] + 1 = NNodes
        BY <1>4, <3>4 DEF Skipped
      <4>4. node_n[t] + 1 < NNodes => (MeetAt(node_n[t], r) <=> r = "step")
        BY <1>1, <1>4, <3>4 DEF MeetAt
      <4> QED
        BY <1>1, <1>4, <3>1, <3>2, <4>1, <4>2, <4>3, <4>4 DEF AfterNode
    <3>5. CASE Node(node_n[t]).op = "mul_mat"
      <4>1. l = "pack"
        BY <3>5
      <4>2. Leads("pack", node_n[t], ret[t], k, r) <=> k = node_n[t] /\ r = "chunk"
        BY DEF Leads, Barrier, Left, Away
      <4>3. ~Skipped(node_n[t])
        BY <3>5 DEF Skipped
      <4>4. MeetAt(node_n[t], r) <=> r = "chunk"
        BY <1>1, <1>4, <3>5 DEF MeetAt
      <4> QED
        BY <3>1, <3>2, <4>1, <4>2, <4>3, <4>4
    <3> QED
      BY <1>1, <1>4, <3>3, <3>4, <3>5, NodesType
  <2>5. t = 0 => AbortInTime'
    BY <1>2, <1>4 DEF MeetInv, AbortInTime, At, Left, Away, Barrier
  <2> HIDE DEF l
  <2> QED
    BY <1>1, <1>2, <1>3, <2>1, <2>2, <2>3, <2>4, <2>5, MeetWalk DEF Left, Away
<1>5. CASE ~(node_n[t] < NNodes /\ abort # node_n[t])
  <2>1. EnterBarrier(t, "finish")
    BY <1>5 DEF NextNode
  <2>2. OnlyMoves(t)
    BY <1>1, <1>2, <2>1, NoChange, MovesAlone DEF EnterBarrier
  <2>3. ret'[t] = "finish" /\ pc'[t] = IF n_graph[2] = 1 THEN "finish" ELSE "enter"
    BY <1>1, <2>1 DEF EnterBarrier, Goto, TypeOK
  <2>4. ASSUME n_graph[2] # 1, NEW k \in Nat, NEW r \in Marks
        PROVE  Leads("enter", node_n[t], "finish", k, r) <=> Leads("head", node_n[t], ret[t], k, r)
    <3>1. Leads("head", node_n[t], ret[t], k, r) <=> LoopFrom(node_n[t], k, r)
      BY DEF Leads, Barrier, Left, Away
    <3>2. Leads("enter", node_n[t], "finish", k, r) <=> k = node_n[t] /\ r = "finish"
      BY DEF Leads, Barrier, Left, Away
    <3>3. ~Skipped(node_n[t])
      BY <1>5 DEF Skipped
    <3>4. MeetAt(node_n[t], r) <=> r = "finish"
      BY <1>1, <1>5 DEF MeetAt
    <3> QED
      BY <1>1, <3>1, <3>2, <3>3, <3>4, LoopHead
  <2>5. t = 0 => AbortInTime'
    BY <1>2, <2>3 DEF MeetInv, AbortInTime, At, Left, Away, Barrier
  <2> QED
    BY <1>1, <1>2, <1>3, <2>2, <2>3, <2>4, <2>5, MeetWalk DEF Left, Away
<1> QED
  BY <1>4, <1>5

LEMMA MeetCompute ==
  ASSUME MeetInv, NEW t \in Threads, ComputeRows(t) \/ ComputeChunk(t) \/ NoChunkLeft(t)
  PROVE  MeetInv'
<1>1. TypeOK /\ TypeOK'
  BY TypeOfCompute DEF MeetInv, Compute
<1>2. UNCHANGED <<last_graph, node_n, n_passed, ret, n_graph, cgraph, graphs, n_barrier_passed, n_barrier, abort>>
      /\ pc[t] \in {"rows", "chunk"}
  BY DEF ComputeRows, ComputeChunk, NoChunkLeft, flags, counters, locals
<1>3. PICK l \in {"computed", "chunk"} : Goto(t, l)
  <2>1. ComputeRows(t) \/ NoChunkLeft(t) => Goto(t, "computed")
    BY DEF ComputeRows, NoChunkLeft
  <2>2. ComputeChunk(t) => Goto(t, "computed") \/ (pc' = pc /\ pc[t] = "chunk")
    BY DEF ComputeChunk
  <2>3. pc' = pc /\ pc[t] = "chunk" => Goto(t, "chunk")
    BY <1>1 DEF TypeOK, Goto
  <2> QED
    BY <2>1, <2>2, <2>3
<1>4. OnlyMoves(t)
  BY <1>1, <1>2, <1>3, NoChange, MovesAlone
<1>5. pc'[t] = l
  BY <1>1, <1>3 DEF Goto, TypeOK
<1>6. \A k \in Nat, r \in Marks : Leads(l, node_n[t], ret[t], k, r) <=> Leads(pc[t], node_n[t], ret[t], k, r)
  BY <1>2 DEF Leads, Barrier, Left, Away
<1>7. t = 0 => AbortInTime'
  BY <1>2, <1>5 DEF MeetInv, AbortInTime, At, Left, Away, Barrier
<1>8. n_passed[t] <= n_barrier_passed
  BY DEF MeetInv, BarrierCounts
<1> QED
  BY <1>1, <1>2, <1>4, <1>5, <1>6, <1>7, <1>8, MeetWalk DEF Left, Away

LEMMA MeetPack ==
  ASSUME MeetInv, NEW t \in Threads, Pack(t)
  PROVE  MeetInv'
<1>1. TypeOK /\ TypeOK'
  BY TypeOfCompute DEF MeetInv, Compute
<1>2. UNCHANGED <<last_graph, node_n, n_passed, n_graph, cgraph, graphs, n_barrier_passed, n_barrier, abort>>
      /\ pc[t] = "pack" /\ EnterBarrier(t, "chunk")
  BY DEF Pack, flags
<1>3. OnlyMoves(t)
  BY <1>1, <1>2, NoChange, MovesAlone DEF EnterBarrier
<1>4. ret'[t] = "chunk" /\ pc'[t] = IF n_graph[2] = 1 THEN "chunk" ELSE "enter"
  BY <1>1, <1>2 DEF EnterBarrier, Goto, TypeOK
<1>5. \A k \in Nat, r \in Marks : Leads("enter", node_n[t], "chunk", k, r) <=> Leads("pack", node_n[t], ret[t], k, r)
  BY DEF Leads, Barrier, Left, Away
<1>6. t = 0 => AbortInTime'
  BY <1>2, <1>4 DEF MeetInv, AbortInTime, At, Left, Away, Barrier
<1>7. n_passed[t] <= n_barrier_passed
  BY DEF MeetInv, BarrierCounts
<1> QED
  BY <1>1, <1>2, <1>3, <1>4, <1>5, <1>6, <1>7, MeetWalk DEF Left, Away

LEMMA MeetStep ==
  ASSUME MeetInv, NEW t \in Threads, Step(t)
  PROVE  MeetInv'
<1>1. TypeOK /\ TypeOK' /\ node_n[t] \in Nat
  BY TypeOfCompute DEF MeetInv, Compute, TypeOK
<1>2. UNCHANGED <<last_graph, n_passed, ret, n_graph, cgraph, graphs, n_barrier_passed, n_barrier, abort>>
      /\ pc[t] = "step" /\ Goto(t, "head") /\ node_n' = [node_n EXCEPT ![t] = node_n[t] + 1]
  BY DEF Step, flags, counters
<1>3. OnlyMoves(t)
  BY <1>1, <1>2, NoChange, MovesAlone
<1>4. pc'[t] = "head" /\ node_n'[t] = node_n[t] + 1
  BY <1>1, <1>2 DEF Goto, TypeOK
<1>5. \A k \in Nat, r \in Marks : Leads("head", node_n[t] + 1, ret[t], k, r) <=> Leads("step", node_n[t], ret[t], k, r)
  BY DEF Leads, Barrier, Left, Away
<1>6. t = 0 => AbortInTime'
  BY <1>2, <1>4 DEF MeetInv, AbortInTime, At, Left, Away, Barrier
<1>7. n_passed[t] <= n_barrier_passed
  BY DEF MeetInv, BarrierCounts
<1> QED
  BY <1>1, <1>2, <1>3, <1>4, <1>5, <1>6, <1>7, MeetWalk DEF Left, Away

LEMMA MeetReadPassed ==
  ASSUME MeetInv, NEW t \in Threads, ReadPassed(t)
  PROVE  MeetInv'
<1>1. TypeOK /\ TypeOK' /\ n_barrier_passed \in Nat
  BY TypeOfCompute DEF MeetInv, Compute, TypeOK
<1>2. UNCHANGED <<last_graph, node_n, ret, n_graph, cgraph, graphs, n_barrier_passed, n_barrier, abort>>
      /\ pc[t] = "enter" /\ Goto(t, "arrive") /\ n_passed' = [n_passed EXCEPT ![t] = n_barrier_passed]
  BY DEF ReadPassed, flags, counters
<1>3. OnlyMoves(t)
  BY <1>1, <1>2, NoChange, MovesAlone
<1>4. pc'[t] = "arrive" /\ n_passed'[t] = n_barrier_passed
  BY <1>1, <1>2 DEF Goto, TypeOK
<1>5. \A k \in Nat, r \in Marks : Leads("arrive", node_n[t], ret[t], k, r) <=> Leads("enter", node_n[t], ret[t], k, r)
  BY DEF Leads, Barrier, Left, Away
<1>6. t = 0 => AbortInTime'
  BY <1>2, <1>4 DEF MeetInv, AbortInTime, At, Left, Away, Barrier
<1> QED
  BY <1>1, <1>2, <1>3, <1>4, <1>5, <1>6, MeetWalk DEF Left, Away

(* The way of a node that is done, with or without an abort behind it.     *)
LEMMA MeetNodeDone ==
  ASSUME MeetInv, NEW t \in Threads, NodeDone(t), abort' = abort
  PROVE  MeetInv'
<1>1. TypeOK /\ TypeOK' /\ NNodes \in Nat /\ node_n[t] \in Nat
  BY TypeOfCompute, NodesType DEF MeetInv, Compute, TypeOK
<1>2. UNCHANGED <<last_graph, node_n, n_passed, n_graph, cgraph, graphs, n_barrier_passed, n_barrier>> /\ pc[t] = "computed"
  BY DEF NodeDone, counters
<1>3. n_passed[t] <= n_barrier_passed
  BY DEF MeetInv, BarrierCounts
<1>4. t = 0 => AbortInTime'
  BY <1>2 DEF MeetInv, AbortInTime, At, Left, Away, Barrier
<1>5. CASE node_n[t] + 1 < NNodes
  <2>1. EnterBarrier(t, "step")
    BY <1>5 DEF NodeDone
  <2>2. OnlyMoves(t)
    BY <1>1, <1>2, <2>1, NoChange, MovesAlone DEF EnterBarrier
  <2>3. ret'[t] = "step" /\ pc'[t] = IF n_graph[2] = 1 THEN "step" ELSE "enter"
    BY <1>1, <2>1 DEF EnterBarrier, Goto, TypeOK
  <2>4. \A k \in Nat, r \in Marks : Leads("enter", node_n[t], "step", k, r) <=> Leads("computed", node_n[t], ret[t], k, r)
    BY <1>5 DEF Leads, Barrier, Left, Away, AfterNode
  <2> QED
    BY <1>1, <1>2, <1>3, <1>4, <2>2, <2>3, <2>4, MeetWalk DEF Left, Away
<1>6. CASE ~(node_n[t] + 1 < NNodes)
  <2>1. ret' = ret /\ Goto(t, "step")
    BY <1>6 DEF NodeDone
  <2>2. OnlyMoves(t)
    BY <1>1, <1>2, <2>1, NoChange, MovesAlone
  <2>3. pc'[t] = "step"
    BY <1>1, <2>1 DEF Goto, TypeOK
  <2>4. \A k \in Nat, r \in Marks : Leads("step", node_n[t], ret[t], k, r) <=> Leads("computed", node_n[t], ret[t], k, r)
    BY <1>6 DEF Leads, Barrier, Left, Away, AfterNode
  <2> QED
    BY <1>1, <1>2, <1>3, <1>4, <2>1, <2>2, <2>3, <2>4, MeetWalk DEF Left, Away
<1> QED
  BY <1>5, <1>6

LEMMA MeetAbort ==
  ASSUME MeetInv, NodeDone(0), abort' = node_n[0] + 1
  PROVE  MeetInv'
<1> DEFINE i == node_n[0]
<1>1. TypeOK /\ TypeOK' /\ NNodes \in Nat /\ i \in Nat /\ 0 \in Threads
  BY TypeOfCompute, NodesType, ZeroIsThread DEF MeetInv, Compute, TypeOK
<1>2. UNCHANGED <<last_graph, node_n, n_passed, n_graph, cgraph, graphs, n_barrier_passed, n_barrier>> /\ pc[0] = "computed"
  BY DEF NodeDone, counters
<1>3. abort = NoAbort
  BY <1>2 DEF MeetInv, AbortInTime, At, Left, Away, Barrier
<1>4. IF i + 1 < NNodes THEN EnterBarrier(0, "step") ELSE Goto(0, "step") /\ ret' = ret
  BY DEF NodeDone
<1>5. OnlyMoves(0)
  BY <1>1, <1>2, <1>4, NoChange, MovesAlone DEF EnterBarrier
<1>6. IF i + 1 < NNodes THEN ret'[0] = "step" /\ pc'[0] = (IF n_graph[2] = 1 THEN "step" ELSE "enter")
      ELSE pc'[0] = "step"
  BY <1>1, <1>4 DEF EnterBarrier, Goto, TypeOK
<1>7. At(0) = "computed" /\ At(0)' = pc'[0] /\ 0 \in Participants /\ ~New(0) /\ ~New(0)'
  BY <1>2, <1>6, InsideIsNoticed, ZeroIsThread DEF At, Left, Away, New
<1>8. GraphNumbers'
  BY <1>1, <1>2, <1>5, NumbersFrame DEF MeetInv, Away
<1>9. OutsidersLeft'
  BY <1>1, <1>2, <1>5, <1>6, OutsidersFrame DEF MeetInv, Away
<1>10. AbortInTime'
  BY <1>2, <1>6, <1>7 DEF AbortInTime, Barrier
<1>11. BarrierCounts'
  <2>1. ~Waiting(0) /\ ~Waiting(0)' /\ pc'[0] \notin {"reset", "pass", "arrive"}
    BY <1>2, <1>6 DEF Waiting
  <2>2. n_passed'[0] <= n_barrier_passed
    BY <1>1, <1>2 DEF MeetInv, BarrierCounts
  <2> QED
    BY <1>1, <1>2, <1>5, <2>1, <2>2, BarrierFrame DEF MeetInv
<1>12. \A j \in Nat : (i + 1 < NNodes => LoopFrom(j, i, "step"))
                        => \A k \in Nat : \A r : LoopFrom(j, k, r)' <=> LoopFrom(j, k, r)
  BY <1>1, <1>2, <1>3, LoopAbort
<1>13. Aim(0, i, "step") <=> AfterNode(i, i, "step")
  BY <1>7 DEF Aim, Leads, Barrier, Left, Away
<1>14. ASSUME n_graph[2] # 1, NEW u \in Participants, NEW k \in Nat, NEW r \in Marks
       PROVE  Aim(u, k, r)' <=> Aim(u, k, r)
  <2>1. i + 1 < NNodes => Aim(u, i, "step")
    <3>1. i + 1 < NNodes => Aim(0, i, "step")
      BY <1>13 DEF AfterNode
    <3> QED
      BY <1>1, <1>7, <1>14, <3>1 DEF MeetInv, Agreed
  <2>2. NNodes' = NNodes
    BY <1>2 DEF NNodes
  <2>3. CASE u = 0
    <3>1. Aim(0, k, r) <=> AfterNode(i, k, r)
      BY <1>7 DEF Aim, Leads, Barrier, Left, Away
    <3>2. CASE i + 1 < NNodes
      <4>1. Aim(0, k, r)' <=> k = i /\ r = "step"
        BY <1>2, <1>6, <1>7, <1>14, <3>2 DEF Aim, Leads, Barrier, Left, Away
      <4> QED
        BY <2>3, <3>1, <3>2, <4>1 DEF AfterNode
    <3>3. CASE ~(i + 1 < NNodes)
      <4>1. Aim(0, k, r)' <=> LoopFrom(i + 1, k, r)'
        BY <1>2, <1>6, <1>7, <3>3 DEF Aim, Leads, Barrier, Left, Away
      <4>2. LoopFrom(i + 1, k, r)' <=> LoopFrom(i + 1, k, r)
        BY <1>1, <1>2, <1>12, <3>3
      <4> QED
        BY <2>3, <3>1, <3>3, <4>1, <4>2 DEF AfterNode
    <3> QED
      BY <3>2, <3>3
  <2>4. CASE u # 0
    <3>1. u \in Threads /\ u \in Threads \ {0}
      BY <1>14, <2>4, ParticipantsAreThreads DEF MeetInv
    <3>2. At(u)' = At(u) /\ New(u)' = New(u) /\ node_n'[u] = node_n[u] /\ ret'[u] = ret[u]
      BY <1>1, <1>5, <3>1, OthersStay DEF OnlyMoves
    <3> DEFINE m == node_n[u]
    <3>3. m \in Nat
      BY <1>1, <3>1 DEF TypeOK
    <3>4. CASE New(u)
      BY <1>12, <2>1, <3>2, <3>4 DEF Aim
    <3>5. CASE ~New(u)
      <4>1. Aim(u, k, r) <=> Leads(At(u), m, ret[u], k, r)
        BY <3>5 DEF Aim
      <4>2. Aim(u, k, r)' <=> Leads(At(u), m, ret[u], k, r)'
        BY <3>2, <3>5 DEF Aim
      <4>3. i + 1 < NNodes => Leads(At(u), m, ret[u], i, "step")
        BY <2>1, <3>5 DEF Aim
      <4>4. ASSUME At(u) \in {"wake", "start", "head"} PROVE LoopFrom(m, k, r)' <=> LoopFrom(m, k, r)
        <5>1. i + 1 < NNodes => LoopFrom(m, i, "step")
          BY <4>3, <4>4 DEF Leads, Barrier, Left, Away
        <5> QED
          BY <1>12, <3>2, <3>3, <5>1
      <4>5. ASSUME At(u) \in {"rows", "chunk", "computed"} PROVE AfterNode(m, k, r)' <=> AfterNode(m, k, r)
        <5>1. i + 1 < NNodes => AfterNode(m, i, "step")
          BY <4>3, <4>5 DEF Leads, Barrier, Left, Away
        <5>2. CASE m + 1 < NNodes
          BY <2>2, <3>2, <5>2 DEF AfterNode
        <5>3. CASE ~(m + 1 < NNodes)
          <6>1. i + 1 < NNodes => LoopFrom(m + 1, i, "step")
            BY <5>1, <5>3 DEF AfterNode
          <6>2. LoopFrom(m + 1, k, r)' <=> LoopFrom(m + 1, k, r)
            BY <1>12, <3>2, <3>3, <6>1
          <6> QED
            BY <2>2, <3>2, <5>3, <6>2 DEF AfterNode
        <5> QED
          BY <5>2, <5>3
      <4>6. ASSUME At(u) = "step" PROVE LoopFrom(m + 1, k, r)' <=> LoopFrom(m + 1, k, r)
        <5>1. i + 1 < NNodes => LoopFrom(m + 1, i, "step")
          BY <4>3, <4>6 DEF Leads, Barrier, Left, Away
        <5> QED
          BY <1>12, <3>2, <3>3, <5>1
      <4> QED
        BY <3>2, <4>1, <4>2, <4>4, <4>5, <4>6 DEF Leads
    <3> QED
      BY <3>4, <3>5
  <2> QED
    BY <2>3, <2>4
<1>15. Agreed'
  <2>1. Participants' = Participants
    BY <1>2 DEF Participants
  <2>2. CASE n_graph[2] = 1
    BY <2>1, <2>2 DEF Agreed, Participants
  <2>3. CASE n_graph[2] # 1
    BY <1>14, <2>1, <2>3 DEF MeetInv, Agreed, Marks
  <2> QED
    BY <2>2, <2>3
<1> QED
  BY <1>1, <1>8, <1>9, <1>10, <1>11, <1>15 DEF MeetInv

----------------------------------------------------------------------------
(* At the barrier. *)

LEMMA CountedType ==
  ASSUME MeetInv
  PROVE  /\ IsFiniteSet(Counted) /\ Cardinality(Counted) \in Nat
         /\ IsFiniteSet(Participants) /\ Cardinality(Participants) = n_graph[2]
         /\ Counted \subseteq Participants
<1>1. Threads = 0 .. NThreads - 1 /\ NThreads \in Nat /\ n_graph[2] \in Nat
  BY ThreadsAssumption, ParticipantsAreThreads DEF Threads, MeetInv
<1>2. IsFiniteSet(Threads)
  BY <1>1, FS_Interval
<1>3. IsFiniteSet(Counted)
  BY <1>2, FS_Subset DEF Counted
<1>4. IsFiniteSet(Participants) /\ Cardinality(Participants) = n_graph[2]
  <2>1. n_graph[2] - 1 \in Int /\ 0 \in Int
    BY <1>1
  <2>2. IsFiniteSet(0 .. n_graph[2] - 1)
        /\ Cardinality(0 .. n_graph[2] - 1) = IF 0 > n_graph[2] - 1 THEN 0 ELSE n_graph[2] - 1 - 0 + 1
    BY <2>1, FS_Interval
  <2> QED
    BY <1>1, <2>2 DEF Participants
<1>5. \A u \in Counted : At(u) \notin Left
  BY DEF Counted, Waiting, At, Left, Away
<1>6. Counted \subseteq Participants
  BY <1>5, InsideIsNoticed DEF Counted
<1> QED
  BY <1>3, <1>4, <1>6, FS_CardinalityType

(* A step at the barrier that leaves the thread where it is on its way.    *)
LEMMA MeetAtBarrier ==
  ASSUME MeetInv, TypeOK', NEW t \in Threads, OnlyMoves(t), UNCHANGED <<last_graph, node_n, ret, abort>>,
         \/ pc[t] \in {"arrive", "reset"} /\ At(t)' \in Barrier
         \/ pc[t] = "spin" /\ At(t)' = At(t),
         pc'[t] \notin Away \union {"wake", "start"},
         BarrierCounts'
  PROVE  MeetInv'
<1>1. New(t)' = New(t)
  BY DEF New, OnlyMoves
<1>2. GraphNumbers'
  BY NumbersFrame DEF MeetInv, Away
<1>3. At(t) \in Left \/ (t \in Participants /\ ~New(t))
  BY InsideIsNoticed
<1>4. OutsidersLeft'
  <2>1. At(t)' \in Left \/ (t \in Participants /\ ~New(t)')
    BY <1>1, <1>3 DEF At, Left, Away
  <2> QED
    BY <2>1, OutsidersFrame DEF MeetInv
<1>5. cgraph' = cgraph /\ \A a, i, l, k, r : Leads(a, i, l, k, r)' <=> Leads(a, i, l, k, r)
  BY LeadsSame DEF OnlyMoves
<1>6. \A i, k, r : LoopFrom(i, k, r)' <=> LoopFrom(i, k, r)
  BY <1>5, LoopSame
<1>7. CASE pc[t] = "spin" /\ At(t)' = At(t)
  <2>1. \A k, r : Aim(t, k, r)' <=> Aim(t, k, r)
    BY <1>1, <1>5, <1>6, <1>7 DEF Aim
  <2>2. Agreed'
    BY <2>1, AgreedFrame DEF MeetInv
  <2>3. AbortInTime'
    BY <1>7, AbortFrame DEF MeetInv, AbortInTime
  <2> QED
    BY <1>2, <1>4, <2>2, <2>3 DEF MeetInv
<1>8. CASE pc[t] \in {"arrive", "reset"} /\ At(t)' \in Barrier
  <2>1. At(t) \in Barrier /\ ~New(t) /\ ~New(t)'
    BY <1>1, <1>3, <1>8 DEF At, Barrier, Left, Away
  <2>2. \A a \in Barrier : \A i, l, k, r : Leads(a, i, l, k, r) <=> k = i /\ r = l
    BY DEF Leads, Barrier, Left, Away
  <2>3. \A k, r : Aim(t, k, r) <=> k = node_n[t] /\ r = ret[t]
    BY <2>1, <2>2 DEF Aim
  <2>4. \A k, r : Aim(t, k, r)' <=> Leads(At(t)', node_n[t], ret[t], k, r)
    BY <1>5, <2>1 DEF Aim
  <2>5. \A k, r : Aim(t, k, r)' <=> Aim(t, k, r)
    BY <1>8, <2>2, <2>3, <2>4
  <2>6. Agreed'
    BY <2>5, AgreedFrame DEF MeetInv
  <2>7. ASSUME t = 0 PROVE AbortInTime'
    <3>1. At(0) \in Barrier /\ At(0)' \in Barrier
      BY <1>8, <2>1, <2>7
    <3>2. At(0) \notin Left \union {"step", "head"} /\ At(0)' \notin Left \union {"step", "head"}
      BY <3>1 DEF Barrier, Left, Away
    <3> QED
      BY <3>1, <3>2 DEF MeetInv, AbortInTime
  <2>8. AbortInTime'
    BY <2>7, AbortFrame DEF MeetInv
  <2> QED
    BY <1>2, <1>4, <2>6, <2>8 DEF MeetInv
<1> QED
  BY <1>7, <1>8

LEMMA MeetSpin ==
  ASSUME MeetInv, NEW t \in Threads, Spin(t)
  PROVE  MeetInv'
<1>1. TypeOK /\ TypeOK'
  BY TypeOfCompute DEF MeetInv, Compute
<1>2. UNCHANGED <<last_graph, node_n, n_passed, ret, n_graph, cgraph, graphs, n_barrier_passed, n_barrier, abort>>
      /\ pc[t] = "spin" /\ n_barrier_passed # n_passed[t] /\ Goto(t, ret[t])
  BY DEF Spin, flags, counters, locals
<1>3. OnlyMoves(t)
  BY <1>1, <1>2, NoChange, MovesAlone
<1>4. pc'[t] = ret[t] /\ ret[t] \in {"chunk", "step", "finish"}
  BY <1>1, <1>2 DEF Goto, TypeOK
<1>5. At(t)' = At(t)
  BY <1>2, <1>4 DEF At
<1>6. BarrierCounts'
  <2>1. ~Waiting(t) /\ ~Waiting(t)' /\ n_passed[t] <= n_barrier_passed
    BY <1>2, <1>4 DEF Waiting, MeetInv, BarrierCounts
  <2> QED
    BY <1>2, <1>3, <1>4, <2>1, BarrierFrame DEF MeetInv
<1> QED
  BY <1>1, <1>2, <1>3, <1>4, <1>5, <1>6, MeetAtBarrier DEF Away

LEMMA MeetArrive ==
  ASSUME MeetInv, NEW t \in Threads, Arrive(t)
  PROVE  MeetInv'
<1>1. TypeOK /\ TypeOK'
  BY TypeOfCompute DEF MeetInv, Compute
<1>2. UNCHANGED <<last_graph, node_n, n_passed, ret, n_graph, cgraph, graphs, n_barrier_passed, abort>>
      /\ pc[t] = "arrive" /\ n_barrier' = n_barrier + 1
      /\ Goto(t, IF n_barrier = n_graph[2] - 1 THEN "reset" ELSE "spin")
  BY DEF Arrive, flags, locals
<1>3. OnlyMoves(t)
  BY <1>1, <1>2, NoChange, MovesAlone
<1>4. pc'[t] = IF n_barrier = n_graph[2] - 1 THEN "reset" ELSE "spin"
  BY <1>1, <1>2 DEF Goto, TypeOK
<1>5. n_passed[t] = n_barrier_passed
  BY <1>2 DEF MeetInv, BarrierCounts
<1>6. At(t)' \in Barrier
  BY <1>2, <1>4, <1>5 DEF At, Barrier
<1>7. t \in Participants
  BY <1>2, InsideIsNoticed DEF At, Left, Away
<1>8. \A v \in Threads : pc[v] \notin {"reset", "pass"}
  <2> SUFFICES ASSUME NEW v \in Threads, pc[v] \in {"reset", "pass"} PROVE FALSE
    OBVIOUS
  <2>1. v # t
    BY <1>2
  <2>2. Waiting(t)
    BY <1>7, <2>1 DEF MeetInv, BarrierCounts
  <2> QED
    BY <1>2, <2>2 DEF Waiting
<1>9. n_barrier = Cardinality(Counted) /\ IsFiniteSet(Counted)
  BY <1>8, CountedType DEF MeetInv, BarrierCounts
<1>10. \A u \in Threads \ {t} : Waiting(u)' = Waiting(u) /\ pc'[u] = pc[u]
  BY <1>3, OthersStay DEF OnlyMoves
<1>11. t \notin Counted /\ t \in Counted'
  BY <1>2, <1>4, <1>5 DEF Counted, Waiting
<1>12. Counted' = Counted \union {t}
  BY <1>10, <1>11 DEF Counted
<1>13. Cardinality(Counted') = n_barrier + 1
  BY <1>9, <1>11, <1>12, FS_AddElement
<1>14. Participants' = Participants /\ Participants \subseteq Threads
  BY <1>2, ParticipantsAreThreads DEF Participants, MeetInv
<1>15. ASSUME pc'[t] = "reset" PROVE \A u \in Participants \ {t} : Waiting(u)'
  <2>1. n_barrier = n_graph[2] - 1
    BY <1>4, <1>15
  <2>2. Counted \subseteq Participants \ {t}
    BY <1>11, CountedType
  <2>3. IsFiniteSet(Participants \ {t}) /\ Cardinality(Participants \ {t}) = n_graph[2] - 1
    BY <1>7, CountedType, FS_RemoveElement
  <2>4. Counted = Participants \ {t}
    BY <1>9, <2>1, <2>2, <2>3, FS_Subset
  <2>5. \A u \in Counted : Waiting(u)
    BY <1>8 DEF Counted
  <2> QED
    BY <1>10, <1>14, <2>4, <2>5
<1>16. BarrierCounts'
  <2>1. \A u \in Threads : n_passed'[u] <= n_barrier_passed'
    BY <1>2 DEF MeetInv, BarrierCounts
  <2>2. \A u \in Threads : pc'[u] = "arrive" => n_passed'[u] = n_barrier_passed'
    BY <1>2, <1>4, <1>10 DEF MeetInv, BarrierCounts
  <2>3. \A v \in Threads : pc'[v] \in {"reset", "pass"} => v = t /\ pc'[t] = "reset"
    BY <1>4, <1>8, <1>10
  <2>4. \A v \in Threads : pc'[v] \in {"reset", "pass"} => \A u \in Participants' \ {v} : Waiting(u)'
    BY <1>14, <1>15, <2>3
  <2>5. ~\E v \in Threads : pc'[v] = "pass"
    BY <2>3
  <2> QED
    BY <1>2, <1>13, <2>1, <2>2, <2>4, <2>5 DEF BarrierCounts
<1> QED
  BY <1>1, <1>2, <1>3, <1>4, <1>6, <1>16, MeetAtBarrier DEF Away

LEMMA MeetReset ==
  ASSUME MeetInv, NEW t \in Threads, ResetBarrier(t)
  PROVE  MeetInv'
<1>1. TypeOK /\ TypeOK'
  BY TypeOfCompute DEF MeetInv, Compute
<1>2. UNCHANGED <<last_graph, node_n, n_passed, ret, n_graph, cgraph, graphs, n_barrier_passed, abort>>
      /\ pc[t] = "reset" /\ n_barrier' = 0 /\ Goto(t, "pass")
  BY DEF ResetBarrier, flags, locals
<1>3. OnlyMoves(t)
  BY <1>1, <1>2, NoChange, MovesAlone
<1>4. pc'[t] = "pass" /\ At(t)' \in Barrier
  BY <1>1, <1>2 DEF Goto, TypeOK, At, Barrier
<1>5. Participants' = Participants /\ Participants \subseteq Threads
  BY <1>2, ParticipantsAreThreads DEF Participants, MeetInv
<1>6. \A u \in Threads \ {t} : Waiting(u)' = Waiting(u) /\ pc'[u] = pc[u]
  BY <1>3, OthersStay DEF OnlyMoves
<1>7. t \in Participants
  BY <1>2, InsideIsNoticed DEF At, Left, Away
<1>8. \A u \in Participants \ {t} : Waiting(u)
  BY <1>2 DEF MeetInv, BarrierCounts
<1>9. \A v \in Threads : pc'[v] \in {"reset", "pass"} => v = t
  <2> SUFFICES ASSUME NEW v \in Threads \ {t}, pc[v] \in {"reset", "pass"} PROVE FALSE
    BY <1>6
  <2>1. Waiting(t)
    BY <1>7 DEF MeetInv, BarrierCounts
  <2> QED
    BY <1>2, <2>1 DEF Waiting
<1>10. BarrierCounts'
  <2>1. \A u \in Threads : n_passed'[u] <= n_barrier_passed'
    BY <1>2 DEF MeetInv, BarrierCounts
  <2>2. \A u \in Threads : pc'[u] = "arrive" => n_passed'[u] = n_barrier_passed'
    BY <1>2, <1>4, <1>6 DEF MeetInv, BarrierCounts
  <2>3. \A v \in Threads : pc'[v] \in {"reset", "pass"} => \A u \in Participants' \ {v} : Waiting(u)'
    BY <1>5, <1>6, <1>8, <1>9
  <2> QED
    BY <1>2, <1>4, <2>1, <2>2, <2>3 DEF BarrierCounts
<1> QED
  BY <1>1, <1>2, <1>3, <1>4, <1>10, MeetAtBarrier DEF Away

(* Everybody waits for the same node and the same purpose, so everybody    *)
(* goes on at the same place.                                              *)
(* The barrier opens for all of them at once, and at one place.            *)
LEMMA OpenTogether ==
  ASSUME MeetInv, NEW t \in Threads, OpenBarrier(t)
  PROVE  /\ UNCHANGED <<last_graph, node_n, n_passed, ret, n_graph, cgraph, graphs, n_barrier, abort>>
         /\ pc[t] = "pass" /\ pc'[t] = ret[t] /\ \A u \in Threads \ {t} : pc'[u] = pc[u]
         /\ n_barrier_passed' = n_barrier_passed + 1
         /\ t \in Participants /\ Participants' = Participants /\ Participants \subseteq Threads
         /\ \A u : New(u)' = New(u)
         /\ \A u \in Participants \ {t} : Waiting(u)
         /\ \A u \in Participants : /\ At(u) \in {"spin", "pass"} /\ ~New(u) /\ At(u)' = ret[t]
                                     /\ ret[u] = ret[t] /\ node_n[u] = node_n[t]
         /\ \A u \in Threads \ Participants : At(u) \in Left /\ At(u)' = At(u)
<1>1. TypeOK /\ TypeOK' /\ n_barrier_passed \in Nat
  BY TypeOfCompute DEF MeetInv, Compute, TypeOK
<1>2. UNCHANGED <<last_graph, node_n, n_passed, ret, n_graph, cgraph, graphs, n_barrier, abort>>
      /\ pc[t] = "pass" /\ n_barrier_passed' = n_barrier_passed + 1 /\ Goto(t, ret[t])
  BY DEF OpenBarrier, flags, locals
<1>3. pc'[t] = ret[t] /\ \A u \in Threads \ {t} : pc'[u] = pc[u]
  BY <1>1, <1>2 DEF Goto, TypeOK
<1>4. t \in Participants /\ ~New(t) /\ At(t) = "pass"
  BY <1>2, InsideIsNoticed DEF At, Left, Away
<1>5. Participants' = Participants /\ Participants \subseteq Threads /\ \A u : New(u)' = New(u)
  BY <1>2, ParticipantsAreThreads DEF Participants, MeetInv, New
<1>6. \A u \in Participants \ {t} : Waiting(u)
  BY <1>2 DEF MeetInv, BarrierCounts
<1>7. \A u \in Participants : At(u) \in {"spin", "pass"} /\ ~New(u)
  BY <1>4, <1>5, <1>6, InsideIsNoticed DEF At, Waiting, Left, Away
<1>8. \A u \in Participants : ret[u] = ret[t] /\ node_n[u] = node_n[t]
  <2> SUFFICES ASSUME NEW u \in Participants PROVE ret[u] = ret[t] /\ node_n[u] = node_n[t]
    OBVIOUS
  <2>1. \A v \in {t, u} : \A k, r : Aim(v, k, r) <=> k = node_n[v] /\ r = ret[v]
    BY <1>4, <1>7 DEF Aim, Leads, Barrier, Left, Away
  <2>2. node_n[t] \in Nat /\ ret[t] \in Marks
    BY <1>1, <1>4, <1>5 DEF TypeOK, Marks
  <2>3. Aim(t, node_n[t], ret[t])
    BY <2>1
  <2>4. Aim(u, node_n[t], ret[t])
    BY <1>4, <2>2, <2>3 DEF MeetInv, Agreed, Marks
  <2> QED
    BY <2>1, <2>4
<1>9. ret[t] \in {"chunk", "step", "finish"}
  BY <1>1 DEF TypeOK
<1>10. \A u \in Participants : At(u)' = ret[t]
  <2> SUFFICES ASSUME NEW u \in Participants PROVE At(u)' = ret[t]
    OBVIOUS
  <2>1. CASE u = t
    BY <1>3, <1>9, <2>1 DEF At
  <2>2. CASE u # t
    <3>1. pc'[u] = "spin" /\ n_passed'[u] = n_barrier_passed
      BY <1>2, <1>3, <1>5, <1>6, <2>2 DEF Waiting
    <3>2. n_passed'[u] # n_barrier_passed'
      BY <1>1, <1>2, <3>1
    <3> QED
      BY <1>2, <1>8, <3>1, <3>2 DEF At
  <2> QED
    BY <2>1, <2>2
<1>11. \A u \in Threads \ Participants : At(u) \in Left /\ At(u)' = At(u)
  <2> SUFFICES ASSUME NEW u \in Threads, u \notin Participants PROVE At(u) \in Left /\ At(u)' = At(u)
    OBVIOUS
  <2>1. At(u) \in Left
    BY InsideIsNoticed
  <2>2. pc'[u] = pc[u] /\ n_passed[u] <= n_barrier_passed /\ n_passed[u] \in Nat
    BY <1>1, <1>3, <1>4 DEF MeetInv, BarrierCounts, TypeOK
  <2>3. pc[u] = "spin" => n_passed[u] # n_barrier_passed
    BY <2>1 DEF At, Left, Away
  <2> QED
    BY <1>1, <1>2, <2>1, <2>2, <2>3 DEF At
<1> QED
  BY <1>2, <1>3, <1>4, <1>5, <1>6, <1>7, <1>8, <1>10, <1>11

LEMMA MeetOpen ==
  ASSUME MeetInv, NEW t \in Threads, OpenBarrier(t)
  PROVE  MeetInv'
<1>1. TypeOK /\ TypeOK' /\ n_barrier_passed \in Nat
  BY TypeOfCompute DEF MeetInv, Compute, TypeOK
<1>2. UNCHANGED <<last_graph, node_n, n_passed, ret, n_graph, cgraph, graphs, n_barrier, abort>>
      /\ pc[t] = "pass" /\ n_barrier_passed' = n_barrier_passed + 1
  BY OpenTogether
<1>3. pc'[t] = ret[t] /\ \A u \in Threads \ {t} : pc'[u] = pc[u]
  BY OpenTogether
<1>4. t \in Participants /\ ~New(t) /\ At(t) = "pass"
  BY <1>2, OpenTogether DEF At
<1>5. Participants' = Participants /\ Participants \subseteq Threads /\ \A u : New(u)' = New(u)
  BY OpenTogether
<1>6. \A u \in Participants \ {t} : Waiting(u)
  BY OpenTogether
<1>7. \A u \in Participants : At(u) \in {"spin", "pass"} /\ ~New(u)
  BY OpenTogether
<1>8. \A u \in Participants : ret[u] = ret[t] /\ node_n[u] = node_n[t]
  BY OpenTogether
<1>9. ret[t] \in {"chunk", "step", "finish"}
  BY <1>1 DEF TypeOK
<1>10. \A u \in Participants : At(u)' = ret[t]
  BY OpenTogether
<1>11. \A u \in Threads \ Participants : At(u) \in Left /\ At(u)' = At(u)
  BY OpenTogether
<1>12. GraphNumbers'
  <2>1. pc'[0] \notin Away => n_graph[2] >= 1
    BY <1>1, <1>4, ParticipantsAreThreads DEF MeetInv, Participants
  <2> QED
    BY <1>2, <2>1 DEF MeetInv, GraphNumbers
<1>13. OutsidersLeft'
  <2>1. \A w \in Workers : w \notin Participants \/ New(w) => At(w)' \in Left
    BY <1>7, <1>11, ZeroIsThread
  <2>2. \A u \in Threads : pc'[u] \in Away \union {"wake", "start"} => node_n[u] = 0
    BY <1>3, <1>9 DEF MeetInv, OutsidersLeft, Away
  <2> QED
    BY <1>2, <1>5, <2>1, <2>2 DEF OutsidersLeft
<1>14. Agreed'
  <2>1. \A u \in Participants : \A k, r : Aim(u, k, r)' <=> Leads(ret[t], node_n[t], ret[t], k, r)'
    BY <1>2, <1>5, <1>7, <1>8, <1>10 DEF Aim
  <2> QED
    BY <1>5, <2>1 DEF Agreed
<1>15. AbortInTime'
  <2>1. 0 \in Participants
    BY <1>1, <1>4, ParticipantsAreThreads DEF MeetInv, Participants
  <2>2. At(0) \in Barrier \ (Left \union {"step", "head"}) /\ At(0)' = ret[0]
    BY <1>7, <1>8, <1>10, <2>1 DEF Barrier, Left, Away
  <2> QED
    BY <1>2, <2>2 DEF MeetInv, AbortInTime, Left
<1>16. BarrierCounts'
  <2>1. \A u \in Threads : n_passed'[u] <= n_barrier_passed /\ n_passed'[u] \in Nat
    BY <1>1, <1>2 DEF MeetInv, BarrierCounts, TypeOK
  <2>2. \A u \in Threads : pc'[u] \notin {"arrive", "reset", "pass"}
    <3> SUFFICES ASSUME NEW u \in Threads PROVE pc'[u] \notin {"arrive", "reset", "pass"}
      OBVIOUS
    <3>1. CASE u = t
      BY <1>3, <1>9, <3>1
    <3>2. CASE u # t /\ u \in Participants
      BY <1>3, <1>6, <3>2 DEF Waiting
    <3>3. CASE u # t /\ u \notin Participants
      BY <1>3, <1>11, <3>3 DEF At, Left, Away
    <3> QED
      BY <3>1, <3>2, <3>3
  <2>3. \A u \in Threads : n_passed'[u] # n_barrier_passed'
    BY <1>1, <1>2, <2>1
  <2>4. Counted' = {}
    BY <2>2, <2>3 DEF Counted, Waiting
  <2>5. n_barrier = 0
    BY <1>2 DEF MeetInv, BarrierCounts
  <2>6. \A u \in Threads : n_passed'[u] <= n_barrier_passed'
    BY <1>1, <1>2, <2>1
  <2> QED
    BY <1>2, <2>2, <2>4, <2>5, <2>6, FS_EmptySet DEF BarrierCounts
<1> QED
  BY <1>1, <1>12, <1>13, <1>14, <1>15, <1>16 DEF MeetInv

LEMMA MeetFinish ==
  ASSUME MeetInv, NEW t \in Threads, Finish(t)
  PROVE  MeetInv'
<1>1. TypeOK /\ TypeOK'
  BY TypeOfCompute DEF MeetInv, Compute
<1>2. UNCHANGED <<last_graph, n_passed, ret, n_graph, cgraph, graphs, n_barrier_passed, n_barrier, abort>>
      /\ pc[t] = "finish" /\ Goto(t, IF t = 0 THEN "idle" ELSE "loop") /\ node_n' = [node_n EXCEPT ![t] = 0]
  BY DEF Finish, flags, counters
<1>3. OnlyMoves(t)
  BY <1>1, <1>2, NoChange, MovesAlone
<1>4. pc'[t] = (IF t = 0 THEN "idle" ELSE "loop") /\ node_n'[t] = 0
  BY <1>1, <1>2 DEF Goto, TypeOK
<1>5. At(t) = "finish" /\ At(t)' \in {"idle", "loop"} /\ pc'[t] \in Away /\ New(t)' = New(t)
  BY <1>2, <1>4 DEF At, Away, New
<1>6. GraphNumbers'
  BY <1>2, <1>3, <1>5, NumbersFrame DEF MeetInv
<1>7. OutsidersLeft'
  BY <1>3, <1>4, <1>5, OutsidersFrame DEF MeetInv, Left, Away
<1>8. Agreed'
  <2>1. \A i, k, r : LoopFrom(i, k, r)' <=> LoopFrom(i, k, r)
    BY <1>2, LoopSame
  <2>2. \A a \in {"finish", "idle", "loop"} : \A i, l, k, r : (Leads(a, i, l, k, r) <=> r = "done") /\ (Leads(a, i, l, k, r)' <=> r = "done")
    BY DEF Leads, Barrier, Left, Away
  <2>3. CASE New(t)
    <3>1. \A k, r : Aim(t, k, r)' <=> Aim(t, k, r)
      BY <1>5, <2>1, <2>3 DEF Aim
    <3> QED
      BY <1>1, <1>2, <1>3, <3>1, AgreedFrame DEF MeetInv
  <2>4. CASE ~New(t)
    <3>1. \A k, r : Aim(t, k, r) <=> r = "done"
      BY <1>5, <2>2, <2>4 DEF Aim
    <3>2. \A k, r : Aim(t, k, r)' <=> r = "done"
      BY <1>5, <2>2, <2>4 DEF Aim
    <3> QED
      BY <1>1, <1>2, <1>3, <3>1, <3>2, AgreedFrame DEF MeetInv
  <2> QED
    BY <2>3, <2>4
<1>9. AbortInTime'
  <2>1. t = 0 => AbortInTime'
    BY <1>5 DEF AbortInTime, Left, Away
  <2> QED
    BY <1>2, <1>3, <2>1, AbortFrame DEF MeetInv
<1>10. BarrierCounts'
  <2>1. ~Waiting(t) /\ ~Waiting(t)' /\ n_passed[t] <= n_barrier_passed
    BY <1>2, <1>4 DEF Waiting, MeetInv, BarrierCounts
  <2> QED
    BY <1>1, <1>2, <1>3, <1>4, <2>1, BarrierFrame DEF MeetInv
<1> QED
  BY <1>1, <1>6, <1>7, <1>8, <1>9, <1>10 DEF MeetInv

----------------------------------------------------------------------------

LEMMA MeetInit ==
  ASSUME Init
  PROVE  MeetInv
<1>1. TypeOK
  BY TypeInit
<1>2. Participants = {}
  BY DEF Init, Participants
<1>3. \A t \in Threads : pc[t] \in Away /\ At(t) \in Left
  BY DEF Init, At, Left, Away
<1>4. GraphNumbers
  BY <1>3, ZeroIsThread, BoundsAssumption DEF Init, GraphNumbers, Away
<1>5. OutsidersLeft
  BY <1>3, ZeroIsThread DEF Init, OutsidersLeft
<1>6. BarrierCounts
  <2>1. Counted = {}
    BY <1>3 DEF Counted, Waiting, Away
  <2> QED
    BY <1>3, <2>1, FS_EmptySet DEF Init, BarrierCounts, Away
<1>7. Agreed /\ AbortInTime
  BY <1>2 DEF Init, Agreed, AbortInTime
<1> QED
  BY <1>1, <1>4, <1>5, <1>6, <1>7 DEF MeetInv

LEMMA MeetNext ==
  ASSUME MeetInv, [Next]_vars
  PROVE  MeetInv'
<1>1. CASE UNCHANGED vars
  <2>1. TypeOK'
    BY <1>1 DEF MeetInv, TypeOK, vars, locals, flags, counters
  <2>2. UNCHANGED <<locals, counters, n_graph, cgraph, graphs, abort, pc>>
    BY <1>1 DEF vars, flags
  <2> QED
    BY <2>1, <2>2, MeetShuffle
<1>2. CASE (\E p \in Plans : GraphCompute(p)) \/ KickoffWake \/ Pause \/ Resume \/ FreeStop \/ FreeJoin
  BY <1>2, MeetOfOwner
<1>3. CASE \E w \in Workers : Search(w) \/ SpuriousWake(w)
  BY <1>3, MeetOfSearch
<1>4. ASSUME NEW t \in Threads, Compute(t) PROVE MeetInv'
  <2>1. CASE NodeDone(t)
    <3>1. abort' = abort \/ (t = 0 /\ abort' = node_n[0] + 1)
      BY <2>1 DEF NodeDone
    <3> QED
      BY <2>1, <3>1, MeetNodeDone, MeetAbort
  <2> QED
    BY <1>4, <2>1, MeetStart, MeetNextNode, MeetCompute, MeetPack, MeetStep, MeetReadPassed,
       MeetArrive, MeetReset, MeetOpen, MeetSpin, MeetFinish DEF Compute
<1> QED
  BY <1>1, <1>2, <1>3, <1>4 DEF Next

THEOREM ThreadsMeet == Spec => []MeetInv
BY MeetInit, MeetNext, PTL DEF Spec

(* Whenever the caller may start the next graph no worker reads the last   *)
(* one, with any number of threads and whatever each graph asks for.       *)
THEOREM PoolIsQuiet == Spec => []QuietBetweenGraphs
<1>1. MeetInv => QuietBetweenGraphs
  <2> SUFFICES ASSUME MeetInv, pc[0] \in {"idle", "join", "freed"}, NEW w \in Workers
               PROVE  pc[w] \notin Busy \union {"start"}
    BY DEF QuietBetweenGraphs
  <2>1. At(0) \in Left
    BY DEF At, Left, Away
  <2>2. At(w) \in Left
    BY <2>1, AllLeft, ZeroIsThread
  <2> QED
    BY <2>2 DEF At, Left, Away, Busy
<1> QED
  BY <1>1, ThreadsMeet, PTL

----------------------------------------------------------------------------
(* The parts of the nodes *)

(* Where the graph ends for a thread that has left it.                     *)
End == IF abort = NoAbort THEN NNodes ELSE abort

(* The thread has done its share of node j, or is taking chunks of it.     *)
Passed(t, j) ==
  /\ ~New(t)
  /\ IF At(t) \in Left THEN j < End
     ELSE \/ j < node_n[t]
          \/ j = node_n[t] /\ (At(t) \in {"computed", "step"} \/ (At(t) \in Barrier /\ ret[t] = "step"))
InChunk(t, j) == At(t) = "chunk" /\ node_n[t] = j
Opened(t, j) == Passed(t, j) \/ InChunk(t, j)

Once(parts) == [c \in parts |-> 1]

(* The chunks handed out that nobody is computing.                         *)
DealtChunks(j) ==
  {c \in 0 .. NChunk(j, n_graph[2]) - 1 :
     c < current_chunk /\ \A t \in Participants : InChunk(t, j) => current[t] # c}

(* No two threads hold the same chunk, and who has found none left has     *)
(* seen the counter behind the last one.                                   *)
Dealt(j) ==
  /\ times[j] = Once(DealtChunks(j))
  /\ n_graph[2] <= current_chunk
  /\ \A t \in Participants : InChunk(t, j) => current[t] < current_chunk
  /\ \A t, u \in Participants : InChunk(t, j) /\ InChunk(u, j) /\ t # u => current[t] # current[u]
  /\ (\E t \in Participants : Passed(t, j)) => NChunk(j, n_graph[2]) <= current_chunk

NodeState(j) ==
  /\ Node(j).op = "none" => times[j] = <<>>
  /\ Node(j).op = "rows" => times[j] = Once({t \in Participants : Passed(t, j)})
  /\ Node(j).op = "mul_mat" =>
       /\ (\A t \in Participants : ~Opened(t, j)) => times[j] = <<>>
       /\ (\A t \in Participants : Passed(t, j)) => Complete(j)
       /\ (\E t \in Participants : InChunk(t, j)) => Dealt(j)

PartTypes ==
  /\ nth \in [Threads -> Nat] /\ current \in [Threads -> Nat] /\ wdata \in [Threads -> Nat]
  /\ current_chunk \in Nat
  /\ times = [j \in 0 .. NNodes - 1 |-> times[j]]
  /\ ec = "ABORTED" <=> abort # NoAbort

(* What a thread knows of the node it is at.                               *)
Knows(t) ==
  /\ At(t) \in Busy \ {"head"} \/ (At(t) \in Barrier /\ ret[t] # "finish") => node_n[t] < NNodes
  /\ At(t) \in {"head"} \union Barrier => node_n[t] <= NNodes
  /\ At(t) \in Busy \union Barrier => nth[t] = n_graph[2]
  /\ At(t) = "rows" => Node(node_n[t]).op = "rows"
  /\ At(t) \in {"pack", "chunk"} \/ (At(t) \in Barrier /\ ret[t] = "chunk") => Node(node_n[t]).op = "mul_mat"

(* A thread that waits to multiply has packed its share and holds the      *)
(* chunk of its own number; thread 0 has set the counter.                  *)
HasPacked(t) ==
  At(t) \in Barrier /\ ret[t] = "chunk" =>
    current[t] = t /\ wdata[t] = node_n[t] /\ (t = 0 => current_chunk = n_graph[2])

AllPacked == \A t, u \in Participants : At(t) = "chunk" => wdata[u] = node_n[t]

EndsHere == At(0) \in Barrier /\ ret[0] = "finish" => node_n[0] = End

PartsInv ==
  /\ PartTypes
  /\ \A t \in Threads : Knows(t) /\ HasPacked(t)
  /\ AllPacked /\ EndsHere
  /\ \A j \in 0 .. NNodes - 1 : NodeState(j)

----------------------------------------------------------------------------
(* Who is ahead of whom. *)

LEMMA LeastNatural ==
  ASSUME NEW T \in SUBSET Nat, T # {}
  PROVE  \E m \in T : \A k \in T : m <= k
<1>1. PICK m \in T : \A k \in T : ~(<<k, m>> \in OpToRel(<, Nat))
  BY NatLessThanWellFounded, WFMin
<1>2. \A k \in T : ~(k < m)
  BY <1>1 DEF OpToRel
<1> QED
  BY <1>2

(* From every node there is a next barrier.                                *)
LEMMA LoopExists ==
  ASSUME TypeOK, NEW i \in Nat
  PROVE  \E k \in Nat, r \in Marks : LoopFrom(i, k, r)
<1> DEFINE Stops == {k \in Nat : i <= k /\ ~Skipped(k)}
<1>1. NNodes \in Nat
  BY NodesType
<1>2. (IF i < NNodes THEN NNodes ELSE i) \in Stops
  BY <1>1 DEF Skipped
<1>3. PICK k \in Stops : \A j \in Stops : k <= j
  BY <1>2, LeastNatural
<1>4. \A j \in i .. k - 1 : Skipped(j)
  BY <1>3
<1>5. \E r \in Marks : MeetAt(k, r)
  <2>1. CASE k < NNodes /\ k # abort
    <3>1. Node(k).op = "mul_mat" \/ (Node(k).op = "rows" /\ k + 1 # NNodes)
      BY <1>1, <1>3, <2>1, NodesType DEF Skipped
    <3> QED
      BY <1>1, <1>3, <2>1, <3>1 DEF MeetAt, Marks
  <2>2. CASE ~(k < NNodes /\ k # abort)
    BY <2>2 DEF MeetAt, Marks
  <2> QED
    BY <2>1, <2>2
<1> QED
  BY <1>3, <1>4, <1>5 DEF LoopFrom

LEMMA LoopMarks ==
  ASSUME NEW i, NEW k, NEW r, LoopFrom(i, k, r)
  PROVE  r \in {"chunk", "step", "finish"} /\ i <= k
BY DEF LoopFrom, MeetAt

(* A thread that is inside the graph has a next barrier, at its node or    *)
(* behind it; behind it, if it has done its share of the node.             *)
LEMMA InsideAim ==
  ASSUME MeetInv, NEW t \in Threads, At(t) \notin Left
  PROVE  \E k \in Nat, r \in Marks :
           /\ Aim(t, k, r) /\ node_n[t] <= k /\ r # "done"
           /\ At(t) \in {"chunk", "computed", "step"} \/ (At(t) \in Barrier /\ ret[t] = "step")
                => node_n[t] < k \/ r = "step"
<1>1. ~New(t) /\ node_n[t] \in Nat /\ ret[t] \in {"chunk", "step", "finish"} /\ NNodes \in Nat /\ TypeOK
  BY InsideIsNoticed, NodesType DEF MeetInv, TypeOK
<1>2. \A k, r : Aim(t, k, r) <=> Leads(At(t), node_n[t], ret[t], k, r)
  BY <1>1 DEF Aim
<1>3. CASE At(t) \in {"wake", "start", "head"}
  <2>1. PICK k \in Nat, r \in Marks : LoopFrom(node_n[t], k, r)
    BY <1>1, LoopExists
  <2>2. Aim(t, k, r)
    BY <1>2, <1>3, <2>1 DEF Leads
  <2>3. At(t) \notin {"chunk", "computed", "step"} \union Barrier
    BY <1>3 DEF Barrier
  <2> QED
    BY <2>1, <2>2, <2>3, LoopMarks
<1>4. CASE At(t) \in {"rows", "chunk", "computed"}
  <2>1. CASE node_n[t] + 1 < NNodes
    <3>1. Aim(t, node_n[t], "step")
      BY <1>2, <1>4, <2>1 DEF Leads, AfterNode
    <3> QED
      BY <1>1, <3>1 DEF Marks
  <2>2. CASE ~(node_n[t] + 1 < NNodes)
    <3>1. PICK k \in Nat, r \in Marks : LoopFrom(node_n[t] + 1, k, r)
      BY <1>1, LoopExists
    <3>2. Aim(t, k, r)
      BY <1>2, <1>4, <2>2, <3>1 DEF Leads, AfterNode
    <3> QED
      BY <1>1, <3>1, <3>2, LoopMarks
  <2> QED
    BY <2>1, <2>2
<1>5. CASE At(t) = "pack"
  <2>1. Aim(t, node_n[t], "chunk")
    BY <1>2, <1>5 DEF Leads
  <2> QED
    BY <1>1, <1>5, <2>1 DEF Marks, Barrier
<1>6. CASE At(t) = "step"
  <2>1. PICK k \in Nat, r \in Marks : LoopFrom(node_n[t] + 1, k, r)
    BY <1>1, LoopExists
  <2>2. Aim(t, k, r)
    BY <1>2, <1>6, <2>1 DEF Leads
  <2> QED
    BY <1>1, <2>1, <2>2, LoopMarks
<1>7. CASE At(t) \in Barrier
  <2>1. Aim(t, node_n[t], ret[t])
    BY <1>2, <1>7 DEF Leads
  <2>2. At(t) \notin {"chunk", "computed", "step"}
    BY <1>7 DEF Barrier
  <2> QED
    BY <1>1, <2>1, <2>2 DEF Marks
<1> QED
  <2>1. At(t) \in Left \union Barrier \union Busy \union {"wake", "start"}
    BY <1>1 DEF MeetInv, TypeOK, At, Busy, Left, Barrier
  <2> QED
    BY <1>3, <1>4, <1>5, <1>6, <1>7, <2>1 DEF Busy

(* A thread that has not done its share of a node stays in front of it:    *)
(* it meets the others there or before, unless the graph ends before.      *)
LEMMA NotPassedAim ==
  ASSUME MeetInv, NEW u \in Participants, NEW j \in Nat, j + 1 < NNodes, Node(j).op = "rows", ~Passed(u, j),
         NEW k \in Nat, NEW r, Aim(u, k, r), r # "done"
  PROVE  k <= j
<1>1. u \in Threads /\ node_n[u] \in Nat /\ NNodes \in Nat
  BY ParticipantsAreThreads, NodesType DEF MeetInv, TypeOK
<1>2. ~Skipped(j)
  BY <1>1 DEF Skipped
<1>3. \A i \in Nat : i <= j /\ LoopFrom(i, k, r) => k <= j
  <2> SUFFICES ASSUME NEW i \in Nat, i <= j, LoopFrom(i, k, r), ~(k <= j) PROVE FALSE
    OBVIOUS
  <2>1. j \in i .. k - 1
    OBVIOUS
  <2> QED
    BY <1>2, <2>1 DEF LoopFrom
<1>4. CASE New(u)
  BY <1>3, <1>4 DEF Aim
<1>5. CASE ~New(u)
  <2>1. Leads(At(u), node_n[u], ret[u], k, r)
    BY <1>5 DEF Aim
  <2>2. CASE At(u) \in Left
    BY <2>1, <2>2 DEF Leads, Left, Away, Barrier
  <2>3. CASE At(u) \notin Left
    <3>1. ~(node_n[u] < j) => node_n[u] = j /\ At(u) \notin {"computed", "step"}
      BY <1>1, <1>5, <2>3 DEF Passed
    <3>2. node_n[u] <= j
      BY <1>1, <3>1
    <3>3. AfterNode(node_n[u], k, r) => k <= j
      BY <1>1, <3>2 DEF AfterNode
    <3>4. At(u) = "step" => node_n[u] + 1 <= j
      BY <1>1, <3>1, <3>2
    <3> QED
      BY <1>1, <1>3, <2>1, <2>3, <3>2, <3>3, <3>4 DEF Leads
  <2> QED
    BY <2>2, <2>3
<1> QED
  BY <1>4, <1>5

LEMMA NotOpenedAim ==
  ASSUME MeetInv, NEW u \in Participants, Knows(u), NEW j \in Nat, j < NNodes, Node(j).op = "mul_mat", ~Opened(u, j),
         NEW k \in Nat, NEW r, Aim(u, k, r), r # "done"
  PROVE  k < j \/ (k = j /\ r # "step")
<1>1. u \in Threads /\ node_n[u] \in Nat /\ NNodes \in Nat
  BY ParticipantsAreThreads, NodesType DEF MeetInv, TypeOK
<1>2. ~Skipped(j) /\ ~MeetAt(j, "step")
  BY DEF Skipped, MeetAt
<1>3. \A i \in Nat : i <= j /\ LoopFrom(i, k, r) => k < j \/ (k = j /\ r # "step")
  <2> SUFFICES ASSUME NEW i \in Nat, i <= j, LoopFrom(i, k, r) PROVE k < j \/ (k = j /\ r # "step")
    OBVIOUS
  <2>1. ~(j < k)
    <3>1. j < k => j \in i .. k - 1
      OBVIOUS
    <3> QED
      BY <1>2, <3>1 DEF LoopFrom
  <2>2. k = j => r # "step"
    BY <1>2 DEF LoopFrom
  <2> QED
    BY <2>1, <2>2
<1>4. CASE New(u)
  BY <1>3, <1>4 DEF Aim
<1>5. CASE ~New(u)
  <2>1. Leads(At(u), node_n[u], ret[u], k, r)
    BY <1>5 DEF Aim
  <2>2. CASE At(u) \in Left
    BY <2>1, <2>2 DEF Leads, Left, Away, Barrier
  <2>3. CASE At(u) \notin Left
    <3>1. ~(node_n[u] < j) => /\ node_n[u] = j /\ At(u) \notin {"computed", "step", "chunk"}
                              /\ At(u) \in Barrier => ret[u] # "step"
      BY <1>1, <1>5, <2>3 DEF Opened, Passed, InChunk
    <3>2. At(u) = "rows" => node_n[u] # j
      BY DEF Knows
    <3>3. node_n[u] <= j
      BY <1>1, <3>1
    <3>4. At(u) \in {"rows", "chunk", "computed", "step"} => node_n[u] < j
      BY <3>1, <3>2
    <3>5. At(u) \in {"rows", "chunk", "computed"} /\ AfterNode(node_n[u], k, r) => k < j
      BY <1>1, <3>4 DEF AfterNode
    <3>6. At(u) = "step" => node_n[u] + 1 <= j
      BY <1>1, <3>4
    <3>7. CASE At(u) \in Barrier
      <4>1. k = node_n[u] /\ r = ret[u]
        BY <2>1, <3>7 DEF Leads, Barrier, Left, Away
      <4> QED
        BY <1>1, <3>1, <3>3, <3>7, <4>1
    <3>8. CASE At(u) = "pack"
      <4>1. k = node_n[u] /\ r = "chunk"
        BY <2>1, <3>8 DEF Leads, Barrier, Left, Away
      <4> QED
        BY <1>1, <3>3, <4>1
    <3> QED
      BY <1>1, <1>3, <2>1, <2>3, <3>3, <3>5, <3>6, <3>7, <3>8 DEF Leads
  <2> QED
    BY <2>2, <2>3
<1> QED
  BY <1>4, <1>5

(* The rows of the nodes in front of a thread are done, by everybody.      *)
LEMMA RowsInFront ==
  ASSUME MeetInv, NEW t \in Threads, At(t) \notin Left, NEW u \in Participants,
         NEW j \in Nat, j < node_n[t], j + 1 < NNodes, Node(j).op = "rows"
  PROVE  Passed(u, j)
<1>1. PICK k \in Nat, r \in Marks : Aim(t, k, r) /\ node_n[t] <= k /\ r # "done"
  BY InsideAim
<1>2. t \in Participants /\ node_n[t] \in Nat
  BY InsideIsNoticed DEF MeetInv, TypeOK
<1>3. Aim(u, k, r)
  BY <1>1, <1>2 DEF MeetInv, Agreed, Marks
<1>4. ~(k <= j)
  BY <1>1, <1>2
<1> QED
  BY <1>1, <1>3, <1>4, NotPassedAim

(* Once a thread is behind the barrier of a product, all of them are.      *)
LEMMA OpenedByAll ==
  ASSUME MeetInv, NEW t \in Threads, At(t) \notin Left, NEW u \in Participants, Knows(u),
         NEW j \in Nat, j < NNodes, Node(j).op = "mul_mat", Opened(t, j)
  PROVE  Opened(u, j)
<1>1. t \in Participants /\ ~New(t) /\ node_n[t] \in Nat
  BY InsideIsNoticed DEF MeetInv, TypeOK
<1>2. PICK k \in Nat, r \in Marks :
        /\ Aim(t, k, r) /\ node_n[t] <= k /\ r # "done"
        /\ At(t) \in {"chunk", "computed", "step"} \/ (At(t) \in Barrier /\ ret[t] = "step")
             => node_n[t] < k \/ r = "step"
  BY InsideAim
<1>3. j < k \/ (j = k /\ r = "step")
  BY <1>1, <1>2 DEF Opened, Passed, InChunk
<1>4. Aim(u, k, r)
  BY <1>1, <1>2 DEF MeetInv, Agreed, Marks
<1>5. ~(k < j \/ (k = j /\ r # "step"))
  BY <1>3
<1> QED
  BY <1>2, <1>4, <1>5, NotOpenedAim

(* A thread that takes chunks of a node meets the others behind it.        *)
LEMMA ChunkAim ==
  ASSUME MeetInv, NEW u \in Threads, At(u) = "chunk", NEW k, NEW r
  PROVE  Aim(u, k, r) <=> AfterNode(node_n[u], k, r)
<1>1. ~New(u)
  BY InsideIsNoticed DEF Left, Away
<1> QED
  BY <1>1 DEF Aim, Leads, Barrier, Left, Away

(* While a thread takes chunks nobody is on the way to another product.    *)
LEMMA NobodyInChunk ==
  ASSUME MeetInv, NEW t \in Participants, NEW k \in Nat, k < NNodes, Aim(t, k, "chunk"), NEW u \in Participants
  PROVE  At(u) # "chunk"
<1> SUFFICES ASSUME At(u) = "chunk" PROVE FALSE
  OBVIOUS
<1>1. u \in Threads /\ node_n[u] \in Nat /\ NNodes \in Nat
  BY ParticipantsAreThreads, NodesType DEF MeetInv, TypeOK
<1>2. Aim(u, k, "chunk")
  BY DEF MeetInv, Agreed
<1>3. AfterNode(node_n[u], k, "chunk")
  BY <1>1, <1>2, ChunkAim
<1> QED
  BY <1>1, <1>3 DEF AfterNode, LoopFrom

(* ... and nobody is at a later node.                                      *)
LEMMA ChunkIsLast ==
  ASSUME MeetInv, NEW t \in Threads, At(t) \notin Left, NEW u \in Participants, At(u) = "chunk", node_n[u] + 1 < NNodes
  PROVE  node_n[t] <= node_n[u]
<1>1. u \in Threads /\ node_n[u] \in Nat /\ node_n[t] \in Nat /\ t \in Participants
  BY ParticipantsAreThreads, InsideIsNoticed DEF MeetInv, TypeOK
<1>2. PICK k \in Nat, r \in Marks : Aim(t, k, r) /\ node_n[t] <= k /\ r # "done"
  BY InsideAim
<1>3. Aim(u, k, r)
  BY <1>1, <1>2 DEF MeetInv, Agreed, Marks
<1>4. k = node_n[u]
  BY <1>1, <1>3, ChunkAim DEF AfterNode
<1> QED
  BY <1>1, <1>2, <1>4

----------------------------------------------------------------------------
(* The properties *)

LEMMA CompleteRows ==
  ASSUME NEW j \in Nat, Node(j).op = "rows", times[j] = Once({t \in Participants : Passed(t, j)}),
         \A t \in Participants : Passed(t, j)
  PROVE  Complete(j)
<1>1. {t \in Participants : Passed(t, j)} = 0 .. n_graph[2] - 1
  BY DEF Participants
<1> QED
  BY <1>1 DEF Complete, Once, NChunk

LEMMA InvImpliesPartsInOrder ==
  ASSUME MeetInv, PartsInv
  PROVE  PartsInOrder
<1> SUFFICES ASSUME NEW t \in Threads
             PROVE  /\ pc[t] \in {"rows", "pack", "chunk"} => \A i \in 0 .. node_n[t] - 1 : Complete(i)
                    /\ pc[t] = "chunk" => \A u \in 0 .. nth[t] - 1 : wdata[u] = node_n[t]
  BY DEF PartsInOrder
<1>1. NNodes \in Nat /\ node_n[t] \in Nat /\ Participants \subseteq Threads
  BY NodesType, ParticipantsAreThreads DEF MeetInv, TypeOK
<1>2. ASSUME pc[t] \in {"rows", "pack", "chunk"}, NEW i \in 0 .. node_n[t] - 1 PROVE Complete(i)
  <2>1. At(t) = pc[t] /\ At(t) \notin Left
    BY <1>2 DEF At, Left, Away
  <2>2. i \in Nat /\ i < node_n[t] /\ node_n[t] < NNodes /\ i + 1 < NNodes /\ i \in 0 .. NNodes - 1
    <3>1. node_n[t] < NNodes
      BY <1>2, <2>1 DEF PartsInv, Knows, Busy
    <3> QED
      BY <1>1, <3>1
  <2>3. NodeState(i)
    BY <2>2 DEF PartsInv
  <2>4. CASE Node(i).op = "none"
    BY <2>4 DEF Complete
  <2>5. CASE Node(i).op = "rows"
    <3>1. \A u \in Participants : Passed(u, i)
      BY <2>1, <2>2, <2>5, RowsInFront
    <3> QED
      BY <2>2, <2>3, <2>5, <3>1, CompleteRows DEF NodeState
  <2>6. CASE Node(i).op = "mul_mat"
    <3>1. Opened(t, i)
      BY <2>1, <2>2, InsideIsNoticed DEF Opened, Passed
    <3>2. ASSUME NEW u \in Participants PROVE Passed(u, i)
      <4>1. Opened(u, i)
        BY <1>1, <2>1, <2>2, <2>6, <3>1, OpenedByAll DEF PartsInv
      <4>2. ~InChunk(u, i)
        BY <1>1, <2>1, <2>2, ChunkIsLast DEF InChunk
      <4> QED
        BY <4>1, <4>2 DEF Opened
    <3> QED
      BY <2>3, <2>6, <3>2 DEF NodeState
  <2> QED
    BY <2>2, <2>4, <2>5, <2>6, NodesType DEF MeetInv
<1>3. ASSUME pc[t] = "chunk", NEW u \in 0 .. nth[t] - 1 PROVE wdata[u] = node_n[t]
  <2>1. At(t) = "chunk" /\ At(t) \notin Left
    BY <1>3 DEF At, Left, Away
  <2>2. nth[t] = n_graph[2]
    BY <2>1 DEF PartsInv, Knows, Busy
  <2>3. t \in Participants /\ u \in Participants
    BY <1>3, <2>1, <2>2, InsideIsNoticed DEF Participants
  <2> QED
    BY <2>1, <2>3 DEF PartsInv, AllPacked
<1> QED
  BY <1>2, <1>3

LEMMA InvImpliesResult ==
  ASSUME MeetInv, PartsInv
  PROVE  ResultIsWholeNodes
<1> SUFFICES ASSUME pc[0] = "idle", graphs > 0, NEW i \in 0 .. NNodes - 1
             PROVE  IF i < (IF ec = "ABORTED" THEN abort ELSE NNodes) THEN Complete(i) ELSE times[i] = <<>>
  BY DEF ResultIsWholeNodes
<1>1. NNodes \in Nat /\ i \in Nat /\ i < NNodes
  BY NodesType DEF MeetInv
<1>2. (IF ec = "ABORTED" THEN abort ELSE NNodes) = End
  BY DEF PartsInv, PartTypes, End
<1>3. At(0) \in Left
  BY DEF At, Left, Away
<1>4. \A t \in Participants : At(t) \in Left /\ ~New(t)
  BY <1>3, AllLeft, ParticipantsAreThreads DEF MeetInv
<1>5. \A t \in Participants : (Passed(t, i) <=> i < End) /\ ~InChunk(t, i)
  BY <1>4 DEF Passed, InChunk, Left, Away
<1>6. NodeState(i)
  BY DEF PartsInv
<1>7. CASE i < End
  <2>1. Complete(i)
    BY <1>1, <1>5, <1>6, <1>7, CompleteRows, NodesType DEF MeetInv, NodeState, Complete
  <2> QED
    BY <1>2, <1>7, <2>1
<1>8. CASE ~(i < End)
  <2>1. {t \in Participants : Passed(t, i)} = {}
    BY <1>5, <1>8
  <2>2. Once({}) = <<>>
    BY DEF Once
  <2>3. \A t \in Participants : ~Opened(t, i)
    BY <1>5, <1>8 DEF Opened
  <2>4. times[i] = <<>>
    BY <1>1, <1>6, <2>1, <2>2, <2>3, NodesType DEF MeetInv, NodeState
  <2> QED
    BY <1>2, <1>8, <2>4
<1> QED
  BY <1>7, <1>8

----------------------------------------------------------------------------
(* Types of the parts *)

LEMMA PartTypesOfOthers ==
  ASSUME MeetInv, PartTypes,
         \/ \E p \in Plans : GraphCompute(p)
         \/ KickoffWake \/ Pause \/ Resume \/ FreeStop \/ FreeJoin
         \/ \E w \in Workers : Search(w) \/ SpuriousWake(w)
         \/ UNCHANGED vars
  PROVE  PartTypes'
<1>1. CASE \E p \in Plans : GraphCompute(p)
  <2>1. PICK p \in Plans : GraphCompute(p)
    BY <1>1
  <2>2. p.cgraph \in Seq(Nodes) /\ Len(p.cgraph) \in Nat
    BY PlansAssumption DEF Nodes
  <2>3. cgraph' = p.cgraph /\ nth' = nth /\ current' = current /\ current_chunk' = 0
        /\ abort' = NoAbort /\ ec' = "SUCCESS"
    BY <2>1 DEF GraphCompute, locals
  <2>4. wdata' \in [Threads -> Nat]
    BY <2>1, <2>2 DEF GraphCompute
  <2>5. times' = [i \in 0 .. Len(p.cgraph) - 1 |-> [c \in {} |-> 0]]
    BY <2>1 DEF GraphCompute
  <2>6. times' = [j \in 0 .. NNodes' - 1 |-> times'[j]]
    BY <2>3, <2>5 DEF NNodes
  <2> QED
    BY <2>3, <2>4, <2>6 DEF PartTypes
<1>2. CASE ~\E p \in Plans : GraphCompute(p)
  <2>1. UNCHANGED <<nth, current, wdata, current_chunk, times, ec, abort, cgraph>>
    BY <1>2 DEF KickoffWake, Pause, Resume, FreeStop, FreeJoin, Search, LookAtPause, SleepPaused, LookAtStop,
                Poll, CheckForWork, SpuriousWake, vars, locals, counters, work, flags
  <2> QED
    BY <2>1 DEF PartTypes, NNodes
<1> QED
  BY <1>1, <1>2

LEMMA ComputedType ==
  ASSUME NEW m, times = [j \in 0 .. m |-> times[j]], NEW i, NEW c, Computed(i, c)
  PROVE  times' = [j \in 0 .. m |-> times'[j]]
<1>1. DOMAIN times' = 0 .. m
  BY DEF Computed
<1>2. times' = [j \in DOMAIN times' |-> times'[j]]
  BY DEF Computed
<1> QED
  BY <1>1, <1>2

LEMMA PartTypesOfCompute ==
  ASSUME MeetInv, PartTypes, NEW t \in Threads, Compute(t)
  PROVE  PartTypes'
<1>1. cgraph' = cgraph /\ NNodes' = NNodes
  BY DEF Compute, Start, NextNode, ComputeRows, Pack, ComputeChunk, NoChunkLeft, NodeDone, Step, Finish,
         ReadPassed, Arrive, ResetBarrier, OpenBarrier, Spin, flags, NNodes
<1>2. times' = times \/ \E i, c : Computed(i, c)
  BY DEF Compute, Start, NextNode, ComputeRows, Pack, ComputeChunk, NoChunkLeft, NodeDone, Step, Finish,
         ReadPassed, Arrive, ResetBarrier, OpenBarrier, Spin, work
<1>3. times' = [j \in 0 .. NNodes' - 1 |-> times'[j]]
  BY <1>1, <1>2, ComputedType DEF PartTypes
<1>4. (ec = "ABORTED" <=> abort # NoAbort)'
  <2>1. UNCHANGED <<ec, abort>> \/ (ec' = "ABORTED" /\ abort' = node_n[0] + 1)
    BY DEF Compute, Start, NextNode, ComputeRows, Pack, ComputeChunk, NoChunkLeft, NodeDone, Step, Finish,
           ReadPassed, Arrive, ResetBarrier, OpenBarrier, Spin, flags
  <2>2. node_n[0] + 1 # NoAbort
    BY ZeroIsThread DEF MeetInv, TypeOK, NoAbort
  <2> QED
    BY <2>1, <2>2 DEF PartTypes
<1>5. nth' \in [Threads -> Nat]
  <2>1. nth' = nth \/ nth' = [nth EXCEPT ![t] = n_graph[2]]
    BY DEF Compute, Start, NextNode, ComputeRows, Pack, ComputeChunk, NoChunkLeft, NodeDone, Step, Finish,
           ReadPassed, Arrive, ResetBarrier, OpenBarrier, Spin, locals
  <2> QED
    BY <2>1 DEF PartTypes, MeetInv, TypeOK
<1>6. current' \in [Threads -> Nat] /\ current_chunk' \in Nat
  <2>1. \/ UNCHANGED current
        \/ current' = [current EXCEPT ![t] = t]
        \/ current' = [current EXCEPT ![t] = current_chunk]
        \/ current' = [current EXCEPT ![t] = 0]
    BY DEF Compute, Start, NextNode, ComputeRows, Pack, ComputeChunk, NoChunkLeft, NodeDone, Step, Finish,
           ReadPassed, Arrive, ResetBarrier, OpenBarrier, Spin, locals
  <2>2. current_chunk' \in {current_chunk, nth[t], current_chunk + 1}
    BY DEF Compute, Start, NextNode, ComputeRows, Pack, ComputeChunk, NoChunkLeft, NodeDone, Step, Finish,
           ReadPassed, Arrive, ResetBarrier, OpenBarrier, Spin, counters
  <2>3. t \in Nat /\ nth[t] \in Nat /\ current_chunk \in Nat /\ current \in [Threads -> Nat]
    BY ZeroIsThread DEF PartTypes
  <2>4. current' \in [Threads -> Nat]
    BY <2>1, <2>3
  <2> QED
    BY <2>2, <2>3, <2>4
<1>7. wdata' \in [Threads -> Nat]
  <2>1. wdata' = wdata \/ wdata' = [wdata EXCEPT ![t] = node_n[t]]
    BY DEF Compute, Start, NextNode, ComputeRows, Pack, ComputeChunk, NoChunkLeft, NodeDone, Step, Finish,
           ReadPassed, Arrive, ResetBarrier, OpenBarrier, Spin, work
  <2> QED
    BY <2>1 DEF PartTypes, MeetInv, TypeOK
<1> QED
  BY <1>3, <1>4, <1>5, <1>6, <1>7 DEF PartTypes

----------------------------------------------------------------------------
(* A step that computes nothing. *)

OthersKeep(t) ==
  \A u \in Threads \ {t} : nth'[u] = nth[u] /\ current'[u] = current[u] /\ wdata'[u] = wdata[u]

LEMMA NodeFrame ==
  ASSUME MeetInv, NEW j \in 0 .. NNodes - 1, NodeState(j), times'[j] = times[j], UNCHANGED <<cgraph, n_graph>>,
         \A u \in Participants :
           Node(j).op # "none" => (Passed(u, j)' <=> Passed(u, j)) /\ (InChunk(u, j)' <=> InChunk(u, j)),
         \A u \in Participants : InChunk(u, j) => current'[u] = current[u] /\ current_chunk' = current_chunk
  PROVE  NodeState(j)'
<1>1. Participants' = Participants /\ Node(j)' = Node(j) /\ \A n : NChunk(j, n)' = NChunk(j, n)
  BY DEF Participants, Node, NChunk
<1>3. CASE Node(j).op = "none"
  BY <1>1, <1>3 DEF NodeState
<1>4. CASE Node(j).op = "rows"
  <2>1. {u \in Participants : Passed(u, j)}' = {u \in Participants : Passed(u, j)}
    BY <1>1, <1>4
  <2> QED
    BY <1>1, <1>4, <2>1 DEF NodeState, Once
<1>5. CASE Node(j).op = "mul_mat"
  <2>1. \A u \in Participants : /\ Passed(u, j)' <=> Passed(u, j)
                                /\ InChunk(u, j)' <=> InChunk(u, j)
                                /\ Opened(u, j)' <=> Opened(u, j)
    BY <1>5 DEF Opened
  <2>2. Complete(j)' <=> Complete(j)
    BY <1>1 DEF Complete
  <2>3. ASSUME NEW v \in Participants, InChunk(v, j), Dealt(j) PROVE Dealt(j)'
    <3>1. current_chunk' = current_chunk
      BY <2>3
    <3>2. \A u \in Participants : InChunk(u, j) => current'[u] = current[u]
      OBVIOUS
    <3>3. DealtChunks(j)' = DealtChunks(j)
      BY <1>1, <2>1, <3>1, <3>2 DEF DealtChunks
    <3> QED
      BY <1>1, <2>1, <2>3, <3>1, <3>2, <3>3 DEF Dealt, Once
  <2> QED
    BY <1>1, <1>5, <2>1, <2>2, <2>3 DEF NodeState
<1> QED
  BY <1>3, <1>4, <1>5, NodesType DEF MeetInv

LEMMA NodesFrame ==
  ASSUME MeetInv, PartsInv, UNCHANGED <<times, cgraph, n_graph>>,
         \A u \in Participants, j \in 0 .. NNodes - 1 :
           Node(j).op # "none" => (Passed(u, j)' <=> Passed(u, j)) /\ (InChunk(u, j)' <=> InChunk(u, j)),
         \A u \in Participants : At(u) = "chunk" => current'[u] = current[u] /\ current_chunk' = current_chunk
  PROVE  \A j \in 0 .. NNodes - 1 : NodeState(j)'
<1> SUFFICES ASSUME NEW j \in 0 .. NNodes - 1 PROVE NodeState(j)'
  OBVIOUS
<1>1. NodeState(j) /\ times'[j] = times[j]
  BY DEF PartsInv
<1>2. \A u \in Participants : InChunk(u, j) => current'[u] = current[u] /\ current_chunk' = current_chunk
  BY DEF InChunk
<1> QED
  BY <1>1, <1>2, NodeFrame

LEMMA OthersAtParts ==
  ASSUME NEW t \in Threads, OnlyMoves(t), OthersKeep(t), NEW u \in Threads \ {t}
  PROVE  /\ Knows(u) => Knows(u)'
         /\ HasPacked(u) /\ (u = 0 /\ At(0) \in Barrier /\ ret[0] = "chunk" => current_chunk' = current_chunk) => HasPacked(u)'
         /\ \A j : InChunk(u, j)' <=> InChunk(u, j)
         /\ abort' = abort => \A j : Passed(u, j)' <=> Passed(u, j)
<1>1. /\ At(u)' = At(u) /\ New(u)' = New(u) /\ node_n'[u] = node_n[u] /\ ret'[u] = ret[u]
      /\ nth'[u] = nth[u] /\ current'[u] = current[u] /\ wdata'[u] = wdata[u]
      /\ cgraph' = cgraph /\ n_graph' = n_graph
  BY OthersStay DEF OnlyMoves, OthersKeep
<1>2. NNodes' = NNodes /\ \A i : i = node_n[u] => Node(i)' = Node(i)
  BY <1>1 DEF NNodes, Node
<1>3. Knows(u) => Knows(u)'
  <2>1. Node(node_n[u])' = Node(node_n[u])
    BY <1>1 DEF Node
  <2> QED
    BY <1>1, <1>2, <2>1 DEF Knows
<1>4. HasPacked(u) /\ (u = 0 /\ At(0) \in Barrier /\ ret[0] = "chunk" => current_chunk' = current_chunk) => HasPacked(u)'
  BY <1>1 DEF HasPacked
<1>5. \A j : InChunk(u, j)' <=> InChunk(u, j)
  BY <1>1 DEF InChunk
<1>6. abort' = abort => \A j : Passed(u, j)' <=> Passed(u, j)
  BY <1>1, <1>2 DEF Passed, End
<1> QED
  BY <1>3, <1>4, <1>5, <1>6

LEMMA EndsFrame ==
  ASSUME NEW t \in Threads \ {0}, OnlyMoves(t), abort' = abort, EndsHere
  PROVE  EndsHere'
<1>1. 0 \in Threads \ {t}
  BY ZeroIsThread
<1>2. At(0)' = At(0) /\ node_n'[0] = node_n[0] /\ ret'[0] = ret[0] /\ cgraph' = cgraph
  BY <1>1, OthersStay DEF OnlyMoves
<1> QED
  BY <1>2 DEF EndsHere, End, NNodes

LEMMA PackedFrame ==
  ASSUME TypeOK, GraphNumbers, NEW t \in Threads, OnlyMoves(t), wdata' = wdata, AllPacked,
         At(t)' = "chunk" => At(t) = "chunk" /\ node_n'[t] = node_n[t]
  PROVE  AllPacked'
<1>1. Participants' = Participants /\ Participants \subseteq Threads
  BY ParticipantsAreThreads DEF OnlyMoves, Participants
<1>2. \A v \in Threads : At(v)' = "chunk" => At(v) = "chunk" /\ node_n'[v] = node_n[v]
  BY OthersStay DEF OnlyMoves
<1> QED
  BY <1>1, <1>2 DEF AllPacked

LEMMA PartsWalk ==
  ASSUME MeetInv, PartsInv, PartTypes', NEW t \in Threads, OnlyMoves(t), OthersKeep(t), UNCHANGED <<times, abort>>,
         Knows(t)', HasPacked(t)', AllPacked', t = 0 => EndsHere',
         current_chunk' = current_chunk \/ (t = 0 /\ \A u \in Participants : At(u) # "chunk"),
         At(t) = "chunk" => current'[t] = current[t],
         t \in Participants => \A j \in 0 .. NNodes - 1 :
            Node(j).op # "none" => (Passed(t, j)' <=> Passed(t, j)) /\ (InChunk(t, j)' <=> InChunk(t, j))
  PROVE  PartsInv'
<1>1. Participants \subseteq Threads /\ cgraph' = cgraph /\ n_graph' = n_graph /\ NNodes' = NNodes
  BY ParticipantsAreThreads DEF MeetInv, OnlyMoves, NNodes
<1>2. \A u \in Threads : Knows(u)' /\ HasPacked(u)'
  BY OthersAtParts DEF PartsInv
<1>3. EndsHere'
  BY EndsFrame DEF PartsInv
<1>4. \A u \in Participants, j \in 0 .. NNodes - 1 :
        Node(j).op # "none" => (Passed(u, j)' <=> Passed(u, j)) /\ (InChunk(u, j)' <=> InChunk(u, j))
  BY <1>1, OthersAtParts
<1>5. \A u \in Participants : At(u) = "chunk" => current'[u] = current[u] /\ current_chunk' = current_chunk
  BY <1>1 DEF OthersKeep
<1>6. \A j \in 0 .. NNodes - 1 : NodeState(j)'
  BY <1>1, <1>4, <1>5, NodesFrame
<1> QED
  BY <1>1, <1>2, <1>3, <1>6 DEF PartsInv

LEMMA PartsOfAway ==
  ASSUME MeetInv, PartsInv, PartTypes', NEW w \in Workers, pc[w] \in Away, OnlyMoves(w),
         UNCHANGED <<node_n, nth, current, current_chunk, wdata, times, abort>>,
         \/ pc'[w] \in Away /\ last_graph'[w] = last_graph[w]
         \/ pc'[w] \in Away /\ w \notin Participants
         \/ pc'[w] = "start" /\ New(w)
  PROVE  PartsInv'
<1>1. w \in Threads /\ w # 0 /\ n_graph' = n_graph /\ cgraph' = cgraph /\ NNodes' = NNodes
  BY ZeroIsThread DEF OnlyMoves, NNodes
<1>2. At(w) = pc[w] /\ At(w)' = pc'[w] /\ At(w) \in Left /\ node_n[w] = 0 /\ node_n'[w] = 0
  BY <1>1 DEF MeetInv, OutsidersLeft, At, Away, Left
<1>3. At(w)' \notin Busy \union Barrier
  BY <1>2 DEF Away, Busy, Barrier
<1>4. Knows(w)' /\ HasPacked(w)'
  BY <1>3 DEF Knows, HasPacked, Busy, Barrier
<1>5. AllPacked'
  BY <1>1, <1>3, PackedFrame DEF MeetInv, PartsInv, Busy
<1>6. OthersKeep(w)
  BY DEF OthersKeep
<1>7. \A j : ~InChunk(w, j) /\ ~InChunk(w, j)'
  BY <1>2, <1>3 DEF InChunk, Left, Away, Busy
<1>8. ASSUME w \in Participants, NEW j \in 0 .. NNodes - 1 PROVE Passed(w, j)' <=> Passed(w, j)
  <2>1. CASE pc'[w] \in Away /\ last_graph'[w] = last_graph[w]
    <3>1. At(w)' \in Left /\ (New(w)' <=> New(w))
      BY <1>1, <1>2, <2>1 DEF Left, New
    <3> QED
      BY <1>1, <1>2, <3>1 DEF Passed, End
  <2>2. CASE pc'[w] = "start" /\ New(w)
    <3>1. ~Passed(w, j)
      BY <2>2 DEF Passed
    <3>2. ~Passed(w, j)'
      BY <1>2, <2>2 DEF Passed, Left, Away, Barrier
    <3> QED
      BY <3>1, <3>2
  <2> QED
    BY <1>8, <2>1, <2>2
<1>9. At(w) # "chunk"
  BY <1>2 DEF Left, Away
<1> QED
  BY <1>1, <1>4, <1>5, <1>6, <1>7, <1>8, <1>9, PartsWalk

LEMMA PartsOfSearch ==
  ASSUME MeetInv, PartsInv, NEW w \in Workers, Search(w) \/ SpuriousWake(w)
  PROVE  PartsInv'
<1>1. w \in Threads /\ w # 0
  BY ZeroIsThread
<1>2. PartTypes'
  BY PartTypesOfOthers DEF PartsInv
<1>3. UNCHANGED <<node_n, n_passed, ret, abort, n_graph, cgraph, graphs, n_barrier_passed, nth, current, current_chunk, wdata, times>>
  BY DEF Search, LookAtPause, SleepPaused, LookAtStop, Poll, CheckForWork, SpuriousWake, locals, flags, counters, work
<1>4. pc \in [Threads -> Left \union Barrier \union Busy \union {"wake", "start"}] /\ last_graph \in [Threads -> Nat \X Nat]
  BY DEF MeetInv, TypeOK
<1>5. ASSUME NEW l, Goto(w, l), UNCHANGED last_graph, l \in Away, pc[w] \in Away PROVE PartsInv'
  <2>1. pc'[w] = l /\ last_graph'[w] = last_graph[w]
    BY <1>1, <1>4, <1>5 DEF Goto
  <2>2. OnlyMoves(w)
    BY <1>3, <1>4, <1>5 DEF OnlyMoves, Goto
  <2> QED
    BY <1>2, <1>3, <1>5, <2>1, <2>2, PartsOfAway
<1>6. ASSUME NEW l, TakeNotice(w, l), Ready(w), l \in Away, pc[w] \in Away PROVE PartsInv'
  <2>1. CASE stop \/ pause
    BY <1>5, <1>6, <2>1 DEF TakeNotice
  <2>2. CASE ~(stop \/ pause)
    <3>1. last_graph' = [last_graph EXCEPT ![w] = n_graph] /\ pc' = [pc EXCEPT ![w] = IF w < n_graph[2] THEN "start" ELSE l]
      BY <1>6, <2>2 DEF TakeNotice, Goto
    <3>2. New(w)
      BY <1>1, <1>6, <2>2 DEF Ready, New
    <3>3. last_graph'[w] = n_graph /\ pc'[w] = IF w < n_graph[2] THEN "start" ELSE l
      BY <1>1, <1>4, <3>1
    <3>4. OnlyMoves(w)
      BY <1>3, <1>4, <3>1 DEF OnlyMoves
    <3>5. w \in Participants <=> w < n_graph[2]
      BY <1>1, ZeroIsThread, ParticipantsAreThreads DEF Participants, MeetInv
    <3> QED
      BY <1>2, <1>3, <1>6, <3>2, <3>3, <3>4, <3>5, PartsOfAway
  <2> QED
    BY <2>1, <2>2
<1>7. CASE LookAtPause(w)
  BY <1>5, <1>7 DEF LookAtPause, Away, locals
<1>8. CASE SleepPaused(w)
  BY <1>5, <1>8 DEF SleepPaused, Away, locals
<1>9. CASE LookAtStop(w)
  BY <1>5, <1>9 DEF LookAtStop, Away, locals
<1>10. CASE Poll(w)
  BY <1>5, <1>6, <1>10 DEF Poll, Away
<1>11. CASE CheckForWork(w)
  BY <1>5, <1>6, <1>11 DEF CheckForWork, Away
<1>12. CASE SpuriousWake(w)
  BY <1>5, <1>12 DEF SpuriousWake, Asleep, Away, locals
<1> QED
  BY <1>7, <1>8, <1>9, <1>10, <1>11, <1>12 DEF Search

LEMMA PartsAtBarrier ==
  ASSUME MeetInv, PartsInv, NEW t \in Threads, ReadPassed(t) \/ Arrive(t) \/ ResetBarrier(t) \/ Spin(t)
  PROVE  PartsInv'
<1>1. TypeOK /\ PartTypes'
  BY PartTypesOfCompute DEF MeetInv, PartsInv, Compute
<1>2. UNCHANGED <<last_graph, node_n, ret, nth, current, current_chunk, wdata, times, abort, n_graph, cgraph, graphs, n_barrier_passed>>
  BY DEF ReadPassed, Arrive, ResetBarrier, Spin, locals, flags, counters, work
<1>3. \E i : n_passed' = [n_passed EXCEPT ![t] = i]
  BY <1>1, NoChange DEF ReadPassed, Arrive, ResetBarrier, Spin, locals
<1>4. \E l : Goto(t, l)
  BY DEF ReadPassed, Arrive, ResetBarrier, Spin
<1>5. OnlyMoves(t) /\ OthersKeep(t)
  BY <1>1, <1>2, <1>3, <1>4, NoChange, MovesAlone DEF OthersKeep
<1>6. At(t)' = At(t) \/ (At(t) \in Barrier /\ At(t)' \in Barrier)
  <2>1. CASE ReadPassed(t)
    <3>1. pc[t] = "enter" /\ pc'[t] = "arrive"
      BY <1>1, <2>1 DEF ReadPassed, Goto, TypeOK
    <3> QED
      BY <3>1 DEF At, Barrier
  <2>2. CASE Arrive(t)
    <3>1. pc[t] = "arrive" /\ pc'[t] \in {"reset", "spin"} /\ n_passed' = n_passed
      BY <1>1, <2>2 DEF Arrive, Goto, TypeOK, locals
    <3>2. n_passed'[t] = n_barrier_passed'
      BY <1>2, <3>1 DEF MeetInv, BarrierCounts
    <3> QED
      BY <3>1, <3>2 DEF At, Barrier
  <2>3. CASE ResetBarrier(t)
    <3>1. pc[t] = "reset" /\ pc'[t] = "pass"
      BY <1>1, <2>3 DEF ResetBarrier, Goto, TypeOK
    <3> QED
      BY <3>1 DEF At, Barrier
  <2>4. CASE Spin(t)
    <3>1. pc[t] = "spin" /\ n_passed[t] # n_barrier_passed /\ pc'[t] = ret[t] /\ ret[t] # "spin"
      BY <1>1, <2>4 DEF Spin, Goto, TypeOK
    <3> QED
      BY <3>1 DEF At
  <2> QED
    BY <2>1, <2>2, <2>3, <2>4
<1>7. Knows(t)' /\ HasPacked(t)'
  <2>1. \A i : Node(i)' = Node(i) /\ NNodes' = NNodes
    BY <1>2 DEF Node, NNodes
  <2>2. Node(node_n[t])' = Node(node_n[t])
    BY <1>2 DEF Node
  <2>3. Knows(t) /\ HasPacked(t)
    BY DEF PartsInv
  <2>4. \A l \in Barrier : l \notin Busy /\ l \notin {"head", "rows", "pack", "chunk"}
    BY DEF Barrier, Busy
  <2>5. Knows(t)'
    BY <1>2, <1>6, <2>1, <2>2, <2>3, <2>4 DEF Knows
  <2>6. HasPacked(t)'
    BY <1>2, <1>6, <2>3 DEF HasPacked
  <2> QED
    BY <2>5, <2>6
<1>8. AllPacked'
  BY <1>2, <1>5, <1>6, PackedFrame DEF MeetInv, PartsInv, Barrier
<1>9. t = 0 => EndsHere'
  BY <1>2, <1>6 DEF PartsInv, EndsHere, End, NNodes
<1>10. \A j : (Passed(t, j)' <=> Passed(t, j)) /\ (InChunk(t, j)' <=> InChunk(t, j))
  <2>1. New(t)' <=> New(t)
    BY <1>2 DEF New
  <2>2. \A l \in Barrier : l \notin Left \union {"computed", "step", "chunk"}
    BY DEF Barrier, Left, Away
  <2>3. End' = End
    BY <1>2 DEF End, NNodes
  <2> QED
    BY <1>2, <1>6, <2>1, <2>2, <2>3 DEF Passed, InChunk
<1> QED
  BY <1>1, <1>2, <1>5, <1>7, <1>8, <1>9, <1>10, PartsWalk

LEMMA PartsFinish ==
  ASSUME MeetInv, PartsInv, NEW t \in Threads, Finish(t)
  PROVE  PartsInv'
<1>1. TypeOK /\ PartTypes'
  BY PartTypesOfCompute DEF MeetInv, PartsInv, Compute
<1>2. UNCHANGED <<last_graph, n_passed, ret, nth, current, current_chunk, wdata, times, abort, n_graph, cgraph, graphs, n_barrier_passed>>
      /\ pc[t] = "finish" /\ Goto(t, IF t = 0 THEN "idle" ELSE "loop") /\ node_n' = [node_n EXCEPT ![t] = 0]
  BY DEF Finish, locals, flags, counters, work
<1>3. OnlyMoves(t) /\ OthersKeep(t)
  BY <1>1, <1>2, NoChange, MovesAlone DEF OthersKeep
<1>4. At(t) = "finish" /\ At(t)' \in {"idle", "loop"}
  BY <1>1, <1>2 DEF At, Goto, TypeOK
<1>5. Knows(t)' /\ HasPacked(t)' /\ (t = 0 => EndsHere')
  BY <1>4 DEF Knows, HasPacked, EndsHere, Busy, Barrier
<1>6. AllPacked'
  BY <1>1, <1>2, <1>3, <1>4, PackedFrame DEF MeetInv, PartsInv
<1>7. \A j : (Passed(t, j)' <=> Passed(t, j)) /\ (InChunk(t, j)' <=> InChunk(t, j))
  <2>1. (New(t)' <=> New(t)) /\ End' = End
    BY <1>2 DEF New, End, NNodes
  <2>2. At(t) \in Left /\ At(t)' \in Left
    BY <1>4 DEF Left, Away
  <2> QED
    BY <1>4, <2>1, <2>2 DEF Passed, InChunk
<1> QED
  BY <1>1, <1>2, <1>3, <1>4, <1>5, <1>6, <1>7, PartsWalk

(* A step of a thread at its node, away from the barrier's own steps.      *)
LEMMA PartsMove ==
  ASSUME MeetInv, PartsInv, PartTypes', NEW t \in Threads, OnlyMoves(t), OthersKeep(t),
         UNCHANGED <<last_graph, current_chunk, wdata, times, abort>>,
         pc[t] \in Busy \union {"start"}, pc[t] # "chunk", pc'[t] \in Busy \union {"enter"}, pc'[t] # "chunk",
         pc'[t] = "enter" => ret'[t] # "chunk",
         Knows(t)', t = 0 => EndsHere',
         \A j \in 0 .. NNodes - 1 : Node(j).op # "none" =>
            ((j < node_n'[t] \/ (j = node_n'[t] /\ (pc'[t] \in {"computed", "step"} \/ (pc'[t] = "enter" /\ ret'[t] = "step"))))
             <=> (j < node_n[t] \/ (j = node_n[t] /\ pc[t] \in {"computed", "step"})))
  PROVE  PartsInv'
<1>1. At(t) = pc[t] /\ At(t)' = pc'[t] /\ At(t) \notin Left \union Barrier /\ At(t)' \notin Left
  BY DEF At, Busy, Left, Away, Barrier
<1>2. ~New(t) /\ ~New(t)'
  BY <1>1, InsideIsNoticed DEF New, OnlyMoves
<1>3. HasPacked(t)'
  BY <1>1 DEF HasPacked, Busy, Barrier
<1>4. AllPacked'
  BY <1>1, PackedFrame DEF MeetInv, PartsInv
<1>5. At(t)' \in Barrier <=> pc'[t] = "enter"
  BY <1>1 DEF Barrier, Busy
<1>6. \A j \in 0 .. NNodes - 1 : Node(j).op # "none" => (Passed(t, j)' <=> Passed(t, j)) /\ (InChunk(t, j)' <=> InChunk(t, j))
  BY <1>1, <1>2, <1>5 DEF Passed, InChunk
<1> QED
  BY <1>1, <1>3, <1>4, <1>6, PartsWalk

LEMMA PartsStart ==
  ASSUME MeetInv, PartsInv, NEW t \in Threads, Start(t)
  PROVE  PartsInv'
<1>1. TypeOK /\ PartTypes' /\ nth \in [Threads -> Nat] /\ NNodes \in Nat
  BY PartTypesOfCompute, NodesType DEF MeetInv, PartsInv, Compute, PartTypes
<1>2. UNCHANGED <<last_graph, node_n, n_passed, ret, n_graph, cgraph, graphs, n_barrier_passed, abort,
                  current, current_chunk, wdata, times>>
      /\ pc[t] = "start" /\ Goto(t, "head") /\ nth' = [nth EXCEPT ![t] = n_graph[2]]
  BY DEF Start, flags, counters, work
<1>3. OnlyMoves(t) /\ OthersKeep(t)
  BY <1>1, <1>2, NoChange, MovesAlone DEF OthersKeep
<1>4. pc'[t] = "head" /\ nth'[t] = n_graph[2] /\ node_n[t] = 0
  BY <1>1, <1>2 DEF Goto, TypeOK, MeetInv, OutsidersLeft
<1>5. At(t)' = "head"
  BY <1>4 DEF At
<1>6. Knows(t)'
  BY <1>1, <1>2, <1>4, <1>5 DEF Knows, Busy, Barrier, NNodes
<1>7. EndsHere' \/ t # 0
  BY <1>5 DEF EndsHere, Barrier
<1> QED
  BY <1>1, <1>2, <1>3, <1>4, <1>6, <1>7, PartsMove DEF Busy

LEMMA PartsStep ==
  ASSUME MeetInv, PartsInv, NEW t \in Threads, Step(t)
  PROVE  PartsInv'
<1>1. TypeOK /\ PartTypes' /\ NNodes \in Nat /\ node_n[t] \in Nat
  BY PartTypesOfCompute, NodesType DEF MeetInv, PartsInv, Compute, TypeOK
<1>2. UNCHANGED <<last_graph, n_passed, ret, n_graph, cgraph, graphs, n_barrier_passed, abort,
                  nth, current_chunk, wdata, times>>
      /\ pc[t] = "step" /\ Goto(t, "head") /\ node_n' = [node_n EXCEPT ![t] = node_n[t] + 1]
      /\ current' = [current EXCEPT ![t] = 0]
  BY DEF Step, flags, counters, work
<1>3. OnlyMoves(t) /\ OthersKeep(t)
  BY <1>1, <1>2, NoChange, MovesAlone DEF OthersKeep, PartsInv, PartTypes
<1>4. pc'[t] = "head" /\ node_n'[t] = node_n[t] + 1
  BY <1>1, <1>2 DEF Goto, TypeOK
<1>5. At(t)' = "head" /\ At(t) = "step"
  BY <1>2, <1>4 DEF At
<1>6. Knows(t)'
  <2>1. node_n[t] < NNodes /\ nth[t] = n_graph[2]
    BY <1>5 DEF PartsInv, Knows, Busy
  <2>2. NNodes' = NNodes
    BY <1>2 DEF NNodes
  <2> QED
    BY <1>1, <1>2, <1>4, <1>5, <2>1, <2>2 DEF Knows, Busy, Barrier
<1>7. EndsHere' \/ t # 0
  BY <1>5 DEF EndsHere, Barrier
<1>8. \A j \in 0 .. NNodes - 1 : (j < node_n[t] + 1) <=> (j < node_n[t] \/ j = node_n[t])
  BY <1>1
<1>9. \A j \in 0 .. NNodes - 1 : j # node_n[t] + 1 \/ ~(pc'[t] \in {"computed", "step"} \/ (pc'[t] = "enter" /\ ret'[t] = "step"))
  BY <1>4
<1> QED
  BY <1>1, <1>2, <1>3, <1>4, <1>6, <1>7, <1>8, <1>9, PartsMove DEF Busy

LEMMA PartsNodeDone ==
  ASSUME MeetInv, PartsInv, NEW t \in Threads, NodeDone(t), abort' = abort
  PROVE  PartsInv'
<1>1. TypeOK /\ PartTypes' /\ NNodes \in Nat /\ node_n[t] \in Nat
  BY PartTypesOfCompute, NodesType DEF MeetInv, PartsInv, Compute, TypeOK
<1>2. UNCHANGED <<last_graph, node_n, n_passed, n_graph, cgraph, graphs, n_barrier_passed, abort,
                  nth, current, current_chunk, wdata, times>> /\ pc[t] = "computed"
  BY DEF NodeDone, counters, work
<1>3. IF node_n[t] + 1 < NNodes THEN EnterBarrier(t, "step") ELSE Goto(t, "step") /\ UNCHANGED ret
  BY DEF NodeDone
<1>4. OnlyMoves(t) /\ OthersKeep(t)
  <2>1. (\E l : Goto(t, l)) /\ (\E l : ret' = [ret EXCEPT ![t] = l])
    BY <1>1, <1>3, NoChange DEF EnterBarrier
  <2> QED
    BY <1>1, <1>2, <2>1, NoChange, MovesAlone DEF OthersKeep
<1>5. pc'[t] = "step" \/ (pc'[t] = "enter" /\ ret'[t] = "step")
  BY <1>1, <1>3 DEF EnterBarrier, Goto, TypeOK
<1>6. At(t) = "computed" /\ At(t)' = pc'[t]
  BY <1>2, <1>5 DEF At
<1>7. Knows(t)'
  <2>1. node_n[t] < NNodes /\ nth[t] = n_graph[2]
    BY <1>6 DEF PartsInv, Knows, Busy
  <2>2. NNodes' = NNodes
    BY <1>2 DEF NNodes
  <2> QED
    BY <1>1, <1>2, <1>5, <1>6, <2>1, <2>2 DEF Knows, Busy, Barrier
<1>8. EndsHere' \/ t # 0
  BY <1>5, <1>6 DEF EndsHere, Barrier
<1> QED
  BY <1>1, <1>2, <1>4, <1>5, <1>7, <1>8, PartsMove DEF Busy

LEMMA PartsNextNode ==
  ASSUME MeetInv, PartsInv, NEW t \in Threads, NextNode(t)
  PROVE  PartsInv'
<1>1. TypeOK /\ PartTypes' /\ NNodes \in Nat /\ node_n[t] \in Nat
  BY PartTypesOfCompute, NodesType DEF MeetInv, PartsInv, Compute, TypeOK
<1>2. UNCHANGED <<last_graph, node_n, n_passed, n_graph, cgraph, graphs, n_barrier_passed, abort,
                  nth, current, current_chunk, wdata, times>> /\ pc[t] = "head"
  BY DEF NextNode, flags, counters, work
<1>3. At(t) = "head" /\ NNodes' = NNodes /\ nth[t] = n_graph[2] /\ node_n[t] <= NNodes
  <2>1. At(t) = "head" /\ Knows(t)
    BY <1>2 DEF At, PartsInv
  <2> QED
    BY <1>2, <2>1 DEF Knows, NNodes, Busy
<1>4. CASE node_n[t] < NNodes /\ abort # node_n[t]
  <2> DEFINE l == CASE Node(node_n[t]).op = "none" -> "step"
                    [] Node(node_n[t]).op = "rows" -> "rows"
                    [] OTHER -> "pack"
  <2>1. ret' = ret /\ Goto(t, l)
    BY <1>4 DEF NextNode
  <2>2. OnlyMoves(t) /\ OthersKeep(t)
    BY <1>1, <1>2, <2>1, NoChange, MovesAlone DEF OthersKeep
  <2>3. Node(node_n[t]).op \in {"none", "rows", "mul_mat"}
    BY <1>1, <1>4, NodesType
  <2>4. /\ l \in {"step", "rows", "pack"}
        /\ l = "step" <=> Node(node_n[t]).op = "none"
        /\ l = "rows" <=> Node(node_n[t]).op = "rows"
        /\ l = "pack" <=> Node(node_n[t]).op = "mul_mat"
    BY <2>3
  <2> HIDE DEF l
  <2>5. pc'[t] = l /\ At(t)' = l
    BY <1>1, <2>1, <2>4 DEF Goto, TypeOK, At
  <2>6. Knows(t)'
    <3>1. Node(node_n[t])' = Node(node_n[t])
      BY <1>2 DEF Node
    <3> QED
      BY <1>2, <1>3, <1>4, <2>4, <2>5, <3>1 DEF Knows, Busy, Barrier
  <2>7. EndsHere' \/ t # 0
    BY <2>4, <2>5 DEF EndsHere, Barrier
  <2>8. \A j \in 0 .. NNodes - 1 : Node(j).op # "none" => j # node_n[t] \/ l \in {"rows", "pack"}
    BY <2>4
  <2> QED
    BY <1>1, <1>2, <2>2, <2>4, <2>5, <2>6, <2>7, <2>8, PartsMove DEF Busy
<1>5. CASE ~(node_n[t] < NNodes /\ abort # node_n[t])
  <2>1. EnterBarrier(t, "finish")
    BY <1>5 DEF NextNode
  <2>2. OnlyMoves(t) /\ OthersKeep(t)
    BY <1>1, <1>2, <2>1, NoChange, MovesAlone DEF EnterBarrier, OthersKeep
  <2>3. ret'[t] = "finish" /\ pc'[t] = IF n_graph[2] = 1 THEN "finish" ELSE "enter"
    BY <1>1, <2>1 DEF EnterBarrier, Goto, TypeOK
  <2>4. At(t)' = pc'[t]
    BY <2>3 DEF At
  <2>5. Knows(t)'
    BY <1>2, <1>3, <2>3, <2>4 DEF Knows, Busy, Barrier
  <2>6. t = 0 => node_n[t] = End /\ End' = End
    <3>1. t = 0 => abort = NoAbort \/ abort = node_n[0]
      BY <1>3 DEF MeetInv, AbortInTime, Left, Away, Barrier
    <3>2. End' = End
      BY <1>2, <1>3 DEF End
    <3> QED
      BY <1>1, <1>3, <1>5, <3>1, <3>2 DEF End, NoAbort
  <2>7. t = 0 => EndsHere'
    BY <1>2, <2>6 DEF EndsHere
  <2>8. CASE n_graph[2] # 1
    BY <1>1, <1>2, <2>2, <2>3, <2>5, <2>7, <2>8, PartsMove DEF Busy
  <2>9. CASE n_graph[2] = 1
    <3>1. At(t)' = "finish" /\ At(t) \notin Left \union Barrier /\ At(t)' \in Left \ Barrier
      BY <1>3, <2>3, <2>4, <2>9 DEF Left, Away, Barrier
    <3>2. t \in Participants /\ ~New(t) /\ ~New(t)'
      BY <1>2, <3>1, InsideIsNoticed DEF New
    <3>3. t = 0
      BY <2>9, <3>2, ZeroIsThread DEF Participants
    <3>4. HasPacked(t)'
      BY <3>1 DEF HasPacked
    <3>5. AllPacked'
      BY <1>1, <1>2, <2>2, <3>1, PackedFrame DEF MeetInv, PartsInv
    <3>6. \A j \in 0 .. NNodes - 1 : (Passed(t, j)' <=> Passed(t, j)) /\ (InChunk(t, j)' <=> InChunk(t, j))
      BY <1>3, <2>6, <3>1, <3>2, <3>3 DEF Passed, InChunk
    <3> QED
      BY <1>1, <1>2, <1>3, <2>2, <2>5, <2>7, <3>4, <3>5, <3>6, PartsWalk
  <2> QED
    BY <2>8, <2>9
<1> QED
  BY <1>4, <1>5

(* While thread 0 computes, every thread of the graph does or will.        *)
LEMMA NobodyLeft ==
  ASSUME MeetInv, NEW t \in Threads, At(t) \notin Left, NEW u \in Participants
  PROVE  New(u) \/ At(u) \notin Left
<1>1. PICK k \in Nat, r \in Marks : Aim(t, k, r) /\ r # "done"
  BY InsideAim
<1>2. t \in Participants
  BY InsideIsNoticed
<1>3. Aim(u, k, r)
  BY <1>1, <1>2 DEF MeetInv, Agreed, Marks
<1> QED
  BY <1>1, <1>3 DEF Aim, Leads, Left, Away, Barrier

LEMMA PartsAbort ==
  ASSUME MeetInv, PartsInv, NodeDone(0), abort' = node_n[0] + 1
  PROVE  PartsInv'
<1>1. TypeOK /\ PartTypes' /\ NNodes \in Nat /\ 0 \in Threads /\ node_n[0] \in Nat /\ Participants \subseteq Threads
  BY ZeroIsThread, PartTypesOfCompute, NodesType, ParticipantsAreThreads DEF MeetInv, PartsInv, Compute, TypeOK
<1>2. UNCHANGED <<last_graph, node_n, n_passed, n_graph, cgraph, graphs, n_barrier_passed,
                  nth, current, current_chunk, wdata, times>> /\ pc[0] = "computed"
  BY DEF NodeDone, counters, work
<1>3. IF node_n[0] + 1 < NNodes THEN EnterBarrier(0, "step") ELSE Goto(0, "step") /\ UNCHANGED ret
  BY DEF NodeDone
<1>4. OnlyMoves(0) /\ OthersKeep(0)
  <2>1. (\E l : Goto(0, l)) /\ (\E l : ret' = [ret EXCEPT ![0] = l])
    BY <1>1, <1>3, NoChange DEF EnterBarrier
  <2> QED
    BY <1>1, <1>2, <2>1, NoChange, MovesAlone DEF OthersKeep
<1>5. pc'[0] = "step" \/ (pc'[0] = "enter" /\ ret'[0] = "step")
  BY <1>1, <1>3 DEF EnterBarrier, Goto, TypeOK
<1>6. At(0) = "computed" /\ At(0)' = pc'[0] /\ At(0) \notin Left /\ At(0)' \notin Left
  BY <1>2, <1>5 DEF At, Left, Away
<1>7. Knows(0)' /\ HasPacked(0)'
  <2>1. node_n[0] < NNodes /\ nth[0] = n_graph[2]
    BY <1>1, <1>6 DEF PartsInv, Knows, Busy
  <2>2. NNodes' = NNodes
    BY <1>2 DEF NNodes
  <2>3. Knows(0)'
    BY <1>1, <1>2, <1>5, <1>6, <2>1, <2>2 DEF Knows, Busy, Barrier
  <2>4. HasPacked(0)'
    BY <1>5, <1>6 DEF HasPacked, Barrier
  <2> QED
    BY <2>3, <2>4
<1>8. EndsHere'
  BY <1>5, <1>6 DEF EndsHere, Barrier
<1>9. \A u \in Threads : Knows(u)' /\ HasPacked(u)'
  BY <1>2, <1>4, <1>7, OthersAtParts, ZeroIsThread DEF PartsInv
<1>10. AllPacked'
  BY <1>1, <1>2, <1>4, <1>5, <1>6, PackedFrame DEF MeetInv, PartsInv
<1>11. ASSUME NEW u \in Participants, NEW j \in 0 .. NNodes - 1
       PROVE  (Passed(u, j)' <=> Passed(u, j)) /\ (InChunk(u, j)' <=> InChunk(u, j))
  <2>1. New(u)' <=> New(u)
    BY <1>2 DEF New
  <2>2. CASE u = 0
    <3>1. ~New(0) /\ ~New(0)' /\ (At(0)' \in Barrier <=> pc'[0] = "enter") /\ At(0) \notin Barrier
      BY <1>5, <1>6 DEF New, Barrier
    <3> QED
      BY <1>2, <1>5, <1>6, <2>2, <3>1 DEF Passed, InChunk
  <2>3. CASE u # 0
    <3>1. u \in Threads \ {0}
      BY <1>1, <2>3
    <3>2. At(u)' = At(u) /\ node_n'[u] = node_n[u] /\ ret'[u] = ret[u]
      BY <1>1, <1>4, <3>1, OthersStay DEF OnlyMoves
    <3>3. New(u) \/ At(u) \notin Left
      BY <1>1, <1>6, NobodyLeft
    <3> QED
      BY <2>1, <3>2, <3>3 DEF Passed, InChunk
  <2> QED
    BY <2>2, <2>3
<1>12. \A j \in 0 .. NNodes - 1 : NodeState(j)'
  BY <1>2, <1>11, NodesFrame
<1>13. NNodes' = NNodes
  BY <1>2 DEF NNodes
<1> QED
  BY <1>1, <1>8, <1>9, <1>10, <1>12, <1>13 DEF PartsInv

----------------------------------------------------------------------------
(* A step that computes a part of a node. *)

LEMMA ComputedOnce ==
  ASSUME PartTypes, NEW i \in 0 .. NNodes - 1, NEW parts, NEW c, c \notin parts,
         times[i] = Once(parts), Computed(i, c)
  PROVE  /\ times'[i] = Once(parts \union {c})
         /\ \A j \in 0 .. NNodes - 1 : j # i => times'[j] = times[j]
<1> DEFINE done == [d \in DOMAIN times[i] \union {c} |-> (IF d \in DOMAIN times[i] THEN times[i][d] ELSE 0)
                                                          + (IF d = c THEN 1 ELSE 0)]
<1>1. times' = [times EXCEPT ![i] = done]
  BY DEF Computed
<1>2. DOMAIN times = 0 .. NNodes - 1
  BY DEF PartTypes
<1>3. DOMAIN times[i] = parts /\ \A d \in parts : times[i][d] = 1
  BY DEF Once
<1>4. done = [d \in parts \union {c} |-> 1]
  BY <1>3
<1> HIDE DEF done
<1>5. times'[i] = done /\ \A j \in 0 .. NNodes - 1 : j # i => times'[j] = times[j]
  BY <1>1, <1>2
<1> QED
  BY <1>4, <1>5 DEF Once

LEMMA PartsComputeRows ==
  ASSUME MeetInv, PartsInv, NEW t \in Threads, ComputeRows(t)
  PROVE  PartsInv'
<1>1. TypeOK /\ PartTypes' /\ NNodes \in Nat /\ node_n[t] \in Nat /\ Participants \subseteq Threads
  BY PartTypesOfCompute, NodesType, ParticipantsAreThreads DEF MeetInv, PartsInv, Compute, TypeOK
<1>2. UNCHANGED <<last_graph, node_n, n_passed, ret, n_graph, cgraph, graphs, n_barrier_passed, abort,
                  nth, current, current_chunk, wdata>>
      /\ pc[t] = "rows" /\ Goto(t, "computed") /\ Computed(node_n[t], t)
  BY DEF ComputeRows, locals, counters, flags
<1>3. OnlyMoves(t) /\ OthersKeep(t)
  BY <1>1, <1>2, NoChange, MovesAlone DEF OthersKeep
<1>4. At(t) = "rows" /\ At(t)' = "computed" /\ At(t) \notin Left \union Barrier
  BY <1>1, <1>2 DEF At, Goto, TypeOK, Left, Away, Barrier
<1>5. t \in Participants /\ ~New(t) /\ ~New(t)'
  BY <1>2, <1>4, InsideIsNoticed DEF New
<1>6. node_n[t] \in 0 .. NNodes - 1 /\ nth[t] = n_graph[2] /\ Node(node_n[t]).op = "rows" /\ NNodes' = NNodes
  <2>1. Knows(t)
    BY DEF PartsInv
  <2> QED
    BY <1>1, <1>2, <1>4, <2>1 DEF Knows, Busy, NNodes
<1>7. \A u \in Threads : Knows(u)' /\ HasPacked(u)'
  <2>1. Knows(t)'
    BY <1>1, <1>2, <1>4, <1>6 DEF Knows, Busy, Barrier
  <2>2. HasPacked(t)'
    BY <1>4 DEF HasPacked, Barrier
  <2> QED
    BY <1>2, <1>3, <2>1, <2>2, OthersAtParts DEF PartsInv
<1>8. AllPacked' /\ EndsHere'
  <2>1. AllPacked'
    BY <1>1, <1>2, <1>3, <1>4, PackedFrame DEF MeetInv, PartsInv
  <2>2. t = 0 => EndsHere'
    BY <1>4 DEF EndsHere, Barrier
  <2> QED
    BY <1>2, <1>3, <2>1, <2>2, EndsFrame DEF PartsInv
<1>9. \A u \in Participants \ {t} : \A j : (Passed(u, j)' <=> Passed(u, j)) /\ (InChunk(u, j)' <=> InChunk(u, j))
  BY <1>1, <1>2, <1>3, OthersAtParts
<1>10. \A j : (j # node_n[t] => (Passed(t, j)' <=> Passed(t, j))) /\ ~InChunk(t, j) /\ ~InChunk(t, j)'
  BY <1>2, <1>4, <1>5 DEF Passed, InChunk, Left, Away, Barrier
<1>11. \A j : j = node_n[t] => Passed(t, j)' /\ ~Passed(t, j)
  BY <1>1, <1>2, <1>4, <1>5 DEF Passed, Left, Away, Barrier
<1>12. PICK i \in 0 .. NNodes - 1 : i = node_n[t]
  BY <1>6
<1>13. times[i] = Once({u \in Participants : Passed(u, i)})
  BY <1>6, <1>12 DEF PartsInv, NodeState
<1>14. /\ times'[i] = Once({u \in Participants : Passed(u, i)} \union {t})
       /\ \A j \in 0 .. NNodes - 1 : j # i => times'[j] = times[j]
  BY <1>2, <1>11, <1>12, <1>13, ComputedOnce DEF PartsInv
<1>15. ASSUME NEW j \in 0 .. NNodes - 1 PROVE NodeState(j)'
  <2>1. CASE j # i
    <3>1. NodeState(j) /\ times'[j] = times[j]
      BY <1>14, <2>1 DEF PartsInv
    <3>2. \A u \in Participants : (Passed(u, j)' <=> Passed(u, j)) /\ (InChunk(u, j)' <=> InChunk(u, j))
      BY <1>9, <1>10, <1>12, <2>1
    <3> QED
      BY <1>2, <3>1, <3>2, NodeFrame
  <2>2. CASE j = i
    <3>1. Participants' = Participants /\ Node(i)' = Node(i)
      BY <1>2 DEF Participants, Node
    <3>2. {u \in Participants : Passed(u, i)}' = {u \in Participants : Passed(u, i)} \union {t}
      BY <1>5, <1>9, <1>11, <1>12, <3>1
    <3>3. Once({u \in Participants : Passed(u, i)})' = Once({u \in Participants : Passed(u, i)}')
      BY DEF Once
    <3>4. NodeState(i)'
      BY <1>6, <1>12, <1>14, <3>1, <3>2, <3>3 DEF NodeState
    <3> QED
      BY <2>2, <3>4
  <2> QED
    BY <2>1, <2>2
<1> QED
  BY <1>1, <1>6, <1>7, <1>8, <1>15 DEF PartsInv

(* Nobody waits for a product while another thread is multiplying.         *)
LEMMA NobodyWaits ==
  ASSUME MeetInv, PartsInv, NEW t \in Threads, At(t) = "pack" \/ (At(t) \in Barrier /\ ret[t] = "chunk"), NEW u \in Participants
  PROVE  At(u) # "chunk"
<1>1. At(t) \notin Left /\ At(t) \notin {"wake", "start", "head", "rows", "chunk", "computed", "step"}
  BY DEF Left, Away, Barrier
<1>2. t \in Participants /\ ~New(t) /\ node_n[t] \in Nat
  BY <1>1, InsideIsNoticed DEF MeetInv, TypeOK
<1>3. node_n[t] < NNodes
  BY <1>2 DEF PartsInv, Knows, Busy
<1>4. Aim(t, node_n[t], "chunk")
  BY <1>2 DEF Aim, Leads
<1> QED
  BY <1>2, <1>3, <1>4, NobodyInChunk

(* Threads that take chunks take them of one node.                         *)
LEMMA OneChunkedNode ==
  ASSUME MeetInv, PartsInv, NEW t \in Participants, NEW u \in Participants, At(t) = "chunk", At(u) = "chunk"
  PROVE  node_n[u] = node_n[t]
<1>1. t \in Threads /\ u \in Threads /\ At(t) \notin Left /\ At(u) \notin Left
  BY ParticipantsAreThreads DEF MeetInv, Left, Away
<1>2. node_n[t] \in Nat /\ node_n[u] \in Nat
  BY <1>1 DEF MeetInv, TypeOK
<1>3. /\ node_n[t] < NNodes /\ Node(node_n[t]).op = "mul_mat" /\ Knows(t)
      /\ node_n[u] < NNodes /\ Node(node_n[u]).op = "mul_mat" /\ Knows(u)
  BY <1>1 DEF PartsInv, Knows, Busy
<1>4. Opened(t, node_n[t]) /\ Opened(u, node_n[u])
  BY DEF Opened, InChunk
<1>5. Opened(u, node_n[t])
  BY <1>1, <1>2, <1>3, <1>4, OpenedByAll
<1>6. Opened(t, node_n[u])
  BY <1>1, <1>2, <1>3, <1>4, OpenedByAll
<1>7. node_n[t] <= node_n[u]
  BY <1>1, <1>2, <1>5 DEF Opened, Passed, InChunk, Barrier
<1>8. node_n[u] <= node_n[t]
  BY <1>1, <1>2, <1>6 DEF Opened, Passed, InChunk, Barrier
<1> QED
  BY <1>2, <1>7, <1>8

LEMMA ChunkFacts ==
  ASSUME MeetInv, PartsInv, NEW t \in Threads, ComputeChunk(t) \/ NoChunkLeft(t)
  PROVE  /\ UNCHANGED <<last_graph, node_n, ret, n_graph, cgraph, n_barrier_passed, abort, nth, wdata>>
         /\ NNodes' = NNodes /\ Participants' = Participants
         /\ OnlyMoves(t) /\ OthersKeep(t) /\ t \in Participants
         /\ At(t) = "chunk" /\ At(t)' \in {"chunk", "computed"} /\ At(t)' = pc'[t]
         /\ ~New(t) /\ ~New(t)'
         /\ node_n[t] \in 0 .. NNodes - 1 /\ nth[t] = n_graph[2] /\ Node(node_n[t]).op = "mul_mat"
<1>1. TypeOK /\ NNodes \in Nat /\ node_n[t] \in Nat /\ current \in [Threads -> Nat]
  BY NodesType DEF MeetInv, PartsInv, TypeOK, PartTypes
<1>2. /\ UNCHANGED <<last_graph, node_n, n_passed, ret, n_graph, cgraph, graphs, n_barrier_passed, abort, nth, wdata>>
      /\ pc[t] = "chunk"
  BY DEF ComputeChunk, NoChunkLeft, locals, counters, flags, work
<1>3. PICK l \in {"computed", "chunk"} : Goto(t, l)
  <2>1. NoChunkLeft(t) => Goto(t, "computed")
    BY DEF NoChunkLeft
  <2>2. ComputeChunk(t) => Goto(t, "computed") \/ (pc' = pc /\ pc[t] = "chunk")
    BY DEF ComputeChunk
  <2>3. pc' = pc /\ pc[t] = "chunk" => Goto(t, "chunk")
    BY <1>1 DEF TypeOK, Goto
  <2> QED
    BY <2>1, <2>2, <2>3
<1>4. OnlyMoves(t)
  BY <1>1, <1>2, <1>3, NoChange, MovesAlone
<1>5. OthersKeep(t)
  <2>1. current' = current \/ current' = [current EXCEPT ![t] = current_chunk]
    BY DEF ComputeChunk, NoChunkLeft, locals
  <2> QED
    BY <1>1, <1>2, <2>1 DEF OthersKeep
<1>6. At(t) = "chunk" /\ pc'[t] = l /\ At(t)' = pc'[t]
  BY <1>1, <1>2, <1>3 DEF At, Goto, TypeOK
<1>7. t \in Participants /\ ~New(t) /\ ~New(t)'
  BY <1>2, <1>6, InsideIsNoticed DEF New, Left, Away
<1>8. Knows(t)
  BY DEF PartsInv
<1>9. node_n[t] < NNodes /\ nth[t] = n_graph[2] /\ Node(node_n[t]).op = "mul_mat"
  BY <1>6, <1>8 DEF Knows, Busy
<1> QED
  BY <1>1, <1>2, <1>4, <1>5, <1>6, <1>7, <1>9 DEF NNodes, Participants

(* The chunk a thread held goes to the chunks that are done; the thread    *)
(* takes the next one of the counter, or leaves.                           *)
LEMMA ChunkDealt ==
  ASSUME MeetInv, PartsInv, NEW t \in Threads, ComputeChunk(t) \/ NoChunkLeft(t), NEW i \in 0 .. NNodes - 1, i = node_n[t]
  PROVE  Dealt(i)' /\ \A j \in 0 .. NNodes - 1 : j # i => times'[j] = times[j]
<1> DEFINE N == NChunk(i, n_graph[2])
           c == current[t]
<1>1. TypeOK /\ PartTypes /\ i \in Nat /\ i < NNodes /\ n_graph[2] \in Nat /\ current_chunk \in Nat /\ c \in Nat
      /\ current \in [Threads -> Nat] /\ Participants \subseteq Threads
  BY ParticipantsAreThreads, NodesType DEF MeetInv, PartsInv, PartTypes
<1>2. N \in Nat
  BY <1>1, NodesType DEF NChunk, Nodes
<1>3. /\ UNCHANGED <<n_graph, cgraph, node_n>> /\ Participants' = Participants /\ OnlyMoves(t) /\ OthersKeep(t)
      /\ t \in Participants /\ At(t) = "chunk" /\ At(t)' = pc'[t] /\ nth[t] = n_graph[2] /\ Node(i).op = "mul_mat" /\ ~New(t)'
  BY ChunkFacts
<1>4. InChunk(t, i) /\ Dealt(i)
  <2>1. InChunk(t, i)
    BY <1>3 DEF InChunk
  <2> QED
    BY <1>3, <2>1 DEF PartsInv, NodeState
<1>5. /\ times[i] = Once(DealtChunks(i)) /\ n_graph[2] <= current_chunk
      /\ \A u \in Participants : InChunk(u, i) => current[u] < current_chunk
      /\ \A u, v \in Participants : InChunk(u, i) /\ InChunk(v, i) /\ u # v => current[u] # current[v]
      /\ (\E u \in Participants : Passed(u, i)) => N <= current_chunk
  BY <1>4 DEF Dealt
<1>6. \A u \in Participants \ {t} : /\ InChunk(u, i)' <=> InChunk(u, i)
                                    /\ Passed(u, i)' <=> Passed(u, i)
                                    /\ current'[u] = current[u]
  BY <1>1, <1>3, OthersAtParts, ChunkFacts DEF OthersKeep
<1>7. NChunk(i, n_graph[2])' = N
  BY <1>3 DEF NChunk, Node
<1>8. ~Passed(t, i)
  BY <1>3 DEF Passed, Left, Away, Barrier
<1>9. DealtChunks(i)' = {d \in 0 .. N - 1 : d < current_chunk' /\ \A u \in Participants : InChunk(u, i)' => current'[u] # d}
  BY <1>3, <1>7 DEF DealtChunks
<1>10. DealtChunks(i) = {d \in 0 .. N - 1 : d < current_chunk /\ \A u \in Participants : InChunk(u, i) => current[u] # d}
  BY DEF DealtChunks
<1>11. c < current_chunk /\ c \notin DealtChunks(i) /\ \A u \in Participants \ {t} : InChunk(u, i) => current[u] # c
  BY <1>3, <1>4, <1>5, <1>10
<1>12. pc'[t] = "computed" => ~InChunk(t, i)'
  BY <1>3 DEF InChunk
<1>13. CASE NoChunkLeft(t)
  <2>1. c >= N /\ times' = times /\ current' = current /\ current_chunk' = current_chunk /\ pc'[t] = "computed"
    BY <1>1, <1>3, <1>13 DEF NoChunkLeft, locals, counters, work, Goto, TypeOK
  <2>2. ~InChunk(t, i)'
    BY <1>12, <2>1
  <2> HIDE DEF N, c
  <2>3. DealtChunks(i)' = DealtChunks(i)
    <3>1. ASSUME NEW d \in 0 .. N - 1
          PROVE  (\A u \in Participants : InChunk(u, i)' => current'[u] # d) <=> (\A u \in Participants : InChunk(u, i) => current[u] # d)
      <4>1. current[t] # d
        BY <1>1, <1>2, <2>1 DEF c
      <4> QED
        BY <1>6, <2>1, <2>2, <4>1
    <3> QED
      BY <1>9, <1>10, <2>1, <3>1
  <2>4. N <= current_chunk
    BY <1>1, <1>2, <1>11, <2>1
  <2>5. times'[i] = Once(DealtChunks(i)')
    BY <1>5, <2>1, <2>3
  <2>6. Dealt(i)'
    BY <1>3, <1>5, <1>6, <1>7, <2>1, <2>2, <2>4, <2>5 DEF Dealt, Once
  <2> QED
    BY <2>1, <2>6
<1>14. CASE ComputeChunk(t)
  <2>1. c < N /\ Computed(i, c)
    BY <1>3, <1>14 DEF ComputeChunk
  <2>2. /\ times'[i] = Once(DealtChunks(i) \union {c})
        /\ \A j \in 0 .. NNodes - 1 : j # i => times'[j] = times[j]
    BY <1>1, <1>5, <1>11, <2>1, ComputedOnce
  <2>3. CASE n_graph[2] >= N
    <3>1. current' = current /\ current_chunk' = current_chunk /\ pc'[t] = "computed"
      BY <1>1, <1>3, <1>14, <2>3 DEF ComputeChunk, Goto, TypeOK
    <3>2. ~InChunk(t, i)'
      BY <1>12, <3>1
    <3> HIDE DEF N, c
    <3>3. \A u \in Participants : InChunk(u, i)' <=> (u # t /\ InChunk(u, i))
      BY <1>6, <3>2
    <3>4. ASSUME NEW d \in 0 .. N - 1
          PROVE  d \in DealtChunks(i)' <=> (d \in DealtChunks(i) \/ d = c)
      <4>1. CASE d = c
        BY <1>9, <1>11, <3>1, <3>3, <4>1
      <4>2. CASE d # c
        BY <1>4, <1>9, <1>10, <3>1, <3>3, <4>2 DEF c
      <4> QED
        BY <4>1, <4>2
    <3>5. DealtChunks(i)' = DealtChunks(i) \union {c}
      BY <1>1, <1>2, <1>9, <1>10, <2>1, <3>4
    <3>6. times'[i] = Once(DealtChunks(i)')
      BY <2>2, <3>5
    <3>7. N <= current_chunk
      BY <1>1, <1>2, <1>5, <2>3
    <3>8. Dealt(i)'
      BY <1>3, <1>5, <1>6, <1>7, <3>1, <3>2, <3>6, <3>7 DEF Dealt, Once
    <3> QED
      BY <2>2, <3>8
  <2>4. CASE ~(n_graph[2] >= N)
    <3>1. current' = [current EXCEPT ![t] = current_chunk] /\ current_chunk' = current_chunk + 1 /\ pc' = pc
      BY <1>3, <1>14, <2>4 DEF ComputeChunk
    <3>2. current'[t] = current_chunk /\ pc'[t] = "chunk"
      BY <1>1, <1>3, <1>14, <3>1 DEF ComputeChunk
    <3>3. InChunk(t, i)' /\ ~Passed(t, i)'
      BY <1>3, <3>2 DEF InChunk, Passed, Left, Away, Barrier
    <3> HIDE DEF N, c
    <3>4. ASSUME NEW d \in 0 .. N - 1
          PROVE  d \in DealtChunks(i)' <=> (d \in DealtChunks(i) \/ d = c)
      <4>1. CASE d = c
        <5>1. d < current_chunk' /\ \A u \in Participants : InChunk(u, i)' => current'[u] # d
          BY <1>1, <1>6, <1>11, <3>1, <3>2, <4>1
        <5> QED
          BY <1>9, <4>1, <5>1
      <4>2. CASE d # c
        <5>1. (\A u \in Participants : InChunk(u, i)' => current'[u] # d)
              <=> d # current_chunk /\ (\A u \in Participants : InChunk(u, i) => current[u] # d)
          BY <1>3, <1>6, <3>2, <3>3, <4>2 DEF c
        <5>2. d < current_chunk' /\ d # current_chunk <=> d < current_chunk
          BY <1>1, <1>2, <3>1
        <5> QED
          BY <1>9, <1>10, <4>2, <5>1, <5>2
      <4> QED
        BY <4>1, <4>2
    <3>5. DealtChunks(i)' = DealtChunks(i) \union {c}
      BY <1>1, <1>2, <1>9, <1>10, <2>1, <3>4
    <3>6. times'[i] = Once(DealtChunks(i)')
      BY <2>2, <3>5
    <3>7. \A u \in Participants : InChunk(u, i)' => current'[u] < current_chunk'
      <4> SUFFICES ASSUME NEW u \in Participants, InChunk(u, i)' PROVE current'[u] < current_chunk'
        OBVIOUS
      <4>1. CASE u = t
        BY <1>1, <3>1, <3>2, <4>1
      <4>2. CASE u # t
        <5>1. current'[u] = current[u] /\ current[u] < current_chunk /\ current[u] \in Nat
          BY <1>1, <1>5, <1>6, <4>2
        <5> QED
          BY <1>1, <3>1, <5>1
      <4> QED
        BY <4>1, <4>2
    <3>8. \A u, v \in Participants : InChunk(u, i)' /\ InChunk(v, i)' /\ u # v => current'[u] # current'[v]
      <4>1. \A u \in Participants \ {t} : InChunk(u, i) => current[u] # current_chunk
        BY <1>1, <1>5
      <4> QED
        BY <1>5, <1>6, <3>2, <4>1
    <3>9. (\E u \in Participants : Passed(u, i)') => N <= current_chunk'
      <4>1. (\E u \in Participants : Passed(u, i)') => N <= current_chunk
        BY <1>5, <1>6, <3>3
      <4> QED
        BY <1>1, <1>2, <3>1, <4>1
    <3>10. n_graph[2] <= current_chunk'
      BY <1>1, <1>5, <3>1
    <3>11. Dealt(i)'
      BY <1>3, <1>7, <3>6, <3>7, <3>8, <3>9, <3>10 DEF Dealt, Once
    <3> QED
      BY <2>2, <3>11
  <2> QED
    BY <2>3, <2>4
<1> QED
  BY <1>13, <1>14

LEMMA PartsChunk ==
  ASSUME MeetInv, PartsInv, NEW t \in Threads, ComputeChunk(t) \/ NoChunkLeft(t)
  PROVE  PartsInv'
<1>1. TypeOK /\ PartTypes' /\ NNodes \in Nat /\ node_n[t] \in Nat /\ Participants \subseteq Threads
      /\ n_graph[2] \in Nat /\ current_chunk' \in Nat
  BY PartTypesOfCompute, NodesType, ParticipantsAreThreads DEF MeetInv, PartsInv, Compute, TypeOK, PartTypes
<1>2. /\ UNCHANGED <<last_graph, node_n, ret, n_graph, cgraph, n_barrier_passed, abort, nth, wdata>>
      /\ NNodes' = NNodes /\ Participants' = Participants /\ OnlyMoves(t) /\ OthersKeep(t) /\ t \in Participants
      /\ At(t) = "chunk" /\ At(t)' \in {"chunk", "computed"} /\ ~New(t) /\ ~New(t)'
      /\ node_n[t] \in 0 .. NNodes - 1 /\ nth[t] = n_graph[2] /\ Node(node_n[t]).op = "mul_mat"
  BY ChunkFacts
<1>3. Knows(t)' /\ HasPacked(t)'
  <2>1. Node(node_n[t])' = Node(node_n[t])
    BY <1>2 DEF Node
  <2>2. Knows(t)'
    BY <1>1, <1>2, <2>1 DEF Knows, Busy, Barrier
  <2>3. HasPacked(t)'
    BY <1>2 DEF HasPacked, Barrier
  <2> QED
    BY <2>2, <2>3
<1>4. \A u \in Threads : Knows(u)' /\ HasPacked(u)'
  <2>1. ~(At(0) \in Barrier /\ ret[0] = "chunk")
    BY <1>2, NobodyWaits, ZeroIsThread
  <2> QED
    BY <1>2, <1>3, <2>1, OthersAtParts DEF PartsInv
<1>5. AllPacked'
  BY <1>1, <1>2, PackedFrame DEF MeetInv, PartsInv
<1>6. EndsHere'
  <2>1. t = 0 => EndsHere'
    BY <1>2 DEF EndsHere, Barrier
  <2> QED
    BY <1>2, <2>1, EndsFrame DEF PartsInv
<1>7. PICK i \in 0 .. NNodes - 1 : i = node_n[t]
  BY <1>2
<1>8. Dealt(i)' /\ \A j \in 0 .. NNodes - 1 : j # i => times'[j] = times[j]
  BY <1>7, ChunkDealt
<1>9. \A u \in Participants \ {t} : \A j : (Passed(u, j)' <=> Passed(u, j)) /\ (InChunk(u, j)' <=> InChunk(u, j))
  BY <1>1, <1>2, OthersAtParts
<1>10. \A j : j # i => (Passed(t, j)' <=> Passed(t, j)) /\ ~InChunk(t, j) /\ ~InChunk(t, j)'
  BY <1>2, <1>7 DEF Passed, InChunk, Left, Away, Barrier
<1>11. ASSUME NEW j \in 0 .. NNodes - 1, j # i PROVE NodeState(j)'
  <2>1. NodeState(j) /\ times'[j] = times[j]
    BY <1>8, <1>11 DEF PartsInv
  <2>2. \A u \in Participants : (Passed(u, j)' <=> Passed(u, j)) /\ (InChunk(u, j)' <=> InChunk(u, j))
    BY <1>9, <1>10, <1>11
  <2>3. \A u \in Participants : ~InChunk(u, j)
    <3> SUFFICES ASSUME NEW u \in Participants, InChunk(u, j) PROVE FALSE
      OBVIOUS
    <3>1. At(u) = "chunk" /\ node_n[u] = j
      BY DEF InChunk
    <3>2. node_n[u] = node_n[t]
      BY <1>2, <3>1, OneChunkedNode
    <3> QED
      BY <1>7, <1>11, <3>1, <3>2
  <2> QED
    BY <1>2, <2>1, <2>2, <2>3, NodeFrame
<1>12. NodeState(i)'
  <2>1. Opened(t, i)'
    BY <1>2, <1>7 DEF Opened, Passed, InChunk, Left, Away, Barrier
  <2>2. ASSUME \A u \in Participants : Passed(u, i)' PROVE Complete(i)'
    <3>1. NChunk(i, n_graph[2])' <= current_chunk' /\ times'[i] = Once(DealtChunks(i))'
      BY <1>2, <1>8, <2>2 DEF Dealt
    <3>2. NChunk(i, n_graph[2])' = NChunk(i, n_graph[2]) /\ NChunk(i, n_graph[2]) \in Nat
      BY <1>1, <1>2, NodesType DEF NChunk, Node, Nodes
    <3>3. \A u \in Participants : ~InChunk(u, i)'
      BY <2>2 DEF Passed, InChunk, Left, Away, Barrier
    <3>4. DealtChunks(i)' = {c \in 0 .. NChunk(i, n_graph[2])' - 1 : c < current_chunk'}
      BY <1>2, <3>3 DEF DealtChunks
    <3>5. DealtChunks(i)' = 0 .. NChunk(i, n_graph[2])' - 1
      BY <1>1, <3>1, <3>2, <3>4
    <3> QED
      BY <3>1, <3>5 DEF Complete, Once
  <2>3. Node(i)'.op = "mul_mat"
    BY <1>2, <1>7 DEF Node
  <2> QED
    BY <1>2, <1>8, <2>1, <2>2, <2>3 DEF NodeState
<1> QED
  BY <1>1, <1>2, <1>4, <1>5, <1>6, <1>11, <1>12 DEF PartsInv

(* The first chunks of a product: every thread holds the one of its number *)
(* and none is done.                                                       *)
LEMMA DealtFirst ==
  ASSUME NEW i \in Nat, n_graph'[2] \in Nat, times'[i] = <<>>, current_chunk' = n_graph'[2],
         \A u \in Participants' : InChunk(u, i)' /\ current'[u] = u
  PROVE  Dealt(i)'
<1>1. \A u \in Participants' : u \in Nat /\ u < n_graph'[2]
  BY DEF Participants
<1>2. DealtChunks(i)' = {}
  <2> SUFFICES ASSUME NEW c \in DealtChunks(i)' PROVE FALSE
    OBVIOUS
  <2>1. c < n_graph'[2] /\ c \in Nat /\ \A u \in Participants' : InChunk(u, i)' => current'[u] # c
    BY DEF DealtChunks
  <2>2. c \in Participants'
    BY <2>1 DEF Participants
  <2> QED
    BY <2>1, <2>2
<1>3. Once(DealtChunks(i))' = <<>>
  BY <1>2 DEF Once
<1>4. \A u \in Participants' : ~Passed(u, i)'
  BY DEF Passed, InChunk, Left, Away, Barrier
<1> QED
  BY <1>1, <1>3, <1>4 DEF Dealt

LEMMA PartsPack ==
  ASSUME MeetInv, PartsInv, NEW t \in Threads, Pack(t)
  PROVE  PartsInv'
<1>1. TypeOK /\ PartTypes /\ PartTypes' /\ NNodes \in Nat /\ node_n[t] \in Nat /\ Participants \subseteq Threads
  BY PartTypesOfCompute, NodesType, ParticipantsAreThreads DEF MeetInv, PartsInv, Compute, TypeOK
<1>2. UNCHANGED <<last_graph, node_n, n_passed, n_graph, cgraph, graphs, n_barrier_passed, abort, nth, times>>
      /\ pc[t] = "pack" /\ EnterBarrier(t, "chunk")
      /\ wdata' = [wdata EXCEPT ![t] = node_n[t]] /\ current' = [current EXCEPT ![t] = t]
      /\ current_chunk' = IF t = 0 THEN nth[t] ELSE current_chunk
  BY DEF Pack, flags
<1>3. OnlyMoves(t) /\ OthersKeep(t)
  BY <1>1, <1>2, NoChange, MovesAlone DEF EnterBarrier, OthersKeep, PartTypes
<1>4. ret'[t] = "chunk" /\ pc'[t] = (IF n_graph[2] = 1 THEN "chunk" ELSE "enter")
      /\ wdata'[t] = node_n[t] /\ current'[t] = t
  BY <1>1, <1>2 DEF EnterBarrier, Goto, TypeOK, PartTypes
<1>5. At(t) = "pack" /\ At(t)' = pc'[t] /\ At(t) \notin Left \union Barrier
  BY <1>2, <1>4 DEF At, Left, Away, Barrier
<1>6. t \in Participants /\ ~New(t) /\ ~New(t)'
  BY <1>2, <1>5, InsideIsNoticed DEF New
<1>7. node_n[t] < NNodes /\ nth[t] = n_graph[2] /\ Node(node_n[t]).op = "mul_mat" /\ NNodes' = NNodes
  <2>1. Knows(t)
    BY DEF PartsInv
  <2> QED
    BY <1>2, <1>5, <2>1 DEF Knows, Busy, NNodes
<1>8. \A u \in Participants : At(u) # "chunk"
  BY <1>5, NobodyWaits
<1>9. Knows(t)'
  <2>1. Node(node_n[t])' = Node(node_n[t])
    BY <1>2 DEF Node
  <2> QED
    BY <1>1, <1>2, <1>4, <1>5, <1>7, <2>1 DEF Knows, Busy, Barrier
<1>10. HasPacked(t)'
  BY <1>2, <1>4, <1>7 DEF HasPacked
<1>11. t = 0 => EndsHere'
  BY <1>4 DEF EndsHere
<1>12. \A u \in Participants \ {t} : At(u)' # "chunk"
  BY <1>1, <1>3, <1>8, OthersStay
<1>13. Participants' = Participants
  BY <1>2 DEF Participants
<1>14. CASE n_graph[2] # 1
  <2>1. At(t)' = "enter" /\ At(t)' \in Barrier /\ At(t)' \notin Left
    BY <1>4, <1>5, <1>14 DEF Barrier, Left, Away
  <2>2. AllPacked'
    BY <1>12, <1>13, <2>1 DEF AllPacked
  <2>3. \A j : (Passed(t, j)' <=> Passed(t, j)) /\ (InChunk(t, j)' <=> InChunk(t, j))
    BY <1>2, <1>4, <1>5, <1>6, <2>1 DEF Passed, InChunk
  <2> QED
    BY <1>1, <1>2, <1>3, <1>5, <1>8, <1>9, <1>10, <1>11, <2>2, <2>3, PartsWalk
<1>15. CASE n_graph[2] = 1
  <2>1. t = 0 /\ Participants = {0} /\ At(0)' = "chunk"
    BY <1>4, <1>5, <1>6, <1>15 DEF Participants
  <2>2. \A u \in Threads : Knows(u)' /\ HasPacked(u)'
    BY <1>3, <1>9, <1>10, <2>1, OthersAtParts DEF PartsInv
  <2>3. AllPacked'
    BY <1>2, <1>4, <1>13, <2>1 DEF AllPacked
  <2>4. PICK i \in 0 .. NNodes - 1 : i = node_n[0]
    BY <1>1, <1>7, <2>1
  <2>5. ~Opened(0, i) /\ InChunk(0, i)'
    BY <1>2, <1>5, <2>1, <2>4 DEF Opened, Passed, InChunk
  <2>6. NodeState(i)'
    <3>1. times'[i] = <<>>
      BY <1>2, <1>7, <2>1, <2>4, <2>5 DEF PartsInv, NodeState
    <3>2. current_chunk' = n_graph'[2] /\ n_graph'[2] \in Nat
      BY <1>2, <1>7, <1>15, <2>1
    <3>3. Dealt(i)'
      BY <1>4, <1>13, <2>1, <2>5, <3>1, <3>2, DealtFirst
    <3>4. Node(i)'.op = "mul_mat"
      BY <1>2, <1>7, <2>1, <2>4 DEF Node
    <3>5. ~Passed(0, i)'
      BY <2>1, <2>5 DEF Passed, InChunk, Left, Away, Barrier
    <3> QED
      BY <1>13, <2>1, <2>5, <3>3, <3>4, <3>5 DEF NodeState, Opened
  <2>7. ASSUME NEW j \in 0 .. NNodes - 1, j # i PROVE NodeState(j)'
    <3>1. NodeState(j) /\ times'[j] = times[j]
      BY <1>2 DEF PartsInv
    <3>2. (Passed(0, j)' <=> Passed(0, j)) /\ (InChunk(0, j)' <=> InChunk(0, j))
      BY <1>2, <1>5, <1>6, <2>1, <2>4, <2>7 DEF Passed, InChunk, Left, Away, Barrier
    <3>3. ~InChunk(0, j)
      BY <1>5, <2>1 DEF InChunk
    <3> QED
      BY <1>2, <2>1, <3>1, <3>2, <3>3, NodeFrame
  <2> QED
    BY <1>1, <1>7, <1>11, <2>1, <2>2, <2>3, <2>6, <2>7 DEF PartsInv
<1> QED
  BY <1>14, <1>15

LEMMA PartsOpen ==
  ASSUME MeetInv, PartsInv, NEW t \in Threads, OpenBarrier(t)
  PROVE  PartsInv'
<1>1. TypeOK /\ PartTypes /\ PartTypes' /\ NNodes \in Nat /\ node_n[t] \in Nat /\ Participants \subseteq Threads
      /\ n_graph[2] \in Nat /\ ret[t] \in {"chunk", "step", "finish"}
  BY PartTypesOfCompute, NodesType, ParticipantsAreThreads DEF MeetInv, PartsInv, Compute, TypeOK
<1>2. /\ UNCHANGED <<last_graph, node_n, n_passed, ret, n_graph, cgraph, graphs, n_barrier, abort,
                     nth, current, current_chunk, wdata, times>>
      /\ NNodes' = NNodes /\ Participants' = Participants /\ t \in Participants
  <2>1. UNCHANGED <<nth, current, current_chunk, wdata, times>>
    BY DEF OpenBarrier, locals, work
  <2> QED
    BY <2>1, OpenTogether DEF NNodes
<1>3. \A u \in Participants : /\ At(u) \in Barrier /\ At(u) \notin Left \union {"chunk", "computed", "step"}
                              /\ ~New(u) /\ ~New(u)' /\ At(u)' = ret[t] /\ At(u)' \notin Barrier
                              /\ ret[u] = ret[t] /\ node_n[u] = node_n[t]
  <2>1. ret[t] \notin Barrier
    BY <1>1 DEF Barrier
  <2>2. \A l \in {"spin", "pass"} : l \in Barrier /\ l \notin Left \union {"chunk", "computed", "step"}
    BY DEF Barrier, Left, Away
  <2> QED
    BY <2>1, <2>2, OpenTogether
<1>4. \A u \in Threads \ Participants : At(u) \in Left /\ At(u)' = At(u)
  BY OpenTogether
<1>5. \A u \in Threads : Knows(u) /\ HasPacked(u)
  BY DEF PartsInv
<1>6. 0 \in Participants
  BY <1>1, <1>2 DEF Participants
<1>7. \A i : Node(i)' = Node(i)
  BY <1>2 DEF Node
<1>8. ASSUME NEW u \in Threads PROVE Knows(u)' /\ HasPacked(u)'
  <2>1. CASE u \in Participants
    <3>1. nth[u] = n_graph[2]
      BY <1>3, <1>5, <2>1 DEF Knows
    <3>2. ret[t] # "finish" => node_n[u] < NNodes
      BY <1>3, <1>5, <2>1 DEF Knows
    <3>3. ret[t] = "chunk" => Node(node_n[u]).op = "mul_mat"
      BY <1>3, <1>5, <2>1 DEF Knows
    <3>4. Node(node_n[u])' = Node(node_n[u])
      BY <1>2 DEF Node
    <3>5. Knows(u)'
      BY <1>1, <1>2, <1>3, <2>1, <3>1, <3>2, <3>3, <3>4 DEF Knows, Busy
    <3>6. HasPacked(u)'
      BY <1>3, <2>1 DEF HasPacked
    <3> QED
      BY <3>5, <3>6
  <2>2. CASE u \notin Participants
    <3>1. At(u)' \in Left /\ At(u)' \notin Barrier \union Busy
      BY <1>4, <2>2 DEF Left, Away, Barrier, Busy
    <3> QED
      BY <3>1 DEF Knows, HasPacked, Busy
  <2> QED
    BY <2>1, <2>2
<1>9. AllPacked'
  <2> SUFFICES ASSUME NEW v \in Participants, NEW u \in Participants, At(v)' = "chunk" PROVE wdata'[u] = node_n'[v]
    BY <1>2 DEF AllPacked
  <2>1. ret[t] = "chunk"
    BY <1>3
  <2>2. wdata[u] = node_n[u]
    BY <1>1, <1>3, <1>5, <2>1 DEF HasPacked
  <2> QED
    BY <1>2, <1>3, <2>2
<1>10. EndsHere'
  BY <1>3, <1>6 DEF EndsHere
<1>11. PICK i \in Nat : i = node_n[t]
  BY <1>1
<1>12. \A u \in Participants : \A j \in Nat :
         /\ ~InChunk(u, j) /\ (InChunk(u, j)' <=> ret[t] = "chunk" /\ j = i)
         /\ Passed(u, j) <=> (j < i \/ (j = i /\ ret[t] = "step"))
  BY <1>2, <1>3, <1>11 DEF InChunk, Passed
<1>13. \A u \in Participants : \A j \in Nat : Passed(u, j)' <=> Passed(u, j)
  <2>1. CASE ret[t] \in {"chunk", "step"}
    <3>1. ret[t] \notin Left \union Barrier
      BY <2>1 DEF Left, Away, Barrier
    <3> QED
      BY <1>2, <1>3, <1>11, <1>12, <2>1, <3>1 DEF Passed
  <2>2. CASE ret[t] = "finish"
    <3>1. i = End
      BY <1>3, <1>6, <1>11, <2>2 DEF PartsInv, EndsHere
    <3>2. End' = End
      BY <1>2 DEF End
    <3>3. ret[t] \in Left
      BY <2>2 DEF Left
    <3> QED
      BY <1>3, <1>12, <2>2, <3>1, <3>2, <3>3 DEF Passed
  <2> QED
    BY <1>1, <2>1, <2>2
<1>14. ASSUME NEW j \in 0 .. NNodes - 1 PROVE NodeState(j)'
  <2>1. NodeState(j) /\ times'[j] = times[j] /\ j \in Nat
    BY <1>2 DEF PartsInv
  <2>2. CASE ~(ret[t] = "chunk" /\ j = i)
    BY <1>2, <1>12, <1>13, <2>1, <2>2, NodeFrame
  <2>3. CASE ret[t] = "chunk" /\ j = i
    <3>1. Node(j).op = "mul_mat"
      BY <1>2, <1>3, <1>5, <1>11, <2>3 DEF Knows
    <3>2. \A u \in Participants : ~Opened(u, j) /\ ~Passed(u, j)'
      BY <1>12, <1>13, <2>1, <2>3 DEF Opened
    <3>3. times'[j] = <<>>
      BY <2>1, <3>1, <3>2 DEF NodeState
    <3>4. \A u \in Participants : InChunk(u, j)' /\ current'[u] = u
      BY <1>1, <1>2, <1>3, <1>5, <1>12, <2>1, <2>3 DEF HasPacked
    <3>5. current_chunk' = n_graph'[2]
      BY <1>1, <1>2, <1>3, <1>5, <1>6, <2>3 DEF HasPacked
    <3>6. Dealt(j)'
      BY <1>1, <1>2, <2>1, <3>3, <3>4, <3>5, DealtFirst
    <3>7. Node(j)'.op = "mul_mat"
      BY <1>7, <3>1
    <3> QED
      BY <1>2, <1>6, <3>2, <3>4, <3>6, <3>7 DEF NodeState, Opened
  <2> QED
    BY <2>2, <2>3
<1> QED
  BY <1>1, <1>2, <1>8, <1>9, <1>10, <1>14 DEF PartsInv

----------------------------------------------------------------------------
(* The calling thread between the graphs. *)

LEMMA PartsGraphCompute ==
  ASSUME MeetInv, PartsInv, NEW p \in Plans, GraphCompute(p)
  PROVE  PartsInv'
<1>1. PartTypes'
  BY PartTypesOfOthers DEF PartsInv
<1>2. cgraph' = p.cgraph /\ p.cgraph \in Seq(Nodes) /\ times' = [i \in 0 .. Len(p.cgraph) - 1 |-> [c \in {} |-> 0]]
  BY PlansAssumption DEF GraphCompute, Nodes
<1>3. \A j \in 0 .. NNodes' - 1 : times'[j] = <<>>
  BY <1>2 DEF NNodes
<1>4. \A t \in Threads : At(t)' \in Left \union {"wake"}
  BY NewGraph, ZeroIsThread
<1>5. \A t \in Threads : At(t)' \notin Busy \union Barrier
  BY <1>4 DEF Left, Away, Busy, Barrier
<1>6. Participants' \subseteq Threads /\ 0 \in Participants'
  BY NewGraph, ThreadsAssumption DEF Participants, Threads
<1>7. \A t \in Participants', j \in Nat : ~Passed(t, j)' /\ ~InChunk(t, j)' /\ ~Opened(t, j)'
  <2> SUFFICES ASSUME NEW t \in Participants', NEW j \in Nat PROVE ~Passed(t, j)' /\ ~InChunk(t, j)'
    BY DEF Opened
  <2>1. ~InChunk(t, j)'
    BY <1>5, <1>6 DEF InChunk, Busy
  <2>2. CASE t = 0
    <3>1. node_n'[0] = 0 /\ At(0)' = "wake"
      BY NewGraph, ZeroIsThread DEF MeetInv, OutsidersLeft, Away
    <3> QED
      BY <2>1, <2>2, <3>1 DEF Passed, Left, Away, Barrier
  <2>3. CASE t # 0
    <3>1. New(t)'
      BY <1>6, <2>3, NewGraph, ZeroIsThread
    <3> QED
      BY <2>1, <3>1 DEF Passed
  <2> QED
    BY <2>2, <2>3
<1>8. \A t \in Threads : Knows(t)' /\ HasPacked(t)'
  BY <1>5 DEF Knows, HasPacked, Busy
<1>9. AllPacked' /\ EndsHere'
  BY <1>5, <1>6, ZeroIsThread DEF AllPacked, EndsHere, Busy
<1>10. ASSUME NEW j \in 0 .. NNodes' - 1 PROVE NodeState(j)'
  <2>1. j \in Nat /\ times'[j] = <<>>
    BY <1>2, <1>3 DEF NNodes
  <2>2. {t \in Participants : Passed(t, j)}' = {}
    BY <1>7, <2>1
  <2>3. Once({t \in Participants : Passed(t, j)})' = <<>>
    BY <2>2 DEF Once
  <2> QED
    BY <1>6, <1>7, <2>1, <2>3 DEF NodeState
<1> QED
  BY <1>1, <1>8, <1>9, <1>10 DEF PartsInv

LEMMA PartsShuffle ==
  ASSUME MeetInv, PartsInv, PartTypes', UNCHANGED <<locals, counters, work, n_graph, cgraph, graphs, abort>>,
         \A t \in Threads : \/ pc'[t] = pc[t]
                            \/ pc[t] \in Away /\ pc'[t] \in Away
                            \/ t = 0 /\ pc[t] = "wake" /\ pc'[t] = "start"
  PROVE  PartsInv'
<1>1. UNCHANGED <<last_graph, node_n, n_passed, ret, nth, current, n_barrier_passed, current_chunk, times, wdata>>
      /\ NNodes' = NNodes /\ End' = End /\ Participants' = Participants /\ Participants \subseteq Threads
  BY ParticipantsAreThreads DEF locals, counters, work, NNodes, End, Participants, MeetInv
<1>2. \A t \in Threads : New(t)' = New(t)
  BY <1>1 DEF New
<1>3. \A t \in Threads : At(t)' = At(t) \/ (At(t) \in Left /\ At(t)' \in Left) \/ (At(t) = "wake" /\ At(t)' = "start")
  BY <1>1 DEF At, Away, Left
<1>4. \A t \in Threads : At(t)' = At(t) \/ (At(t) \notin Busy \union Barrier /\ At(t)' \notin Busy \union Barrier)
  BY <1>3 DEF Left, Away, Busy, Barrier
<1>5. ASSUME NEW t \in Threads PROVE Knows(t)' /\ HasPacked(t)'
  <2>1. Knows(t) /\ HasPacked(t)
    BY DEF PartsInv
  <2>2. Node(node_n[t])' = Node(node_n[t])
    BY <1>1 DEF Node
  <2>3. CASE At(t)' = At(t)
    <3>1. Knows(t)'
      BY <1>1, <2>1, <2>2, <2>3 DEF Knows
    <3>2. HasPacked(t)'
      BY <1>1, <2>1, <2>3 DEF HasPacked
    <3> QED
      BY <3>1, <3>2
  <2>4. CASE At(t)' \notin Busy \union Barrier
    BY <2>4 DEF Knows, HasPacked, Busy
  <2> QED
    BY <1>4, <2>3, <2>4
<1>6. AllPacked' /\ EndsHere'
  <2>1. AllPacked'
    BY <1>1, <1>4 DEF PartsInv, AllPacked, Busy
  <2>2. EndsHere'
    BY <1>1, <1>4, ZeroIsThread DEF PartsInv, EndsHere
  <2> QED
    BY <2>1, <2>2
<1>7. ASSUME NEW t \in Participants, NEW j \in 0 .. NNodes - 1
      PROVE  (Passed(t, j)' <=> Passed(t, j)) /\ (InChunk(t, j)' <=> InChunk(t, j))
  <2>1. t \in Threads /\ (At(t) = "wake" => node_n[t] = 0)
    <3>1. At(t) = "wake" => pc[t] = "wake"
      BY <1>1 DEF MeetInv, TypeOK, At
    <3> QED
      BY <1>1, <3>1 DEF MeetInv, OutsidersLeft
  <2>2. CASE At(t)' = At(t)
    BY <1>1, <1>2, <2>1, <2>2 DEF Passed, InChunk
  <2>3. CASE At(t) \in Left /\ At(t)' \in Left
    BY <1>1, <1>2, <2>1, <2>3 DEF Passed, InChunk, Left, Away
  <2>4. CASE At(t) = "wake" /\ At(t)' = "start"
    BY <1>1, <1>2, <2>1, <2>4 DEF Passed, InChunk, Left, Away, Barrier
  <2> QED
    BY <1>3, <2>1, <2>2, <2>3, <2>4
<1>8. \A j \in 0 .. NNodes - 1 : NodeState(j)'
  BY <1>1, <1>7, NodesFrame
<1> QED
  BY <1>1, <1>5, <1>6, <1>8 DEF PartsInv

----------------------------------------------------------------------------

LEMMA PartsInit ==
  ASSUME Init
  PROVE  PartsInv
<1>1. cgraph = <<>> /\ NNodes = 0 /\ Participants = {} /\ times = <<>>
  BY DEF Init, NNodes, Participants
<1>2. PartTypes
  <2>1. times = [j \in 0 .. NNodes - 1 |-> times[j]]
    BY <1>1
  <2> QED
    BY <2>1 DEF Init, PartTypes, NoAbort
<1>3. \A t \in Threads : At(t) \notin Busy \union Barrier
  BY DEF Init, At, Busy, Barrier
<1>4. \A t \in Threads : Knows(t) /\ HasPacked(t)
  BY <1>3 DEF Knows, HasPacked, Busy
<1>5. AllPacked /\ EndsHere
  BY <1>1, <1>3, ZeroIsThread DEF AllPacked, EndsHere
<1> QED
  BY <1>1, <1>2, <1>4, <1>5 DEF PartsInv

LEMMA PartsNext ==
  ASSUME MeetInv, PartsInv, [Next]_vars
  PROVE  PartsInv'
<1>1. CASE UNCHANGED vars
  <2>1. PartTypes'
    BY <1>1, PartTypesOfOthers DEF PartsInv
  <2>2. UNCHANGED <<locals, counters, work, n_graph, cgraph, graphs, abort, pc>>
    BY <1>1 DEF vars, flags
  <2> QED
    BY <2>1, <2>2, PartsShuffle
<1>2. CASE \E p \in Plans : GraphCompute(p)
  BY <1>2, PartsGraphCompute
<1>3. CASE KickoffWake \/ Pause \/ Resume \/ FreeStop \/ FreeJoin
  <2>1. PartTypes'
    BY <1>3, PartTypesOfOthers DEF PartsInv
  <2> QED
    BY <1>3, <2>1, OwnerShuffles, PartsShuffle
<1>4. CASE \E w \in Workers : Search(w) \/ SpuriousWake(w)
  BY <1>4, PartsOfSearch
<1>5. ASSUME NEW t \in Threads, Compute(t) PROVE PartsInv'
  <2>1. CASE NodeDone(t)
    <3>1. abort' = abort \/ (t = 0 /\ abort' = node_n[0] + 1)
      BY <2>1 DEF NodeDone
    <3> QED
      BY <2>1, <3>1, PartsNodeDone, PartsAbort
  <2> QED
    BY <1>5, <2>1, PartsStart, PartsNextNode, PartsComputeRows, PartsChunk, PartsPack, PartsStep, PartsAtBarrier,
       PartsOpen, PartsFinish DEF Compute
<1> QED
  BY <1>1, <1>2, <1>3, <1>4, <1>5 DEF Next

(* Whatever has to be computed of a node is computed once and before any   *)
(* thread works on a later node, with any number of threads and chunks.    *)
THEOREM PartsAreComputedInOrder == Spec => []PartsInOrder
<1>1. Spec => [](MeetInv /\ PartsInv)
  BY MeetInit, MeetNext, PartsInit, PartsNext, PTL DEF Spec
<1> QED
  BY <1>1, InvImpliesPartsInOrder, PTL

(* The caller gets whole nodes: all of them, or those before the abort.    *)
THEOREM ResultsAreWhole == Spec => []ResultIsWholeNodes
<1>1. Spec => [](MeetInv /\ PartsInv)
  BY MeetInit, MeetNext, PartsInit, PartsNext, PTL DEF Spec
<1> QED
  BY <1>1, InvImpliesResult, PTL
=============================================================================
