----------------------------- MODULE ThreadPool -----------------------------
(***************************************************************************)
(* The CPU thread pool of ggml, as it is built without OpenMP              *)
(* (ggml-cpu.c).  The calling thread, worker 0, hands graph after graph to *)
(* the pool and computes with it; the others poll for a new graph and then *)
(* sleep on a condition variable.  Between two nodes, and inside every     *)
(* matrix product, all of them meet at a spinning barrier; the chunks of a *)
(* product are dealt out by one shared counter.                            *)
(*                                                                         *)
(* One action is one access to shared memory, or one section under the     *)
(* mutex.  The atomics are taken as sequentially consistent.  The pool is  *)
(* paused, resumed, used and freed by the one thread that owns it, as the  *)
(* backend (ggml-cpu.cpp) and test-barrier.cpp do.                         *)
(***************************************************************************)
EXTENDS Integers, Sequences

CONSTANTS NThreads,        \* threads of the pool, the calling one included
          Plans,           \* graphs with the number of threads asked for each
          ChunksPerThread, \* fewer chunks than this per thread: one per thread (4)
          GraphIds,        \* values of the graph number in n_graph (2^16)
          MaxGraphs,       \* bound: graphs computed
          MaxPauses        \* bound: pauses of the pool

ASSUME ThreadsAssumption == NThreads \in Nat \ {0}
ASSUME PlansAssumption ==
  \A p \in Plans :
    /\ p.n_threads \in Nat \ {0}
    /\ p.cgraph \in Seq([op : {"none", "rows", "mul_mat"}, nchunk : Nat])
\* Fewer graphs than graph numbers: a worker cannot sleep through a whole turn.
ASSUME BoundsAssumption ==
  ChunksPerThread \in Nat /\ MaxGraphs \in Nat /\ GraphIds \in Nat /\ MaxGraphs < GraphIds

VARIABLES pc,               \* where each thread is
          last_graph,       \* the last n_graph a worker took notice of
          node_n, nth,      \* locals: the node, the threads of this graph
          current,          \* local: current_chunk of mul_mat
          n_passed, ret,    \* locals of the barrier: count read, where it ends
          n_graph,          \* <<number of the graph, its threads>>
          n_barrier, n_barrier_passed, current_chunk,
          stop, pause, abort, ec, cgraph,
          times,            \* history: times[node][chunk] of this graph
          wdata,            \* the node for which thread t packed its share
          graphs, pauses    \* graphs and pauses so far

locals == <<last_graph, node_n, nth, current, n_passed, ret>>
flags == <<stop, pause, abort, ec, cgraph, n_graph, graphs, pauses>>
counters == <<n_barrier, n_barrier_passed, current_chunk>>
work == <<times, wdata>>
vars == <<pc, locals, flags, counters, work>>

Threads == 0 .. NThreads - 1
Workers == Threads \ {0}
NoAbort == -1

Asleep == {"asleep_paused", "asleep_work"}
Barrier == {"enter", "arrive", "reset", "pass", "spin"}
Busy == {"head", "pack", "chunk", "rows", "computed", "step"} \* uses cgraph and cplan

Node(i) == cgraph[i + 1]
NNodes == Len(cgraph)

\* ggml_compute_forward_mul_mat: the number of chunks, after the re-chunking;
\* an operation that is split by rows gives each thread one part.
NChunk(i, n) ==
  IF Node(i).op = "rows" \/ Node(i).nchunk < n * ChunksPerThread
  THEN n ELSE Node(i).nchunk

Goto(t, l) == pc' = [pc EXCEPT ![t] = l]

\* ggml_cond_broadcast: sleepers in the pause loop look at pause again, the
\* others take the mutex and look for work again.
Broadcast(l) ==
  pc' = [t \in Threads |-> IF pc[t] = "asleep_paused" THEN "loop"
                           ELSE IF pc[t] = "asleep_work" THEN "lock"
                           ELSE IF t = 0 THEN l ELSE pc[t]]

\* kickoff holds the mutex between its store of n_graph and its broadcast.
MutexFree == pc[0] # "wake"

----------------------------------------------------------------------------
(* ggml_threadpool_new_impl: running or paused, no graph yet. *)

Init ==
  /\ pc = [t \in Threads |-> IF t = 0 THEN "idle" ELSE "loop"]
  /\ last_graph = [t \in Threads |-> <<0, 0>>]
  /\ node_n = [t \in Threads |-> 0] /\ nth = [t \in Threads |-> 0]
  /\ current = [t \in Threads |-> 0]
  /\ n_passed = [t \in Threads |-> 0] /\ ret = [t \in Threads |-> "finish"]
  /\ n_graph = <<0, 0>> /\ n_barrier = 0 /\ n_barrier_passed = 0
  /\ current_chunk = 0 /\ stop = FALSE /\ pause \in BOOLEAN
  /\ abort = NoAbort /\ ec = "SUCCESS" /\ cgraph = <<>>
  /\ times = <<>> /\ wdata = [t \in Threads |-> 0]
  /\ graphs = 0 /\ pauses = 0

----------------------------------------------------------------------------
(* The calling thread. *)

\* ggml_graph_compute: the parameters are reset, then kickoff takes the
\* mutex and stores the new n_graph, which polling workers see at once.
GraphCompute(p) ==
  LET n == IF p.n_threads > NThreads THEN NThreads ELSE p.n_threads IN
  /\ pc[0] = "idle" /\ ~stop /\ graphs < MaxGraphs
  /\ cgraph' = p.cgraph /\ current_chunk' = 0
  /\ abort' = NoAbort /\ ec' = "SUCCESS"
  /\ n_graph' = <<(n_graph[1] + 1) % GraphIds, n>>
  /\ times' = [i \in 0 .. Len(p.cgraph) - 1 |-> [c \in {} |-> 0]]
  /\ wdata' = [t \in Threads |-> Len(p.cgraph)]
  /\ graphs' = graphs + 1
  /\ Goto(0, "wake")
  /\ UNCHANGED <<locals, n_barrier, n_barrier_passed, stop, pause, pauses>>

\* The rest of kickoff: resume the pool or wake its sleepers, unlock.
KickoffWake ==
  /\ pc[0] = "wake"
  /\ pause' = FALSE
  /\ Broadcast("start")
  /\ UNCHANGED <<locals, counters, work, stop, abort, ec, cgraph, n_graph, graphs, pauses>>

Pause ==
  /\ pc[0] = "idle" /\ ~stop /\ pauses < MaxPauses
  /\ ~pause /\ pause' = TRUE /\ pauses' = pauses + 1
  /\ Broadcast("idle")
  /\ UNCHANGED <<locals, counters, work, stop, abort, ec, cgraph, n_graph, graphs>>

Resume ==
  /\ pc[0] = "idle" /\ ~stop
  /\ pause /\ pause' = FALSE
  /\ Broadcast("idle")
  /\ UNCHANGED <<locals, counters, work, stop, abort, ec, cgraph, n_graph, graphs, pauses>>

\* Mutant: the pool is told to stop while it stays paused.
FreeStopPaused ==
  /\ pc[0] = "idle" /\ ~stop
  /\ stop' = TRUE
  /\ Broadcast("join")
  /\ UNCHANGED <<locals, counters, work, pause, abort, ec, cgraph, n_graph, graphs, pauses>>

\* ggml_threadpool_free: stop everybody, then join.
FreeStop ==
  /\ pc[0] = "idle" /\ ~stop
  /\ stop' = TRUE /\ pause' = FALSE
  /\ Broadcast("join")
  /\ UNCHANGED <<locals, counters, work, abort, ec, cgraph, n_graph, graphs, pauses>>

FreeJoin ==
  /\ pc[0] = "join" /\ \A w \in Workers : pc[w] = "exited"
  /\ Goto(0, "freed")
  /\ UNCHANGED <<locals, counters, work, flags>>

----------------------------------------------------------------------------
(* ggml_graph_compute_secondary_thread: a worker that looks for work. *)

\* while (pause): the flag is read before the mutex is taken ...
LookAtPause(w) ==
  /\ pc[w] = "loop"
  /\ Goto(w, IF pause THEN "pausing" ELSE "unpaused")
  /\ UNCHANGED <<locals, counters, work, flags>>

\* ... and again under it.
SleepPaused(w) ==
  /\ pc[w] = "pausing" /\ MutexFree
  /\ Goto(w, IF pause THEN "asleep_paused" ELSE "loop")
  /\ UNCHANGED <<locals, counters, work, flags>>

LookAtStop(w) ==
  /\ pc[w] = "unpaused"
  /\ Goto(w, IF stop THEN "exited" ELSE "poll")
  /\ UNCHANGED <<locals, counters, work, flags>>

Ready(w) == stop \/ pause \/ n_graph # last_graph[w]

\* ggml_graph_compute_thread_ready found the thread ready: stop and pause come
\* before the new graph.  state->pending is the step to "start".
TakeNotice(w, idle) ==
  IF stop \/ pause THEN Goto(w, idle) /\ UNCHANGED last_graph
  ELSE /\ last_graph' = [last_graph EXCEPT ![w] = n_graph]
       /\ Goto(w, IF w < n_graph[2] THEN "start" ELSE idle)

\* poll_for_work: ready, or tired of polling.  Without work for it the worker
\* goes on to the mutex in either case.
Poll(w) ==
  /\ pc[w] = "poll"
  /\ IF Ready(w) THEN TakeNotice(w, "lock") ELSE Goto(w, "lock") /\ UNCHANGED last_graph
  /\ UNCHANGED <<node_n, nth, current, n_passed, ret, counters, work, flags>>

\* check_for_work under the mutex: back to the loop, or asleep.
CheckForWork(w) ==
  /\ pc[w] = "lock" /\ MutexFree
  /\ IF Ready(w) THEN TakeNotice(w, "loop") ELSE Goto(w, "asleep_work") /\ UNCHANGED last_graph
  /\ UNCHANGED <<node_n, nth, current, n_passed, ret, counters, work, flags>>

\* A condition variable may wake its sleeper for no reason.
SpuriousWake(w) ==
  /\ pc[w] \in Asleep /\ MutexFree
  /\ Goto(w, IF pc[w] = "asleep_paused" THEN "loop" ELSE "lock")
  /\ UNCHANGED <<locals, counters, work, flags>>

----------------------------------------------------------------------------
(* ggml_graph_compute_thread: every thread of the graph. *)

Start(t) ==
  /\ pc[t] = "start"
  /\ nth' = [nth EXCEPT ![t] = n_graph[2]]
  /\ Goto(t, "head")
  /\ UNCHANGED <<last_graph, node_n, current, n_passed, ret, counters, work, flags>>

\* Enter ggml_barrier, to go on at l behind it: at once if there is one thread.
EnterBarrier(t, l) ==
  /\ ret' = [ret EXCEPT ![t] = l]
  /\ Goto(t, IF n_graph[2] = 1 THEN l ELSE "enter")

\* Mutant: the threads do not meet at the end of the graph.
NextNodeNoMeeting(t) ==
  /\ pc[t] = "head"
  /\ Goto(t, IF node_n[t] < NNodes /\ abort # node_n[t]
             THEN CASE Node(node_n[t]).op = "none" -> "step"
                    [] Node(node_n[t]).op = "rows" -> "rows"
                    [] OTHER -> "pack"
             ELSE "finish")
  /\ UNCHANGED <<last_graph, node_n, nth, current, n_passed, ret, counters, work, flags>>

\* The head of the loop over the nodes; an empty operation is skipped.
NextNode(t) ==
  /\ pc[t] = "head"
  /\ IF node_n[t] < NNodes /\ abort # node_n[t]
     THEN /\ Goto(t, CASE Node(node_n[t]).op = "none" -> "step"
                       [] Node(node_n[t]).op = "rows" -> "rows"
                       [] OTHER -> "pack")
          /\ UNCHANGED ret
     ELSE EnterBarrier(t, "finish")
  /\ UNCHANGED <<last_graph, node_n, nth, current, n_passed, counters, work, flags>>

Computed(i, c) ==
  times' = [times EXCEPT ![i] =
              [d \in DOMAIN @ \union {c} |-> (IF d \in DOMAIN @ THEN @[d] ELSE 0)
                                             + (IF d = c THEN 1 ELSE 0)]]

\* An operation whose rows are split by ith and nth.
ComputeRows(t) ==
  /\ pc[t] = "rows"
  /\ Computed(node_n[t], t)
  /\ Goto(t, "computed")
  /\ UNCHANGED <<locals, counters, wdata, flags>>

\* Mutant: the counter begins one chunk too early.
PackCountTooLow(t) ==
  /\ pc[t] = "pack"
  /\ wdata' = [wdata EXCEPT ![t] = node_n[t]]
  /\ current_chunk' = IF t = 0 THEN nth[t] - 1 ELSE current_chunk
  /\ current' = [current EXCEPT ![t] = t]
  /\ EnterBarrier(t, "chunk")
  /\ UNCHANGED <<last_graph, node_n, nth, n_passed, n_barrier, n_barrier_passed, times, flags>>

\* mul_mat: the thread packs its share of src1 into the shared work buffer and
\* thread 0 puts the counter behind the chunks everybody starts with.
Pack(t) ==
  /\ pc[t] = "pack"
  /\ wdata' = [wdata EXCEPT ![t] = node_n[t]]
  /\ current_chunk' = IF t = 0 THEN nth[t] ELSE current_chunk
  /\ current' = [current EXCEPT ![t] = t]
  /\ EnterBarrier(t, "chunk")
  /\ UNCHANGED <<last_graph, node_n, nth, n_passed, n_barrier, n_barrier_passed, times, flags>>

\* One chunk, then the number of the next from the shared counter.
ComputeChunk(t) ==
  LET n == NChunk(node_n[t], nth[t]) IN
  /\ pc[t] = "chunk" /\ current[t] < n
  /\ Computed(node_n[t], current[t])
  /\ IF nth[t] >= n
     THEN Goto(t, "computed") /\ UNCHANGED <<current, current_chunk>>
     ELSE /\ current' = [current EXCEPT ![t] = current_chunk]
          /\ current_chunk' = current_chunk + 1
          /\ UNCHANGED pc
  /\ UNCHANGED <<last_graph, node_n, nth, n_passed, ret, n_barrier, n_barrier_passed, wdata, flags>>

NoChunkLeft(t) ==
  /\ pc[t] = "chunk" /\ current[t] >= NChunk(node_n[t], nth[t])
  /\ Goto(t, "computed")
  /\ UNCHANGED <<locals, counters, work, flags>>

\* Mutant: the abort stops the graph at the node that was computed.
NodeDoneAbortHere(t) ==
  /\ pc[t] = "computed"
  /\ \/ UNCHANGED <<abort, ec>>
     \/ t = 0 /\ abort' = node_n[t] /\ ec' = "ABORTED"
  /\ IF node_n[t] + 1 < NNodes THEN EnterBarrier(t, "step") ELSE Goto(t, "step") /\ UNCHANGED ret
  /\ UNCHANGED <<last_graph, node_n, nth, current, n_passed, counters, work,
                 stop, pause, cgraph, n_graph, graphs, pauses>>

\* After the node thread 0 asks the abort callback; all of them meet unless it
\* was the last node.
NodeDone(t) ==
  /\ pc[t] = "computed"
  /\ \/ UNCHANGED <<abort, ec>>
     \/ t = 0 /\ abort' = node_n[t] + 1 /\ ec' = "ABORTED"
  /\ IF node_n[t] + 1 < NNodes THEN EnterBarrier(t, "step") ELSE Goto(t, "step") /\ UNCHANGED ret
  /\ UNCHANGED <<last_graph, node_n, nth, current, n_passed, counters, work,
                 stop, pause, cgraph, n_graph, graphs, pauses>>

Step(t) ==
  /\ pc[t] = "step"
  /\ node_n' = [node_n EXCEPT ![t] = @ + 1]
  /\ current' = [current EXCEPT ![t] = 0]
  /\ Goto(t, "head")
  /\ UNCHANGED <<last_graph, nth, n_passed, ret, counters, work, flags>>

----------------------------------------------------------------------------
(* ggml_barrier *)

\* n_barrier_passed is read before the thread counts itself in.
ReadPassed(t) ==
  /\ pc[t] = "enter"
  /\ n_passed' = [n_passed EXCEPT ![t] = n_barrier_passed]
  /\ Goto(t, "arrive")
  /\ UNCHANGED <<last_graph, node_n, nth, current, ret, counters, work, flags>>

Arrive(t) ==
  /\ pc[t] = "arrive"
  /\ n_barrier' = n_barrier + 1
  /\ Goto(t, IF n_barrier = n_graph[2] - 1 THEN "reset" ELSE "spin")
  /\ UNCHANGED <<locals, n_barrier_passed, current_chunk, work, flags>>

\* The last thread empties the barrier, then opens it.
ResetBarrier(t) ==
  /\ pc[t] = "reset"
  /\ n_barrier' = 0
  /\ Goto(t, "pass")
  /\ UNCHANGED <<locals, n_barrier_passed, current_chunk, work, flags>>

OpenBarrier(t) ==
  /\ pc[t] = "pass"
  /\ n_barrier_passed' = n_barrier_passed + 1
  /\ Goto(t, ret[t])
  /\ UNCHANGED <<locals, n_barrier, current_chunk, work, flags>>

Spin(t) ==
  /\ pc[t] = "spin" /\ n_barrier_passed # n_passed[t]
  /\ Goto(t, ret[t])
  /\ UNCHANGED <<locals, counters, work, flags>>

\* The end of ggml_graph_compute_thread: back to the caller, or to the loop.
Finish(t) ==
  /\ pc[t] = "finish"
  /\ Goto(t, IF t = 0 THEN "idle" ELSE "loop")
  /\ node_n' = [node_n EXCEPT ![t] = 0]
  /\ UNCHANGED <<last_graph, nth, current, n_passed, ret, counters, work, flags>>

----------------------------------------------------------------------------

Search(w) == LookAtPause(w) \/ SleepPaused(w) \/ LookAtStop(w) \/ Poll(w) \/ CheckForWork(w)

Compute(t) ==
  \/ Start(t) \/ NextNode(t) \/ ComputeRows(t) \/ Pack(t) \/ ComputeChunk(t) \/ NoChunkLeft(t)
  \/ NodeDone(t) \/ Step(t) \/ Finish(t)
  \/ ReadPassed(t) \/ Arrive(t) \/ ResetBarrier(t) \/ OpenBarrier(t) \/ Spin(t)

Next ==
  \/ \E p \in Plans : GraphCompute(p)
  \/ KickoffWake \/ Pause \/ Resume \/ FreeStop \/ FreeJoin
  \/ \E w \in Workers : Search(w) \/ SpuriousWake(w)
  \/ \E t \in Threads : Compute(t)

\* The scheduler runs every thread that can run; nobody promises a new graph,
\* a resume or the end of the pool.
Fairness ==
  /\ WF_vars(KickoffWake) /\ WF_vars(FreeJoin)
  /\ \A w \in Workers : WF_vars(Search(w))
  /\ \A t \in Threads : WF_vars(Compute(t))

Spec == Init /\ [][Next]_vars /\ Fairness

----------------------------------------------------------------------------
(* Properties *)

\* Every part of node i was computed, and computed once.
Complete(i) ==
  Node(i).op = "none" \/ times[i] = [c \in 0 .. NChunk(i, n_graph[2]) - 1 |-> 1]

\* A thread works on a node only when every part of every earlier node has been
\* computed exactly once: no thread is ahead of a slower one, and the shared
\* counter hands out no chunk twice and skips none.  And while it multiplies,
\* the work buffer holds the shares all threads packed for this node: none is
\* missing, none overwritten by a thread that went on to the next product.
PartsInOrder ==
  \A t \in Threads :
    /\ pc[t] \in {"rows", "pack", "chunk"} => \A i \in 0 .. node_n[t] - 1 : Complete(i)
    /\ pc[t] = "chunk" => \A u \in 0 .. nth[t] - 1 : wdata[u] = node_n[t]

\* What ggml_graph_compute returns: SUCCESS when the whole graph was computed,
\* and after an abort the nodes up to that point, whole, and none beyond.
ResultIsWholeNodes ==
  pc[0] = "idle" /\ graphs > 0 =>
    LET end == IF ec = "ABORTED" THEN abort ELSE NNodes IN
    \A i \in 0 .. NNodes - 1 : IF i < end THEN Complete(i) ELSE times[i] = <<>>

\* "No worker threads should be accessing the parameters below at this stage":
\* whenever the caller may start the next graph, no worker reads the last one.
QuietBetweenGraphs ==
  pc[0] \in {"idle", "join", "freed"} =>
    \A w \in Workers : pc[w] \notin Busy \union {"start"}

\* ggml_graph_compute returns and ggml_threadpool_free joins every worker,
\* whether the workers are polling, asleep or paused when it is called.
CallsReturn ==
  /\ pc[0] = "wake" ~> pc[0] = "idle"
  /\ pc[0] = "join" ~> pc[0] = "freed"
=============================================================================
