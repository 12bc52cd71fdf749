------------------------------- MODULE KvCache -------------------------------
(***************************************************************************)
(* The KV cache of a llama context: the cells (llama-kv-cells.h), the      *)
(* cache that finds slots for batches in them (llama-kv-cache.cpp), and    *)
(* the part of llama_context::decode that drives it.                       *)
(*                                                                         *)
(* A decode first applies what earlier calls deferred (stream copies, the  *)
(* rotation of shifted keys), then places the micro-batches on trial and   *)
(* takes them out again, and at last places and computes one after the     *)
(* other; any of them may fail or be aborted.  The context is used by one  *)
(* thread, so memory calls and decodes alternate; a decode is taken step   *)
(* by step because it fails between the steps.                             *)
(***************************************************************************)
EXTENDS Integers, Sequences, FiniteSets, SequencesExt

CONSTANTS NSeqs,     \* n_seq_max
          Size,      \* cells of a stream
          NUbatch,   \* n_ubatch
          Windows,   \* attention windows to build caches with; 0: no window
          Lengths,   \* tokens of a batch for one sequence
          Ranges,    \* position ranges of the memory calls
          Deltas, Divisors,
          MaxCalls, MaxDecodes \* bounds: memory calls, batches

ASSUME CacheAssumption ==
  /\ NSeqs \in Nat \ {0} /\ Size \in Nat \ {0}
  /\ NUbatch \in Nat \ {0} /\ NSeqs <= NUbatch + 1 \* split_equal parts the sequences otherwise
  /\ Windows \subseteq Nat /\ Lengths \subseteq Nat \ {0} /\ Ranges \subseteq Int \X Int
  /\ Deltas \subseteq Int /\ Divisors \subseteq Nat /\ \A d \in Divisors : d > 1

VARIABLES seq_to_stream, n_swa, \* fixed when the cache is built
          v_cells, v_heads,
          sc_info,              \* stream copies to do at the next update
          data,                 \* the keys: the token and the position they are rotated to
          phase, ubatches, i_cur,
          sinfos, states,       \* slots found; what prepare overwrote
          did_optimize,
          result,               \* history: result of the last decode
          before,               \* history: the cells when prepare began
          divided,              \* history: tokens whose position was divided
          calls, decodes, ntok

config == <<seq_to_stream, n_swa>>
memory == <<v_cells, v_heads, sc_info, data>>
batch == <<phase, ubatches, i_cur, sinfos, states, did_optimize>>
history == <<result, before, divided>>
bounds == <<calls, decodes, ntok>>
vars == <<config, memory, batch, history, bounds>>

Seqs == 0 .. NSeqs - 1
Streams == {seq_to_stream[s] : s \in Seqs}
Slots == 0 .. Size - 1
unified == Cardinality(Streams) = 1
Uncomputed == [tok |-> 0, rot |-> 0]

----------------------------------------------------------------------------
(* llama_kv_cells *)

Empty == [pos |-> -1, shift |-> 0, seq |-> {}]
is_empty(c) == c.pos = -1
used(cells) == {i \in Slots : ~is_empty(cells[i])}
pos_in(c, r) == c.pos >= (IF r[1] < 0 THEN 0 ELSE r[1]) /\ (r[2] < 0 \/ c.pos < r[2])

\* seq_pos: the positions a sequence has in the cells.
seq_pos(cells, s) == {cells[i].pos : i \in {j \in Slots : s \in cells[j].seq}}
seq_pos_max(cells, s) ==
  IF seq_pos(cells, s) = {} THEN -1 ELSE Max(seq_pos(cells, s))

cell_rm(c, s) == IF c.seq = {s} THEN Empty ELSE [c EXCEPT !.seq = @ \ {s}]
cell_keep(c, s) == IF s \in c.seq THEN [c EXCEPT !.seq = {s}] ELSE Empty
pos_add(c, d) ==
  IF c.pos + d < 0 THEN Empty ELSE [c EXCEPT !.pos = @ + d, !.shift = @ + d]
\* The shift gets the opposite sign of pos_add's.
pos_div(c, d) == [c EXCEPT !.pos = @ \div d, !.shift = @ + (c.pos - c.pos \div d)]

\* The code keeps a flag per stream that stays up until the next update or clear,
\* also when the cells it was raised for are gone; an update then rotates nothing.
has_shift == \E st \in Streams, i \in Slots : v_cells[st][i].shift # 0

----------------------------------------------------------------------------
(* llama_kv_cache: the memory calls, between two decodes. *)

Init ==
  /\ seq_to_stream \in {[s \in Seqs |-> 0], [s \in Seqs |-> s]}
  /\ n_swa \in Windows
  /\ v_cells = [st \in Streams |-> [i \in Slots |-> Empty]]
  /\ v_heads = [st \in Streams |-> 0]
  /\ sc_info = <<>>
  /\ data = [st \in Streams |-> [i \in Slots |-> Uncomputed]]
  /\ phase = "idle" /\ ubatches = <<>> /\ i_cur = 1
  /\ sinfos = <<>> /\ states = <<>> /\ did_optimize = FALSE
  /\ result = 0 /\ before = v_cells /\ divided = {}
  /\ calls = 0 /\ decodes = 0 /\ ntok = 0

\* The cells a call frees when those of stream st become new (each call notes the
\* first of them as new_head).  seq_rm and seq_keep move the head back to it if it
\* is before the head; seq_add has a rule of its own.
Freed(st, new) == {i \in Slots : ~is_empty(v_cells[st][i]) /\ is_empty(new[i])}
HeadBack(st, new) ==
  LET freed == Freed(st, new) IN
  IF freed # {} /\ Min(freed) < v_heads[st] THEN Min(freed) ELSE v_heads[st]

\* (Before the first batch there is nothing for a call to change.)
MemoryCall == phase = "idle" /\ decodes > 0 /\ calls < MaxCalls /\ calls' = calls + 1

Clear ==
  /\ MemoryCall
  /\ v_cells' = [st \in Streams |-> [i \in Slots |-> Empty]]
  /\ v_heads' = [st \in Streams |-> 0]
  /\ data' \in {data, [st \in Streams |-> [i \in Slots |-> Uncomputed]]}
  /\ UNCHANGED <<config, sc_info, batch, history, decodes, ntok>>

seq_rm(s, r) ==
  LET st == seq_to_stream[s]
      new == [i \in Slots |-> LET c == v_cells[st][i] IN
                IF pos_in(c, r) /\ s \in c.seq THEN cell_rm(c, s) ELSE c] IN
  /\ MemoryCall
  /\ v_cells' = [v_cells EXCEPT ![st] = new]
  /\ v_heads' = [v_heads EXCEPT ![st] = HeadBack(st, new)]
  /\ UNCHANGED <<config, sc_info, data, batch, history, decodes, ntok>>

\* seq_id = -1: every stream, whoever owns the cells.
seq_rm_any(r) ==
  LET new == [st \in Streams |-> [i \in Slots |->
                IF pos_in(v_cells[st][i], r) THEN Empty ELSE v_cells[st][i]]] IN
  /\ MemoryCall
  /\ v_cells' = new
  /\ v_heads' = [st \in Streams |-> HeadBack(st, new[st])]
  /\ UNCHANGED <<config, sc_info, data, batch, history, decodes, ntok>>

\* In one stream the cells get one more sequence; llama_kv_cells::seq_add is
\* called "only if ... the seq_id is not in the cell".
seq_cp_cells(src, dst, r) ==
  LET st == seq_to_stream[src]
      sel == {i \in Slots : pos_in(v_cells[st][i], r) /\ src \in v_cells[st][i].seq} IN
  /\ MemoryCall
  /\ src # dst /\ st = seq_to_stream[dst]
  /\ \A i \in sel : dst \notin v_cells[st][i].seq
  /\ v_cells' = [v_cells EXCEPT ![st] =
                   [i \in Slots |-> LET c == v_cells[st][i] IN
                      IF i \in sel THEN [c EXCEPT !.seq = @ \union {dst}] ELSE c]]
  /\ UNCHANGED <<config, v_heads, sc_info, data, batch, history, decodes, ntok>>

\* Between streams the cells are copied at once, the keys at the next update.
seq_cp_stream(src, dst, r) ==
  LET s0 == seq_to_stream[src] s1 == seq_to_stream[dst] IN
  /\ MemoryCall
  /\ s0 # s1
  /\ \A k \in 1 .. 2 : ~(r[k] > 0 /\ r[k] + 1 < Size)
  /\ sc_info' = Append(sc_info, <<s0, s1>>)
  /\ v_cells' = [v_cells EXCEPT ![s1] = [i \in Slots |->
                   LET c == v_cells[s0][i] IN
                   IF src \in c.seq THEN [c EXCEPT !.seq = {dst}] ELSE Empty]]
  /\ v_heads' = [v_heads EXCEPT ![s1] = v_heads[s0]]
  /\ UNCHANGED <<config, data, batch, history, decodes, ntok>>

seq_keep(s) ==
  LET st == seq_to_stream[s]
      new == [i \in Slots |-> cell_keep(v_cells[st][i], s)] IN
  /\ MemoryCall
  /\ v_cells' = [v_cells EXCEPT ![st] = new]
  /\ v_heads' = [v_heads EXCEPT ![st] = HeadBack(st, new)]
  /\ UNCHANGED <<config, sc_info, data, batch, history, decodes, ntok>>

\* The positions move now, the keys are rotated at the next update.  The next
\* search begins at a cell that became empty, or from the start.
seq_add(s, r, d) ==
  LET st == seq_to_stream[s]
      new == [i \in Slots |-> LET c == v_cells[st][i] IN
                IF pos_in(c, r) /\ s \in c.seq THEN pos_add(c, d) ELSE c]
      freed == Freed(st, new) IN
  /\ MemoryCall
  /\ v_cells' = [v_cells EXCEPT ![st] = new]
  /\ v_heads' = [v_heads EXCEPT ![st] = IF freed = {} THEN 0 ELSE Min(freed)]
  /\ UNCHANGED <<config, sc_info, data, batch, history, decodes, ntok>>

\* Copies between streams, done one after the other.
stream_copy(keys, c) == [keys EXCEPT ![c[2]] = keys[c[1]]]
stream_copies(keys, sc) ==
  LET after[n \in 0 .. Len(sc)] == IF n = 0 THEN keys ELSE stream_copy(after[n - 1], sc[n])
  IN after[Len(sc)]

\* The keys under the pending copies.
Keys == stream_copies(data, sc_info)

seq_div(s, r, d) ==
  LET st == seq_to_stream[s]
      sel == {i \in Slots : pos_in(v_cells[st][i], r) /\ s \in v_cells[st][i].seq} IN
  /\ MemoryCall
  /\ v_cells' = [v_cells EXCEPT ![st] =
                   [i \in Slots |-> IF i \in sel THEN pos_div(@[i], d) ELSE @[i]]]
  /\ divided' = divided \union {Keys[st][i].tok : i \in sel}
  /\ UNCHANGED <<config, v_heads, sc_info, data, batch, result, before, decodes, ntok>>

----------------------------------------------------------------------------
(* find_slot and apply_ubatch.  A micro-batch is a sequence of tokens per
   stream, a slot info a sequence of cells per stream. *)

is_masked_swa(p0, p1) == n_swa > 0 /\ p1 - p0 >= n_swa

\* Mutant: the window slides one position too early.
can_useOneTooEarly(c, cells) ==
  is_empty(c) \/ \E s \in Seqs : c.seq = {s} /\ is_masked_swa(c.pos, seq_pos_max(cells, s) + 2)

\* Empty, or of one sequence whose next token cannot attend to it any more.
can_use(c, cells) ==
  is_empty(c) \/ \E s \in Seqs : c.seq = {s} /\ is_masked_swa(c.pos, seq_pos_max(cells, s) + 1)

\* The first n usable cells in ring order, from the head, or from the start
\* when enough cells before the head are unused; <<>> if there are too few.
find_slot(st, n) ==
  LET cells == v_cells[st]
      head_cur == IF v_heads[st] > Cardinality(used(cells)) + 2 * n THEN 0 ELSE v_heads[st]
      ring(j) == (head_cur + j) % Size
      usable == {j \in Slots : can_use(cells[ring(j)], cells)}
      nth(k) == CHOOSE j \in usable : Cardinality({i \in usable : i <= j}) = k IN
  IF Cardinality(usable) < n THEN <<>> ELSE [k \in 1 .. n |-> ring(nth(k))]

\* Whether a slot holds cell i of stream st, and as which of its cells.
in_slot(sinfo, st, i) == \E j \in DOMAIN sinfo[st] : sinfo[st][j] = i
idx_of(sinfo, st, i) == CHOOSE j \in DOMAIN sinfo[st] : sinfo[st][j] = i

\* The cells with the tokens of a micro-batch in their slot.
put(sinfo, ub) ==
  [st \in Streams |-> [i \in Slots |->
     IF ~in_slot(sinfo, st, i) THEN v_cells[st][i]
     ELSE LET t == ub[st][idx_of(sinfo, st, i)] IN [pos |-> t.pos, shift |-> 0, seq |-> t.seq]]]

\* Mutant: what lies below an overwritten position stays.
apply_ubatchNoPurge(sinfo, ub) == put(sinfo, ub)

\* The tokens go to their cells; then every sequence loses the positions up to
\* the last one that was overwritten, so that what is left has no hole.
apply_ubatch(sinfo, ub) ==
  LET taken(st, s) == {i \in Slots : in_slot(sinfo, st, i) /\ v_cells[st][i].seq = {s}}
      pos_max_rm(st, s) == Max({-1} \union {v_cells[st][i].pos : i \in taken(st, s)}) IN
  [st \in Streams |-> [i \in Slots |->
     LET c == put(sinfo, ub)[st][i]
         keep == {s \in c.seq : c.pos > pos_max_rm(st, s)} IN
     IF keep = {} THEN Empty ELSE [c EXCEPT !.seq = keep]]]

\* The head moves behind the slot.
heads_behind(sinfo) ==
  [st \in Streams |-> IF sinfo[st] = <<>> THEN v_heads[st] ELSE Last(sinfo[st]) + 1]

----------------------------------------------------------------------------
(* llama_context::decode *)

\* Mutant: the shifts are reset whether the rotation was computed or not.
memory_updateForget(ok) ==
  /\ sc_info' = <<>>
  /\ v_cells' = [st \in Streams |-> [i \in Slots |-> [v_cells[st][i] EXCEPT !.shift = 0]]]
  /\ data' = IF ok THEN [st \in Streams |-> [i \in Slots |->
                          [Keys[st][i] EXCEPT !.rot = @ + v_cells[st][i].shift]]]
             ELSE Keys

\* memory_update: the pending copies, then the rotation by the shifts, which a
\* backend may fail to compute; the shifts then stay pending.
memory_update(ok) ==
  /\ sc_info' = <<>>
  /\ IF ok
     THEN /\ data' = [st \in Streams |-> [i \in Slots |->
                       [Keys[st][i] EXCEPT !.rot = @ + v_cells[st][i].shift]]]
          /\ v_cells' = [st \in Streams |-> [i \in Slots |-> [v_cells[st][i] EXCEPT !.shift = 0]]]
     ELSE data' = Keys /\ UNCHANGED v_cells

CanFail == IF has_shift THEN BOOLEAN ELSE {TRUE}

pos_range(s) ==
  LET p == seq_pos(v_cells[seq_to_stream[s]], s) IN IF p = {} THEN <<-1, -1>> ELSE <<Min(p), Max(p)>>
next_pos(s) == seq_pos_max(v_cells[seq_to_stream[s]], s) + 1

\* n tokens for each sequence of S, or, coupled, n tokens that are in all of them.
tokens(S, n, coupled) ==
  IF coupled THEN [j \in 1 .. n |-> [tok |-> ntok + j, pos |-> next_pos(Min(S)) + j - 1, seq |-> S]]
  ELSE [j \in 1 .. n * Cardinality(S) |->
          LET s == Min(S) + ((j - 1) \div n) IN
          [tok |-> ntok + j, pos |-> next_pos(s) + ((j - 1) % n), seq |-> {s}]]

least(a, b) == IF a < b THEN a ELSE b
piece(t, k, n) == SubSeq(t, (k - 1) * n + 1, least(k * n, Len(t)))
pieces(len, n) == (len + n - 1) \div n

\* init_batch: split_simple takes the tokens as they come; split_equal, for
\* several streams, takes equally many of each sequence.
split(T, S, n) ==
  IF unified THEN [k \in 1 .. pieces(Len(T), NUbatch) |-> [st \in Streams |-> piece(T, k, NUbatch)]]
  ELSE LET per == IF NUbatch < Cardinality(S) THEN 1 ELSE NUbatch \div Cardinality(S)
           of(st) == IF st \in S THEN SubSeq(T, (st - Min(S)) * n + 1, (st - Min(S) + 1) * n) ELSE <<>> IN
       [k \in 1 .. pieces(n, per) |-> [st \in Streams |-> piece(of(st), k, per)]]

\* A batch that continues its sequences (llama_batch_allocr::init refuses any
\* other, and coupled sequences that differ, without changing anything).
Decode(S, n, coupled) ==
  LET T == tokens(S, n, coupled) IN
  /\ phase = "idle" /\ decodes < MaxDecodes /\ decodes' = decodes + 1
  /\ S = Min(S) .. Max(S)
  /\ coupled => /\ unified /\ Cardinality(S) > 1
                /\ \A s, t \in S : pos_range(s) = pos_range(t)
  /\ \E ok \in CanFail : memory_update(ok)
  /\ ubatches' = split(T, S, n)
  /\ ntok' = ntok + Len(T)
  /\ phase' = "prepare" /\ i_cur' = 1 /\ sinfos' = <<>> /\ states' = <<>> /\ did_optimize' = FALSE
  /\ before' = v_cells'
  /\ UNCHANGED <<config, v_heads, result, divided, calls>>

\* prepare, one micro-batch: find a slot, remember the cells, place the tokens.
PrepareUbatch ==
  LET ub == ubatches[i_cur]
      sinfo == [st \in Streams |-> IF ub[st] = <<>> THEN <<>> ELSE find_slot(st, Len(ub[st]))] IN
  /\ phase = "prepare"
  /\ IF \E st \in Streams : ub[st] # <<>> /\ sinfo[st] = <<>>
     THEN phase' = "undo" /\ UNCHANGED <<v_cells, v_heads, i_cur, sinfos, states>>
     ELSE /\ sinfos' = Append(sinfos, sinfo)
          /\ states' = Append(states, [sinfo |-> sinfo, heads |-> v_heads,
                        cells |-> [st \in Streams |-> [j \in DOMAIN sinfo[st] |-> v_cells[st][sinfo[st][j]]]]])
          /\ v_cells' = apply_ubatch(sinfo, ub)
          /\ v_heads' = heads_behind(sinfo)
          /\ i_cur' = i_cur + 1
          /\ phase' = IF i_cur = Len(ubatches) THEN "restore" ELSE "prepare"
  /\ UNCHANGED <<config, sc_info, data, ubatches, did_optimize, history, bounds>>

\* The cells of the slot get their old contents back, the latest micro-batch
\* first.  The saved heads are indexed by the place of the stream in the slot.
RestoreUbatch ==
  LET old == Last(states)
      strm == {st \in Streams : old.sinfo[st] # <<>>} IN
  /\ phase \in {"restore", "undo"} /\ states # <<>>
  /\ v_cells' = [st \in Streams |-> [i \in Slots |->
                   IF in_slot(old.sinfo, st, i) THEN old.cells[st][idx_of(old.sinfo, st, i)]
                   ELSE v_cells[st][i]]]
  /\ v_heads' = [st \in Streams |-> IF st \in strm THEN old.heads[st - Min(strm)] ELSE v_heads[st]]
  /\ states' = Front(states)
  /\ IF phase = "restore" /\ Len(states) = 1 THEN phase' = "compute" /\ i_cur' = 1
     ELSE UNCHANGED <<phase, i_cur>>
  /\ UNCHANGED <<config, sc_info, data, ubatches, sinfos, did_optimize, history, bounds>>

\* The end of a decode.
Return(code) ==
  /\ phase' = "idle" /\ result' = code
  /\ ubatches' = <<>> /\ i_cur' = 1 /\ sinfos' = <<>> /\ states' = <<>>

\* Mutant: the micro-batches that were placed on trial are not taken out.
NoSlotNoUndo ==
  /\ phase = "undo"
  /\ IF ~did_optimize /\ has_shift
     THEN /\ \E ok \in BOOLEAN : memory_update(ok)
          /\ did_optimize' = TRUE
          /\ phase' = "prepare" /\ i_cur' = 1 /\ sinfos' = <<>>
          /\ UNCHANGED <<ubatches, states, result>>
     ELSE Return(1) /\ UNCHANGED <<v_cells, data, sc_info, did_optimize>>
  /\ UNCHANGED <<config, v_heads, before, divided, bounds>>

\* No slot: one more attempt if there is something left to update.
NoSlot ==
  /\ phase = "undo" /\ states = <<>>
  /\ IF ~did_optimize /\ has_shift
     THEN /\ \E ok \in BOOLEAN : memory_update(ok)
          /\ did_optimize' = TRUE
          /\ phase' = "prepare" /\ i_cur' = 1 /\ sinfos' = <<>>
          /\ UNCHANGED <<ubatches, states, result>>
     ELSE Return(1) /\ UNCHANGED <<v_cells, data, sc_info, did_optimize>>
  /\ UNCHANGED <<config, v_heads, before, divided, bounds>>

\* process_ubatch: the tokens are placed for good and computed.
ComputeUbatch ==
  LET sinfo == sinfos[i_cur] ub == ubatches[i_cur] IN
  /\ phase = "compute"
  /\ v_cells' = apply_ubatch(sinfo, ub)
  /\ v_heads' = heads_behind(sinfo)
  /\ data' = [st \in Streams |-> [i \in Slots |->
                IF in_slot(sinfo, st, i)
                THEN LET t == ub[st][idx_of(sinfo, st, i)] IN [tok |-> t.tok, rot |-> t.pos]
                ELSE data[st][i]]]
  /\ IF i_cur = Len(ubatches) THEN Return(0)
     ELSE i_cur' = i_cur + 1 /\ UNCHANGED <<phase, ubatches, sinfos, states, result>>
  /\ UNCHANGED <<config, sc_info, did_optimize, before, divided, bounds>>

\* It failed or was aborted: its positions are removed from the first sequence
\* of each of its tokens.
FailUbatch ==
  LET sinfo == sinfos[i_cur] ub == ubatches[i_cur]
      toks == UNION {Range(ub[st]) : st \in Streams}
      pos_min(s) == Min({t.pos : t \in {x \in toks : Min(x.seq) = s}})
      failed == {Min(t.seq) : t \in toks}
      placed == apply_ubatch(sinfo, ub)
      left == [st \in Streams |-> [i \in Slots |->
                 LET c == placed[st][i]
                     keep == {s \in c.seq : s \notin failed \/ c.pos < pos_min(s)} IN
                 IF keep = {} THEN Empty ELSE [c EXCEPT !.seq = keep]]] IN
  /\ phase = "compute"
  /\ v_cells' = left
  /\ v_heads' = [st \in Streams |->
       Min({heads_behind(sinfo)[st]} \union {i \in Slots : ~is_empty(placed[st][i]) /\ is_empty(left[st][i])})]
  /\ data' = [st \in Streams |-> [i \in Slots |->
                IF in_slot(sinfo, st, i) THEN Uncomputed ELSE data[st][i]]]
  /\ Return(2)
  /\ UNCHANGED <<config, sc_info, did_optimize, before, divided, bounds>>

Next ==
  \/ Clear
  \/ \E s \in Seqs, r \in Ranges :
       \/ seq_rm(s, r)
       \/ \E t \in Seqs : seq_cp_cells(s, t, r) \/ seq_cp_stream(s, t, r)
       \/ \E d \in Deltas : seq_add(s, r, d)
       \/ \E d \in Divisors : seq_div(s, r, d)
  \/ \E r \in Ranges : seq_rm_any(r)
  \/ \E s \in Seqs : seq_keep(s)
  \/ \E S \in (SUBSET Seqs) \ {{}}, n \in Lengths, coupled \in BOOLEAN : Decode(S, n, coupled)
  \/ PrepareUbatch \/ RestoreUbatch \/ NoSlot \/ ComputeUbatch \/ FailUbatch

Spec == Init /\ [][Next]_vars

----------------------------------------------------------------------------
(* Properties *)

\* Once the pending copies and shifts are applied, the key in every cell is the
\* one rotated to the position the cell claims, however memory calls, failed
\* updates and decodes follow each other.  (Division is excepted: pos_div
\* records its shift with the wrong sign.)
RotationPending ==
  phase \in {"idle", "compute"} =>
    \A st \in Streams, i \in Slots :
      LET c == v_cells[st][i] k == Keys[st][i] IN
      is_empty(c) \/ k.tok \in divided \union {0} \/ k.rot + c.shift = c.pos

\* The two properties below say nothing of a batch that needs several
\* micro-batches under an attention window.  There the trial placement of prepare
\* purges cells outside the slots of its micro-batches, and restoring
\* (llama-kv-cache.cpp:795) brings back the slots only: positions are lost that no
\* micro-batch has overwritten, and the code breaks its own guarantee.
OnePass == n_swa = 0 \/ Len(ubatches) = 1

Contiguous(cells, s) ==
  LET p == seq_pos(cells, s) IN p = {} \/ p = Min(p) .. Max(p)

\* "All positions in the range [pos_min, pos_max] are guaranteed to be present"
\* (llama.h:782, llama-kv-cache.cpp:1145): a decode makes no hole in a sequence
\* that had none, without a window for any number of micro-batches, with a
\* window for batches of one micro-batch only.
DecodeMakesNoHole ==
  [][phase # "idle" /\ phase' \in {"idle", "compute"} =>
       \A s \in Seqs : LET st == seq_to_stream[s] IN
         OnePass /\ Contiguous(before[st], s) => Contiguous(v_cells'[st], s)]_vars

\* When a micro-batch is computed, every earlier position its tokens attend to,
\* of earlier batches or of this one, is in the cache; under a window, again, for
\* batches of one micro-batch only.
WindowPresent ==
  [][phase = "compute" /\ (phase' = "compute" \/ result' = 0) /\ OnePass =>
       \A st \in Streams : \A t \in Range(ubatches[i_cur][st]) : \A s \in t.seq :
         LET batch_pos == {u.pos : u \in {x \in UNION {Range(ubatches[k][st]) : k \in 1 .. i_cur} :
                                           s \in x.seq /\ x.pos < t.pos}} IN
         {p \in seq_pos(before[st], s) \union batch_pos : ~is_masked_swa(p, t.pos)}
           \subseteq seq_pos(v_cells'[st], s)]_vars

\* The cache implements the memory that llama.h promises: cells, heads, deferred
\* copies and the trial placement cannot be told from it.
Memory == INSTANCE SeqMemory WITH
  stream_of <- seq_to_stream, window <- n_swa, BatchMax <- Max(Lengths),
  mem <- LET cells == IF phase \in {"prepare", "undo", "restore"} THEN before ELSE v_cells IN
         [st \in Streams |-> {[tok |-> Keys[st][i].tok, pos |-> cells[st][i].pos, seqs |-> cells[st][i].seq] :
                                i \in used(cells[st])}]
ImplementsSeqMemory == Memory!Spec
=============================================================================
