------------------------------ MODULE SeqMemory ------------------------------
(***************************************************************************)
(* What the memory of a llama context promises its caller (the memory      *)
(* functions of llama.h, llama_decode): a stream holds tokens, each with a *)
(* position and the sequences it belongs to.  There are no cells, no       *)
(* search, no deferred copies or shifts, and a batch that finds no room    *)
(* changes nothing a later token could attend to.                          *)
(***************************************************************************)
EXTENDS Integers, FiniteSets, FiniteSetsExt

CONSTANTS Seqs,    \* sequence ids
          Ranges,  \* the position ranges <<p0, p1>> of the calls; -1: open
          Deltas, Divisors,
          BatchMax \* tokens of a sequence in a batch

VARIABLES mem,       \* mem[st]: the tokens of stream st, [tok, pos, seqs]
          stream_of, \* the stream of a sequence
          window     \* attention window, 0: everything

vars == <<mem, stream_of, window>>

Uncomputed == 0 \* the data of a token whose batch failed

Selected(e, s, r) ==
  s \in e.seqs /\ e.pos >= r[1] /\ (r[2] < 0 \/ e.pos < r[2])

Positions(E, s) == {e.pos : e \in {d \in E : s \in d.seqs}}
PosMax(E, s) == IF Positions(E, s) = {} THEN -1 ELSE Max(Positions(E, s))

\* The token of s behind the current batch cannot attend to position p.
Masked(E, s, p) == window > 0 /\ PosMax(E, s) + BatchMax + 1 - p >= window

Held(E) == {e \in E : e.seqs # {}}

\* Replace every selected token e by f(e) on the stream of s.
Change(s, r, f(_)) ==
  mem' = [mem EXCEPT ![stream_of[s]] =
            Held({IF Selected(e, s, r) THEN f(e) ELSE e : e \in @})]

Clear == mem' = [st \in DOMAIN mem |-> {}]

\* llama_memory_seq_rm for one sequence, and for any of them.
SeqRm(s, r) == Change(s, r, LAMBDA e : [e EXCEPT !.seqs = @ \ {s}])

RmAny(r) ==
  mem' = [st \in DOMAIN mem |-> {e \in mem[st] : ~\E s \in Seqs : Selected(e, s, r)}]

SeqCp(s, d, r) == Change(s, r, LAMBDA e : [e EXCEPT !.seqs = @ \union {d}])

\* Onto another stream: the copy replaces what was there.
StreamCp(s, d) ==
  mem' = [mem EXCEPT ![stream_of[d]] =
            {[e EXCEPT !.seqs = {d}] : e \in {x \in mem[stream_of[s]] : s \in x.seqs}}]

SeqKeep(s) ==
  mem' = [mem EXCEPT ![stream_of[s]] =
            {[e EXCEPT !.seqs = {s}] : e \in {x \in @ : s \in x.seqs}}]

\* A token has one position: it moves for all its sequences, and leaves them
\* all when it would become negative.
SeqAdd(s, r, d) ==
  Change(s, r, LAMBDA e : IF e.pos + d < 0 THEN [e EXCEPT !.seqs = {}]
                          ELSE [e EXCEPT !.pos = @ + d])

SeqDiv(s, r, d) == Change(s, r, LAMBDA e : [e EXCEPT !.pos = @ \div d])

\* What of E2 was in E.  (The tokens of failed batches cannot be told apart: two
\* at one position may belong to different sequences.)
Part(e, d) == d.tok = e.tok /\ d.pos = e.pos /\ e.seqs \subseteq d.seqs
Kept(E, E2) == {e \in E2 : \E d \in E : Part(e, d)}

\* E2 is E without tokens that E's own sequences cannot attend to.
Forgets(E, E2) ==
  /\ \A e \in E2 : \E d \in E : Part(e, d)
  /\ \A d \in E : \A s \in d.seqs :
       Masked(E, s, d.pos) \/ \E e \in E2 : e.tok = d.tok /\ e.pos = d.pos /\ s \in e.seqs

Forget == \A st \in DOMAIN mem : Forgets(mem[st], mem'[st])

\* Part of a batch was computed: its tokens follow the last position of their
\* sequences.
Decode ==
  \A st \in DOMAIN mem :
    LET old == Kept(mem[st], mem'[st])
        new == mem'[st] \ old IN
    /\ Forgets(mem[st], old)
    /\ \A e \in new : e.tok # Uncomputed
    /\ \A s \in Seqs :
         LET p == Positions(new, s) IN
         \/ p = {}
         \/ /\ p = Min(p) .. Max(p)
            /\ Min(p) > PosMax(mem[st], s)
            /\ window = 0 => Min(p) = PosMax(mem[st], s) + 1

\* Part of a batch failed: its tokens are gone from the first of their sequences.
Fail ==
  \A st \in DOMAIN mem :
    LET old == Kept(mem[st], mem'[st]) IN
    /\ Forgets(mem[st], old)
    /\ \A e \in mem'[st] \ old :
         e.tok = Uncomputed /\ \E s \in Seqs \ e.seqs : \A t \in e.seqs : s < t

Call ==
  \/ Clear
  \/ \E s \in Seqs, r \in Ranges :
       \/ SeqRm(s, r)
       \/ \E t \in Seqs : SeqCp(s, t, r) \/ StreamCp(s, t)
       \/ \E d \in Deltas : SeqAdd(s, r, d)
       \/ \E d \in Divisors : SeqDiv(s, r, d)
  \/ \E r \in Ranges : RmAny(r)
  \/ \E s \in Seqs : SeqKeep(s)

Init == mem = [st \in DOMAIN mem |-> {}]

Next == (Call \/ Forget \/ Decode \/ Fail) /\ UNCHANGED <<stream_of, window>>

Spec == Init /\ [][Next]_vars
=============================================================================
