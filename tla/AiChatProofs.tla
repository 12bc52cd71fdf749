---------------------------- MODULE AiChatProofs ----------------------------
(***************************************************************************)
(* Proofs about the Kotlin engine over its native bridge, for every size   *)
(* of the context, of its batches and of the prompts: first its state and  *)
(* its handles, where what the memory holds plays no part, then the        *)
(* conversation in the memory.  decode_tokens_in_batches is a recursive    *)
(* function: it is shown to exist, and what it keeps to hold behind every  *)
(* batch, by looking at the least batch at which it would not.             *)
(***************************************************************************)
EXTENDS AiChat, FiniteSetTheorems, WellFoundedInduction, TLAPS

\* An answer is under way exactly while the engine says that it generates.
FlowMatches == flow # "none" <=> state = "Generating"

\* The handles behind a state, those in which nothing is loaded yet included.
HandlesMatch ==
  /\ isModelLoaded => Live
  /\ state \in {"Uninitialized", "Initializing"} \/ (state = "Initialized" /\ ~reset)
       => g_model # "live" /\ g_context # "live"

EngineInv == ~destroyed => ~stray /\ FlowMatches /\ HandlesMatch

LEMMA InvInit == Init => EngineInv
BY DEF Init, EngineInv, FlowMatches, HandlesMatch, isModelLoaded

\* What EngineInv is about.
core == <<state, flow, g_model, g_context, destroyed, reset, stray>>

LEMMA InvSame == EngineInv /\ UNCHANGED core => EngineInv'
BY DEF core, EngineInv, FlowMatches, HandlesMatch, isModelLoaded, Live

LEMMA InvStep == EngineInv /\ [Next]_vars => EngineInv'
<1> SUFFICES ASSUME EngineInv, [Next]_vars PROVE EngineInv'
  OBVIOUS
<1>1. CASE UNCHANGED vars
  BY <1>1, InvSame DEF vars, engine, handles, history, core
<1>2. ASSUME NEW ok \in BOOLEAN, LibraryLoaded(ok) PROVE EngineInv'
  BY <1>2 DEF LibraryLoaded, handles, chat, history,
              EngineInv, FlowMatches, HandlesMatch, isModelLoaded, Live
<1>3. ASSUME NEW outcome \in {"no file", "not loaded", "not prepared", "ok"}, loadModel(outcome)
      PROVE  EngineInv'
  BY <1>3 DEF loadModel, Free, EngineInv, FlowMatches, HandlesMatch, isModelLoaded, Live
<1>4. ASSUME NEW n \in Sizes, NEW bad \in 0 .. Batches(n), setSystemPrompt(n, bad)
      PROVE  EngineInv'
  <2>1. /\ state = "ModelReady" /\ state' \in {"ModelReady", "Error"}
        /\ UNCHANGED <<flow, g_model, g_context, destroyed, reset, stray>>
    BY <1>4 DEF setSystemPrompt, handles, history
  <2> QED
    BY <2>1 DEF EngineInv, FlowMatches, HandlesMatch, isModelLoaded, Live
<1>5. ASSUME NEW n \in Sizes, NEW bad \in 0 .. Batches(n), sendUserPrompt(n, bad)
      PROVE  EngineInv'
  <2>1. /\ state = "ModelReady"
        /\ \/ state' = "Generating" /\ flow' = "busy"
           \/ state' = "ProcessingUserPrompt" /\ flow' = flow
        /\ UNCHANGED <<g_model, g_context, destroyed, reset, stray>>
    BY <1>5 DEF sendUserPrompt, handles
  <2> QED
    BY <2>1 DEF EngineInv, FlowMatches, HandlesMatch, isModelLoaded, Live
<1>6. CASE Turn
  <2>1. PICK works \in BOOLEAN, result \in {"end", "busy", "emit"} : Generate(works, result)
    BY <1>6 DEF Turn
  <2>2. /\ flow # "none"
        /\ \/ state' = "ModelReady" /\ flow' = "none"
           \/ state' = state /\ flow' \in {"busy", "emit"}
        /\ UNCHANGED <<g_model, g_context, destroyed, reset, stray>>
    <3>1. flow # "none" /\ UNCHANGED <<g_model, g_context, destroyed, reset, stray>>
      BY <2>1 DEF Generate, handles, history
    <3>2. EndFlow \/ (result \in {"busy", "emit"} /\ flow' = result /\ UNCHANGED state)
      BY <2>1 DEF Generate
    <3> QED
      BY <3>1, <3>2 DEF EndFlow
  <2> QED
    BY <2>2 DEF EngineInv, FlowMatches, HandlesMatch, isModelLoaded, Live
<1>7. CASE CollectorCancelled
  BY <1>7 DEF CollectorCancelled, EndFlow, handles, history,
              EngineInv, FlowMatches, HandlesMatch, isModelLoaded, Live
<1>8. CASE bench
  BY <1>8, InvSame DEF bench, handles, history, core
<1>9. ASSUME NEW call \in {"cleanUp", "destroy"}, Raise(call) PROVE EngineInv'
  BY <1>9, InvSame DEF Raise, handles, history, core
<1>10. CASE cleanUp
  <2>1. CASE state = "ModelReady"
    BY <1>10, <2>1 DEF cleanUp, unload, EngineInv, FlowMatches, HandlesMatch, isModelLoaded, Live
  <2>2. CASE state = "Error"
    BY <1>10, <2>2 DEF cleanUp, handles, EngineInv, FlowMatches, HandlesMatch, isModelLoaded, Live
  <2>3. CASE state \notin {"ModelReady", "Error"}
    BY <1>10, <2>3, InvSame DEF cleanUp, handles, core
  <2> QED
    BY <2>1, <2>2, <2>3
<1>11. CASE destroy
  BY <1>11 DEF destroy, EngineInv
<1>12. CASE StrayCall
  <2>1. ~Live /\ UNCHANGED destroyed
        /\ (state = "ModelReady" \/ flow # "none")
    BY <1>12 DEF StrayCall, Free
  <2>2. destroyed
    BY <2>1 DEF EngineInv, FlowMatches, HandlesMatch, isModelLoaded
  <2> QED
    BY <2>1, <2>2 DEF EngineInv
<1> QED
  BY <1>1, <1>2, <1>3, <1>4, <1>5, <1>6, <1>7, <1>8, <1>9, <1>10, <1>11, <1>12 DEF Next

(* Whatever is cancelled, cleaned up or fails, and whenever, until destroy *)
(* no native call meets a model or context that is not loaded, and loading *)
(* loses none (the state checks of InferenceEngineImpl).                   *)
THEOREM NativeCallsAreLoaded == Spec => []LoadedWhileReady
<1>1. EngineInv => LoadedWhileReady
  BY DEF EngineInv, HandlesMatch, LoadedWhileReady
<1> QED
  BY <1>1, InvInit, InvStep, PTL DEF Spec

----------------------------------------------------------------------------
(* The conversation: a token at each of the positions below n, those of the *)
(* system prompt at the positions below s.                                  *)

Tokens == [pos : Int, role : {"system", "turn"}]
Contexts == [mem : SUBSET Tokens, cur : Int, sys : Int, ok : BOOLEAN]
Role(s, p) == IF p < s THEN "system" ELSE "turn"
Talk(s, n) == {[pos |-> p, role |-> Role(s, p)] : p \in 0 .. n - 1}

LEMMA BatchesEnough ==
  ASSUME NEW n \in Nat
  PROVE  Batches(n) \in Nat /\ Batches(n) * BatchSize >= n
BY ChatAssumption DEF Batches

LEMMA MinOfTwo ==
  ASSUME NEW a \in Int, NEW b \in Int
  PROVE  Min({a, b}) = IF a <= b THEN a ELSE b
<1> DEFINE m == IF a <= b THEN a ELSE b
<1>1. m \in {a, b} /\ \A y \in {a, b} : m =< y
  OBVIOUS
<1>2. \A x \in {a, b} : (\A y \in {a, b} : x =< y) => x = m
  OBVIOUS
<1> QED
  BY <1>1, <1>2 DEF Min

LEMMA Half ==
  ASSUME NEW d \in Nat
  PROVE  d \div 2 \in Nat /\ d \div 2 <= d
OBVIOUS

LEMMA TalkMember ==
  ASSUME NEW s \in Int, NEW n \in Int, NEW t
  PROVE  t \in Talk(s, n) <=> t \in Tokens /\ 0 <= t.pos /\ t.pos < n /\ t.role = Role(s, t.pos)
<1>1. ASSUME t \in Tokens, 0 <= t.pos, t.pos < n, t.role = Role(s, t.pos) PROVE t \in Talk(s, n)
  <2>1. t = [pos |-> t.pos, role |-> Role(s, t.pos)]
    BY <1>1 DEF Tokens
  <2>2. t.pos \in 0 .. n - 1
    BY <1>1 DEF Tokens
  <2> QED
    BY <2>1, <2>2 DEF Talk
<1>2. ASSUME t \in Talk(s, n) PROVE t \in Tokens /\ 0 <= t.pos /\ t.pos < n /\ t.role = Role(s, t.pos)
  <2>1. PICK p \in 0 .. n - 1 : t = [pos |-> p, role |-> Role(s, p)]
    BY <1>2 DEF Talk
  <2> QED
    BY <2>1 DEF Tokens, Role
<1> QED
  BY <1>1, <1>2

LEMMA ShiftType ==
  ASSUME NEW c \in Contexts, c.sys <= c.cur
  PROVE  /\ shift_context(c) \in Contexts
         /\ shift_context(c).sys = c.sys /\ shift_context(c).ok = c.ok
         /\ c.sys <= shift_context(c).cur /\ shift_context(c).cur <= c.cur
         /\ shift_context(c).cur = c.cur => shift_context(c).mem = c.mem
<1> DEFINE n == (c.cur - c.sys) \div 2
           move(t) == IF t.pos >= c.sys + n /\ t.pos < c.cur THEN [t EXCEPT !.pos = t.pos - n] ELSE t
           kept == {t \in c.mem : t.pos < c.sys \/ t.pos >= c.sys + n}
           moved == {move(t) : t \in kept}
<1>1. n \in Nat /\ n <= c.cur - c.sys /\ c.cur \in Int /\ c.sys \in Int
  <2>1. c.cur - c.sys \in Nat
    BY DEF Contexts
  <2> QED
    BY <2>1, Half DEF Contexts
<1>2. shift_context(c) = [c EXCEPT !.cur = c.cur - n, !.mem = moved]
  BY DEF shift_context
<1> HIDE DEF n
<1>3. \A t \in Tokens : move(t) \in Tokens
  BY <1>1 DEF Tokens
<1>4. moved \in SUBSET Tokens
  BY <1>3 DEF Contexts
<1>5. n = 0 => moved = c.mem
  <2> SUFFICES ASSUME n = 0 PROVE moved = c.mem
    OBVIOUS
  <2>1. \A t \in c.mem : t \in Tokens /\ t.pos \in Int
    BY DEF Contexts, Tokens
  <2>2. kept = c.mem
    BY <1>1, <2>1
  <2>3. \A t \in c.mem : move(t) = t
    <3> SUFFICES ASSUME NEW t \in c.mem PROVE [t EXCEPT !.pos = t.pos - n] = t
      OBVIOUS
    <3>1. t.pos - n = t.pos
      BY <2>1
    <3> QED
      BY <2>1, <3>1 DEF Tokens
  <2> QED
    BY <2>2, <2>3
<1> HIDE DEF moved
<1>6. /\ shift_context(c).mem = moved /\ shift_context(c).cur = c.cur - n
      /\ shift_context(c).sys = c.sys /\ shift_context(c).ok = c.ok
  BY <1>2 DEF Contexts
<1>7. shift_context(c) \in Contexts
  <2>1. shift_context(c) = [mem |-> moved, cur |-> c.cur - n, sys |-> c.sys, ok |-> c.ok]
    BY <1>2 DEF Contexts
  <2>2. c.cur - n \in Int /\ c.ok \in BOOLEAN
    BY <1>1 DEF Contexts
  <2> QED
    BY <1>1, <1>4, <2>1, <2>2 DEF Contexts
<1> QED
  BY <1>1, <1>5, <1>6, <1>7

(* Half of what follows the system prompt is forgotten, the rest moves     *)
(* down: a shorter conversation is left.                                   *)
LEMMA ShiftTalk ==
  ASSUME NEW c \in Contexts, c.sys \in Nat, c.sys <= c.cur, c.mem = Talk(c.sys, c.cur)
  PROVE  shift_context(c).mem = Talk(c.sys, shift_context(c).cur)
<1> DEFINE n == (c.cur - c.sys) \div 2
           move(t) == IF t.pos >= c.sys + n /\ t.pos < c.cur THEN [t EXCEPT !.pos = t.pos - n] ELSE t
           kept == {t \in c.mem : t.pos < c.sys \/ t.pos >= c.sys + n}
           moved == {move(t) : t \in kept}
<1>1. n \in Nat /\ n <= c.cur - c.sys /\ c.cur \in Int /\ c.sys \in Int
  <2>1. c.cur - c.sys \in Nat
    BY DEF Contexts
  <2> QED
    BY <2>1, Half DEF Contexts
<1>2. shift_context(c).mem = moved /\ shift_context(c).cur = c.cur - n
  BY DEF shift_context, Contexts
<1> HIDE DEF n
<1>3. \A t \in c.mem : t \in Tokens /\ t.pos \in Int /\ 0 <= t.pos /\ t.pos < c.cur /\ t.role = Role(c.sys, t.pos)
  BY <1>1, TalkMember DEF Tokens
<1>4. ASSUME NEW t \in kept PROVE move(t) \in Talk(c.sys, c.cur - n)
  <2>1. CASE t.pos < c.sys
    <3>1. move(t) = t
      BY <1>1, <1>3, <2>1
    <3>2. t.pos < c.cur - n
      BY <1>1, <1>3, <2>1
    <3> QED
      BY <1>1, <1>3, <3>1, <3>2, TalkMember
  <2>2. CASE t.pos >= c.sys + n
    <3>1. move(t) = [t EXCEPT !.pos = t.pos - n]
      BY <1>1, <1>3, <2>2
    <3>2. move(t) = [pos |-> t.pos - n, role |-> t.role]
      BY <1>3, <3>1 DEF Tokens
    <3>3. t.role = "turn" /\ Role(c.sys, t.pos - n) = "turn"
      BY <1>1, <1>3, <2>2 DEF Role
    <3>4. t.pos - n \in 0 .. (c.cur - n) - 1
      BY <1>1, <1>3, <2>2
    <3> HIDE DEF move
    <3> QED
      BY <3>2, <3>3, <3>4 DEF Talk
  <2> QED
    BY <2>1, <2>2
<1>5. ASSUME NEW q \in 0 .. (c.cur - n) - 1 PROVE \E t \in kept : move(t) = [pos |-> q, role |-> Role(c.sys, q)]
  <2>1. CASE q < c.sys
    <3> DEFINE t == [pos |-> q, role |-> Role(c.sys, q)]
    <3>1. t \in c.mem
      BY <1>1 DEF Talk
    <3>2. t.pos = q
      OBVIOUS
    <3>3. t \in kept /\ move(t) = t
      BY <1>1, <2>1, <3>1, <3>2
    <3> QED
      BY <3>3
  <2>2. CASE q >= c.sys
    <3> DEFINE t == [pos |-> q + n, role |-> Role(c.sys, q + n)]
    <3>1. t \in c.mem
      BY <1>1 DEF Talk
    <3>2. t.pos = q + n /\ t.role = Role(c.sys, q) /\ t.pos - n = q
      BY <1>1, <2>2 DEF Role
    <3>3. t \in kept
      BY <1>1, <2>2, <3>1, <3>2
    <3>4. move(t) = [t EXCEPT !.pos = q]
      BY <1>1, <2>2, <3>2
    <3>5. [t EXCEPT !.pos = q] = [pos |-> q, role |-> Role(c.sys, q)]
      BY <3>2
    <3> QED
      BY <3>3, <3>4, <3>5
  <2> HIDE DEF kept, move
  <2> QED
    BY <1>1, <2>1, <2>2
<1>6. moved = Talk(c.sys, c.cur - n)
  <2>1. moved \subseteq Talk(c.sys, c.cur - n)
    BY <1>4
  <2>2. Talk(c.sys, c.cur - n) \subseteq moved
    BY <1>5 DEF Talk
  <2> QED
    BY <2>1, <2>2
<1> QED
  BY <1>2, <1>6

(* Tokens decoded behind a conversation lengthen it, if they are of the    *)
(* kind that comes next; a failure leaves it.                              *)
LEMMA DecodeTalk ==
  ASSUME NEW c \in Contexts, NEW p \in Nat, NEW n \in Int, NEW role \in {"system", "turn"}, NEW works, c.ok
  PROVE  LET d == decode(c, p, n, role, works) IN
         /\ d \in Contexts /\ d.cur = c.cur /\ d.sys = c.sys
         /\ ~d.ok => d.mem = c.mem
         /\ n <= 0 => d.mem = c.mem
         /\ \A s \in Int : /\ c.mem = Talk(s, p) /\ n > 0 /\ d.ok
                           /\ role = "system" => p + n <= s
                           /\ role = "turn" => s <= p
                           => d.mem = Talk(s, p + n)
<1> DEFINE new == {[pos |-> q, role |-> role] : q \in p .. p + n - 1}
           d == decode(c, p, n, role, works)
<1>1. d = [c EXCEPT !.mem = c.mem \union new] \/ d = [c EXCEPT !.ok = FALSE]
  BY DEF decode
<1>2. new \in SUBSET Tokens
  BY DEF Tokens
<1>3. n <= 0 => new = {}
  OBVIOUS
<1>4. ASSUME NEW s \in Int, c.mem = Talk(s, p), n > 0, role = "system" => p + n <= s, role = "turn" => s <= p
      PROVE  c.mem \union new = Talk(s, p + n)
  <2>1. \A q \in p .. p + n - 1 : Role(s, q) = role
    BY <1>4 DEF Role
  <2>2. new = {[pos |-> q, role |-> Role(s, q)] : q \in p .. p + n - 1}
    BY <2>1
  <2>3. 0 .. p + n - 1 = (0 .. p - 1) \union (p .. p + n - 1)
    BY <1>4
  <2> HIDE DEF new
  <2> QED
    BY <1>4, <2>2, <2>3 DEF Talk
<1> HIDE DEF new, d
<1>5. d \in Contexts /\ d.cur = c.cur /\ d.sys = c.sys /\ (d.mem = c.mem \/ d.mem = c.mem \union new)
      /\ (~d.ok => d.mem = c.mem) /\ (d.ok => d.mem = c.mem \union new)
  BY <1>1, <1>2 DEF Contexts
<1> QED
  BY <1>3, <1>4, <1>5 DEF d

(* What holds of the context c behind the first len of n tokens, c0 being  *)
(* the context before them: nothing shifted yet and nothing failed.        *)
Kept(c, c0, s, start, n, len) ==
  /\ c \in Contexts /\ c.sys = c0.sys /\ c.sys <= c.cur /\ c.cur <= c0.cur
  /\ c.ok /\ c.cur = c0.cur => c.mem = Talk(s, start + (IF len <= n THEN len ELSE n))

(* A batch that shifts the context lowers cur for good; any other adds its *)
(* tokens or fails.                                                        *)
LEMMA BatchKeeps ==
  ASSUME NEW c0 \in Contexts, NEW c, NEW s \in Int, NEW start \in Nat, NEW n \in Nat, NEW i \in Nat,
         NEW role \in {"system", "turn"}, NEW works, Kept(c, c0, s, start, n, i),
         role = "system" => start + n <= s, role = "turn" => s <= start
  PROVE  Kept(decode_batch(c, start, i, n, role, works), c0, s, start, n, i + BatchSize)
<1> DEFINE size == Min({n - i, BatchSize})
           room == IF start + i + size >= Limit THEN shift_context(c) ELSE c
           d == decode(room, start + i, size, role, works)
<1>1. BatchSize \in Nat \ {0} /\ size = (IF n - i <= BatchSize THEN n - i ELSE BatchSize)
  BY ChatAssumption, MinOfTwo
<1>2. c \in Contexts /\ c.sys = c0.sys /\ c.sys <= c.cur /\ c.cur <= c0.cur /\ c.ok \in BOOLEAN
      /\ c.cur \in Int /\ c.sys \in Int /\ c0.cur \in Int
  BY DEF Kept, Contexts
<1>3. CASE ~c.ok
  <2>1. decode_batch(c, start, i, n, role, works) = c
    BY <1>3 DEF decode_batch
  <2> QED
    BY <1>2, <1>3, <2>1 DEF Kept
<1>4. CASE c.ok
  <2>1. decode_batch(c, start, i, n, role, works) = d
    BY <1>4 DEF decode_batch
  <2>2. /\ room \in Contexts /\ room.sys = c.sys /\ room.ok /\ c.sys <= room.cur /\ room.cur <= c.cur
        /\ room.cur = c.cur => room.mem = c.mem
    <3>1. CASE room = c
      BY <1>2, <1>4, <3>1
    <3>2. CASE room = shift_context(c)
      <4> HIDE DEF room
      <4> QED
        BY <1>2, <1>4, <3>2, ShiftType
    <3> QED
      BY <3>1, <3>2
  <2> HIDE DEF size, room, d
  <2>3. start + i \in Nat /\ size \in Int /\ room.cur \in Int
    BY <1>1, <2>2 DEF Contexts
  <2>4. /\ d \in Contexts /\ d.cur = room.cur /\ d.sys = room.sys
        /\ size <= 0 => d.mem = room.mem
        /\ room.mem = Talk(s, start + i) /\ size > 0 /\ d.ok => d.mem = Talk(s, start + i + size)
    <3>1. (role = "system" => (start + i) + size <= s) /\ (role = "turn" => s <= start + i)
      BY <1>1
    <3> QED
      BY <2>2, <2>3, <3>1, DecodeTalk DEF d
  <2>5. ASSUME d.ok, d.cur = c0.cur
        PROVE  d.mem = Talk(s, start + (IF i + BatchSize <= n THEN i + BatchSize ELSE n))
    <3>1. room.mem = c.mem /\ c.cur = c0.cur
      BY <1>2, <2>2, <2>3, <2>4, <2>5
    <3>2. c.mem = Talk(s, start + (IF i <= n THEN i ELSE n))
      BY <1>4, <3>1 DEF Kept
    <3>3. CASE i < n
      <4>1. start + i + size = start + (IF i + BatchSize <= n THEN i + BatchSize ELSE n) /\ size > 0
        BY <1>1, <3>3
      <4>2. c.mem = Talk(s, start + i)
        BY <3>2, <3>3
      <4> QED
        BY <2>4, <2>5, <3>1, <4>1, <4>2
    <3>4. CASE ~(i < n)
      <4>1. (IF i <= n THEN i ELSE n) = (IF i + BatchSize <= n THEN i + BatchSize ELSE n) /\ size <= 0
        BY <1>1, <3>4
      <4> QED
        BY <2>4, <3>1, <3>2, <4>1
    <3> QED
      BY <3>3, <3>4
  <2> QED
    BY <1>2, <2>1, <2>2, <2>3, <2>4, <2>5 DEF Kept
<1> QED
  BY <1>2, <1>3, <1>4

LEMMA LeastNatural ==
  ASSUME NEW T \in SUBSET Nat, T # {}
  PROVE  \E m \in T : \A k \in T : m <= k
<1>1. PICK m \in T : \A k \in T : ~(<<k, m>> \in OpToRel(<, Nat))
  BY NatLessThanWellFounded, WFMin
<1>2. \A k \in T : ~(k < m)
  BY <1>1 DEF OpToRel
<1> QED
  BY <1>2

(* The batches one after the other: the recursive definition has a value.  *)
Run(f, N, c0, start, n, role, bad) ==
  f = [b \in 0 .. N |-> IF b = 0 THEN c0
                        ELSE decode_batch(f[b - 1], start, (b - 1) * BatchSize, n, role, b # bad)]

LEMMA RunExists ==
  ASSUME NEW N \in Nat, NEW c0, NEW start, NEW n, NEW role, NEW bad
  PROVE  \E f : Run(f, N, c0, start, n, role, bad)
<1> DEFINE Lacks == {m \in Nat : ~\E f : Run(f, m, c0, start, n, role, bad)}
<1> SUFFICES ASSUME Lacks # {} PROVE FALSE
  OBVIOUS
<1>1. PICK m \in Lacks : \A k \in Lacks : m <= k
  BY LeastNatural
<1>2. CASE m = 0
  <2> DEFINE f == [b \in 0 .. 0 |-> c0]
  <2>1. Run(f, 0, c0, start, n, role, bad)
    BY DEF Run
  <2> QED
    BY <1>2, <2>1
<1>3. CASE m # 0
  <2>1. m - 1 \in Nat /\ m - 1 \notin Lacks
    BY <1>1, <1>3
  <2>2. PICK f : Run(f, m - 1, c0, start, n, role, bad)
    BY <2>1
  <2> DEFINE g == [b \in 0 .. m |-> IF b = m THEN decode_batch(f[m - 1], start, (m - 1) * BatchSize, n, role, m # bad)
                                    ELSE f[b]]
  <2>3. \A b \in 0 .. m - 1 : g[b] = f[b] /\ f[b] = IF b = 0 THEN c0
                        ELSE decode_batch(f[b - 1], start, (b - 1) * BatchSize, n, role, b # bad)
    BY <1>1, <2>2 DEF Run
  <2>4. g[m] = decode_batch(f[m - 1], start, (m - 1) * BatchSize, n, role, m # bad)
    BY <1>1
  <2>5. g = [b \in 0 .. m |-> g[b]]
    OBVIOUS
  <2> HIDE DEF g
  <2>6. ASSUME NEW b \in 0 .. m
        PROVE  g[b] = IF b = 0 THEN c0 ELSE decode_batch(g[b - 1], start, (b - 1) * BatchSize, n, role, b # bad)
    <3>1. b \in Nat /\ m \in Nat /\ b <= m
      BY <1>1
    <3>2. CASE b = 0
      <4>1. b \in 0 .. m - 1
        BY <1>1, <1>3, <3>2
      <4> QED
        BY <2>3, <3>2, <4>1
    <3>3. CASE b # 0
      <4>1. b - 1 \in 0 .. m - 1
        BY <3>1, <3>3
      <4>2. g[b - 1] = f[b - 1]
        BY <2>3, <4>1
      <4>3. CASE b = m
        BY <2>4, <3>3, <4>2, <4>3
      <4>4. CASE b # m
        <5>1. b \in 0 .. m - 1
          BY <3>1, <4>4
        <5> QED
          BY <2>3, <3>3, <4>2, <5>1
      <4> QED
        BY <4>3, <4>4
    <3> QED
      BY <3>2, <3>3
  <2>7. Run(g, m, c0, start, n, role, bad)
    BY <2>5, <2>6 DEF Run
  <2> QED
    BY <1>1, <2>7
<1> QED
  BY <1>2, <1>3

(* decode_tokens_in_batches is the end of such a run.                      *)
LEMMA BatchesRun ==
  ASSUME NEW c0, NEW start, NEW n \in Nat, NEW role, NEW bad
  PROVE  \E f : /\ Run(f, Batches(n), c0, start, n, role, bad)
                /\ decode_tokens_in_batches(c0, start, n, role, bad) = f[Batches(n)]
<1> DEFINE after[b \in 0 .. Batches(n)] ==
             IF b = 0 THEN c0
             ELSE decode_batch(after[b - 1], start, (b - 1) * BatchSize, n, role, b # bad)
<1>1. decode_tokens_in_batches(c0, start, n, role, bad) = after[Batches(n)]
  BY DEF decode_tokens_in_batches
<1>2. after = CHOOSE f : Run(f, Batches(n), c0, start, n, role, bad)
  BY DEF Run
<1>3. \E f : Run(f, Batches(n), c0, start, n, role, bad)
  BY BatchesEnough, RunExists
<1> HIDE DEF after
<1> QED
  BY <1>1, <1>2, <1>3

(* So all n tokens are behind the conversation, or something shifted or    *)
(* failed.                                                                 *)
LEMMA BatchesKeep ==
  ASSUME NEW c0 \in Contexts, NEW s \in Int, NEW start \in Nat, NEW n \in Nat,
         NEW role \in {"system", "turn"}, NEW bad, c0.sys <= c0.cur, c0.mem = Talk(s, start),
         role = "system" => start + n <= s, role = "turn" => s <= start
  PROVE  Kept(decode_tokens_in_batches(c0, start, n, role, bad), c0, s, start, n, n)
<1> DEFINE N == Batches(n)
<1>1. N \in Nat /\ N * BatchSize >= n /\ BatchSize \in Nat \ {0}
  BY BatchesEnough, ChatAssumption
<1>2. PICK f : /\ Run(f, N, c0, start, n, role, bad)
               /\ decode_tokens_in_batches(c0, start, n, role, bad) = f[N]
  BY BatchesRun
<1> HIDE DEF N
<1> DEFINE Spoilt == {b \in 0 .. N : ~Kept(f[b], c0, s, start, n, b * BatchSize)}
<1>3. Spoilt = {}
  <2> SUFFICES ASSUME Spoilt # {} PROVE FALSE
    OBVIOUS
  <2>1. PICK b \in Spoilt : \A k \in Spoilt : b <= k
    <3>1. Spoilt \in SUBSET Nat
      BY <1>1
    <3> HIDE DEF Spoilt
    <3> QED
      BY <3>1, LeastNatural
  <2>2. b \in Nat /\ b <= N
    BY <1>1
  <2>3. CASE b = 0
    <3>1. f[0] = c0 /\ 0 * BatchSize = 0
      BY <1>1, <1>2 DEF Run
    <3>2. c0.cur \in Int
      BY DEF Contexts
    <3>3. Kept(c0, c0, s, start, n, 0)
      BY <3>2 DEF Kept
    <3> QED
      BY <2>3, <3>1, <3>3
  <2>4. CASE b # 0
    <3>1. b - 1 \in 0 .. N /\ b - 1 \in Nat /\ (b - 1) * BatchSize \in Nat /\ (b - 1) * BatchSize + BatchSize = b * BatchSize
      BY <1>1, <2>2, <2>4
    <3>2. Kept(f[b - 1], c0, s, start, n, (b - 1) * BatchSize)
      BY <2>1, <2>2, <3>1
    <3>3. f[b] = decode_batch(f[b - 1], start, (b - 1) * BatchSize, n, role, b # bad)
      BY <1>1, <1>2, <2>2, <2>4 DEF Run
    <3>4. Kept(f[b], c0, s, start, n, (b - 1) * BatchSize + BatchSize)
      BY <3>1, <3>2, <3>3, BatchKeeps
    <3> QED
      BY <3>1, <3>4
  <2> QED
    BY <2>3, <2>4
<1>4. Kept(f[N], c0, s, start, n, N * BatchSize)
  BY <1>1, <1>3
<1>5. (IF N * BatchSize <= n THEN N * BatchSize ELSE n) = (IF n <= n THEN n ELSE n)
  BY <1>1
<1> QED
  BY <1>2, <1>4, <1>5 DEF Kept

(* A conversation of n tokens has n tokens, at the positions below n, the  *)
(* system prompt first.                                                    *)
LEMMA TalkCount ==
  ASSUME NEW s \in Nat, NEW n \in Nat, s <= n
  PROVE  /\ positions(Talk(s, n)) = 0 .. n - 1
         /\ Cardinality(Talk(s, n)) = n
         /\ positions({t \in Talk(s, n) : t.role = "system"}) = 0 .. s - 1
<1> DEFINE at == [p \in 0 .. n - 1 |-> [pos |-> p, role |-> Role(s, p)]]
<1>1. \A p \in 0 .. n - 1 : at[p] \in Talk(s, n) /\ at[p].pos = p /\ at[p].role = Role(s, p)
  BY DEF Talk
<1>2. \A t \in Talk(s, n) : t.pos \in 0 .. n - 1 /\ t = at[t.pos] /\ t.role = Role(s, t.pos)
  BY DEF Talk
<1>3. ExistsBijection(0 .. n - 1, Talk(s, n))
  <2>1. at \in [0 .. n - 1 -> Talk(s, n)]
    BY <1>1
  <2> HIDE DEF at
  <2>2. IsInjective(at)
    BY <1>1, <2>1 DEF IsInjective
  <2>3. \A t \in Talk(s, n) : \E p \in 0 .. n - 1 : at[p] = t
    BY <1>2
  <2> QED
    BY <2>1, <2>2, <2>3 DEF ExistsBijection, Bijection, Injection, Surjection
<1>4. Cardinality(Talk(s, n)) = n
  <2>1. IsFiniteSet(0 .. n - 1) /\ Cardinality(0 .. n - 1) = n
    <3>1. 0 \in Int /\ n - 1 \in Int /\ n - 1 - 0 + 1 = n /\ (0 > n - 1 => n = 0)
      OBVIOUS
    <3> QED
      BY <3>1, FS_Interval
  <2> QED
    BY <1>3, <2>1, FS_Bijection
<1> HIDE DEF at
<1>5. positions(Talk(s, n)) = 0 .. n - 1
  BY <1>1, <1>2 DEF positions
<1>6. positions({t \in Talk(s, n) : t.role = "system"}) = 0 .. s - 1
  <2>1. \A t \in Talk(s, n) : t.role = "system" => t.pos \in 0 .. s - 1
    BY <1>2 DEF Role
  <2>2. \A p \in 0 .. s - 1 : p \in 0 .. n - 1 /\ at[p] \in Talk(s, n) /\ at[p].role = "system" /\ at[p].pos = p
    BY <1>1 DEF Role
  <2> QED
    BY <2>1, <2>2 DEF positions
<1> QED
  BY <1>4, <1>5, <1>6

(* What is kept between the operations.  Behind an Error or before a load  *)
(* the positions are 0, where the next conversation begins.                *)
Talking ==
  /\ system_prompt_position \in Nat /\ current_position \in Nat
  /\ system_prompt_position <= current_position
  /\ mem = Talk(system_prompt_position, current_position)

ChatInv ==
  ~destroyed =>
    /\ state \in {"Uninitialized", "Initializing", "Initialized", "Error"} =>
         current_position = 0 /\ system_prompt_position = 0
    /\ state \in {"ModelReady", "Generating"} /\ ~overran => Talking

LEMMA ChatInit == Init => ChatInv
BY DEF Init, ChatInv

LEMMA ChatSame ==
  ASSUME ChatInv, UNCHANGED <<chat, destroyed, overran>>,
         state' = state \/ {state, state'} \subseteq {"ModelReady", "Generating"}
                  \/ {state, state'} \subseteq {"Uninitialized", "Initializing", "Initialized", "Error"}
  PROVE  ChatInv'
BY DEF ChatInv, Talking, chat

LEMMA LoadKeeps ==
  ASSUME ChatInv, state = "Initialized",
         UNCHANGED <<system_prompt_position, current_position, destroyed, overran>>,
         state' = "Error" \/ (state' = "ModelReady" /\ mem' = {})
  PROVE  ChatInv'
<1>1. CASE state' = "Error"
  BY <1>1 DEF ChatInv
<1>2. CASE state' = "ModelReady" /\ mem' = {}
  BY <1>2 DEF ChatInv, Talking, Talk
<1> QED
  BY <1>1, <1>2

LEMMA SystemPromptKeeps ==
  ASSUME ChatInv, NEW n \in Sizes, NEW bad, setSystemPrompt(n, bad)
  PROVE  ChatInv'
<1> DEFINE c0 == [mem |-> {}, cur |-> 0, sys |-> 0, ok |-> TRUE]
           c == decode_tokens_in_batches(c0, 0, n, "system", bad)
<1>1. n \in Nat
  BY ChatAssumption
<1>2. Kept(c, c0, n, 0, n, n)
  <2>1. c0 \in Contexts
    BY DEF Contexts
  <2>2. c0.mem = Talk(n, 0) /\ c0.sys <= c0.cur
    BY DEF Talk
  <2> HIDE DEF c0
  <2> QED
    BY <1>1, <2>1, <2>2, BatchesKeep
<1> HIDE DEF c
<1>3. c.sys = 0 /\ c.sys <= c.cur /\ c.cur <= 0 /\ c.cur \in Int
  BY <1>2 DEF Kept, Contexts
<1>4. c.ok => c.mem = Talk(n, n)
  BY <1>1, <1>2, <1>3 DEF Kept
<1>5. /\ state' = IF n <= Limit /\ c.ok THEN "ModelReady" ELSE "Error"
      /\ mem' = IF n <= Limit THEN c.mem ELSE {}
      /\ system_prompt_position' = IF n <= Limit /\ c.ok THEN n ELSE 0
      /\ current_position' = IF n <= Limit /\ c.ok THEN n ELSE 0
  BY DEF setSystemPrompt, c
<1>6. CASE n <= Limit /\ c.ok
  BY <1>1, <1>4, <1>5, <1>6 DEF ChatInv, Talking
<1>7. CASE ~(n <= Limit /\ c.ok)
  BY <1>5, <1>7 DEF ChatInv
<1> QED
  BY <1>6, <1>7

LEMMA UserPromptKeeps ==
  ASSUME ChatInv, NEW n \in Sizes, NEW bad, sendUserPrompt(n, bad)
  PROVE  ChatInv'
<1> DEFINE c0 == [mem |-> mem, cur |-> current_position, sys |-> system_prompt_position, ok |-> TRUE]
           c == decode_tokens_in_batches(c0, current_position, Min({n, Limit}), "turn", bad)
<1>1. n \in Nat /\ Limit \in Nat
  BY ChatAssumption DEF Limit
<1>2. /\ state = "ModelReady"
      /\ mem' = c.mem
      /\ overran' = (overran \/ n > Limit \/ c.cur # current_position)
      /\ \/ c.ok /\ state' = "Generating" /\ current_position' = c.cur + n
         \/ state' = "ProcessingUserPrompt"
      /\ UNCHANGED <<system_prompt_position, destroyed>>
  BY DEF sendUserPrompt, c, c0
<1> SUFFICES ASSUME ~destroyed, ~overran, n <= Limit, c.cur = current_position, c.ok,
                    current_position' = c.cur + n
             PROVE  Talking'
  <2>1. CASE c.ok /\ state' = "Generating" /\ current_position' = c.cur + n
    <3> HIDE DEF c
    <3>1. ASSUME ~overran' PROVE ~overran /\ ~(n > Limit) /\ c.cur = current_position
      BY <1>2, <3>1
    <3>2. n <= Limit <=> ~(n > Limit)
      BY <1>1
    <3>3. ~destroyed /\ ~overran' => Talking'
      BY <1>2, <2>1, <3>1, <3>2
    <3> QED
      BY <1>2, <2>1, <3>3 DEF ChatInv
  <2>2. CASE state' = "ProcessingUserPrompt"
    BY <1>2, <2>2 DEF ChatInv
  <2> QED
    BY <1>2, <2>1, <2>2
<1>3. Talking
  BY <1>2 DEF ChatInv
<1>4. Min({n, Limit}) = n
  BY <1>1, MinOfTwo
<1>5. c0 \in Contexts
  <2>1. mem \in SUBSET Tokens
    BY <1>3, TalkMember DEF Talking
  <2> QED
    BY <1>3, <2>1 DEF Contexts, Talking
<1>6. Kept(c, c0, system_prompt_position, current_position, n, n)
  <2>1. c0.mem = Talk(system_prompt_position, current_position) /\ c0.sys <= c0.cur
    BY <1>3 DEF Talking
  <2>2. c = decode_tokens_in_batches(c0, current_position, n, "turn", bad)
    BY <1>4
  <2> HIDE DEF c0, c
  <2>3. system_prompt_position \in Int /\ current_position \in Nat /\ system_prompt_position <= current_position
    BY <1>3 DEF Talking
  <2> QED
    BY <1>1, <1>5, <2>1, <2>2, <2>3, BatchesKeep
<1>7. c0.cur = current_position
  OBVIOUS
<1> HIDE DEF c0, c
<1>8. c.mem = Talk(system_prompt_position, current_position + n)
  BY <1>6, <1>7, <1>1 DEF Kept
<1> QED
  BY <1>1, <1>2, <1>3, <1>8 DEF Talking

LEMMA TurnKeeps ==
  ASSUME ChatInv, EngineInv, NEW works \in BOOLEAN, NEW result, Generate(works, result)
  PROVE  ChatInv'
<1> DEFINE c0 == [mem |-> mem, cur |-> current_position, sys |-> system_prompt_position, ok |-> TRUE]
           c1 == IF c0.cur >= Limit THEN shift_context(c0) ELSE c0
           c2 == decode(c1, c1.cur, 1, "turn", works)
<1>1. /\ flow # "none"
      /\ state' \in {"ModelReady", state}
      /\ \/ UNCHANGED <<mem, current_position>>
         \/ mem' = c1.mem /\ current_position' = c1.cur
         \/ mem' = c2.mem /\ current_position' = IF c2.ok THEN c1.cur + 1 ELSE c1.cur
      /\ UNCHANGED <<system_prompt_position, destroyed, overran>>
  BY DEF Generate, EndFlow, history, c0, c1, c2
<1> SUFFICES ASSUME ~destroyed PROVE state' \in {"ModelReady", "Generating"} /\ (~overran => Talking')
  BY <1>1 DEF ChatInv
<1>2. state = "Generating"
  BY <1>1 DEF EngineInv, FlowMatches
<1>9. state' \in {"ModelReady", "Generating"}
  BY <1>1, <1>2
<1> SUFFICES ASSUME ~overran PROVE Talking'
  BY <1>9
<1>3. Talking
  BY <1>2 DEF ChatInv
<1>4. c0 \in Contexts /\ c0.mem = Talk(c0.sys, c0.cur) /\ c0.sys \in Nat /\ c0.sys <= c0.cur
      /\ c0.ok /\ c0.sys = system_prompt_position
  <2>1. mem \in SUBSET Tokens
    BY <1>3, TalkMember DEF Talking
  <2> QED
    BY <1>3, <2>1 DEF Contexts, Talking
<1> HIDE DEF c0
<1>5. c1 \in Contexts /\ c1.mem = Talk(c1.sys, c1.cur) /\ c1.sys = c0.sys /\ c1.sys <= c1.cur /\ c1.ok
  <2>1. CASE c1 = c0
    BY <1>4, <2>1
  <2>2. CASE c1 = shift_context(c0)
    <3> HIDE DEF c1
    <3> QED
      BY <1>4, <2>2, ShiftType, ShiftTalk
  <2> QED
    BY <2>1, <2>2
<1> HIDE DEF c1
<1>6. c1.sys \in Nat /\ c1.cur \in Nat
  BY <1>4, <1>5 DEF Contexts
<1>7. /\ ~c2.ok => c2.mem = c1.mem
      /\ c2.ok => c2.mem = Talk(c1.sys, c1.cur + 1)
  BY <1>5, <1>6, DecodeTalk
<1> HIDE DEF c2
<1>8. Talking'
  <2>1. CASE UNCHANGED <<mem, current_position>>
    BY <1>1, <1>3, <2>1 DEF Talking
  <2>2. CASE mem' = c1.mem /\ current_position' = c1.cur
    BY <1>1, <1>4, <1>5, <1>6, <2>2 DEF Talking
  <2>3. CASE mem' = c2.mem /\ current_position' = IF c2.ok THEN c1.cur + 1 ELSE c1.cur
    BY <1>1, <1>4, <1>5, <1>6, <1>7, <2>3 DEF Talking
  <2> QED
    BY <1>1, <2>1, <2>2, <2>3
<1> QED
  BY <1>8

LEMMA ChatStep == ChatInv /\ EngineInv /\ [Next]_vars => ChatInv'
<1> SUFFICES ASSUME ChatInv, EngineInv, [Next]_vars PROVE ChatInv'
  OBVIOUS
<1>1. CASE UNCHANGED vars
  BY <1>1, ChatSame DEF vars, engine, history
<1>2. ASSUME NEW ok \in BOOLEAN, LibraryLoaded(ok) PROVE ChatInv'
  BY <1>2, ChatSame DEF LibraryLoaded, history
<1>3. ASSUME NEW outcome \in {"no file", "not loaded", "not prepared", "ok"}, loadModel(outcome)
      PROVE  ChatInv'
  <2>1. /\ state = "Initialized"
        /\ UNCHANGED <<system_prompt_position, current_position, destroyed, overran>>
        /\ \/ state' = "Error"
           \/ state' = "ModelReady" /\ mem' = {}
    BY <1>3 DEF loadModel
  <2> QED
    BY <2>1, LoadKeeps
<1>4. ASSUME NEW n \in Sizes, NEW bad \in 0 .. Batches(n), setSystemPrompt(n, bad)
      PROVE  ChatInv'
  BY <1>4, SystemPromptKeeps
<1>5. ASSUME NEW n \in Sizes, NEW bad \in 0 .. Batches(n), sendUserPrompt(n, bad)
      PROVE  ChatInv'
  BY <1>5, UserPromptKeeps
<1>6. CASE Turn
  BY <1>6, TurnKeeps DEF Turn
<1>7. CASE CollectorCancelled
  <2>1. /\ flow # "none" /\ state' = "ModelReady"
        /\ UNCHANGED <<chat, destroyed, overran>>
    BY <1>7 DEF CollectorCancelled, EndFlow, history
  <2> QED
    BY <2>1 DEF EngineInv, FlowMatches, ChatInv, Talking, chat
<1>8. CASE bench
  BY <1>8, ChatSame DEF bench, history
<1>9. ASSUME NEW call \in {"cleanUp", "destroy"}, Raise(call) PROVE ChatInv'
  BY <1>9, ChatSame DEF Raise, history
<1>10. CASE cleanUp
  <2>1. CASE state = "ModelReady"
    BY <1>10, <2>1 DEF cleanUp, unload, ChatInv
  <2>2. CASE state = "Error"
    BY <1>10, <2>2, ChatSame DEF cleanUp
  <2>3. CASE state \notin {"ModelReady", "Error"}
    BY <1>10, <2>3, ChatSame DEF cleanUp
  <2> QED
    BY <2>1, <2>2, <2>3
<1>11. CASE destroy
  BY <1>11 DEF destroy, ChatInv
<1>12. CASE StrayCall
  BY <1>12, ChatSame DEF StrayCall, engine
<1> QED
  BY <1>1, <1>2, <1>3, <1>4, <1>5, <1>6, <1>7, <1>8, <1>9, <1>10, <1>11, <1>12 DEF Next

(* However prompts are batched, shifted, failed, cancelled and reloaded,   *)
(* the memory under a ready or answering engine is the conversation: one   *)
(* token at every position below current_position, the system prompt in    *)
(* front, unless a prompt was cut or shifted the context                   *)
(* (decode_tokens_in_batches, shift_context and generateNextToken).        *)
THEOREM ConversationIsKept == Spec => []MemoryIsTheConversation
<1>1. ChatInv => MemoryIsTheConversation
  <2>1. Talking => /\ positions(mem) = 0 .. current_position - 1
                   /\ Cardinality(mem) = current_position
                   /\ positions({t \in mem : t.role = "system"}) = 0 .. system_prompt_position - 1
    <3> SUFFICES ASSUME Talking
                 PROVE  /\ positions(mem) = 0 .. current_position - 1
                        /\ Cardinality(mem) = current_position
                        /\ positions({t \in mem : t.role = "system"}) = 0 .. system_prompt_position - 1
      OBVIOUS
    <3> DEFINE s == system_prompt_position
               n == current_position
    <3>1. s \in Nat /\ n \in Nat /\ s <= n /\ mem = Talk(s, n)
      BY DEF Talking
    <3> HIDE DEF s, n
    <3>2. /\ positions(mem) = 0 .. n - 1
          /\ Cardinality(mem) = n
          /\ positions({t \in mem : t.role = "system"}) = 0 .. s - 1
      BY <3>1, TalkCount
    <3> QED
      BY <3>2 DEF s, n
  <2> QED
    BY <2>1 DEF ChatInv, MemoryIsTheConversation
<1> QED
  BY <1>1, InvInit, InvStep, ChatInit, ChatStep, PTL DEF Spec
=============================================================================
