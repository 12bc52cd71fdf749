------------------------- MODULE StudyLibraryProofs -------------------------
(***************************************************************************)
(* The study library for any number of items, writes and questions.        *)
(*                                                                         *)
(* The table: no id is used twice, so a deleted item stays deleted; and as *)
(* long as no tap was spoilt, the row every item will settle to is the one *)
(* the user meant, whatever writes are still to come (AsMeant).            *)
(*                                                                         *)
(* The quiz: the questions answered are counted one by one, up to the last *)
(* one, and after Retake there is none left to answer.                     *)
(***************************************************************************)
EXTENDS StudyLibrary, FiniteSetTheorems, TLAPS

(* Rows are functions on ids that were used.                               *)
Rows(f) == f = [i \in DOMAIN f |-> f[i]] /\ DOMAIN f \subseteq 1 .. saved

IsWrite(w, ids, n) ==
  /\ w = [no |-> w.no, by |-> w.by, op |-> w.op, id |-> w.id, row |-> w.row]
  /\ w.id \in 1 .. ids
  /\ w.no \in 1 .. n

(* Ids and the numbers of the writes are used once.                        *)
IdsUsed ==
  /\ saved \in Nat /\ saved <= NItems /\ launched \in Nat /\ spoilt \in BOOLEAN
  /\ Rows(table)
  /\ gone \subseteq 1 .. saved
  /\ gone \intersect DOMAIN table = {}
  /\ DOMAIN shown = Models
  /\ \A m \in Models : DOMAIN shown[m] \subseteq 1 .. saved
  /\ \A w \in writes : IsWrite(w, saved, launched)
  /\ \A v, w \in writes : v.no = w.no => v = w

(* What the user meant is what every row will be in the end.               *)
AsMeant ==
  ~spoilt =>
    /\ Rows(intent)
    /\ \A i \in 1 .. saved :
         Settled(i) = IF i \in DOMAIN intent THEN {intent[i]} ELSE {}

TableInv == IdsUsed /\ AsMeant

----------------------------------------------------------------------------
(* What the row of an item will be. *)

LEMMA SettledAlone ==
  ASSUME NEW i, {w \in writes : w.id = i} = {}
  PROVE  Settled(i) = IF i \in DOMAIN table THEN {table[i]} ELSE {}
BY DEF Settled

(* A step that touches neither the row of i nor the writes to it.          *)
LEMMA SettledSame ==
  ASSUME NEW i,
         {w \in writes : w.id = i}' = {w \in writes : w.id = i},
         (i \in DOMAIN table') <=> (i \in DOMAIN table),
         i \in DOMAIN table => table'[i] = table[i]
  PROVE  Settled(i)' = Settled(i)
BY DEF Settled

(* Making the next write changes no row in the long run.                   *)
LEMMA SettledWrite ==
  ASSUME IdsUsed, NEW w \in First(writes), writes' = writes \ {w}, NEW i,
         IF w.op = "delete"
         THEN table' = Drop(table, {w.id})
         ELSE table' = [j \in DOMAIN table |-> IF j = w.id THEN w.row ELSE table[j]]
  PROVE  Settled(i)' = Settled(i)
<1> DEFINE its == {v \in writes : v.id = i}
<1>1. w \in writes /\ \A v \in writes : w.no <= v.no
  BY DEF First
<1>2. \A v \in writes : v.no \in Int
  BY DEF IdsUsed, IsWrite
<1>3. \A v, u \in writes : v.no = u.no => v = u
  BY DEF IdsUsed
<1>4. {v \in writes : v.id = i}' = its \ {w}
  OBVIOUS
<1>5. CASE w.id # i
  <2>1. {v \in writes : v.id = i}' = its
    BY <1>4, <1>5
  <2>2. ((i \in DOMAIN table') <=> (i \in DOMAIN table))
        /\ (i \in DOMAIN table => table'[i] = table[i])
    BY <1>5 DEF Drop
  <2> QED
    BY <2>1, <2>2, SettledSame
<1>6. CASE w.id = i /\ w.op = "delete"
  <2>1. i \notin DOMAIN table'
    BY <1>6 DEF Drop
  <2>2. \E v \in its : v.op = "delete"
    BY <1>1, <1>6
  <2> QED
    BY <2>1, <2>2 DEF Settled
<1>7. CASE w.id = i /\ w.op # "delete"
  <2>1. DOMAIN table' = DOMAIN table /\ (i \in DOMAIN table => table'[i] = w.row)
    BY <1>7
  <2>2. (\E v \in its \ {w} : v.op = "delete") <=> (\E v \in its : v.op = "delete")
    BY <1>7
  <2>3. CASE i \notin DOMAIN table \/ \E v \in its : v.op = "delete"
    BY <1>4, <2>1, <2>2, <2>3 DEF Settled
  <2>4. CASE i \in DOMAIN table /\ (~\E v \in its : v.op = "delete") /\ its = {w}
    <3>1. Last(its) = {w}
      BY <1>1, <1>2, <2>4 DEF Last
    <3>2. Settled(i) = {w.row}
      BY <2>4, <3>1 DEF Settled
    <3>3. Settled(i)' = {w.row}
      BY <1>4, <2>1, <2>4 DEF Settled
    <3> QED
      BY <3>2, <3>3
  <2>5. CASE i \in DOMAIN table /\ (~\E v \in its : v.op = "delete") /\ its # {w}
    <3>1. w \in its /\ its \ {w} # {}
      BY <1>1, <1>7, <2>5
    <3>2. w \notin Last(its)
      <4>1. PICK v \in its : v # w
        BY <3>1
      <4>2. ~(v.no <= w.no)
        BY <1>1, <1>2, <1>3, <4>1
      <4> QED
        BY <4>1, <4>2 DEF Last
    <3>3. Last(its) = Last(its \ {w})
      BY <1>1, <1>2, <3>1, <3>2 DEF Last
    <3>4. Settled(i) = {v.row : v \in Last(its)}
      BY <2>5, <3>1 DEF Settled
    <3>5. Settled(i)' = {v.row : v \in Last(its \ {w})}
      BY <1>4, <2>1, <2>2, <2>5, <3>1 DEF Settled, Last
    <3> QED
      BY <3>3, <3>4, <3>5
  <2> QED
    BY <2>3, <2>4, <2>5
<1> QED
  BY <1>5, <1>6, <1>7

(* A new write of item i is the last one.                                  *)
LEMMA SettledLaunch ==
  ASSUME IdsUsed, NEW op, NEW i, NEW row, launch(op, i, row), table' = table, NEW j,
         j = i /\ op # "delete" => Settled(i) # {}
  PROVE  Settled(j)' = IF j # i THEN Settled(j) ELSE IF op = "delete" THEN {} ELSE {row}
<1> DEFINE new == [no |-> launched + 1, by |-> model, op |-> op, id |-> i, row |-> row]
           its == {v \in writes : v.id = i}
<1>1. writes' = writes \union {new} /\ new.id = i /\ new.op = op /\ new.row = row /\ new.no = launched + 1
  BY DEF launch
<1>2. \A v \in writes : v.no \in Int /\ v.no <= launched
  BY DEF IdsUsed, IsWrite
<1>3. launched \in Nat
  BY DEF IdsUsed
<1> HIDE DEF new
<1>4. CASE j # i
  <2>1. {v \in writes : v.id = j}' = {v \in writes : v.id = j}
    BY <1>1, <1>4
  <2> QED
    BY <1>4, <2>1, SettledSame
<1>5. CASE j = i /\ op = "delete"
  <2>1. \E v \in {v \in writes : v.id = i}' : v.op = "delete"
    BY <1>1, <1>5
  <2> QED
    BY <1>5, <2>1 DEF Settled
<1>6. CASE j = i /\ op # "delete"
  <2>1. {v \in writes : v.id = i}' = its \union {new}
    BY <1>1
  <2>2. i \in DOMAIN table /\ ~\E v \in its : v.op = "delete"
    BY <1>6 DEF Settled
  <2>3. ~\E v \in its \union {new} : v.op = "delete"
    BY <1>1, <1>6, <2>2
  <2>4. Last(its \union {new}) = {new}
    <3>1. \A v \in its : ~(new.no <= v.no) /\ v.no <= new.no
      BY <1>1, <1>2, <1>3
    <3>2. new.no <= new.no
      BY <1>1, <1>3
    <3> QED
      BY <3>1, <3>2 DEF Last
  <2>5. Settled(i)' = {v.row : v \in {new}}
    BY <2>1, <2>2, <2>3, <2>4 DEF Settled, Last
  <2> QED
    BY <1>1, <1>6, <2>5
<1> QED
  BY <1>4, <1>5, <1>6

(* Only who made the writes has changed.                                   *)
LEMMA SettledMatch ==
  ASSUME NEW i, table' = table,
         \A w \in writes' : \E v \in writes : v.no = w.no /\ v.op = w.op /\ v.id = w.id /\ v.row = w.row,
         \A v \in writes : \E w \in writes' : v.no = w.no /\ v.op = w.op /\ v.id = w.id /\ v.row = w.row
  PROVE  Settled(i)' = Settled(i)
<1> DEFINE old == {w \in writes : w.id = i}
           new == {w \in writes' : w.id = i}
<1>1. \A w \in new : \E v \in old : v.no = w.no /\ v.op = w.op /\ v.row = w.row
  OBVIOUS
<1>2. \A v \in old : \E w \in new : v.no = w.no /\ v.op = w.op /\ v.row = w.row
  OBVIOUS
<1> HIDE DEF old, new
<1>3. (\E v \in old : v.op = "delete") <=> (\E v \in new : v.op = "delete")
  BY <1>1, <1>2
<1>4. old = {} <=> new = {}
  BY <1>1, <1>2
<1>5. {w.row : w \in Last(old)} = {w.row : w \in Last(new)}
  <2>1. \A v \in Last(old) : \E w \in Last(new) : v.row = w.row
    BY <1>1, <1>2 DEF Last
  <2>2. \A w \in Last(new) : \E v \in Last(old) : v.row = w.row
    BY <1>1, <1>2 DEF Last
  <2> QED
    BY <2>1, <2>2
<1>6. Settled(i) = IF i \notin DOMAIN table \/ (\E w \in old : w.op = "delete") THEN {}
                   ELSE IF old = {} THEN {table[i]} ELSE {w.row : w \in Last(old)}
  BY DEF Settled, old
<1>7. Settled(i)' = IF i \notin DOMAIN table \/ (\E w \in new : w.op = "delete") THEN {}
                    ELSE IF new = {} THEN {table[i]} ELSE {w.row : w \in Last(new)}
  BY DEF Settled, new, Last
<1> QED
  BY <1>3, <1>4, <1>5, <1>6, <1>7

----------------------------------------------------------------------------
(* The steps. *)

LEMMA NoRowsAreRows == NoRows = [i \in {} |-> NoRows[i]] /\ DOMAIN NoRows = {}
BY DEF NoRows

(* The model of the screen that is drawn is one of the two.                *)
LEMMA ModelIsModel == model \in Models
BY DEF model, Models

(* What a step leaves alone.                                               *)
LEMMA TableQuiet ==
  ASSUME TableInv, UNCHANGED <<table, writes, intent, spoilt, saved, launched, gone>>,
         DOMAIN shown' = Models, \A m \in Models : DOMAIN shown'[m] \subseteq 1 .. saved
  PROVE  TableInv'
<1>1. IdsUsed'
  BY DEF TableInv, IdsUsed, Rows, IsWrite
<1>2. \A i : Settled(i)' = Settled(i)
  BY DEF Settled, Last
<1>3. AsMeant'
  BY <1>2 DEF TableInv, AsMeant, Rows
<1> QED
  BY <1>1, <1>3 DEF TableInv

LEMMA IdsLaunch ==
  ASSUME IdsUsed, NEW op, NEW i \in 1 .. saved, NEW row, launch(op, i, row), spoilt' \in BOOLEAN,
         UNCHANGED <<table, saved, gone, shown>>
  PROVE  IdsUsed'
<1> DEFINE new == [no |-> launched + 1, by |-> model, op |-> op, id |-> i, row |-> row]
<1>1. writes' = writes \union {new} /\ launched' = launched + 1
  BY DEF launch
<1>2. launched \in Nat /\ saved \in Nat
  BY DEF IdsUsed
<1>3. IsWrite(new, saved, launched + 1)
  BY <1>2 DEF IsWrite
<1>4. new.no = launched + 1
  OBVIOUS
<1> HIDE DEF new
<1>5. \A w \in writes : IsWrite(w, saved, launched + 1) /\ w.no # launched + 1
  BY <1>1, <1>2 DEF IdsUsed, IsWrite
<1>6. \A w \in writes' : IsWrite(w, saved, launched + 1)
  BY <1>1, <1>3, <1>5
<1>7. \A v, w \in writes' : v.no = w.no => v = w
  BY <1>1, <1>4, <1>5 DEF IdsUsed
<1> QED
  BY <1>1, <1>2, <1>6, <1>7 DEF IdsUsed, Rows

(* A tap on a row as the screen shows it: unless it is spoilt, that is the *)
(* row the user meant so far.                                              *)
LEMMA TableUpdate ==
  ASSUME TableInv, NEW i, i \in DOMAIN shown[model], NEW row, NEW meant,
         update(i, row, meant), i \in DOMAIN intent /\ intent[i] = shown[model][i] => meant = row,
         UNCHANGED <<table, saved, gone, shown>>
  PROVE  TableInv'
<1>1. i \in 1 .. saved
  BY ModelIsModel DEF TableInv, IdsUsed
<1>2. launch("update", i, row) /\ spoilt' = (spoilt \/ Settled(i) # {shown[model][i]})
      /\ intent' = Meant([j \in DOMAIN intent |-> IF j = i THEN meant ELSE intent[j]])
  BY DEF update
<1>3. spoilt' \in BOOLEAN
  BY <1>2 DEF TableInv, IdsUsed
<1>4. IdsUsed'
  BY <1>1, <1>2, <1>3, IdsLaunch DEF TableInv
<1>5. ASSUME ~spoilt' PROVE AsMeant'
  <2>1. ~spoilt /\ Settled(i) = {shown[model][i]}
    BY <1>2, <1>3, <1>5 DEF TableInv, IdsUsed
  <2>2. i \in DOMAIN intent /\ intent[i] = shown[model][i]
    BY <1>1, <2>1 DEF TableInv, AsMeant
  <2>3. intent' = [j \in DOMAIN intent |-> IF j = i THEN row ELSE intent[j]]
    BY <1>2, <1>5, <2>2 DEF Meant
  <2>4. \A j : Settled(j)' = IF j # i THEN Settled(j) ELSE {row}
    <3> SUFFICES ASSUME NEW j PROVE Settled(j)' = IF j # i THEN Settled(j) ELSE {row}
      OBVIOUS
    <3>1. Settled(i) # {}
      BY <2>1
    <3> QED
      BY <1>2, <3>1, SettledLaunch DEF TableInv
  <2> QED
    BY <2>1, <2>2, <2>3, <2>4 DEF TableInv, AsMeant, Rows
<1>6. AsMeant'
  BY <1>5 DEF AsMeant
<1> QED
  BY <1>4, <1>6 DEF TableInv

LEMMA TableConfirmDelete ==
  ASSUME TableInv, ConfirmDelete
  PROVE  TableInv'
<1>1. PICK i \in DOMAIN shown["library"] :
        launch("delete", i, NewRow) /\ spoilt' = (spoilt \/ i # asked)
  BY DEF ConfirmDelete
<1>2. i \in 1 .. saved
  BY DEF TableInv, IdsUsed, Models
<1>3. UNCHANGED <<table, saved, gone, shown>> /\ intent' = Meant(Drop(intent, {asked}))
  BY DEF ConfirmDelete, drawn
<1>4. spoilt' \in BOOLEAN
  BY <1>1 DEF TableInv, IdsUsed
<1>5. IdsUsed'
  BY <1>1, <1>2, <1>3, <1>4, IdsLaunch DEF TableInv
<1>6. ASSUME ~spoilt' PROVE AsMeant'
  <2>1. ~spoilt /\ asked = i
    BY <1>1, <1>4, <1>6 DEF TableInv, IdsUsed
  <2>2. intent' = [j \in DOMAIN intent \ {i} |-> intent[j]]
    BY <1>3, <1>6, <2>1 DEF Meant, Drop
  <2>3. \A j : Settled(j)' = IF j # i THEN Settled(j) ELSE {}
    BY <1>1, <1>3, SettledLaunch DEF TableInv
  <2> QED
    BY <1>3, <2>1, <2>2, <2>3 DEF TableInv, AsMeant, Rows
<1>7. AsMeant'
  BY <1>6 DEF AsMeant
<1> QED
  BY <1>5, <1>7 DEF TableInv

LEMMA TableInsert ==
  ASSUME TableInv, insertItem
  PROVE  TableInv'
<1>1. saved' = saved + 1 /\ saved \in Nat /\ saved < NItems /\ UNCHANGED <<writes, shown, spoilt, launched, gone>>
  BY DEF insertItem, TableInv, IdsUsed
<1>2. table' = [i \in DOMAIN table \union {saved + 1} |-> IF i = saved + 1 THEN NewRow ELSE table[i]]
  BY DEF insertItem
<1>3. \A w \in writes : w.id \in 1 .. saved
  BY DEF TableInv, IdsUsed, IsWrite
<1>4. IdsUsed'
  <2>1. Rows(table)'
    BY <1>1, <1>2 DEF TableInv, IdsUsed, Rows
  <2>2. (\A w \in writes : IsWrite(w, saved, launched))'
    BY <1>1 DEF TableInv, IdsUsed, IsWrite
  <2>3. (gone \subseteq 1 .. saved)' /\ (gone \intersect DOMAIN table = {})'
    BY <1>1, <1>2 DEF TableInv, IdsUsed
  <2>4. \A m \in Models : DOMAIN shown[m] \subseteq 1 .. (saved + 1)
    BY <1>1 DEF TableInv, IdsUsed
  <2>5. saved' \in Nat /\ saved' <= NItems
    BY <1>1, LibraryAssumption
  <2> QED
    BY <1>1, <2>1, <2>2, <2>3, <2>4, <2>5 DEF TableInv, IdsUsed
<1>5. ASSUME ~spoilt PROVE AsMeant'
  <2>1. intent' = [i \in DOMAIN intent \union {saved + 1} |-> IF i = saved + 1 THEN NewRow ELSE intent[i]]
    BY <1>1, <1>5 DEF insertItem
  <2>2. Rows(intent)'
    BY <1>1, <1>5, <2>1 DEF TableInv, AsMeant, Rows
  <2>3. \A i \in 1 .. saved : Settled(i)' = Settled(i)
    BY <1>1, <1>2, SettledSame
  <2>4. \A i : i = saved + 1 => Settled(i)' = {NewRow}
    BY <1>1, <1>2, <1>3 DEF Settled
  <2>5. ASSUME NEW i \in 1 .. saved + 1
        PROVE  Settled(i)' = IF i \in DOMAIN intent' THEN {intent'[i]} ELSE {}
    <3>1. CASE i = saved + 1
      BY <2>1, <2>4, <3>1
    <3>2. CASE i \in 1 .. saved
      BY <1>1, <1>5, <2>1, <2>3, <3>2 DEF TableInv, AsMeant
    <3> QED
      BY <1>1, <3>1, <3>2
  <2> QED
    BY <1>1, <2>2, <2>5 DEF AsMeant
<1>6. AsMeant'
  BY <1>1, <1>5 DEF AsMeant
<1> QED
  BY <1>4, <1>6 DEF TableInv

LEMMA TableWrite ==
  ASSUME TableInv, Write
  PROVE  TableInv'
<1>1. PICK w \in First(writes) :
        /\ writes' = writes \ {w}
        /\ IF w.op = "delete"
           THEN table' = Drop(table, {w.id}) /\ gone' = gone \union {w.id}
           ELSE table' = [i \in DOMAIN table |-> IF i = w.id THEN w.row ELSE table[i]] /\ UNCHANGED gone
  BY DEF Write
<1>2. UNCHANGED <<shown, intent, spoilt, saved, launched>>
  BY DEF Write
<1>3. w.id \in 1 .. saved
  BY DEF First, TableInv, IdsUsed, IsWrite
<1>4. Rows(table)' /\ gone' \subseteq 1 .. saved /\ gone' \intersect DOMAIN table' = {}
  BY <1>1, <1>2, <1>3 DEF TableInv, IdsUsed, Rows, Drop
<1>5. (\A v \in writes : IsWrite(v, saved, launched))' /\ \A v, u \in writes' : v.no = u.no => v = u
  BY <1>1, <1>2 DEF TableInv, IdsUsed, IsWrite
<1>6. IdsUsed'
  BY <1>2, <1>4, <1>5 DEF TableInv, IdsUsed
<1>7. \A i : Settled(i)' = Settled(i)
  <2> SUFFICES ASSUME NEW i PROVE Settled(i)' = Settled(i)
    OBVIOUS
  <2>1. IF w.op = "delete"
        THEN table' = Drop(table, {w.id})
        ELSE table' = [j \in DOMAIN table |-> IF j = w.id THEN w.row ELSE table[j]]
    BY <1>1
  <2> QED
    BY <1>1, <2>1, SettledWrite DEF TableInv
<1>8. AsMeant'
  BY <1>2, <1>7 DEF TableInv, AsMeant, Rows
<1> QED
  BY <1>6, <1>8 DEF TableInv

(* The screen that is left loses its writes, but for one that has begun.   *)
LEMMA TableBack ==
  ASSUME TableInv, Back
  PROVE  TableInv'
<1>1. PICK begun \in {{}, First(writes)} :
        LET lost == {w \in writes \ begun : w.by = model} IN
        /\ writes' = (writes \ (begun \union lost)) \union {[w EXCEPT !.by = "begun"] : w \in begun}
        /\ spoilt' = (spoilt \/ lost # {})
  BY DEF Back
<1> DEFINE lost == {w \in writes \ begun : w.by = model}
<1>2. UNCHANGED <<table, saved, launched, gone>> /\ intent' = Meant(intent)
      /\ shown' = [shown EXCEPT ![model] = NoRows]
  BY DEF Back
<1>3. begun \subseteq writes
  BY DEF First
<1>4. \A w \in writes : LET b == [w EXCEPT !.by = "begun"] IN
        IsWrite(b, saved, launched) /\ b.no = w.no /\ b.op = w.op /\ b.id = w.id /\ b.row = w.row
  BY DEF TableInv, IdsUsed, IsWrite
<1>5. \A w \in writes' : IsWrite(w, saved, launched) /\ \E v \in writes :
        /\ v.no = w.no /\ v.op = w.op /\ v.id = w.id /\ v.row = w.row
        /\ w = IF v \in begun THEN [v EXCEPT !.by = "begun"] ELSE v
  <2> SUFFICES ASSUME NEW w \in writes'
               PROVE  IsWrite(w, saved, launched) /\ \E v \in writes :
                        /\ v.no = w.no /\ v.op = w.op /\ v.id = w.id /\ v.row = w.row
                        /\ w = IF v \in begun THEN [v EXCEPT !.by = "begun"] ELSE v
    OBVIOUS
  <2>1. CASE w \in writes \ begun
    BY <2>1 DEF TableInv, IdsUsed
  <2>2. CASE \E v \in begun : w = [v EXCEPT !.by = "begun"]
    BY <1>3, <1>4, <2>2
  <2> QED
    BY <1>1, <2>1, <2>2
<1>6. IdsUsed'
  <2>1. (\A w \in writes : IsWrite(w, saved, launched))'
    BY <1>2, <1>5 DEF IsWrite
  <2>2. \A v, w \in writes' : v.no = w.no => v = w
    BY <1>5 DEF TableInv, IdsUsed
  <2>3. spoilt' \in BOOLEAN
    BY <1>1 DEF TableInv, IdsUsed
  <2>4. (DOMAIN shown = Models /\ \A m \in Models : DOMAIN shown[m] \subseteq 1 .. saved)'
    BY <1>2, NoRowsAreRows DEF TableInv, IdsUsed
  <2>5. Rows(table)' /\ (gone \subseteq 1 .. saved)' /\ (gone \intersect DOMAIN table = {})' /\ saved' \in Nat /\ saved' <= NItems /\ launched' \in Nat
    BY <1>2 DEF TableInv, IdsUsed, Rows
  <2> QED
    BY <2>1, <2>2, <2>3, <2>4, <2>5 DEF IdsUsed
<1>7. ASSUME ~spoilt' PROVE AsMeant'
  <2>1. ~spoilt /\ lost = {}
    BY <1>1, <1>7 DEF TableInv, IdsUsed
  <2>2. intent' = intent
    BY <1>2, <1>7 DEF Meant
  <2>3. writes' = (writes \ begun) \union {[w EXCEPT !.by = "begun"] : w \in begun}
    BY <1>1, <2>1
  <2>4. \A v \in writes : \E w \in writes' : v.no = w.no /\ v.op = w.op /\ v.id = w.id /\ v.row = w.row
    <3> SUFFICES ASSUME NEW v \in writes
                 PROVE  \E w \in writes' : v.no = w.no /\ v.op = w.op /\ v.id = w.id /\ v.row = w.row
      OBVIOUS
    <3>1. CASE v \in begun
      BY <1>4, <2>3, <3>1
    <3>2. CASE v \notin begun
      BY <2>3, <3>2
    <3> QED
      BY <3>1, <3>2
  <2>5. \A w \in writes' : \E v \in writes : v.no = w.no /\ v.op = w.op /\ v.id = w.id /\ v.row = w.row
    BY <1>5
  <2>6. \A i : Settled(i)' = Settled(i)
    BY <1>2, <2>4, <2>5, SettledMatch
  <2> QED
    BY <1>2, <2>1, <2>2, <2>6 DEF TableInv, AsMeant, Rows
<1>8. AsMeant'
  BY <1>7 DEF AsMeant
<1> QED
  BY <1>6, <1>8 DEF TableInv

LEMMA TableAnswer ==
  ASSUME TableInv, NEW q \in Questions, NEW letter \in Letters, Answer(q, letter)
  PROVE  TableInv'
<1> DEFINE score == IF letter = Correct[q] THEN currentScore + 1 ELSE currentScore
<1>1. UNCHANGED <<table, saved, gone, shown>> /\ screen \in DOMAIN shown["detail"]
  BY DEF Answer, drawn
<1>2. CASE UNCHANGED <<writes, intent, spoilt, launched>>
  <2>1. DOMAIN shown' = Models /\ \A m \in Models : DOMAIN shown'[m] \subseteq 1 .. saved
    BY <1>1 DEF TableInv, IdsUsed
  <2> QED
    BY <1>1, <1>2, <2>1, TableQuiet
<1>3. CASE update(screen, [shown["detail"][screen] EXCEPT !.quizScore = score],
                  IF screen \in DOMAIN intent THEN [intent[screen] EXCEPT !.quizScore = score] ELSE NewRow)
  <2>1. screen \in 1 .. saved
    BY <1>1 DEF TableInv, IdsUsed, Models
  <2> DEFINE row == [shown["detail"][screen] EXCEPT !.quizScore = score]
             meant == IF screen \in DOMAIN intent THEN [intent[screen] EXCEPT !.quizScore = score] ELSE NewRow
  <2>2. screen \in DOMAIN intent /\ intent[screen] = shown["detail"][screen] => meant = row
    OBVIOUS
  <2>3. update(screen, row, meant)
    BY <1>3
  <2> HIDE DEF row, meant
  <2>4. model = "detail"
    BY <2>1, LibraryAssumption DEF model, Items, TableInv, IdsUsed
  <2> QED
    BY <1>1, <2>2, <2>3, <2>4, TableUpdate
<1> QED
  BY <1>2, <1>3 DEF Answer

LEMMA TableToggle ==
  ASSUME TableInv, NEW i \in Items, toggleFavorite(i)
  PROVE  TableInv'
<1> DEFINE row == [shown[model][i] EXCEPT !.isFavorite = ~@]
           meant == IF i \in DOMAIN intent THEN [intent[i] EXCEPT !.isFavorite = ~@] ELSE NewRow
<1>1. UNCHANGED <<table, saved, gone, shown>> /\ i \in DOMAIN shown[model]
  BY DEF toggleFavorite, drawn
<1>2. update(i, row, meant)
  BY DEF toggleFavorite
<1>3. i \in DOMAIN intent /\ intent[i] = shown[model][i] => meant = row
  OBVIOUS
<1> HIDE DEF row, meant
<1> QED
  BY <1>1, <1>2, <1>3, TableUpdate

LEMMA TableRefresh ==
  ASSUME TableInv, NEW m \in Models, Refresh(m)
  PROVE  TableInv'
<1>1. UNCHANGED <<table, writes, intent, spoilt, saved, launched, gone>> /\ shown' = [shown EXCEPT ![m] = View(m)]
  BY DEF Refresh, data
<1>2. DOMAIN View(m) \subseteq DOMAIN table
  BY DEF View, Drop
<1>3. DOMAIN shown' = Models /\ \A k \in Models : DOMAIN shown'[k] \subseteq 1 .. saved
  BY <1>1, <1>2 DEF TableInv, IdsUsed, Rows
<1> QED
  BY <1>1, <1>3, TableQuiet

LEMMA TableOpen ==
  ASSUME TableInv, OpenLibrary \/ \E i \in Items : OpenItem(i)
  PROVE  TableInv'
<1>1. UNCHANGED <<table, writes, intent, spoilt, saved, launched, gone>>
  BY DEF OpenLibrary, OpenItem, data
<1>2. \E m \in Models : shown' = [shown EXCEPT ![m] = NoRows]
  BY DEF OpenLibrary, OpenItem, Models
<1>3. DOMAIN shown' = Models /\ \A k \in Models : DOMAIN shown'[k] \subseteq 1 .. saved
  BY <1>2, NoRowsAreRows DEF TableInv, IdsUsed
<1> QED
  BY <1>1, <1>3, TableQuiet

LEMMA TableInit ==
  ASSUME Init
  PROVE  TableInv
<1>1. table = NoRows /\ Rows(table)
  BY NoRowsAreRows DEF Init, Rows
<1>2. saved \in Nat /\ saved <= NItems /\ launched \in Nat
  BY LibraryAssumption DEF Init
<1>3. \A m \in Models : DOMAIN shown[m] \subseteq 1 .. saved
  BY NoRowsAreRows DEF Init
<1>4. IdsUsed
  BY <1>1, <1>2, <1>3 DEF Init, IdsUsed
<1>5. AsMeant
  BY NoRowsAreRows DEF Init, AsMeant, Rows
<1> QED
  BY <1>4, <1>5 DEF TableInv

LEMMA TableNext ==
  ASSUME TableInv, [Next]_vars
  PROVE  TableInv'
<1> DEFINE Idle == UNCHANGED <<table, writes, intent, spoilt, saved, launched, gone, shown>>
<1>1. CASE Idle
  <2>1. DOMAIN shown' = Models /\ \A m \in Models : DOMAIN shown'[m] \subseteq 1 .. saved
    BY <1>1 DEF TableInv, IdsUsed
  <2> QED
    BY <1>1, <2>1, TableQuiet
<1>2. CASE insertItem
  BY <1>2, TableInsert
<1>3. CASE Write
  BY <1>3, TableWrite
<1>4. CASE \E m \in Models : Refresh(m)
  BY <1>4, TableRefresh
<1>5. CASE \E i \in Items : toggleFavorite(i)
  BY <1>5, TableToggle
<1>6. CASE OpenLibrary \/ \E i \in Items : OpenItem(i)
  BY <1>6, TableOpen
<1>7. CASE ConfirmDelete
  BY <1>7, TableConfirmDelete
<1>8. CASE Back
  BY <1>8, TableBack
<1>9. CASE \E q \in Questions, letter \in Letters : Answer(q, letter)
  BY <1>9, TableAnswer
<1>10. CASE UNCHANGED vars
  BY <1>1, <1>10 DEF vars, data, drawn
<1>11. CASE \E i \in Items : AskDelete(i)
  BY <1>1, <1>11 DEF AskDelete, data, drawn
<1>12. CASE \E F \in Filters : setFilter(F)
  BY <1>1, <1>12 DEF setFilter, data
<1>13. CASE CancelDelete
  BY <1>1, <1>13 DEF CancelDelete, data, drawn
<1>14. CASE Retake
  BY <1>1, <1>14 DEF Retake, data, drawn
<1> QED
  BY <1>2, <1>3, <1>4, <1>5, <1>6, <1>7, <1>8, <1>9, <1>10, <1>11, <1>12, <1>13, <1>14 DEF Next

(* Once the writes are done the table is what the user did, whatever was   *)
(* tapped on either screen while they waited, for any number of items and  *)
(* writes; and no write brings back an item that was deleted.              *)
THEOREM EveryTapIsKept == Spec => []TableIsTheUsersWork
<1>1. TableInv => TableIsTheUsersWork
  <2> SUFFICES ASSUME TableInv PROVE TableIsTheUsersWork
    OBVIOUS
  <2>1. gone \intersect DOMAIN table = {}
    BY DEF TableInv, IdsUsed
  <2>2. ASSUME writes = {}, ~spoilt PROVE table = intent
    <3>1. \A i \in 1 .. saved : Settled(i) = IF i \in DOMAIN table THEN {table[i]} ELSE {}
      BY <2>2, SettledAlone
    <3>2. \A i \in 1 .. saved : Settled(i) = IF i \in DOMAIN intent THEN {intent[i]} ELSE {}
      BY <2>2 DEF TableInv, AsMeant
    <3>3. Rows(table) /\ Rows(intent)
      BY <2>2 DEF TableInv, IdsUsed, AsMeant
    <3>4. DOMAIN table = DOMAIN intent
      BY <3>1, <3>2, <3>3 DEF Rows
    <3>5. \A i \in DOMAIN table : table[i] = intent[i]
      BY <3>1, <3>2, <3>3, <3>4 DEF Rows
    <3> QED
      BY <3>3, <3>4, <3>5 DEF Rows
  <2> QED
    BY <2>1, <2>2 DEF TableIsTheUsersWork
<1> QED
  BY <1>1, TableInit, TableNext, PTL DEF Spec

----------------------------------------------------------------------------
(* The quiz. *)

Answered == {q \in Questions : selectedOption[q] # "none"}
Right(answered) == {q \in answered : selectedOption[q] = Correct[q]}

(* The score, and what the cards may hold.                                 *)
QuizInv ==
  /\ selectedOption \in [Questions -> Letters \union {"none"}]
  /\ retaken \in BOOLEAN
  /\ ScoreCountsAnswers

LEMMA QuestionsFinite == IsFiniteSet(Questions) /\ N \in Nat
<1>1. Questions = 1 .. Len(Correct) /\ Len(Correct) \in Nat
  BY LibraryAssumption DEF Questions
<1>2. IsFiniteSet(1 .. Len(Correct))
  BY <1>1, FS_Interval
<1> QED
  BY <1>1, <1>2, FS_CardinalityType DEF N

(* What leaves the cards alone.                                            *)
LEMMA QuizQuiet ==
  ASSUME QuizInv, UNCHANGED quiz
  PROVE  QuizInv'
BY DEF QuizInv, quiz, ScoreCountsAnswers

LEMMA QuizFresh ==
  ASSUME FreshQuiz
  PROVE  QuizInv'
<1>1. selectedOption' = [q \in Questions |-> "none"] /\ currentScore' = 0 /\ questionsAnswered' = 0 /\ retaken' = FALSE
  BY DEF FreshQuiz
<1>2. {q \in Questions : selectedOption'[q] # "none"} = {}
  BY <1>1
<1>3. {q \in {} : selectedOption'[q] = Correct[q]} = {}
  OBVIOUS
<1> QED
  BY <1>1, <1>2, <1>3, FS_EmptySet DEF QuizInv, ScoreCountsAnswers

LEMMA QuizAnswer ==
  ASSUME QuizInv, NEW q \in Questions, NEW letter \in Letters, Answer(q, letter)
  PROVE  QuizInv'
<1> DEFINE right == Right(Answered)
<1>1. selectedOption[q] = "none" /\ selectedOption' = [selectedOption EXCEPT ![q] = letter] /\ retaken' = retaken
  BY DEF Answer
<1>2. letter # "none"
  BY DEF Letters
<1>3. q \notin Answered /\ Answered # Questions
  BY <1>1 DEF Answered
<1>4. ~retaken /\ questionsAnswered = Cardinality(Answered) /\ currentScore = Cardinality(right)
  BY <1>3 DEF QuizInv, ScoreCountsAnswers, Answered, Right
<1>5. IsFiniteSet(Answered) /\ Answered \subseteq Questions
  BY QuestionsFinite, FS_Subset DEF Answered
<1>6. IsFiniteSet(right) /\ q \notin right
  BY <1>3, <1>5, FS_Subset DEF Right
<1>7. Cardinality(Answered) < N
  BY <1>3, <1>5, QuestionsFinite, FS_Subset, FS_CardinalityType DEF N
<1>8. questionsAnswered' = questionsAnswered + 1
      /\ currentScore' = IF letter = Correct[q] THEN currentScore + 1 ELSE currentScore
  BY <1>4, <1>7 DEF Answer
<1>9. Answered' = Answered \union {q}
  BY <1>1, <1>2 DEF Answered, QuizInv
<1>10. Right(Answered)' = IF letter = Correct[q] THEN right \union {q} ELSE right
  BY <1>1, <1>3, <1>5, <1>9 DEF Right, QuizInv
<1>11. Cardinality(Answered') = Cardinality(Answered) + 1
  BY <1>3, <1>5, <1>9, FS_AddElement
<1>12. Cardinality(Right(Answered)') = IF letter = Correct[q] THEN Cardinality(right) + 1 ELSE Cardinality(right)
  BY <1>6, <1>10, FS_AddElement
<1>13. ScoreCountsAnswers'
  BY <1>1, <1>4, <1>8, <1>11, <1>12 DEF ScoreCountsAnswers, Answered, Right
<1> QED
  BY <1>1, <1>13 DEF QuizInv

LEMMA QuizRetake ==
  ASSUME QuizInv, Retake
  PROVE  QuizInv'
<1>1. selectedOption' = selectedOption /\ currentScore' = 0 /\ questionsAnswered' = 0 /\ retaken' = TRUE
      /\ questionsAnswered = N /\ N > 0
  BY DEF Retake
<1>2. Answered = Questions
  <2>1. CASE retaken
    BY <2>1 DEF QuizInv, ScoreCountsAnswers, Answered
  <2>2. CASE ~retaken
    <3>1. Cardinality(Answered) = Cardinality(Questions)
      BY <1>1, <2>2 DEF QuizInv, ScoreCountsAnswers, Answered, N
    <3>2. Answered \subseteq Questions
      BY DEF Answered
    <3> QED
      BY <3>1, <3>2, QuestionsFinite, FS_Subset
  <2> QED
    BY <2>1, <2>2
<1> QED
  BY <1>1, <1>2 DEF QuizInv, ScoreCountsAnswers, Answered

LEMMA QuizNext ==
  ASSUME QuizInv, [Next]_vars
  PROVE  QuizInv'
<1>1. CASE UNCHANGED quiz
  BY <1>1, QuizQuiet
<1>2. CASE FreshQuiz
  BY <1>2, QuizFresh
<1>3. CASE \E q \in Questions, letter \in Letters : Answer(q, letter)
  BY <1>3, QuizAnswer
<1>4. CASE Retake
  BY <1>4, QuizRetake
<1>5. CASE insertItem \/ Write \/ \E m \in Models : Refresh(m)
  BY <1>1, <1>5 DEF insertItem, Write, Refresh
<1>6. CASE \E i \in Items : toggleFavorite(i) \/ AskDelete(i)
  BY <1>1, <1>6 DEF toggleFavorite, AskDelete
<1>7. CASE \E i \in Items : OpenItem(i)
  BY <1>2, <1>7 DEF OpenItem
<1>8. CASE (\E F \in Filters : setFilter(F)) \/ ConfirmDelete \/ CancelDelete \/ OpenLibrary
  BY <1>1, <1>8 DEF setFilter, ConfirmDelete, CancelDelete, OpenLibrary
<1>9. CASE Back
  BY <1>2, <1>9 DEF Back
<1>10. CASE UNCHANGED vars
  BY <1>1, <1>10 DEF vars
<1> QED
  BY <1>3, <1>4, <1>5, <1>6, <1>7, <1>8, <1>9, <1>10 DEF Next

(* The score of a quiz of any length counts every question that was        *)
(* answered, once, and as right the ones answered with the correct letter; *)
(* nothing is counted after Retake.                                        *)
THEOREM QuizIsCountedRight == Spec => []ScoreCountsAnswers
<1>1. Init => QuizInv
  <2> SUFFICES ASSUME Init PROVE QuizInv
    OBVIOUS
  <2>1. {q \in Questions : selectedOption[q] # "none"} = {}
    BY DEF Init
  <2>2. {q \in {} : selectedOption[q] = Correct[q]} = {}
    OBVIOUS
  <2> QED
    BY <2>1, <2>2, FS_EmptySet DEF Init, QuizInv, ScoreCountsAnswers
<1>2. QuizInv => ScoreCountsAnswers
  BY DEF QuizInv
<1> QED
  BY <1>1, <1>2, QuizNext, PTL DEF Spec
=============================================================================
