------------------------- MODULE PendingEdits_proofs -------------------------
(***************************************************************************)
(* What holds of pending changes for any table, any number of edits and    *)
(* any number of reviews: a change not taken back is pending until it is   *)
(* written, no new row is inserted twice unless a write was left in doubt, *)
(* nothing is written that no review showed, and a value for the selected  *)
(* rows goes to them unless a new row came or went.                        *)
(*                                                                         *)
(* Types is inductive alone.  Each of the four has its own strengthening   *)
(* on top of it: ReviewedFirst says of the changes under review what       *)
(* ReviewedIsWritten says of the written ones; Keeps compares what is      *)
(* pending with the changeset a sheet or a write has in hand; Once adds    *)
(* that a new row still pending was not inserted; and FillRight says which *)
(* rows each fill under way has read.                                      *)
(*                                                                         *)
(* The two recursive functions of the module, Filled and Left, range over  *)
(* the naturals: that they are what their definitions say is proved by     *)
(* least counterexample, over sets of numbers (Least, Induction).          *)
(***************************************************************************)
EXTENDS PendingEdits, FiniteSetTheorems, SequenceTheorems, WellFoundedInduction, TLAPS

\* Induction on the natural numbers, of a set of them.
LEMMA LeastIn ==
  ASSUME NEW R, NEW T, T \subseteq Nat,
         \E x \in T : \A y \in T : <<y, x>> \notin R,
         \A x, y \in Nat : y < x => <<y, x>> \in R
  PROVE  \E x \in T : \A y \in T : x <= y
<1>1. PICK x \in T : \A y \in T : <<y, x>> \notin R
  OBVIOUS
<1>2. \A y \in T : y \in Nat /\ ~(y < x)
  BY <1>1
<1>3. QED
  BY <1>2

LEMMA Least ==
  ASSUME NEW T, T \subseteq Nat, T # {}
  PROVE  \E x \in T : \A y \in T : x <= y
<1> DEFINE R == OpToRel(<, Nat)
<1>1. IsWellFoundedOn(R, Nat)
  BY NatLessThanWellFounded
<1>2. \A x, y \in Nat : y < x => <<y, x>> \in R
  BY DEF OpToRel
<1> HIDE DEF R
<1>3. \E x \in T : \A y \in T : <<y, x>> \notin R
  BY <1>1, WFMin
<1>4. QED
  BY <1>2, <1>3, LeastIn, Zenon

LEMMA Induction ==
  ASSUME NEW S, S \subseteq Nat, 0 \in S, \A n \in S : n + 1 \in S
  PROVE  S = Nat
<1>1. SUFFICES ASSUME Nat \ S # {} PROVE FALSE
  OBVIOUS
<1>2. PICK x \in Nat \ S : \A y \in Nat \ S : x <= y
  BY <1>1, Least
<1>3. x # 0 /\ x - 1 \in Nat /\ x - 1 < x
  BY <1>2
<1>4. x - 1 \in S
  BY <1>2, <1>3
<1>5. (x - 1) + 1 = x
  BY <1>2
<1>6. QED
  BY <1>2, <1>4, <1>5

\* What is at the end of a sequence, and what is left of one an element is taken out of.
LEMMA Joined ==
  ASSUME NEW S, NEW s \in Seq(S), NEW e \in S
  PROVE  /\ Append(s, e) \in Seq(S) /\ Len(s) \in Nat /\ DOMAIN s = 1..Len(s)
         /\ DOMAIN Append(s, e) = 1..(Len(s) + 1)
         /\ Len(Append(s, e)) = Len(s) + 1
         /\ \A i \in 1..Len(s) : Append(s, e)[i] = s[i]
         /\ Append(s, e)[Len(s) + 1] = e
  OBVIOUS

LEMMA OfItsElements ==
  ASSUME NEW S, NEW n \in Nat, NEW f \in [1..n -> S]
  PROVE  f \in Seq(S) /\ Len(f) = n
  OBVIOUS

LEMMA Without ==
  ASSUME NEW S, NEW s \in Seq(S), NEW i \in DOMAIN s
  PROVE  /\ RemoveAt(s, i) \in Seq(S) /\ Len(s) \in Nat /\ DOMAIN s = 1..Len(s) /\ Len(s) - 1 \in Nat
         /\ DOMAIN RemoveAt(s, i) = 1..(Len(s) - 1)
         /\ Len(RemoveAt(s, i)) = Len(s) - 1
         /\ \A j \in 1..(Len(s) - 1) : RemoveAt(s, i)[j] = IF j < i THEN s[j] ELSE s[j + 1]
<1>1. /\ Len(s) \in Nat /\ i \in 1..Len(s) /\ DOMAIN s = 1..Len(s)
  OBVIOUS
<1> DEFINE a == SubSeq(s, 1, i - 1)
<1> DEFINE b == SubSeq(s, i + 1, Len(s))
<1>2. a \in Seq(S) /\ Len(a) = i - 1 /\ \A j \in 1..(i - 1) : a[j] = s[j]
  BY <1>1
<1>3. b \in Seq(S) /\ Len(b) = Len(s) - i /\ \A j \in 1..(Len(s) - i) : b[j] = s[i + j]
  BY <1>1
<1> HIDE DEF a, b
<1>4. /\ a \o b \in Seq(S) /\ Len(a \o b) = Len(s) - 1
      /\ \A j \in 1..(Len(s) - 1) : (a \o b)[j] = IF j <= i - 1 THEN a[j] ELSE b[j - (i - 1)]
  <2>1. /\ a \o b \in Seq(S) /\ Len(a \o b) = Len(a) + Len(b)
        /\ \A j \in 1..(Len(a) + Len(b)) : (a \o b)[j] = IF j <= Len(a) THEN a[j] ELSE b[j - Len(a)]
    BY <1>2, <1>3, ConcatProperties
  <2>2. Len(a) + Len(b) = Len(s) - 1
    BY <1>1, <1>2, <1>3
  <2>3. QED
    BY <1>2, <2>1, <2>2
<1>5. RemoveAt(s, i) = a \o b
  BY DEF RemoveAt, a, b
<1>6. ASSUME NEW j \in 1..(Len(s) - 1) PROVE (a \o b)[j] = IF j < i THEN s[j] ELSE s[j + 1]
  <2>1. CASE j < i
    BY <1>1, <1>2, <1>4, <2>1
  <2>2. CASE ~(j < i)
    <3>1. j - (i - 1) \in 1..(Len(s) - i) /\ i + (j - (i - 1)) = j + 1
      BY <1>1, <2>2
    <3>2. (a \o b)[j] = b[j - (i - 1)]
      <4>1. ~(j <= i - 1)
        BY <1>1, <2>2
      <4>2. QED
        BY <1>4, <4>1
    <3>3. b[j - (i - 1)] = s[i + (j - (i - 1))]
      BY <1>3, <3>1
    <3>4. QED
      BY <2>2, <3>1, <3>2, <3>3
  <2>3. QED
    BY <2>1, <2>2
<1>7. DOMAIN (a \o b) = 1..(Len(s) - 1) /\ Len(s) - 1 \in Nat
  <2>1. \A t \in Seq(S) : DOMAIN t = 1..Len(t)
    OBVIOUS
  <2>2. a \o b \in Seq(S)
    BY <1>4
  <2> HIDE DEF a, b
  <2>3. DOMAIN (a \o b) = 1..Len(a \o b)
    BY <2>1, <2>2
  <2>4. Len(a \o b) = Len(s) - 1 /\ Len(s) - 1 \in Nat
    BY <1>1, <1>4
  <2>5. QED
    BY <2>3, <2>4
<1>8. QED
  BY <1>1, <1>4, <1>5, <1>6, <1>7

(***************************************************************************)
(* What is pending                                                         *)
(***************************************************************************)
Marks   == [kind : {"update", "delete"}, value : Nat]
NewRows == [name : 1..MaxEdits, value : Nat]
Drafts  == [order : Seq(Keys), changed : [Keys -> Marks \cup {None}], added : Seq(NewRows)]
Names(p) == {p.added[i].name : i \in DOMAIN p.added}

\* A row is in the order when it has a change, and once; each new row has a name.
Ordered(p) ==
  /\ \A k \in Keys : p.changed[k] # None <=> \E i \in DOMAIN p.order : p.order[i] = k
  /\ \A i, j \in DOMAIN p.order : p.order[i] = p.order[j] => i = j
NamedOnce(p) == \A i, j \in DOMAIN p.added : p.added[i].name = p.added[j].name => i = j
Whole(p) == p \in Drafts /\ Ordered(p) /\ NamedOnce(p)

\* The new rows of q are those of p, in their places.
SameNew(p, q) ==
  /\ Len(q.added) = Len(p.added)
  /\ \A i \in 1..Len(p.added) : q.added[i].name = p.added[i].name

LEMMA DraftParts ==
  ASSUME NEW p \in Drafts
  PROVE  /\ p.order \in Seq(Keys) /\ p.changed \in [Keys -> Marks \cup {None}] /\ p.added \in Seq(NewRows)
         /\ Len(p.order) \in Nat /\ DOMAIN p.order = 1..Len(p.order)
         /\ Len(p.added) \in Nat /\ DOMAIN p.added = 1..Len(p.added)
         /\ \A i \in DOMAIN p.order : p.order[i] \in Keys
         /\ \A i \in DOMAIN p.added : p.added[i] \in NewRows /\ p.added[i].name \in 1..MaxEdits
<1>1. p.order \in Seq(Keys) /\ p.changed \in [Keys -> Marks \cup {None}] /\ p.added \in Seq(NewRows)
  BY DEF Drafts
<1>2. \A e \in NewRows : e.name \in 1..MaxEdits
  BY DEF NewRows
<1>3. QED
  BY <1>1, <1>2

LEMMA OrderChanged ==
  ASSUME NEW p \in Drafts, NEW o, NEW c, NEW q, q = [p EXCEPT !.order = o, !.changed = c]
  PROVE  q = [order |-> o, changed |-> c, added |-> p.added]
<1> DEFINE r == [order |-> o, changed |-> p.changed, added |-> p.added]
<1>0. p \in [order : Seq(Keys), changed : [Keys -> Marks \cup {None}], added : Seq(NewRows)]
  BY DEF Drafts
<1>1. [p EXCEPT !.order = o] = r
  BY <1>0
<1>2. [r EXCEPT !.changed = c] = [order |-> o, changed |-> c, added |-> p.added]
  OBVIOUS
<1> HIDE DEF r
<1>3. [p EXCEPT !.order = o, !.changed = c] = [order |-> o, changed |-> c, added |-> p.added]
  BY <1>1, <1>2
<1>4. QED
  BY <1>3

LEMMA AddedChanged ==
  ASSUME NEW S, NEW T, NEW U, NEW p \in [order : S, changed : T, added : U], NEW a
  PROVE  [p EXCEPT !.added = a] = [order |-> p.order, changed |-> p.changed, added |-> a]
  OBVIOUS

LEMMA NothingWhole == Whole(Nothing) /\ Names(Nothing) = {} /\ Len(Nothing.added) = 0
<1>1. Nothing.order = <<>> /\ Nothing.changed = [k \in Keys |-> None] /\ Nothing.added = <<>>
  BY DEF Nothing
<1>2. Nothing \in Drafts
  BY DEF Nothing, Drafts
<1>3. QED
  BY <1>1, <1>2 DEF Whole, Ordered, NamedOnce, Names

LEMMA ChangeWhole ==
  ASSUME NEW p, Whole(p), NEW k \in Keys, NEW kind \in {"update", "delete"}, NEW v \in Nat
  PROVE  Whole(Change(p, k, kind, v)) /\ Change(p, k, kind, v).added = p.added
<1> DEFINE mark == [kind |-> kind, value |-> v]
<1> DEFINE o == IF p.changed[k] = None THEN Append(p.order, k) ELSE p.order
<1> DEFINE c == [p.changed EXCEPT ![k] = mark]
<1> DEFINE q == Change(p, k, kind, v)
<1>0. p \in Drafts
  BY DEF Whole
<1>1. q.order = o /\ q.changed = c /\ q.added = p.added /\ q = [order |-> o, changed |-> c, added |-> p.added]
  <2>1. q = [p EXCEPT !.order = o, !.changed = c]
    BY DEF Change
  <2> HIDE DEF o, c
  <2> HIDE DEF q
  <2>2. q = [order |-> o, changed |-> c, added |-> p.added]
    BY <1>0, <2>1, OrderChanged
  <2>3. QED
    BY <2>2
<1>2. mark \in Marks /\ mark # None
  BY TableAssumption DEF Marks
<1>3. /\ o \in Seq(Keys) /\ Len(p.order) \in Nat /\ DOMAIN p.order = 1..Len(p.order)
      /\ p.changed[k] # None => o = p.order
      /\ p.changed[k] = None => /\ DOMAIN o = 1..(Len(p.order) + 1) /\ o[Len(p.order) + 1] = k
                                /\ \A i \in 1..Len(p.order) : o[i] = p.order[i]
  BY <1>0, DraftParts, Joined
<1>4. c \in [Keys -> Marks \cup {None}] /\ \A j \in Keys : c[j] = IF j = k THEN mark ELSE p.changed[j]
  BY <1>0, <1>2, DraftParts
<1> HIDE DEF mark, o, c, q
<1>5. q \in Drafts
  BY <1>0, <1>1, <1>3, <1>4, DraftParts DEF Drafts
<1>6. Ordered(q)
  <2>1. CASE p.changed[k] # None
    <3>1. o = p.order
      BY <1>3, <2>1
    <3>2. QED
      BY <1>1, <1>2, <1>4, <2>1, <3>1 DEF Whole, Ordered
  <2>2. CASE p.changed[k] = None
    <3>1. \A i \in DOMAIN o : i \in 1..Len(p.order) \/ i = Len(p.order) + 1
      BY <1>3, <2>2
    <3>2. \A i \in 1..Len(p.order) : p.order[i] # k /\ o[i] = p.order[i] /\ i \in DOMAIN o
      BY <1>3, <2>2 DEF Whole, Ordered
    <3>3. \A i, j \in DOMAIN o : o[i] = o[j] => i = j
      BY <1>3, <2>2, <3>1, <3>2 DEF Whole, Ordered
    <3>4. Len(p.order) + 1 \in DOMAIN o /\ o[Len(p.order) + 1] = k
      BY <1>3, <2>2
    <3>5. ASSUME NEW j \in Keys PROVE c[j] # None <=> \E i \in DOMAIN o : o[i] = j
      <4>1. CASE j = k
        BY <1>2, <1>4, <3>4, <4>1
      <4>2. CASE j # k
        <5>1. c[j] # None <=> \E i \in DOMAIN p.order : p.order[i] = j
          BY <1>4, <4>2 DEF Whole, Ordered
        <5>2. ASSUME NEW i \in DOMAIN p.order, p.order[i] = j PROVE \E m \in DOMAIN o : o[m] = j
          BY <1>3, <3>2, <5>2
        <5>3. ASSUME NEW i \in DOMAIN o, o[i] = j PROVE \E m \in DOMAIN p.order : p.order[m] = j
          <6>1. i \in 1..Len(p.order)
            BY <3>1, <3>4, <4>2, <5>3
          <6>2. QED
            BY <1>3, <3>2, <5>3, <6>1
        <5>4. QED
          BY <5>1, <5>2, <5>3
      <4>3. QED
        BY <4>1, <4>2
    <3>6. QED
      BY <1>1, <3>3, <3>5 DEF Ordered
  <2>3. QED
    BY <2>1, <2>2
<1>7. Whole(q) /\ q.added = p.added
  BY <1>1, <1>5, <1>6 DEF Whole, NamedOnce
<1>8. QED
  BY <1>7 DEF q

LEMMA ForgetWhole ==
  ASSUME NEW p, Whole(p), NEW k \in Keys
  PROVE  Whole(Forget(p, k)) /\ Forget(p, k).added = p.added
<1>1. CASE p.changed[k] = None
  BY <1>1 DEF Forget
<1>2. CASE p.changed[k] # None
  <2> DEFINE at == CHOOSE i \in DOMAIN p.order : p.order[i] = k
  <2> DEFINE o == RemoveAt(p.order, at)
  <2> DEFINE c == [p.changed EXCEPT ![k] = None]
  <2> DEFINE q == Forget(p, k)
  <2>0. p \in Drafts
    BY DEF Whole
  <2>1. at \in DOMAIN p.order /\ p.order[at] = k
    <3>1. \E i \in DOMAIN p.order : p.order[i] = k
      BY <1>2 DEF Whole, Ordered
    <3>2. QED
      BY <3>1
  <2> HIDE DEF at
  <2>2. q.order = o /\ q.changed = c /\ q.added = p.added /\ q = [order |-> o, changed |-> c, added |-> p.added]
    <3>1. q = [p EXCEPT !.order = o, !.changed = c]
      BY <1>2 DEF Forget, at
    <3> HIDE DEF o, c
    <3> HIDE DEF q
    <3>2. q = [order |-> o, changed |-> c, added |-> p.added]
      BY <2>0, <3>1, OrderChanged
    <3>3. QED
      BY <3>2
  <2>3. /\ o \in Seq(Keys) /\ Len(p.order) \in Nat /\ DOMAIN p.order = 1..Len(p.order)
        /\ DOMAIN o = 1..(Len(p.order) - 1)
        /\ \A j \in 1..(Len(p.order) - 1) : o[j] = IF j < at THEN p.order[j] ELSE p.order[j + 1]
    <3>1. p.order \in Seq(Keys)
      BY <2>0, DraftParts
    <3>2. QED
      BY <2>1, <3>1, Without
  <2>4. c \in [Keys -> Marks \cup {None}] /\ \A j \in Keys : c[j] = IF j = k THEN None ELSE p.changed[j]
    <3>1. p.changed \in [Keys -> Marks \cup {None}]
      BY <2>0, DraftParts
    <3>2. QED
      BY <3>1
  <2> HIDE DEF o, c, q
  <2>5. q \in Drafts
    BY <2>0, <2>2, <2>3, <2>4, DraftParts DEF Drafts
  <2>6. at \in 1..Len(p.order) /\ \A i, j \in 1..Len(p.order) : p.order[i] = p.order[j] => i = j
    BY <2>1, <2>3 DEF Whole, Ordered
  <2>7. ASSUME NEW i \in DOMAIN o, NEW j \in DOMAIN o, o[i] = o[j] PROVE i = j
    <3> DEFINE i1 == IF i < at THEN i ELSE i + 1
    <3> DEFINE j1 == IF j < at THEN j ELSE j + 1
    <3>1. i1 \in 1..Len(p.order) /\ o[i] = p.order[i1]
      BY <2>3, <2>6
    <3>1a. j1 \in 1..Len(p.order) /\ o[j] = p.order[j1]
      BY <2>3, <2>6
    <3>2. i1 = j1
      BY <2>6, <2>7, <3>1, <3>1a
    <3>3. QED
      BY <2>3, <2>6, <3>2
  <2>8. \A i \in DOMAIN o : o[i] # k /\ \E m \in DOMAIN p.order : p.order[m] = o[i]
    <3>1. ASSUME NEW i \in DOMAIN o PROVE o[i] # k /\ \E m \in DOMAIN p.order : p.order[m] = o[i]
      <4> DEFINE m == IF i < at THEN i ELSE i + 1
      <4>1. m \in 1..Len(p.order) /\ m # at /\ o[i] = p.order[m]
        BY <2>3, <2>6
      <4>2. QED
        BY <2>1, <2>3, <2>6, <4>1
    <3>2. QED
      BY <3>1
  <2>9. ASSUME NEW m \in DOMAIN p.order, m # at PROVE \E i \in DOMAIN o : o[i] = p.order[m]
    <3> DEFINE i == IF m < at THEN m ELSE m - 1
    <3>1. i \in DOMAIN o /\ o[i] = p.order[m]
      <4>1. m \in 1..Len(p.order) /\ at \in 1..Len(p.order) /\ Len(p.order) \in Nat
        BY <2>3, <2>6
      <4>2. CASE m < at
        <5>1. i = m /\ i \in 1..(Len(p.order) - 1) /\ i < at
          BY <2>9, <4>1, <4>2
        <5>2. QED
          BY <2>3, <5>1
      <4>3. CASE ~(m < at)
        <5>1. i = m - 1 /\ i \in 1..(Len(p.order) - 1) /\ ~(i < at) /\ i + 1 = m
          BY <2>9, <4>1, <4>3
        <5>2. QED
          BY <2>3, <5>1
      <4>4. QED
        BY <4>2, <4>3
    <3>2. QED
      BY <3>1
  <2>10. ASSUME NEW j \in Keys PROVE c[j] # None <=> \E i \in DOMAIN o : o[i] = j
    <3>1. CASE j = k
      BY <2>4, <2>8, <3>1
    <3>2. CASE j # k
      <4>1. c[j] # None <=> \E m \in DOMAIN p.order : p.order[m] = j
        BY <2>4, <3>2 DEF Whole, Ordered
      <4>2. QED
        BY <2>1, <2>8, <2>9, <3>2, <4>1
    <3>3. QED
      BY <3>1, <3>2
  <2>11. Ordered(q)
    BY <2>2, <2>7, <2>10 DEF Ordered
  <2>12. Whole(q) /\ q.added = p.added
    BY <2>2, <2>5, <2>11 DEF Whole, NamedOnce
  <2>13. QED
    BY <2>12 DEF q
<1>3. QED
  BY <1>1, <1>2

LEMMA SetWhole ==
  ASSUME NEW p, Whole(p), NEW k \in Keys, NEW v \in Nat, NEW own \in BOOLEAN
  PROVE  Whole(Set(p, k, v, own)) /\ Set(p, k, v, own).added = p.added
  BY ChangeWhole, ForgetWhole DEF Set

LEMMA AddWhole ==
  ASSUME NEW p, Whole(p), NEW n \in 1..MaxEdits, n \notin Names(p)
  PROVE  Whole(Add(p, n)) /\ Names(Add(p, n)) = Names(p) \cup {n} /\ Len(Add(p, n).added) = Len(p.added) + 1
<1> DEFINE e == [name |-> n, value |-> 0]
<1> DEFINE a == Append(p.added, e)
<1> DEFINE q == Add(p, n)
<1>0. p \in Drafts
  BY DEF Whole
<1>1. e \in NewRows /\ e.name = n
  BY DEF NewRows
<1>2. q.order = p.order /\ q.changed = p.changed /\ q.added = a /\ q = [order |-> p.order, changed |-> p.changed, added |-> a]
  <2>1. q = [p EXCEPT !.added = a]
    BY DEF Add
  <2> HIDE DEF a
  <2>2. [p EXCEPT !.added = a] = [order |-> p.order, changed |-> p.changed, added |-> a]
    <3>1. p \in [order : Seq(Keys), changed : [Keys -> Marks \cup {None}], added : Seq(NewRows)]
      BY <1>0 DEF Drafts
    <3>2. QED
      BY <3>1, AddedChanged
  <2>3. QED
    BY <2>1, <2>2
<1> HIDE DEF e
<1>3. /\ a \in Seq(NewRows) /\ Len(p.added) \in Nat /\ DOMAIN p.added = 1..Len(p.added)
      /\ DOMAIN a = 1..(Len(p.added) + 1) /\ Len(a) = Len(p.added) + 1 /\ a[Len(p.added) + 1] = e
      /\ \A i \in 1..Len(p.added) : a[i] = p.added[i]
  BY <1>0, <1>1, DraftParts, Joined
<1> HIDE DEF a, q
<1>4. q \in Drafts
  BY <1>0, <1>2, <1>3, DraftParts DEF Drafts
<1>5. \A i \in DOMAIN a : i \in 1..Len(p.added) \/ i = Len(p.added) + 1
  BY <1>3
<1>6. \A i \in 1..Len(p.added) : p.added[i].name # n
  BY <1>3 DEF Names
<1>7. NamedOnce(q)
  BY <1>1, <1>2, <1>3, <1>5, <1>6 DEF Whole, NamedOnce
<1>8. Names(q) = Names(p) \cup {n}
  <2>1. \A x \in Names(q) : x \in Names(p) \cup {n}
    BY <1>1, <1>2, <1>3, <1>5 DEF Names
  <2>2. \A x \in Names(p) : x \in Names(q)
    BY <1>2, <1>3 DEF Names
  <2>3. n \in Names(q)
    <3>1. Len(p.added) + 1 \in DOMAIN q.added /\ q.added[Len(p.added) + 1].name = n
      BY <1>1, <1>2, <1>3
    <3>2. QED
      BY <3>1 DEF Names
  <2>4. QED
    BY <2>1, <2>2, <2>3
<1>9. Whole(q) /\ Len(q.added) = Len(p.added) + 1
  BY <1>2, <1>3, <1>4, <1>7 DEF Whole, Ordered
<1>10. QED
  BY <1>8, <1>9 DEF q

LEMMA SetAddedWhole ==
  ASSUME NEW p, Whole(p), NEW i \in 1..Len(p.added), NEW v \in Nat
  PROVE  Whole(SetAdded(p, i, v)) /\ SameNew(p, SetAdded(p, i, v))
<1> DEFINE e == [name |-> p.added[i].name, value |-> v]
<1> DEFINE a == [p.added EXCEPT ![i] = e]
<1> DEFINE q == SetAdded(p, i, v)
<1>0. p \in Drafts
  BY DEF Whole
<1>1. /\ p.added[i] \in NewRows /\ DOMAIN p.added = 1..Len(p.added) /\ Len(p.added) \in Nat
      /\ p.added \in Seq(NewRows)
  BY <1>0, DraftParts
<1>2. e \in NewRows /\ e.name = p.added[i].name /\ [p.added[i] EXCEPT !.value = v] = e
  <2>1. ASSUME NEW r \in NewRows
        PROVE  [name |-> r.name, value |-> v] \in NewRows /\ [r EXCEPT !.value = v] = [name |-> r.name, value |-> v]
    BY <2>1 DEF NewRows
  <2>2. QED
    BY <1>1, <2>1
<1>3. q = [order |-> p.order, changed |-> p.changed, added |-> a]
  <2>1. q = [p EXCEPT !.added = a]
    BY <1>2 DEF SetAdded
  <2> HIDE DEF a
  <2>2. [p EXCEPT !.added = a] = [order |-> p.order, changed |-> p.changed, added |-> a]
    <3>1. p \in [order : Seq(Keys), changed : [Keys -> Marks \cup {None}], added : Seq(NewRows)]
      BY <1>0 DEF Drafts
    <3>2. QED
      BY <3>1, AddedChanged
  <2>3. QED
    BY <2>1, <2>2
<1>4. q.order = p.order /\ q.changed = p.changed /\ q.added = a
  BY <1>3
<1> HIDE DEF e
<1>5. /\ a \in Seq(NewRows) /\ DOMAIN a = 1..Len(p.added) /\ Len(a) = Len(p.added)
      /\ \A j \in 1..Len(p.added) : a[j].name = p.added[j].name
  BY <1>1, <1>2
<1> HIDE DEF a, q
<1>6. q \in Drafts
  BY <1>0, <1>3, <1>5, DraftParts DEF Drafts
<1>7. NamedOnce(q) /\ SameNew(p, q)
  BY <1>1, <1>4, <1>5 DEF Whole, NamedOnce, SameNew
<1>8. Whole(q)
  BY <1>4, <1>6, <1>7 DEF Whole, Ordered
<1>9. QED
  BY <1>7, <1>8 DEF q

LEMMA RemoveAddedWhole ==
  ASSUME NEW p, Whole(p), NEW i \in 1..Len(p.added)
  PROVE  /\ Whole(RemoveAdded(p, i)) /\ Names(RemoveAdded(p, i)) \subseteq Names(p)
         /\ Len(RemoveAdded(p, i).added) = Len(p.added) - 1
<1> DEFINE a == RemoveAt(p.added, i)
<1> DEFINE q == RemoveAdded(p, i)
<1>0. p \in Drafts
  BY DEF Whole
<1>1. q = [order |-> p.order, changed |-> p.changed, added |-> a]
  <2>1. q = [p EXCEPT !.added = a]
    BY DEF RemoveAdded
  <2> HIDE DEF a
  <2>2. [p EXCEPT !.added = a] = [order |-> p.order, changed |-> p.changed, added |-> a]
    <3>1. p \in [order : Seq(Keys), changed : [Keys -> Marks \cup {None}], added : Seq(NewRows)]
      BY <1>0 DEF Drafts
    <3>2. QED
      BY <3>1, AddedChanged
  <2>3. QED
    BY <2>1, <2>2
<1>2. q.order = p.order /\ q.changed = p.changed /\ q.added = a
  BY <1>1
<1>3. /\ a \in Seq(NewRows) /\ Len(p.added) \in Nat /\ DOMAIN p.added = 1..Len(p.added)
      /\ DOMAIN a = 1..(Len(p.added) - 1) /\ Len(a) = Len(p.added) - 1
      /\ \A j \in 1..(Len(p.added) - 1) : a[j] = IF j < i THEN p.added[j] ELSE p.added[j + 1]
  <2>1. p.added \in Seq(NewRows) /\ i \in DOMAIN p.added /\ DOMAIN p.added = 1..Len(p.added)
    BY <1>0, DraftParts
  <2>2. QED
    BY <2>1, Without
<1> HIDE DEF a, q
<1>4. q \in Drafts
  BY <1>0, <1>1, <1>3, DraftParts DEF Drafts
<1>5. ASSUME NEW j \in DOMAIN a
      PROVE  LET m == IF j < i THEN j ELSE j + 1 IN m \in DOMAIN p.added /\ a[j] = p.added[m]
  BY <1>3
<1>6. NamedOnce(q)
  <2>1. SUFFICES ASSUME NEW j \in DOMAIN a, NEW k \in DOMAIN a, a[j].name = a[k].name PROVE j = k
    BY <1>2 DEF NamedOnce
  <2> DEFINE j1 == IF j < i THEN j ELSE j + 1
  <2> DEFINE k1 == IF k < i THEN k ELSE k + 1
  <2>2. j1 \in DOMAIN p.added /\ k1 \in DOMAIN p.added /\ a[j] = p.added[j1] /\ a[k] = p.added[k1]
    BY <1>5
  <2>3. j1 = k1
    BY <2>1, <2>2 DEF Whole, NamedOnce
  <2>4. QED
    BY <1>3, <2>3
<1>7. Names(q) \subseteq Names(p)
  BY <1>2, <1>5 DEF Names
<1>8. Whole(q) /\ Len(q.added) = Len(p.added) - 1
  BY <1>2, <1>3, <1>4, <1>6 DEF Whole, Ordered
<1>9. QED
  BY <1>7, <1>8 DEF q
(***************************************************************************)
(* A fill, and the rows read again                                         *)
(***************************************************************************)
Shape(x) ==
  /\ x = [at |-> x.at, from |-> x.from, to |-> x.to, value |-> x.value,
          meant |-> x.meant, got |-> x.got, steady |-> x.steady]
  /\ x.at \in {"reading", "read"} /\ x.steady \in BOOLEAN
  /\ x.from \in Nat /\ x.to \in Nat /\ x.value \in Nat
  /\ x.from # 0 /\ x.from <= x.to
  /\ Len(x.got) \in Nat /\ DOMAIN x.got = 1..Len(x.got)

FillShape == \A x \in fills : Shape(x)

\* The function FillRows is defined by has a value at each place.
LEMMA FilledStep ==
  ASSUME NEW x, NEW own, Len(x.got) \in Nat
  PROVE  /\ Filled(x, own)[0] = pending
         /\ \A n \in 1..Len(x.got) : Filled(x, own)[n] = Write(x, own, Filled(x, own)[n - 1], n)
<1> DEFINE L == Len(x.got)
<1> DEFINE S == {m \in Nat : \E g : g = [n \in 0..m |-> IF n = 0 THEN pending ELSE Write(x, own, g[n - 1], n)]}
<1>1. 0 \in S
  <2> DEFINE g == [n \in 0..0 |-> pending]
  <2>1. \A n \in 0..0 : n = 0
    OBVIOUS
  <2>2. g = [n \in 0..0 |-> IF n = 0 THEN pending ELSE Write(x, own, g[n - 1], n)]
    BY <2>1
  <2>3. QED
    BY <2>2
<1>2. ASSUME NEW m \in S PROVE m + 1 \in S
  <2>1. PICK g : g = [n \in 0..m |-> IF n = 0 THEN pending ELSE Write(x, own, g[n - 1], n)]
    OBVIOUS
  <2> DEFINE h == [n \in 0..(m + 1) |-> IF n = m + 1 THEN Write(x, own, g[m], m + 1) ELSE g[n]]
  <2>2. m \in Nat
    OBVIOUS
  <2>3. ASSUME NEW n \in 0..(m + 1) PROVE h[n] = IF n = 0 THEN pending ELSE Write(x, own, h[n - 1], n)
    <3>1. CASE n = 0
      <4>1. n \in 0..m /\ n # m + 1
        BY <2>2, <3>1
      <4>2. h[n] = g[n] /\ g[n] = pending
        BY <2>1, <2>2, <3>1, <4>1
      <4>3. QED
        BY <3>1, <4>2
    <3>2. CASE n # 0 /\ n # m + 1
      <4>1. n \in 0..m /\ n - 1 \in 0..m /\ n - 1 # m + 1
        BY <2>2, <3>2
      <4>2. h[n] = g[n] /\ h[n - 1] = g[n - 1]
        BY <2>2, <3>2, <4>1
      <4>3. g[n] = Write(x, own, g[n - 1], n)
        BY <2>1, <3>2, <4>1
      <4>4. QED
        BY <3>2, <4>2, <4>3
    <3>3. CASE n = m + 1
      <4>1. n - 1 = m /\ m \in 0..(m + 1) /\ m # m + 1 /\ n # 0
        BY <2>2, <3>3
      <4>2. h[n] = Write(x, own, g[m], m + 1) /\ h[m] = g[m]
        BY <2>2, <3>3, <4>1
      <4>3. QED
        BY <3>3, <4>1, <4>2
    <3>4. QED
      BY <3>1, <3>2, <3>3
  <2>4. h = [n \in 0..(m + 1) |-> IF n = 0 THEN pending ELSE Write(x, own, h[n - 1], n)]
    <3>1. h = [n \in 0..(m + 1) |-> h[n]]
      OBVIOUS
    <3> HIDE DEF h
    <3>2. [n \in 0..(m + 1) |-> h[n]] = [n \in 0..(m + 1) |-> IF n = 0 THEN pending ELSE Write(x, own, h[n - 1], n)]
      BY <2>3
    <3>3. QED
      BY <3>1, <3>2
  <2> HIDE DEF h
  <2>5. m + 1 \in Nat
    BY <2>2
  <2>6. QED
    BY <2>4, <2>5
<1>3. \E g : g = [n \in 0..L |-> IF n = 0 THEN pending ELSE Write(x, own, g[n - 1], n)]
  <2>1. S \subseteq Nat
    OBVIOUS
  <2> HIDE DEF S
  <2>2. S = Nat
    BY <1>1, <1>2, <2>1, Induction
  <2>3. L \in S
    BY <2>2
  <2>4. QED
    BY <2>3 DEF S
<1>4. Filled(x, own) = [n \in 0..L |-> IF n = 0 THEN pending ELSE Write(x, own, Filled(x, own)[n - 1], n)]
  BY <1>3 DEF Filled
<1> HIDE DEF S
<1>5. 0 \in 0..L /\ \A n \in 1..L : n \in 0..L /\ n # 0
  OBVIOUS
<1>6. QED
  BY <1>4, <1>5

LEMMA SameNewFacts ==
  ASSUME NEW p, Whole(p), NEW q, Whole(q), NEW r
  PROVE  /\ SameNew(p, p)
         /\ SameNew(p, q) /\ SameNew(q, r) => SameNew(p, r)
         /\ SameNew(p, q) => Names(q) = Names(p)
         /\ q.added = p.added => SameNew(p, q)
<1>1. Len(p.added) \in Nat /\ DOMAIN p.added = 1..Len(p.added) /\ DOMAIN q.added = 1..Len(q.added)
  BY DraftParts DEF Whole
<1>2. QED
  BY <1>1 DEF SameNew, Names

\* Filling the rows reached changes none of the new rows' names.
LEMMA WriteWhole ==
  ASSUME NEW x, Shape(x), NEW own, Whole(pending), x.at = "read",
         NEW p, Whole(p), SameNew(pending, p), NEW n \in 1..Len(x.got)
  PROVE  Whole(Write(x, own, p, n)) /\ SameNew(pending, Write(x, own, p, n))
<1> DEFINE i == x.from + n - 1
<1>1. /\ i \in Nat /\ i # 0 /\ Len(pending.added) \in Nat /\ x.value \in Nat
      /\ Len(p.added) = Len(pending.added)
      /\ i <= Len(pending.added) => i \in 1..Len(p.added) /\ i \in DOMAIN pending.added
  BY DraftParts DEF Shape, Whole, SameNew
<1>2. CASE Target(x, n) \in Keys
  <2> DEFINE k == Target(x, n)
  <2>1. PICK b \in BOOLEAN : Write(x, own, p, n) = Set(p, k, x.value, b)
    <3>1. k \in own => Write(x, own, p, n) = Set(p, k, x.value, TRUE)
      BY <1>2 DEF Write, Set
    <3>2. k \notin own => Write(x, own, p, n) = Set(p, k, x.value, FALSE)
      BY <1>2 DEF Write, Set
    <3>3. QED
      BY <3>1, <3>2
  <2> HIDE DEF i, k
  <2>2. Whole(Set(p, k, x.value, b)) /\ Set(p, k, x.value, b).added = p.added
    BY <1>1, <1>2, SetWhole DEF k
  <2>3. SameNew(p, Write(x, own, p, n))
    BY <2>1, <2>2, SameNewFacts
  <2>4. QED
    BY <2>1, <2>2, <2>3, SameNewFacts
<1>3. CASE Target(x, n) \notin Keys
  <2>1. i <= Added
    BY <1>3 DEF Target, Keys
  <2>2. Write(x, own, p, n) = SetAdded(p, i, x.value) /\ i \in 1..Len(p.added)
    BY <1>1, <1>3, <2>1 DEF Write, Added
  <2> HIDE DEF i
  <2>3. Whole(Write(x, own, p, n)) /\ SameNew(p, Write(x, own, p, n))
    BY <1>1, <2>2, SetAddedWhole
  <2>4. QED
    BY <2>3, SameNewFacts
<1>4. QED
  BY <1>2, <1>3

LEMMA FilledWhole ==
  ASSUME NEW x, Shape(x), NEW own, Whole(pending), x.at = "read"
  PROVE  Whole(Filled(x, own)[Len(x.got)]) /\ SameNew(pending, Filled(x, own)[Len(x.got)])
<1> DEFINE L == Len(x.got)
<1> DEFINE S == {n \in Nat : n <= L => Whole(Filled(x, own)[n]) /\ SameNew(pending, Filled(x, own)[n])}
<1>1. L \in Nat
  BY DEF Shape
<1>2. /\ Filled(x, own)[0] = pending
      /\ \A n \in 1..L : Filled(x, own)[n] = Write(x, own, Filled(x, own)[n - 1], n)
  BY <1>1, FilledStep
<1>3. 0 \in S
  BY <1>2, SameNewFacts
<1>4. ASSUME NEW n \in S PROVE n + 1 \in S
  <2>1. n \in Nat /\ n + 1 \in Nat
    OBVIOUS
  <2>2. CASE n + 1 <= L
    <3>1. n <= L /\ n + 1 \in 1..L /\ (n + 1) - 1 = n
      BY <1>1, <2>1, <2>2
    <3>2. Whole(Filled(x, own)[n]) /\ SameNew(pending, Filled(x, own)[n])
      BY <3>1
    <3>3. Filled(x, own)[n + 1] = Write(x, own, Filled(x, own)[n], n + 1)
      BY <1>2, <3>1
    <3>4. Whole(Write(x, own, Filled(x, own)[n], n + 1)) /\ SameNew(pending, Write(x, own, Filled(x, own)[n], n + 1))
      BY <3>1, <3>2, WriteWhole
    <3>5. QED
      BY <2>1, <3>3, <3>4
  <2>3. CASE ~(n + 1 <= L)
    BY <2>1, <2>3
  <2>4. QED
    BY <2>2, <2>3
<1>5. S \subseteq Nat
  OBVIOUS
<1> HIDE DEF S
<1>6. S = Nat
  BY <1>3, <1>4, <1>5, Induction
<1>7. L \in S
  BY <1>1, <1>6
<1>8. QED
  BY <1>1, <1>7 DEF S
\* The rows read again are the table's.
LEMMA LeftStep ==
  /\ Left[0] = <<>>
         /\ \A n \in 1..Len(Table) :
              Left[n] = IF Table[n] \in gone THEN Left[n - 1] ELSE Append(Left[n - 1], Table[n])
<1> DEFINE L == Len(Table)
<1> DEFINE Next1(r, n) == IF Table[n] \in gone THEN r ELSE Append(r, Table[n])
<1> HIDE DEF Next1
<1> DEFINE S == {m \in Nat : \E g : g = [n \in 0..m |-> IF n = 0 THEN <<>> ELSE Next1(g[n - 1], n)]}
<1>1. 0 \in S
  <2> DEFINE g == [n \in 0..0 |-> <<>>]
  <2>1. \A n \in 0..0 : n = 0
    OBVIOUS
  <2>2. g = [n \in 0..0 |-> IF n = 0 THEN <<>> ELSE Next1(g[n - 1], n)]
    BY <2>1
  <2>3. QED
    BY <2>2
<1>2. ASSUME NEW m \in S PROVE m + 1 \in S
  <2>1. PICK g : g = [n \in 0..m |-> IF n = 0 THEN <<>> ELSE Next1(g[n - 1], n)]
    OBVIOUS
  <2> DEFINE h == [n \in 0..(m + 1) |-> IF n = m + 1 THEN Next1(g[m], m + 1) ELSE g[n]]
  <2>2. m \in Nat
    OBVIOUS
  <2>3. ASSUME NEW n \in 0..(m + 1) PROVE h[n] = IF n = 0 THEN <<>> ELSE Next1(h[n - 1], n)
    <3>1. CASE n = 0
      <4>1. n \in 0..m /\ n # m + 1
        BY <2>2, <3>1
      <4>2. h[n] = g[n] /\ g[n] = <<>>
        BY <2>1, <2>2, <3>1, <4>1
      <4>3. QED
        BY <3>1, <4>2
    <3>2. CASE n # 0 /\ n # m + 1
      <4>1. n \in 0..m /\ n - 1 \in 0..m /\ n - 1 # m + 1
        BY <2>2, <3>2
      <4>2. h[n] = g[n] /\ h[n - 1] = g[n - 1]
        BY <2>2, <3>2, <4>1
      <4>3. g[n] = Next1(g[n - 1], n)
        BY <2>1, <3>2, <4>1
      <4>4. QED
        BY <3>2, <4>2, <4>3
    <3>3. CASE n = m + 1
      <4>1. n - 1 = m /\ m \in 0..(m + 1) /\ m # m + 1 /\ n # 0
        BY <2>2, <3>3
      <4>2. h[n] = Next1(g[m], m + 1) /\ h[m] = g[m]
        BY <2>2, <3>3, <4>1
      <4>3. QED
        BY <3>3, <4>1, <4>2
    <3>4. QED
      BY <3>1, <3>2, <3>3
  <2>4. h = [n \in 0..(m + 1) |-> IF n = 0 THEN <<>> ELSE Next1(h[n - 1], n)]
    <3>1. h = [n \in 0..(m + 1) |-> h[n]]
      OBVIOUS
    <3> HIDE DEF h
    <3>2. [n \in 0..(m + 1) |-> h[n]] = [n \in 0..(m + 1) |-> IF n = 0 THEN <<>> ELSE Next1(h[n - 1], n)]
      BY <2>3
    <3>3. QED
      BY <3>1, <3>2
  <2> HIDE DEF h
  <2>5. m + 1 \in Nat
    BY <2>2
  <2>6. QED
    BY <2>4, <2>5
<1>0. L \in Nat
  BY TableAssumption
<1>3. \E g : g = [n \in 0..L |-> IF n = 0 THEN <<>> ELSE Next1(g[n - 1], n)]
  <2>1. S \subseteq Nat
    OBVIOUS
  <2> HIDE DEF S
  <2>2. S = Nat
    BY <1>1, <1>2, <2>1, Induction
  <2>3. L \in S
    BY <1>0, <2>2
  <2>4. QED
    BY <2>3 DEF S
<1>4. \E g : g = [n \in 0..Len(Table) |->
                    IF n = 0 THEN <<>>
                    ELSE IF Table[n] \in gone THEN g[n - 1] ELSE Append(g[n - 1], Table[n])]
  BY <1>3 DEF Next1
<1>5. Left = [n \in 0..Len(Table) |->
                IF n = 0 THEN <<>>
                ELSE IF Table[n] \in gone THEN Left[n - 1] ELSE Append(Left[n - 1], Table[n])]
  BY <1>4 DEF Left
<1> HIDE DEF S
<1>6. 0 \in 0..L /\ \A n \in 1..L : n \in 0..L /\ n # 0
  BY <1>0
<1>7. QED
  BY <1>5, <1>6

LEMMA LeftRows ==
  Left[Len(Table)] \in Seq(Keys)
<1> DEFINE L == Len(Table)
<1> DEFINE S == {n \in Nat : n <= L => Left[n] \in Seq(Keys)}
<1>1. L \in Nat /\ \A n \in 1..L : Table[n] \in Keys
  BY TableAssumption DEF Keys
<1>2. 0 \in S
  <2>1. Left[0] = <<>> /\ <<>> \in Seq(Keys)
    BY LeftStep
  <2>2. QED
    BY <2>1
<1>3. ASSUME NEW n \in S PROVE n + 1 \in S
  <2>1. n \in Nat /\ n + 1 \in Nat
    OBVIOUS
  <2>2. CASE n + 1 <= L
    <3>1. n <= L /\ n + 1 \in 1..L /\ (n + 1) - 1 = n
      BY <1>1, <2>1, <2>2
    <3>2. Left[n] \in Seq(Keys)
      BY <3>1
    <3>3. Left[n + 1] = Left[n] \/ Left[n + 1] = Append(Left[n], Table[n + 1])
      <4>1. n + 1 \in 1..Len(Table)
        BY <3>1
      <4> HIDE DEF S, L
      <4>2. Left[n + 1] = IF Table[n + 1] \in gone THEN Left[(n + 1) - 1] ELSE Append(Left[(n + 1) - 1], Table[n + 1])
        BY <4>1, LeftStep
      <4>3. Left[(n + 1) - 1] = Left[n]
        BY <3>1
      <4>4. QED
        BY <4>2, <4>3
    <3>4. Left[n + 1] \in Seq(Keys)
      <4>1. Table[n + 1] \in Keys
        BY <1>1, <3>1
      <4> HIDE DEF S, L
      <4>2. Append(Left[n], Table[n + 1]) \in Seq(Keys)
        BY <3>2, <4>1, Joined
      <4>3. QED
        BY <3>2, <3>3, <4>2
    <3>5. QED
      BY <2>1, <3>4
  <2>3. CASE ~(n + 1 <= L)
    BY <2>1, <2>3
  <2>4. QED
    BY <2>2, <2>3
<1>4. S \subseteq Nat
  OBVIOUS
<1> HIDE DEF S
<1>5. S = Nat
  BY <1>2, <1>3, <1>4, Induction
<1>6. L \in S
  BY <1>1, <1>5
<1>7. QED
  BY <1>1, <1>6 DEF S

(***************************************************************************)
(* What is reviewed                                                        *)
(***************************************************************************)
Plans == [row : Keys, kind : {"update", "delete"}, value : Nat] \cup
         [row : 1..MaxEdits, kind : {"insert"}, value : Nat]

\* A changeset holds all that is pending, and each new row once.
LEMMA ChangesetHolds ==
  ASSUME Whole(pending)
  PROVE  /\ Changeset \in Seq(Plans)
         /\ Held(pending) \subseteq Pairs(Changeset)
         /\ \A i \in DOMAIN Changeset : Changeset[i].kind = "insert" => Changeset[i].row \in Names(pending)
         /\ \A i, j \in DOMAIN Changeset :
              /\ Changeset[i].kind = "insert" /\ Changeset[j].kind = "insert"
              /\ Changeset[i].row = Changeset[j].row
              => i = j
<1> DEFINE o == pending.order
<1> DEFINE a == pending.added
<1> DEFINE A == [i \in DOMAIN o |-> [row |-> o[i], kind |-> pending.changed[o[i]].kind,
                                     value |-> pending.changed[o[i]].value]]
<1> DEFINE B == [i \in DOMAIN a |-> [row |-> a[i].name, kind |-> "insert", value |-> a[i].value]]
<1> DEFINE c == Changeset
<1>1. /\ o \in Seq(Keys) /\ a \in Seq(NewRows) /\ Len(o) \in Nat /\ Len(a) \in Nat
      /\ DOMAIN o = 1..Len(o) /\ DOMAIN a = 1..Len(a)
      /\ pending.changed \in [Keys -> Marks \cup {None}]
      /\ \A i \in DOMAIN a : a[i] \in NewRows
      /\ \A i \in DOMAIN o : o[i] \in Keys
  BY DraftParts DEF Whole
<1>2. ASSUME NEW i \in DOMAIN o
      PROVE  A[i] \in Plans /\ A[i].row = o[i] /\ A[i].value = pending.changed[o[i]].value /\ A[i].kind # "insert"
  <2>1. pending.changed[o[i]] \in Marks
    BY <1>1 DEF Whole, Ordered
  <2>2. pending.changed[o[i]].kind \in {"update", "delete"} /\ pending.changed[o[i]].value \in Nat
    BY <2>1 DEF Marks
  <2>3. QED
    BY <1>1, <2>2 DEF Plans
<1>3. ASSUME NEW i \in DOMAIN a
      PROVE  B[i] \in Plans /\ B[i].row = a[i].name /\ B[i].value = a[i].value /\ B[i].kind = "insert"
  BY <1>1 DEF Plans, NewRows
<1>4. A \in Seq(Plans) /\ Len(A) = Len(o)
  <2>1. A \in [1..Len(o) -> Plans]
    BY <1>1, <1>2
  <2> HIDE DEF A, B, o, a
  <2>2. QED
    BY <1>1, <2>1, OfItsElements
<1>5. B \in Seq(Plans) /\ Len(B) = Len(a)
  <2>1. B \in [1..Len(a) -> Plans]
    BY <1>1, <1>3
  <2> HIDE DEF A, B, o, a
  <2>2. QED
    BY <1>1, <2>1, OfItsElements
<1>6. c = A \o B
  BY DEF Changeset
<1> HIDE DEF A, B, c, o, a
<1>7. /\ c \in Seq(Plans) /\ DOMAIN c = 1..(Len(o) + Len(a))
      /\ \A i \in 1..Len(o) : i \in DOMAIN c /\ c[i] = A[i]
      /\ \A i \in 1..Len(a) : Len(o) + i \in DOMAIN c /\ c[Len(o) + i] = B[i]
  <2>1. /\ c \in Seq(Plans) /\ Len(c) = Len(o) + Len(a)
        /\ \A i \in 1..(Len(o) + Len(a)) : c[i] = IF i <= Len(o) THEN A[i] ELSE B[i - Len(o)]
    <3>1. /\ A \o B \in Seq(Plans) /\ Len(A \o B) = Len(A) + Len(B)
          /\ \A i \in 1..(Len(A) + Len(B)) : (A \o B)[i] = IF i <= Len(A) THEN A[i] ELSE B[i - Len(A)]
      BY <1>4, <1>5, ConcatProperties
    <3>2. Len(A) = Len(o) /\ Len(B) = Len(a)
      BY <1>4, <1>5
    <3>3. QED
      BY <1>6, <3>1, <3>2, Zenon
  <2>2. \A s \in Seq(Plans) : DOMAIN s = 1..Len(s)
    OBVIOUS
  <2>3. DOMAIN c = 1..(Len(o) + Len(a))
    BY <2>1, <2>2
  <2>4. \A i \in 1..Len(o) : i \in DOMAIN c /\ c[i] = A[i]
    BY <1>1, <2>1, <2>3
  <2>5. ASSUME NEW i \in 1..Len(a) PROVE Len(o) + i \in DOMAIN c /\ c[Len(o) + i] = B[i]
    <3>1. Len(o) + i \in 1..(Len(o) + Len(a)) /\ ~(Len(o) + i <= Len(o)) /\ (Len(o) + i) - Len(o) = i
      BY <1>1
    <3>2. QED
      BY <2>1, <2>3, <3>1
  <2>6. QED
    BY <2>1, <2>3, <2>4, <2>5
<1>8. \A i \in DOMAIN c : i \in DOMAIN o \/ \E j \in DOMAIN a : i = Len(o) + j
  <2>1. ASSUME NEW i \in DOMAIN c, i \notin DOMAIN o PROVE \E j \in DOMAIN a : i = Len(o) + j
    <3>1. i - Len(o) \in DOMAIN a /\ i = Len(o) + (i - Len(o))
      BY <1>1, <1>7, <2>1
    <3>2. QED
      BY <3>1
  <2>2. QED
    BY <2>1
<1>9. ASSUME NEW i \in DOMAIN c, c[i].kind = "insert"
      PROVE  \E j \in DOMAIN a : i = Len(o) + j /\ c[i].row = a[j].name
  <2>1. i \notin DOMAIN o
    BY <1>1, <1>2, <1>7, <1>9
  <2>2. PICK j \in DOMAIN a : i = Len(o) + j
    BY <1>8, <2>1
  <2>3. QED
    BY <1>1, <1>3, <1>7, <2>2
<1>10. Held(pending) \subseteq Pairs(c)
  <2>1. ASSUME NEW i \in DOMAIN o PROVE <<o[i], pending.changed[o[i]].value>> \in Pairs(c)
    <3>1. i \in DOMAIN c /\ c[i].row = o[i] /\ c[i].value = pending.changed[o[i]].value
      BY <1>1, <1>2, <1>7
    <3>2. <<o[i], pending.changed[o[i]].value>> \in Says(c[i])
      BY <3>1 DEF Says
    <3>3. QED
      BY <3>1, <3>2 DEF Pairs
  <2>2. ASSUME NEW i \in DOMAIN a
        PROVE  <<a[i].name, a[i].value>> \in Pairs(c) /\ <<a[i].name, a[i].name>> \in Pairs(c)
    <3>1. PICK j \in DOMAIN c : c[j] = B[i]
      BY <1>1, <1>7
    <3>2. c[j].row = a[i].name /\ c[j].value = a[i].value /\ c[j].kind = "insert"
      BY <1>3, <3>1
    <3>3. <<a[i].name, a[i].value>> \in Says(c[j]) /\ <<a[i].name, a[i].name>> \in Says(c[j])
      BY <3>2 DEF Says
    <3>4. QED
      BY <3>3 DEF Pairs
  <2>3. \A x \in Held(pending) :
          \/ \E i \in DOMAIN o : x = <<o[i], pending.changed[o[i]].value>>
          \/ \E i \in DOMAIN a : x = <<a[i].name, a[i].value>> \/ x = <<a[i].name, a[i].name>>
    BY DEF Held, ToSet, o, a
  <2>4. QED
    BY <2>1, <2>2, <2>3
<1>11. \A i \in DOMAIN c : c[i].kind = "insert" => c[i].row \in Names(pending)
  BY <1>9 DEF Names, a
<1>12. ASSUME NEW i \in DOMAIN c, NEW j \in DOMAIN c,
              c[i].kind = "insert", c[j].kind = "insert", c[i].row = c[j].row
       PROVE  i = j
  <2>1. PICK m \in DOMAIN a : i = Len(o) + m /\ c[i].row = a[m].name
    BY <1>9, <1>12
  <2>2. PICK n \in DOMAIN a : j = Len(o) + n /\ c[j].row = a[n].name
    BY <1>9, <1>12
  <2>3. m = n
    BY <1>12, <2>1, <2>2 DEF Whole, NamedOnce, a
  <2>4. QED
    BY <2>1, <2>2, <2>3
<1>13. QED
  BY <1>7, <1>10, <1>11, <1>12 DEF c
(***************************************************************************)
(* Types                                                                   *)
(***************************************************************************)
Types ==
  /\ Whole(pending) /\ \A n \in Names(pending) : n <= edits
  /\ edits \in 0..MaxEdits /\ rows \in Seq(Keys)
  /\ FillShape
  /\ dialog \in {"none", "review", "consent"} /\ writer \in {"idle", "applying", "done", "failed"}
  /\ dialog # "none" => writer = "idle"

\* What a step in the window makes of what is pending: the new rows stay where they are,
\* or one comes or goes.
Safely(p) ==
  /\ Whole(p) /\ (Len(p.added) = Len(pending.added) => SameNew(pending, p))
  /\ \A n \in Names(p) : n \in Names(pending) \/ (n = edits + 1 /\ edits' = edits + 1)

Moves  == InsertRow \/ DeleteRow \/ Revert
Window == EditCell \/ Moves \/ FillRows

LEMMA Reached ==
  ASSUME Types, NEW i \in Places
  PROVE  /\ i <= Added => i \in 1..Len(pending.added)
         /\ ~(i <= Added) => RowAt(i) \in Keys
<1>1. rows \in Seq(Keys) /\ Len(rows) \in Nat /\ \A j \in 1..Len(rows) : rows[j] \in Keys
  BY DEF Types
<1>2. Len(pending.added) \in Nat /\ i \in 1..(Len(pending.added) + Len(rows))
  BY DraftParts DEF Types, Whole, Places, Added
<1>3. ASSUME ~(i <= Added) PROVE RowAt(i) \in Keys
  <2>1. i - Added \in 1..Len(rows)
    BY <1>1, <1>2, <1>3 DEF Added
  <2>2. QED
    BY <1>1, <1>3, <2>1 DEF RowAt
<1>4. QED
  BY <1>2, <1>3 DEF Added

LEMMA SameIsSafe ==
  ASSUME Types, NEW p, Whole(p), SameNew(pending, p)
  PROVE  Safely(p)
  BY SameNewFacts DEF Types, Safely

LEMMA EditCellStages ==
  ASSUME Types, EditCell
  PROVE  /\ \E p : Stage(p) /\ Whole(p) /\ SameNew(pending, p)
         /\ edits < MaxEdits /\ edits' = edits + 1 /\ dialog = "none"
         /\ UNCHANGED <<rows, fills, sheet, reviewed, written, inserted, doubt, astray>>
<1>1. PICK i \in Places, own \in BOOLEAN :
        IF i <= Added THEN Stage(SetAdded(pending, i, edits + 1))
        ELSE ~Deleted(pending, RowAt(i)) /\ Stage(Set(pending, RowAt(i), edits + 1, own))
  BY DEF EditCell
<1>2. Whole(pending) /\ edits + 1 \in Nat
  BY DEF Types
<1>3. \E p : Stage(p) /\ Whole(p) /\ SameNew(pending, p)
  <2>1. CASE i <= Added
    <3>1. Whole(SetAdded(pending, i, edits + 1)) /\ SameNew(pending, SetAdded(pending, i, edits + 1))
      BY <1>2, <2>1, Reached, SetAddedWhole
    <3>2. QED
      BY <1>1, <2>1, <3>1
  <2>2. CASE ~(i <= Added)
    <3> DEFINE p == Set(pending, RowAt(i), edits + 1, own)
    <3>1. Stage(p)
      BY <1>1, <2>2
    <3>2. RowAt(i) \in Keys
      BY <2>2, Reached
    <3>3. Whole(p) /\ p.added = pending.added
      BY <1>2, <3>2, SetWhole
    <3>4. QED
      BY <1>2, <3>1, <3>3, SameNewFacts
  <2>3. QED
    BY <2>1, <2>2
<1>4. QED
  BY <1>3 DEF EditCell

LEMMA MovesStage ==
  ASSUME Types, Moves
  PROVE  /\ \E p : Stage(p) /\ Safely(p)
         /\ edits' \in {edits, edits + 1} /\ edits' <= MaxEdits /\ dialog = "none"
         /\ UNCHANGED <<rows, sheet, reviewed, written, inserted, doubt, astray>> /\ Shifts
<1>1. Whole(pending) /\ edits + 1 \in Nat /\ Len(pending.added) \in Nat /\ edits \in 0..MaxEdits
  BY DraftParts DEF Types, Whole
<1>2. ASSUME NEW i \in Places, i <= Added
      PROVE  Safely(RemoveAdded(pending, i))
  <2>1. i \in 1..Len(pending.added)
    BY <1>2, Reached
  <2>2. /\ Whole(RemoveAdded(pending, i)) /\ Names(RemoveAdded(pending, i)) \subseteq Names(pending)
        /\ Len(RemoveAdded(pending, i).added) = Len(pending.added) - 1
    BY <1>1, <2>1, RemoveAddedWhole
  <2>3. QED
    BY <1>1, <2>2 DEF Safely
<1>3. CASE InsertRow
  <2>1. Stage(Add(pending, edits + 1)) /\ edits < MaxEdits /\ edits' = edits + 1
    BY <1>3 DEF InsertRow
  <2>2. edits + 1 \in 1..MaxEdits /\ edits + 1 \notin Names(pending)
    BY <1>1, <2>1, BoundsAssumption DEF Types
  <2>3. /\ Whole(Add(pending, edits + 1)) /\ Names(Add(pending, edits + 1)) = Names(pending) \cup {edits + 1}
        /\ Len(Add(pending, edits + 1).added) = Len(pending.added) + 1
    BY <1>1, <2>2, AddWhole
  <2>4. Safely(Add(pending, edits + 1))
    BY <1>1, <2>1, <2>3 DEF Safely
  <2>5. QED
    BY <1>1, <1>3, <2>1, <2>2, <2>4 DEF InsertRow
<1>4. CASE DeleteRow
  <2>1. PICK i \in Places :
          Stage(IF i <= Added THEN RemoveAdded(pending, i) ELSE Delete(pending, RowAt(i), edits + 1))
    BY <1>4 DEF DeleteRow
  <2>2. /\ edits < MaxEdits /\ edits' = edits + 1 /\ dialog = "none"
        /\ UNCHANGED <<rows, sheet, reviewed, written, inserted, doubt, astray>> /\ Shifts
    BY <1>4 DEF DeleteRow
  <2>3. edits' <= MaxEdits
    BY <1>1, <2>2, BoundsAssumption
  <2>4. \E p : Stage(p) /\ Safely(p)
    <3>1. CASE i <= Added
      <4>1. Stage(RemoveAdded(pending, i))
        BY <2>1, <3>1, Zenon
      <4>2. QED
        BY <1>2, <3>1, <4>1
    <3>2. CASE ~(i <= Added)
      <4>1. Stage(Delete(pending, RowAt(i), edits + 1))
        BY <2>1, <3>2, Zenon
      <4>2. RowAt(i) \in Keys
        BY <3>2, Reached
      <4>3. /\ Whole(Delete(pending, RowAt(i), edits + 1))
            /\ Delete(pending, RowAt(i), edits + 1).added = pending.added
        BY <1>1, <4>2, ChangeWhole DEF Delete
      <4>4. Safely(Delete(pending, RowAt(i), edits + 1))
        BY <1>1, <4>3, SameNewFacts, SameIsSafe
      <4>5. QED
        BY <4>1, <4>4
    <3>3. QED
      BY <3>1, <3>2
  <2>5. QED
    BY <2>2, <2>3, <2>4
<1>5. CASE Revert
  <2>1. \E p : Stage(p) /\ Safely(p)
    <3>1. CASE \E i \in Places : Stage(IF i <= Added THEN RemoveAdded(pending, i) ELSE Forget(pending, RowAt(i)))
      <4>1. PICK i \in Places : Stage(IF i <= Added THEN RemoveAdded(pending, i) ELSE Forget(pending, RowAt(i)))
        BY <3>1
      <4>2. CASE i <= Added
        BY <1>2, <4>1, <4>2
      <4>3. CASE ~(i <= Added)
        <5>1. RowAt(i) \in Keys
          BY <4>3, Reached
        <5>2. Whole(Forget(pending, RowAt(i))) /\ Forget(pending, RowAt(i)).added = pending.added
          BY <1>1, <5>1, ForgetWhole
        <5>3. Safely(Forget(pending, RowAt(i)))
          BY <1>1, <5>2, SameNewFacts, SameIsSafe
        <5>4. QED
          BY <4>1, <4>3, <5>3
      <4>4. QED
        BY <4>2, <4>3
    <3>2. CASE Stage(Nothing)
      <4>1. Safely(Nothing)
        BY <1>1, NothingWhole DEF Safely, SameNew
      <4>2. QED
        BY <3>2, <4>1
    <3>3. QED
      BY <1>5, <3>1, <3>2 DEF Revert
  <2>2. QED
    BY <1>1, <1>5, <2>1 DEF Revert
<1>6. QED
  BY <1>3, <1>4, <1>5 DEF Moves

LEMMA FillRowsStages ==
  ASSUME Types, FillRows
  PROVE  /\ \E p : Stage(p) /\ Whole(p) /\ SameNew(pending, p)
         /\ fills' \subseteq fills
         /\ UNCHANGED <<rows, sheet, edits, reviewed, written, inserted, doubt>>
<1>1. PICK x \in fills, own \in SUBSET ToSet(Table) :
        x.at = "read" /\ Stage(Filled(x, own)[Len(x.got)]) /\ fills' = fills \ {x}
  BY DEF FillRows
<1>2. Whole(Filled(x, own)[Len(x.got)]) /\ SameNew(pending, Filled(x, own)[Len(x.got)])
  BY <1>1, FilledWhole DEF Types, FillShape
<1>3. QED
  BY <1>1, <1>2 DEF FillRows

LEMMA WindowStages ==
  ASSUME Types, Window
  PROVE  /\ \E p : Stage(p) /\ Safely(p)
         /\ edits' \in {edits, edits + 1} /\ edits' \in 0..MaxEdits
         /\ UNCHANGED <<rows, sheet, reviewed, written, inserted, doubt>>
<1>1. edits \in 0..MaxEdits
  BY DEF Types
<1>2. CASE EditCell
  <2>1. /\ \E p : Stage(p) /\ Whole(p) /\ SameNew(pending, p)
        /\ edits < MaxEdits /\ edits' = edits + 1
        /\ UNCHANGED <<rows, fills, sheet, reviewed, written, inserted, doubt, astray>>
    BY <1>2, EditCellStages
  <2>2. \E p : Stage(p) /\ Safely(p)
    BY <2>1, SameIsSafe
  <2>3. edits' \in 0..MaxEdits
    BY <1>1, <2>1, BoundsAssumption
  <2>4. QED
    BY <2>1, <2>2, <2>3
<1>3. CASE Moves
  <2>1. /\ \E p : Stage(p) /\ Safely(p)
        /\ edits' \in {edits, edits + 1} /\ edits' <= MaxEdits
        /\ UNCHANGED <<rows, sheet, reviewed, written, inserted, doubt, astray>>
    BY <1>3, MovesStage
  <2>2. QED
    BY <1>1, <2>1
<1>4. CASE FillRows
  <2>1. /\ \E p : Stage(p) /\ Whole(p) /\ SameNew(pending, p)
        /\ UNCHANGED <<rows, sheet, edits, reviewed, written, inserted, doubt>>
    BY <1>4, FillRowsStages
  <2>2. \E p : Stage(p) /\ Safely(p)
    BY <2>1, SameIsSafe
  <2>3. QED
    BY <1>1, <2>1, <2>2
<1>5. QED
  BY <1>2, <1>3, <1>4 DEF Window

LEMMA TypesInit == Init => Types
<1> SUFFICES ASSUME Init PROVE Types
  OBVIOUS
<1>1. Whole(pending) /\ Names(pending) = {}
  BY NothingWhole DEF Init
<1>2. rows \in Seq(Keys)
  BY SeqMonotonic, TableAssumption DEF Init, Keys
<1>3. FillShape
  BY DEF Init, FillShape
<1>4. QED
  BY <1>1, <1>2, <1>3, BoundsAssumption DEF Types, Init

LEMMA ShiftsShape ==
  ASSUME FillShape, Shifts
  PROVE  /\ FillShape'
         /\ \A y \in fills' : \E x \in fills :
              /\ y.at = x.at /\ y.from = x.from /\ y.to = x.to /\ y.meant = x.meant /\ y.got = x.got
              /\ y.steady => x.steady /\ Len(pending'.added) = Len(pending.added) /\ (x.at = "reading" => rows' = rows)
<1>1. ASSUME NEW y \in fills'
      PROVE  /\ Shape(y)
             /\ \E x \in fills :
                  /\ y.at = x.at /\ y.from = x.from /\ y.to = x.to /\ y.meant = x.meant /\ y.got = x.got
                  /\ y.steady => x.steady /\ Len(pending'.added) = Len(pending.added) /\ (x.at = "reading" => rows' = rows)
  <2>1. PICK x \in fills :
          y = [x EXCEPT !.steady = @ /\ Len(pending'.added) = Added /\ (x.at = "reading" => rows' = rows)]
    BY <1>1 DEF Shifts
  <2> DEFINE st == x.steady /\ Len(pending'.added) = Added /\ (x.at = "reading" => rows' = rows)
  <2>2. st \in BOOLEAN /\ Shape(x) /\ y = [x EXCEPT !.steady = st]
    BY <2>1 DEF FillShape
  <2> HIDE DEF st
  <2>3. y = [at |-> x.at, from |-> x.from, to |-> x.to, value |-> x.value,
             meant |-> x.meant, got |-> x.got, steady |-> st]
    BY <2>2 DEF Shape
  <2>4. /\ y.at = x.at /\ y.from = x.from /\ y.to = x.to /\ y.value = x.value
        /\ y.meant = x.meant /\ y.got = x.got /\ y.steady = st
    BY <2>3
  <2>5. Shape(y)
    BY <2>2, <2>3, <2>4 DEF Shape
  <2>6. QED
    BY <2>4, <2>5 DEF st, Added
<1>2. QED
  BY <1>1 DEF FillShape

\* A fill with the rows it read.
HavingRead(x) ==
  [x EXCEPT !.at = "read",
            !.got = [n \in 1..Cardinality(Places \cap (x.from..x.to)) |-> RowAt(x.from + n - 1)]]

LEMMA HavingReadShape ==
  ASSUME NEW x, Shape(x)
  PROVE  LET card == Cardinality(Places \cap (x.from..x.to))
             y == HavingRead(x)
         IN /\ card \in Nat /\ Shape(y)
            /\ y.at = "read" /\ y.from = x.from /\ y.to = x.to
            /\ y.meant = x.meant /\ y.steady = x.steady
            /\ y.got = [n \in 1..card |-> RowAt(x.from + n - 1)]
<1> DEFINE card == Cardinality(Places \cap (x.from..x.to))
<1> DEFINE g == [n \in 1..card |-> RowAt(x.from + n - 1)]
<1> DEFINE y == HavingRead(x)
<1>1. y = [x EXCEPT !.at = "read", !.got = g]
  BY DEF HavingRead
<1>2. card \in Nat
  <2>1. x.from \in Int /\ x.to \in Int
    BY DEF Shape
  <2>2. IsFiniteSet(x.from..x.to)
    BY <2>1, FS_Interval
  <2>3. QED
    BY <2>2, FS_Intersection, FS_CardinalityType
<1> HIDE DEF card
<1>3. Len(g) = card /\ DOMAIN g = 1..card
  BY <1>2
<1>4. g = [n \in 1..card |-> RowAt(x.from + n - 1)]
  OBVIOUS
<1> HIDE DEF g, y
<1>5. y = [at |-> "read", from |-> x.from, to |-> x.to, value |-> x.value,
           meant |-> x.meant, got |-> g, steady |-> x.steady]
  BY <1>1 DEF Shape
<1>6. /\ y.at = "read" /\ y.from = x.from /\ y.to = x.to /\ y.value = x.value
      /\ y.meant = x.meant /\ y.got = g /\ y.steady = x.steady
  BY <1>5
<1>7. Shape(y)
  BY <1>2, <1>3, <1>5, <1>6 DEF Shape
<1>8. QED
  BY <1>2, <1>4, <1>6, <1>7 DEF card, y

LEMMA TypesStep ==
  ASSUME Types, [Next]_vars
  PROVE  Types'
<1>1. CASE Window
  <2>1. PICK p : Stage(p) /\ Safely(p)
    BY <1>1, WindowStages
  <2>2. /\ edits' \in {edits, edits + 1} /\ edits' \in 0..MaxEdits /\ edits \in 0..MaxEdits
        /\ UNCHANGED <<rows, sheet, reviewed, written, inserted, doubt>>
    BY <1>1, WindowStages DEF Types
  <2>3. pending' = p /\ Whole(pending')
    BY <2>1 DEF Stage, Safely
  <2>4. Names(pending') \subseteq 1..MaxEdits
    BY <2>3, DraftParts DEF Names, Whole
  <2>5. \A n \in Names(pending') : n <= edits'
    BY <2>1, <2>2, <2>3, <2>4 DEF Safely, Types
  <2>6. FillShape'
    <3>1. CASE EditCell
      BY <3>1 DEF EditCell, Types, FillShape
    <3>2. CASE Moves
      BY <3>2, ShiftsShape, MovesStage DEF Types
    <3>3. CASE FillRows
      BY <3>3, FillRowsStages DEF Types, FillShape
    <3>4. QED
      BY <1>1, <3>1, <3>2, <3>3 DEF Window
  <2>7. QED
    BY <2>2, <2>3, <2>5, <2>6 DEF Types, sheet
<1>2. CASE StartFill
  <2>1. PICK i \in Places : \E j \in i..(Added + Len(rows)) :
          fills' = fills \cup
            {[at |-> "reading", from |-> i, to |-> j, value |-> edits + 1,
              meant |-> [n \in 1..(j - i + 1) |-> RowAt(i + n - 1)], got |-> <<>>, steady |-> TRUE]}
    BY <1>2 DEF StartFill
  <2>2. PICK j \in i..(Added + Len(rows)) :
          fills' = fills \cup
            {[at |-> "reading", from |-> i, to |-> j, value |-> edits + 1,
              meant |-> [n \in 1..(j - i + 1) |-> RowAt(i + n - 1)], got |-> <<>>, steady |-> TRUE]}
    BY <2>1
  <2>3. i \in Nat /\ i # 0 /\ j \in Nat /\ i <= j /\ edits + 1 \in Nat
    BY DraftParts DEF Types, Whole, Places, Added
  <2>4. Shape([at |-> "reading", from |-> i, to |-> j, value |-> edits + 1,
               meant |-> [n \in 1..(j - i + 1) |-> RowAt(i + n - 1)], got |-> <<>>, steady |-> TRUE])
    BY <2>3 DEF Shape
  <2>5. FillShape'
    BY <2>2, <2>4 DEF FillShape, Types
  <2>6. edits' \in 0..MaxEdits /\ edits <= edits'
    BY <1>2, BoundsAssumption DEF StartFill, Types
  <2>7. \A n \in Names(pending) : n \in Nat /\ n <= edits'
    <3>1. Names(pending) \subseteq 1..MaxEdits
      BY DraftParts DEF Names, Types, Whole
    <3>2. QED
      BY <2>6, <3>1 DEF Types
  <2>8. UNCHANGED <<rows, pending, sheet>>
    BY <1>2 DEF StartFill
  <2>9. QED
    BY <2>5, <2>6, <2>7, <2>8 DEF Types, sheet
<1>3. CASE ReadRows
  <2>1. UNCHANGED <<rows, pending, sheet, edits>>
    BY <1>3 DEF ReadRows
  <2>2. FillShape'
    <3>1. PICK x \in fills :
            /\ x.at = "reading"
            /\ \/ fills' = (fills \ {x}) \cup {HavingRead(x)}
               \/ fills' = fills \ {x}
      BY <1>3 DEF ReadRows, HavingRead
    <3>2. Shape(HavingRead(x))
      BY HavingReadShape DEF Types, FillShape
    <3>3. QED
      BY <3>1, <3>2 DEF Types, FillShape
  <2>3. QED
    BY <2>1, <2>2 DEF Types, sheet
<1>4. CASE Review \/ Answered \/ Consent \/ Writes
  <2>1. UNCHANGED <<rows, pending, fills, edits>>
    BY <1>4 DEF Review, Answered, Consent, Writes
  <2>2. FillShape'
    BY <2>1 DEF FillShape, Types
  <2>3. /\ dialog' \in {"none", "review", "consent"} /\ writer' \in {"idle", "applying", "done", "failed"}
        /\ dialog' # "none" => writer' = "idle"
    BY <1>4 DEF Review, Answered, Consent, Writes, Apply, Reviewable, Types
  <2>4. QED
    BY <2>1, <2>2, <2>3 DEF Types
<1>5. CASE Applied
  <2>1. CASE writer = "done"
    <3>1. pending' = Nothing /\ rows' = Left[Len(Table)] /\ Shifts /\ writer' = "idle" /\ UNCHANGED <<dialog, edits>>
      BY <1>5, <2>1 DEF Applied
    <3>2. Whole(pending') /\ Names(pending') = {}
      BY <3>1, NothingWhole
    <3>3. rows' \in Seq(Keys)
      BY <3>1, LeftRows
    <3>4. FillShape'
      BY <3>1, ShiftsShape DEF Types
    <3>5. QED
      BY <3>1, <3>2, <3>3, <3>4 DEF Types
  <2>2. CASE writer # "done"
    <3>1. UNCHANGED <<pending, rows, fills, dialog, edits>> /\ writer' = "idle"
      BY <1>5, <2>2 DEF Applied
    <3>2. FillShape'
      BY <3>1 DEF FillShape, Types
    <3>3. QED
      BY <3>1, <3>2 DEF Types
  <2>3. QED
    BY <2>1, <2>2
<1>6. CASE UNCHANGED vars
  <2>1. UNCHANGED <<rows, pending, fills, edits, dialog, writer>>
    BY <1>6 DEF vars, sheet
  <2>2. FillShape'
    BY <2>1 DEF FillShape, Types
  <2>3. QED
    BY <2>1, <2>2 DEF Types
<1>7. QED
  BY <1>1, <1>2, <1>3, <1>4, <1>5, <1>6 DEF Next, Window, Moves

\* Every variable keeps its type, and the lists agree with the tables: a change is in the
\* order exactly once if there is one (Pending.Set, Forget, Add).
THEOREM TypesHold == Spec => []Types
<1>1. Init => Types
  BY TypesInit
<1>2. Types /\ [Next]_vars => Types'
  BY TypesStep
<1>3. QED
  BY <1>1, <1>2, PTL DEF Spec

(***************************************************************************)
(* What is written was reviewed                                            *)
(***************************************************************************)
ReviewedFirst ==
  /\ changes \in Seq(Plans) /\ Pairs(changes) \subseteq reviewed
  /\ ReviewedIsWritten

LEMMA Landed ==
  ASSUME changes \in Seq(Plans), NEW n \in 0..Len(changes), Lands(n)
  PROVE  /\ Pairs(SubSeq(changes, 1, n)) \subseteq Pairs(changes)
         /\ written' = written \cup Pairs(SubSeq(changes, 1, n))
         /\ n = Len(changes) => written' = written \cup Pairs(changes)
<1> DEFINE d == SubSeq(changes, 1, n)
<1>1. /\ Len(changes) \in Nat /\ DOMAIN changes = 1..Len(changes)
      /\ DOMAIN d = 1..n /\ \A i \in 1..n : d[i] = changes[i] /\ i \in DOMAIN changes
  OBVIOUS
<1>2. n = Len(changes) => d = changes
  BY SubSeqFull
<1>3. written' = written \cup Pairs(d)
  BY DEF Lands
<1> HIDE DEF d
<1>4. Pairs(d) \subseteq Pairs(changes)
  BY <1>1 DEF Pairs
<1>5. QED
  BY <1>2, <1>3, <1>4 DEF d

\* The statements a write gets through: none, some or all of the changes reviewed.
LEMMA WritesLand ==
  ASSUME changes \in Seq(Plans), Writes
  PROVE  /\ \E n \in 0..Len(changes) :
              /\ Lands(n) /\ (doubt => doubt')
              /\ \/ writer' = "done" /\ n = Len(changes)
                 \/ writer' = "failed" /\ (n = 0 \/ doubt')
         /\ writer = "applying"
         /\ UNCHANGED <<rows, pending, fills, dialog, changes, edits, reviews, mine, late, reviewed, astray>>
<1>1. Len(changes) \in Nat /\ DOMAIN changes = 1..Len(changes)
  OBVIOUS
<1>0. /\ writer = "applying"
      /\ UNCHANGED <<rows, pending, fills, dialog, changes, edits, reviews, mine, late, reviewed, astray>>
  BY DEF Writes
<1>2. CASE writer' = "done" /\ Lands(Len(changes)) /\ UNCHANGED doubt
  <2>1. Len(changes) \in 0..Len(changes) /\ (doubt => doubt')
    BY <1>1, <1>2
  <2>2. QED
    BY <1>0, <1>2, <2>1
<1>3. CASE \E i \in DOMAIN changes : \E kept \in {0, i - 1} :
             writer' = "failed" /\ Lands(kept) /\ doubt' = (doubt \/ kept > 0)
  <2>0. PICK i \in DOMAIN changes : \E kept \in {0, i - 1} :
          writer' = "failed" /\ Lands(kept) /\ doubt' = (doubt \/ kept > 0)
    BY <1>3
  <2>1. PICK kept \in {0, i - 1} : writer' = "failed" /\ Lands(kept) /\ doubt' = (doubt \/ kept > 0)
    BY <2>0
  <2>2. kept \in 0..Len(changes) /\ (kept = 0 \/ kept > 0)
    BY <1>1
  <2>3. (doubt => doubt') /\ (kept = 0 \/ doubt')
    BY <2>1, <2>2
  <2>4. QED
    BY <1>0, <2>1, <2>2, <2>3
<1>4. CASE writer' = "failed" /\ Lands(Len(changes)) /\ doubt' = TRUE
  <2>1. Len(changes) \in 0..Len(changes) /\ (doubt => doubt') /\ doubt'
    BY <1>1, <1>4
  <2>2. QED
    BY <1>0, <1>4, <2>1
<1>5. QED
  BY <1>2, <1>3, <1>4 DEF Writes
\* The steps that leave what is pending and what the server holds alone.
Quiet == StartFill \/ ReadRows \/ Answered \/ Consent \/ UNCHANGED vars

Active == dialog # "none" \/ writer = "applying"

LEMMA QuietKeeps ==
  ASSUME Types, Quiet
  PROVE  /\ UNCHANGED <<pending, changes, mine, late, reviewed, written, inserted, doubt>>
         /\ (Active' => Active) /\ (writer' = "done" <=> writer = "done")
         /\ edits' \in {edits, edits + 1} /\ edits' \in 0..MaxEdits
<1>1. edits \in 0..MaxEdits
  BY DEF Types
<1>2. CASE StartFill
  BY <1>1, <1>2, BoundsAssumption DEF StartFill, sheet, ghosts, Active
<1>3. CASE ReadRows
  BY <1>1, <1>3 DEF ReadRows, sheet, ghosts, Active
<1>4. CASE Answered
  BY <1>1, <1>4 DEF Answered, Apply, ghosts, Active
<1>5. CASE Consent
  BY <1>1, <1>5 DEF Consent, Apply, ghosts, Active, Types
<1>6. CASE UNCHANGED vars
  BY <1>1, <1>6 DEF vars, sheet, ghosts, Active
<1>7. QED
  BY <1>2, <1>3, <1>4, <1>5, <1>6 DEF Quiet

LEMMA Steps == [Next]_vars => Window \/ Quiet \/ Review \/ Writes \/ Applied
  BY DEF Next, Window, Moves, Quiet

LEMMA ReviewShows ==
  ASSUME Types, Review
  PROVE  /\ changes' = Changeset /\ reviewed' = reviewed \cup Pairs(Changeset)
         /\ writer = "idle" /\ dialog = "none"
         /\ UNCHANGED <<rows, pending, fills, writer, gone, edits, mine, late, written, inserted, doubt, astray>>
         /\ changes' \in Seq(Plans) /\ Held(pending) \subseteq Pairs(changes')
  BY ChangesetHolds DEF Review, Reviewable, Types

LEMMA ReviewedStep ==
  ASSUME Types, ReviewedFirst, [Next]_vars
  PROVE  ReviewedFirst'
<1>1. CASE Window
  BY <1>1, WindowStages DEF ReviewedFirst, ReviewedIsWritten, sheet
<1>2. CASE Quiet
  BY <1>2, QuietKeeps DEF ReviewedFirst, ReviewedIsWritten
<1>3. CASE Review
  BY <1>3, ReviewShows DEF ReviewedFirst, ReviewedIsWritten
<1>4. CASE Writes
  <2>1. PICK n \in 0..Len(changes) : Lands(n)
    BY <1>4, WritesLand DEF ReviewedFirst
  <2>2. UNCHANGED <<changes, reviewed>>
    BY <1>4 DEF Writes
  <2>3. written' \subseteq written \cup Pairs(changes)
    BY <2>1, Landed DEF ReviewedFirst
  <2>4. QED
    BY <2>2, <2>3 DEF ReviewedFirst, ReviewedIsWritten
<1>5. CASE Applied
  BY <1>5 DEF Applied, ghosts, ReviewedFirst, ReviewedIsWritten
<1>6. QED
  BY <1>1, <1>2, <1>3, <1>4, <1>5, Steps

\* What is written is what the review showed, value by value, however the window's state
\* has moved on while it was read and consented to (Shell.review, Shell.commit).
THEOREM ReviewedHolds == Spec => []ReviewedIsWritten
<1>1. Init => ReviewedFirst
  BY DEF Init, ReviewedFirst, ReviewedIsWritten, Pairs
<1>2. Types /\ ReviewedFirst /\ [Next]_vars => ReviewedFirst'
  BY ReviewedStep
<1>3. ReviewedFirst => ReviewedIsWritten
  BY DEF ReviewedFirst
<1>4. Spec => []Types
  BY TypesHold
<1>5. QED
  BY <1>1, <1>2, <1>3, <1>4, PTL DEF Spec

(***************************************************************************)
(* What is pending is kept                                                 *)
(***************************************************************************)
Keeps ==
  /\ Kept
  /\ Active => Held(pending) \ late \subseteq Pairs(changes)
  /\ writer = "done" => Held(pending) \ late \subseteq written

LEMMA KeepsStep ==
  ASSUME Types, ReviewedFirst, Keeps, [Next]_vars
  PROVE  Keeps'
<1>1. CASE Window
  <2>1. PICK p : Stage(p)
    BY <1>1, WindowStages
  <2>2. /\ pending' = p /\ mine' = (mine \ Held(pending)) \cup Held(p)
        /\ IF dialog # "none" \/ writer # "idle" THEN late' = late \cup (Held(p) \ Held(pending))
           ELSE late' = late
    BY <2>1 DEF Stage
  <2>3. UNCHANGED <<dialog, changes, writer, written>>
    BY <1>1, WindowStages DEF sheet
  <2>4. Held(pending') = Held(p)
    BY <2>2
  <2>5. mine' \ late' \subseteq Held(p) \cup written
    BY <2>2 DEF Keeps, Kept
  <2>6. dialog # "none" \/ writer # "idle" => Held(p) \ late' \subseteq Held(pending) \ late
    BY <2>2
  <2>7. Active' <=> Active
    BY <2>3 DEF Active
  <2>8. Active => Held(p) \ late' \subseteq Pairs(changes)
    BY <2>6 DEF Keeps, Active
  <2>9. writer = "done" => Held(p) \ late' \subseteq written
    BY <2>6 DEF Keeps
  <2>10. QED
    BY <2>3, <2>4, <2>5, <2>7, <2>8, <2>9 DEF Keeps, Kept
<1>2. CASE Quiet
  BY <1>2, QuietKeeps DEF Keeps, Kept
<1>3. CASE Review
  BY <1>3, ReviewShows DEF Keeps, Kept
<1>4. CASE Writes
  <2>1. PICK n \in 0..Len(changes) :
          /\ Lands(n)
          /\ writer' = "done" => n = Len(changes)
    BY <1>4, WritesLand DEF ReviewedFirst
  <2>2. UNCHANGED <<pending, dialog, changes, mine, late>> /\ writer = "applying" /\ writer' # "applying"
    BY <1>4 DEF Writes
  <2>3. /\ written \subseteq written'
        /\ n = Len(changes) => Pairs(changes) \subseteq written'
    BY <2>1, Landed DEF ReviewedFirst
  <2>4. Active /\ ~Active'
    BY <2>2 DEF Active, Types
  <2>5. QED
    BY <2>1, <2>2, <2>3, <2>4 DEF Keeps, Kept
<1>5. CASE Applied
  <2>1. UNCHANGED <<dialog, changes, mine, late, written>> /\ writer' = "idle" /\ writer # "idle"
    BY <1>5 DEF Applied, ghosts
  <2>2. ~Active' /\ writer' # "done"
    BY <2>1 DEF Active, Types
  <2>3. Kept'
    <3>1. CASE writer = "done"
      <4>1. pending' = Nothing
        BY <1>5, <3>1 DEF Applied
      <4>2. mine \ late \subseteq written
        BY <3>1 DEF Keeps, Kept
      <4>3. QED
        BY <2>1, <4>2 DEF Kept
    <3>2. CASE writer # "done"
      BY <1>5, <2>1, <3>2 DEF Applied, Keeps, Kept
    <3>3. QED
      BY <3>1, <3>2
  <2>4. QED
    BY <2>2, <2>3 DEF Keeps
<1>6. QED
  BY <1>1, <1>2, <1>3, <1>4, <1>5, Steps

\* A change made and not taken back is pending until it is written: no fill, revert, review
\* or failed write loses it (Pending, Shell.applied), but for those made while others are
\* reviewed or written.
THEOREM KeptHolds == Spec => []Kept
<1>1. Init => ReviewedFirst /\ Keeps
  BY DEF Init, ReviewedFirst, ReviewedIsWritten, Pairs, Keeps, Kept, Active
<1>2. Types /\ ReviewedFirst /\ Keeps /\ [Next]_vars => ReviewedFirst' /\ Keeps'
  BY ReviewedStep, KeepsStep
<1>3. Keeps => Kept
  BY DEF Keeps
<1>4. Spec => []Types
  BY TypesHold
<1>5. QED
  BY <1>1, <1>2, <1>3, <1>4, PTL DEF Spec
(***************************************************************************)
(* No row is inserted twice                                                *)
(***************************************************************************)
Inserts(i) == changes[i].kind = "insert"
ApartFrom(i, j) == Inserts(i) /\ Inserts(j) /\ changes[i].row = changes[j].row => i = j

Once ==
  /\ inserted \in [1..MaxEdits -> Nat]
  /\ doubt \/
       /\ \A n \in 1..MaxEdits : inserted[n] <= 1 /\ (n > edits => inserted[n] = 0)
       /\ writer # "done" => \A n \in Names(pending) : inserted[n] = 0
       /\ Active => /\ \A i \in DOMAIN changes :
                         Inserts(i) => inserted[changes[i].row] = 0 /\ changes[i].row <= edits
                    /\ \A i, j \in DOMAIN changes : ApartFrom(i, j)

\* The rows that statements inserted, as often as they did.
LEMMA LandedRows ==
  ASSUME changes \in Seq(Plans), inserted \in [1..MaxEdits -> Nat], NEW n \in 0..Len(changes), Lands(n)
  PROVE  /\ inserted' \in [1..MaxEdits -> Nat]
         /\ n = 0 => \A m \in 1..MaxEdits : inserted'[m] = inserted[m]
         /\ (\A i, j \in DOMAIN changes : ApartFrom(i, j)) =>
              \A m \in 1..MaxEdits :
                \/ inserted'[m] = inserted[m]
                \/ /\ inserted'[m] = inserted[m] + 1
                   /\ \E i \in DOMAIN changes : Inserts(i) /\ changes[i].row = m
<1> DEFINE d == SubSeq(changes, 1, n)
<1> DEFINE at(m) == {i \in 1..n : d[i].kind = "insert" /\ d[i].row = m}
<1>1. /\ n \in Nat /\ DOMAIN changes = 1..Len(changes) /\ Len(changes) \in Nat
      /\ \A i \in 1..n : d[i] = changes[i] /\ i \in DOMAIN changes
  OBVIOUS
<1>2. DOMAIN inserted = 1..MaxEdits
  OBVIOUS
<1>3. inserted' = [m \in 1..MaxEdits |-> inserted[m] + Cardinality(at(m))]
  BY <1>2 DEF Lands
<1> HIDE DEF d
<1>4. ASSUME NEW m \in 1..MaxEdits
      PROVE  /\ at(m) \subseteq 1..n /\ IsFiniteSet(at(m)) /\ Cardinality(at(m)) \in Nat
             /\ at(m) = {} => Cardinality(at(m)) = 0
             /\ (\A i, j \in DOMAIN changes : ApartFrom(i, j)) /\ at(m) # {} => Cardinality(at(m)) = 1
             /\ at(m) # {} => \E i \in DOMAIN changes : Inserts(i) /\ changes[i].row = m
  <2>1. at(m) \subseteq 1..n
    OBVIOUS
  <2>2. \A i \in at(m) : i \in DOMAIN changes /\ Inserts(i) /\ changes[i].row = m
    BY <1>1 DEF Inserts
  <2> HIDE DEF at
  <2>3. IsFiniteSet(1..n)
    <3>1. 1 \in Int /\ n \in Int
      BY <1>1
    <3>2. QED
      BY <3>1, FS_Interval
  <2>4. IsFiniteSet(at(m))
    BY <2>1, <2>3, FS_Subset
  <2>5. Cardinality(at(m)) \in Nat /\ (at(m) = {} => Cardinality(at(m)) = 0)
    BY <2>4, FS_CardinalityType, FS_EmptySet
  <2>6. ASSUME \A i, j \in DOMAIN changes : ApartFrom(i, j), at(m) # {}
        PROVE  Cardinality(at(m)) = 1
    <3>1. PICK i \in at(m) : TRUE
      BY <2>6
    <3>2. \A j \in at(m) : j = i
      BY <2>2, <2>6 DEF ApartFrom
    <3>3. at(m) = {i}
      BY <3>1, <3>2
    <3>4. QED
      BY <3>3, FS_Singleton
  <2>7. QED
    BY <2>1, <2>2, <2>4, <2>5, <2>6
<1>5. ASSUME n = 0, NEW m \in 1..MaxEdits PROVE at(m) = {}
  <2>1. 1..n = {}
    BY <1>5
  <2>2. QED
    BY <2>1
<1> HIDE DEF at
<1>6. \A m \in 1..MaxEdits : inserted'[m] = inserted[m] + Cardinality(at(m)) /\ inserted[m] \in Nat
  BY <1>3
<1>7. inserted' \in [1..MaxEdits -> Nat]
  BY <1>3, <1>4, <1>6
<1>8. n = 0 => \A m \in 1..MaxEdits : inserted'[m] = inserted[m]
  BY <1>4, <1>5, <1>6
<1>9. ASSUME \A i, j \in DOMAIN changes : ApartFrom(i, j), NEW m \in 1..MaxEdits
      PROVE  \/ inserted'[m] = inserted[m]
             \/ /\ inserted'[m] = inserted[m] + 1
                /\ \E i \in DOMAIN changes : Inserts(i) /\ changes[i].row = m
  <2>1. CASE at(m) = {}
    BY <1>4, <1>6, <2>1
  <2>2. CASE at(m) # {}
    BY <1>4, <1>6, <1>9, <2>2
  <2>3. QED
    BY <2>1, <2>2
<1>10. QED
  BY <1>7, <1>8, <1>9

LEMMA OnceStep ==
  ASSUME Types, ReviewedFirst, Once, [Next]_vars
  PROVE  Once'
<1>0. /\ edits \in 0..MaxEdits /\ inserted \in [1..MaxEdits -> Nat]
      /\ Names(pending) \subseteq 1..MaxEdits /\ MaxEdits \in Nat
      /\ changes \in Seq(Plans)
  BY DraftParts, BoundsAssumption DEF Types, Whole, Once, Names, ReviewedFirst
<1>00. \A i \in DOMAIN changes : Inserts(i) => changes[i].row \in 1..MaxEdits
  <2>1. \A i \in DOMAIN changes : changes[i] \in Plans
    BY <1>0
  <2>2. QED
    BY <2>1 DEF Plans, Inserts
<1>1. CASE Window
  <2>1. PICK p : Stage(p) /\ Safely(p)
    BY <1>1, WindowStages
  <2>2. pending' = p
    BY <2>1 DEF Stage
  <2>3. UNCHANGED <<dialog, changes, writer, inserted, doubt>> /\ edits' \in {edits, edits + 1} /\ edits' \in 0..MaxEdits
    BY <1>1, WindowStages DEF sheet
  <2>4. CASE doubt
    BY <2>3, <2>4 DEF Once
  <2>5. CASE ~doubt
    <3>1. \A n \in 1..MaxEdits : inserted[n] <= 1 /\ (n > edits' => inserted[n] = 0)
      BY <1>0, <2>3, <2>5 DEF Once
    <3>2. ASSUME writer # "done", NEW n \in Names(p) PROVE inserted[n] = 0
      <4>1. CASE n \in Names(pending)
        BY <2>5, <3>2, <4>1 DEF Once
      <4>2. CASE n = edits + 1 /\ edits' = edits + 1
        <5>1. n \in 1..MaxEdits /\ n > edits
          BY <1>0, <2>3, <4>2
        <5>2. QED
          BY <2>5, <5>1 DEF Once
      <4>3. QED
        BY <2>1, <4>1, <4>2 DEF Safely
    <3>3. (Active' <=> Active)
      BY <2>3 DEF Active
    <3>4. ASSUME Active
          PROVE  /\ \A i \in DOMAIN changes : Inserts(i) => inserted[changes[i].row] = 0 /\ changes[i].row <= edits'
                 /\ \A i, j \in DOMAIN changes : ApartFrom(i, j)
      BY <1>0, <1>00, <2>3, <2>5, <3>4 DEF Once
    <3>5. (writer # "done")' => \A n \in Names(pending') : inserted'[n] = 0
      BY <2>2, <2>3, <3>2
    <3>6. QED
      BY <1>0, <2>3, <2>5, <3>1, <3>3, <3>4, <3>5 DEF Once, Inserts, ApartFrom
  <2>6. QED
    BY <2>4, <2>5
<1>2. CASE Quiet
  <2>1. /\ UNCHANGED <<pending, changes, inserted, doubt>>
        /\ (Active' => Active) /\ (writer' = "done" <=> writer = "done")
        /\ edits' \in {edits, edits + 1} /\ edits' \in 0..MaxEdits
    BY <1>2, QuietKeeps
  <2>2. \A n \in 1..MaxEdits : n > edits' => n > edits
    BY <1>0, <2>1
  <2>3. ASSUME ~doubt, Active
        PROVE  /\ \A i \in DOMAIN changes : Inserts(i) => inserted[changes[i].row] = 0 /\ changes[i].row <= edits'
               /\ \A i, j \in DOMAIN changes : ApartFrom(i, j)
    BY <1>0, <1>00, <2>1, <2>3 DEF Once
  <2>4. ~doubt => /\ \A n \in 1..MaxEdits : inserted[n] <= 1 /\ (n > edits' => inserted[n] = 0)
                  /\ writer # "done" => \A n \in Names(pending) : inserted[n] = 0
    BY <2>2 DEF Once
  <2>5. QED
    BY <1>0, <2>1, <2>3, <2>4 DEF Once, Inserts, ApartFrom
<1>3. CASE Review
  <2>1. /\ changes' = Changeset /\ writer = "idle"
        /\ UNCHANGED <<pending, writer, edits, inserted, doubt>>
    BY <1>3, ReviewShows
  <2>2. /\ \A i \in DOMAIN Changeset : Changeset[i].kind = "insert" => Changeset[i].row \in Names(pending)
        /\ \A i, j \in DOMAIN Changeset :
             /\ Changeset[i].kind = "insert" /\ Changeset[j].kind = "insert"
             /\ Changeset[i].row = Changeset[j].row
             => i = j
    BY ChangesetHolds DEF Types
  <2>3. CASE doubt
    BY <2>1, <2>3 DEF Once
  <2>4. CASE ~doubt
    <3>1. \A n \in Names(pending) : inserted[n] = 0
      BY <2>1, <2>4 DEF Once
    <3>2. \A n \in Names(pending) : n <= edits
      BY DEF Types
    <3>3. \A i \in DOMAIN changes' :
            changes'[i].kind = "insert" => inserted[changes'[i].row] = 0 /\ changes'[i].row <= edits
      BY <2>1, <2>2, <3>1, <3>2
    <3>4. \A i, j \in DOMAIN changes' :
             /\ changes'[i].kind = "insert" /\ changes'[j].kind = "insert"
             /\ changes'[i].row = changes'[j].row
             => i = j
      BY <2>1, <2>2
    <3>5. \A n \in 1..MaxEdits : inserted[n] <= 1 /\ (n > edits => inserted[n] = 0)
      BY <2>4 DEF Once
    <3>6. QED
      BY <1>0, <2>1, <2>4, <3>1, <3>3, <3>4, <3>5 DEF Once, Inserts, ApartFrom
  <2>5. QED
    BY <2>3, <2>4
<1>4. CASE Writes
  <2>1. PICK n \in 0..Len(changes) :
          /\ Lands(n) /\ (doubt => doubt')
          /\ \/ writer' = "done" /\ n = Len(changes)
             \/ writer' = "failed" /\ (n = 0 \/ doubt')
    BY <1>0, <1>4, WritesLand
  <2>2. UNCHANGED <<pending, dialog, changes, edits>> /\ writer = "applying" /\ writer' # "applying"
    BY <1>4, <2>1 DEF Writes
  <2>3. ~Active' /\ Active
    BY <2>2 DEF Active, Types
  <2>4. inserted' \in [1..MaxEdits -> Nat]
    BY <1>0, <2>1, LandedRows
  <2>5. CASE doubt'
    BY <2>4, <2>5 DEF Once
  <2>6. CASE ~doubt' /\ n = 0
    <3>1. \A m \in 1..MaxEdits : inserted'[m] = inserted[m]
      BY <1>0, <2>1, <2>6, LandedRows
    <3>2. ~doubt
      BY <2>1, <2>6
    <3>3. QED
      BY <1>0, <2>2, <2>3, <2>4, <3>1, <3>2 DEF Once
  <2>7. CASE ~doubt' /\ n # 0
    <3>1. writer' = "done" /\ ~doubt
      BY <2>1, <2>7
    <3>2. ASSUME NEW m \in 1..MaxEdits
          PROVE  inserted'[m] <= 1 /\ (m > edits' => inserted'[m] = 0)
      <4>1. inserted[m] <= 1 /\ (m > edits => inserted[m] = 0) /\ inserted[m] \in Nat
        BY <3>1 DEF Once
      <4>2. CASE inserted'[m] = inserted[m]
        BY <2>2, <4>1, <4>2
      <4>3. CASE /\ inserted'[m] = inserted[m] + 1
                 /\ \E i \in DOMAIN changes : Inserts(i) /\ changes[i].row = m
        <5>1. PICK i \in DOMAIN changes : Inserts(i) /\ changes[i].row = m
          BY <4>3
        <5>2. inserted[m] = 0 /\ m <= edits
          BY <2>3, <3>1, <5>1 DEF Once
        <5>3. QED
          BY <1>0, <2>2, <4>3, <5>2
      <4>4. \A i, j \in DOMAIN changes : ApartFrom(i, j)
        BY <2>3, <3>1 DEF Once
      <4>5. QED
        BY <1>0, <2>1, <4>2, <4>3, <4>4, LandedRows
    <3>3. QED
      BY <2>3, <2>4, <3>1, <3>2 DEF Once
  <2>8. QED
    BY <2>5, <2>6, <2>7
<1>5. CASE Applied
  <2>1. UNCHANGED <<dialog, changes, inserted, doubt, edits>> /\ writer' = "idle" /\ writer # "idle"
    BY <1>5 DEF Applied, ghosts
  <2>2. ~Active'
    BY <2>1 DEF Active, Types
  <2>3. (Names(pending') = {}) \/ (writer # "done" /\ pending' = pending)
    BY <1>5, NothingWhole DEF Applied
  <2>4. QED
    BY <2>1, <2>2, <2>3 DEF Once
<1>6. QED
  BY <1>1, <1>2, <1>3, <1>4, <1>5, Steps

\* No row is inserted twice, unless a write failed that may have left it there (Changeset,
\* edits.reviewable, Shell.applied).
THEOREM InsertedOnceHolds == Spec => []InsertedOnce
<1>1. Init => ReviewedFirst /\ Once
  BY NothingWhole, BoundsAssumption DEF Init, ReviewedFirst, ReviewedIsWritten, Pairs, Once, Active
<1>2. Types /\ ReviewedFirst /\ Once /\ [Next]_vars => ReviewedFirst' /\ Once'
  BY ReviewedStep, OnceStep
<1>3. Once => InsertedOnce
  BY DEF Once, InsertedOnce
<1>4. Spec => []Types
  BY TypesHold
<1>5. QED
  BY <1>1, <1>2, <1>3, <1>4, PTL DEF Spec
(***************************************************************************)
(* A fill reaches what was selected                                        *)
(***************************************************************************)
Spot(x, n) == x.from + n - 1

\* While no new row has come or gone, the places a fill is for hold what they held: of the
\* new rows in a and the rows read in rs.
Knows(x, a, rs) ==
  x.steady =>
    /\ DOMAIN x.meant = 1..(x.to - x.from + 1)
    /\ \A n \in DOMAIN x.meant : Spot(x, n) <= Len(a) => a[Spot(x, n)].name = x.meant[n]
    /\ x.at = "reading" =>
         /\ x.to <= Len(a) + Len(rs)
         /\ \A n \in DOMAIN x.meant : ~(Spot(x, n) <= Len(a)) => rs[Spot(x, n) - Len(a)] = x.meant[n]
    /\ x.at = "read" =>
         /\ DOMAIN x.got = DOMAIN x.meant
         /\ \A n \in DOMAIN x.meant :
              ~(Spot(x, n) <= Len(a)) => x.got[n] = x.meant[n] /\ x.meant[n] \in Keys

FillKnows == \A x \in fills : Knows(x, pending.added, rows)
FillRight == FillsWhatItRead /\ FillKnows

LEMMA FillStays ==
  ASSUME NEW p, Whole(p), NEW q, NEW rs, NEW qs, NEW x, Shape(x), Knows(x, p.added, rs), NEW y,
         y.at = x.at, y.from = x.from, y.to = x.to, y.meant = x.meant, y.got = x.got,
         y.steady => x.steady /\ SameNew(p, q) /\ (x.at = "reading" => qs = rs)
  PROVE  Knows(y, q.added, qs)
<1> DEFINE a == p.added
<1> DEFINE b == q.added
<1>1. Len(a) \in Nat
  BY DraftParts DEF Whole
<1>2. ASSUME y.steady
      PROVE  /\ Len(b) = Len(a) /\ \A i \in 1..Len(a) : b[i].name = a[i].name
             /\ x.steady /\ (x.at = "reading" => qs = rs)
  BY <1>2 DEF SameNew
<1>3. \A n : Spot(y, n) = Spot(x, n)
  BY DEF Spot
<1>4. ASSUME x.steady, NEW n \in DOMAIN x.meant, Spot(x, n) <= Len(a)
      PROVE  Spot(x, n) \in 1..Len(a)
  <2>1. x.from \in Nat /\ x.to \in Nat /\ x.from # 0 /\ n \in 1..(x.to - x.from + 1)
    BY <1>4 DEF Shape, Knows
  <2>2. QED
    BY <1>1, <1>4, <2>1 DEF Spot
<1> HIDE DEF a, b
<1>5. ASSUME y.steady
      PROVE  /\ DOMAIN y.meant = 1..(y.to - y.from + 1)
             /\ \A n \in DOMAIN y.meant : Spot(y, n) <= Len(b) => b[Spot(y, n)].name = y.meant[n]
  <2>1. /\ DOMAIN x.meant = 1..(x.to - x.from + 1)
        /\ \A n \in DOMAIN x.meant : Spot(x, n) <= Len(a) => a[Spot(x, n)].name = x.meant[n]
    BY <1>2, <1>5 DEF Knows, a
  <2>2. QED
    BY <1>2, <1>3, <1>4, <1>5, <2>1
<1>6. ASSUME y.steady, y.at = "reading"
      PROVE  /\ y.to <= Len(b) + Len(qs)
             /\ \A n \in DOMAIN y.meant : ~(Spot(y, n) <= Len(b)) => qs[Spot(y, n) - Len(b)] = y.meant[n]
  <2>1. /\ x.to <= Len(a) + Len(rs)
        /\ \A n \in DOMAIN x.meant : ~(Spot(x, n) <= Len(a)) => rs[Spot(x, n) - Len(a)] = x.meant[n]
    BY <1>2, <1>6 DEF Knows, a
  <2>2. QED
    BY <1>2, <1>3, <1>6, <2>1
<1>7. ASSUME y.steady, y.at = "read"
      PROVE  /\ DOMAIN y.got = DOMAIN y.meant
             /\ \A n \in DOMAIN y.meant :
                  ~(Spot(y, n) <= Len(b)) => y.got[n] = y.meant[n] /\ y.meant[n] \in Keys
  <2>1. /\ DOMAIN x.got = DOMAIN x.meant
        /\ \A n \in DOMAIN x.meant :
             ~(Spot(x, n) <= Len(a)) => x.got[n] = x.meant[n] /\ x.meant[n] \in Keys
    BY <1>2, <1>7 DEF Knows, a
  <2>2. QED
    BY <1>2, <1>3, <1>7, <2>1
<1>8. QED
  BY <1>5, <1>6, <1>7 DEF Knows, b

\* The same fills, of the same rows and as many new ones.
LEMMA AllStay ==
  ASSUME Types, FillKnows, SameNew(pending, pending'), rows' = rows, fills' \subseteq fills
  PROVE  FillKnows'
<1>1. ASSUME NEW x \in fills' PROVE Knows(x, pending'.added, rows')
  <2>1. Shape(x) /\ Knows(x, pending.added, rows)
    BY <1>1 DEF Types, FillShape, FillKnows
  <2>2. QED
    BY <2>1, FillStays DEF Types
<1>2. QED
  BY <1>1 DEF FillKnows

LEMMA ShiftedStay ==
  ASSUME Types, FillKnows, Shifts, Len(pending'.added) = Len(pending.added) => SameNew(pending, pending')
  PROVE  FillKnows'
<1>1. ASSUME NEW y \in fills' PROVE Knows(y, pending'.added, rows')
  <2>1. PICK x \in fills :
          /\ y.at = x.at /\ y.from = x.from /\ y.to = x.to /\ y.meant = x.meant /\ y.got = x.got
          /\ y.steady => x.steady /\ Len(pending'.added) = Len(pending.added) /\ (x.at = "reading" => rows' = rows)
    BY <1>1, ShiftsShape DEF Types
  <2>2. Shape(x) /\ Knows(x, pending.added, rows) /\ Whole(pending)
    BY DEF Types, FillShape, FillKnows
  <2>3. y.steady => x.steady /\ SameNew(pending, pending') /\ (x.at = "reading" => rows' = rows)
    BY <2>1
  <2>4. QED
    BY <2>1, <2>2, <2>3, FillStays
<1>2. QED
  BY <1>1 DEF FillKnows

\* A fill that has read knows the rows it is for.
LEMMA ReadKnows ==
  ASSUME Types, NEW x, Shape(x), Knows(x, pending.added, rows), x.at = "reading"
  PROVE  Knows(HavingRead(x), pending.added, rows)
<1> DEFINE card == Cardinality(Places \cap (x.from..x.to))
<1> DEFINE y == HavingRead(x)
<1>1. /\ card \in Nat /\ y.at = "read" /\ y.from = x.from /\ y.to = x.to
      /\ y.meant = x.meant /\ y.steady = x.steady
      /\ y.got = [n \in 1..card |-> RowAt(x.from + n - 1)]
  BY HavingReadShape
<1>2. Added = Len(pending.added) /\ Added \in Nat /\ Len(rows) \in Nat /\ rows \in Seq(Keys)
  BY DraftParts DEF Types, Whole, Added
<1>3. x.from \in Nat /\ x.to \in Nat /\ x.from # 0 /\ x.from <= x.to
  BY DEF Shape
<1>4. x.to <= Added + Len(rows) => card = x.to - x.from + 1
  <2>1. ASSUME x.to <= Added + Len(rows)
        PROVE  Places \cap (x.from..x.to) = x.from..x.to
    BY <1>2, <1>3, <2>1 DEF Places
  <2>2. Cardinality(x.from..x.to) = x.to - x.from + 1
    <3>1. x.from \in Int /\ x.to \in Int /\ ~(x.from > x.to)
      BY <1>3
    <3>2. QED
      BY <3>1, FS_Interval
  <2>3. QED
    BY <2>1, <2>2
<1> HIDE DEF card, y
<1>5. ASSUME x.steady
      PROVE  /\ DOMAIN x.meant = 1..(x.to - x.from + 1)
             /\ \A n \in DOMAIN x.meant : Spot(x, n) <= Added => pending.added[Spot(x, n)].name = x.meant[n]
             /\ x.to <= Added + Len(rows)
             /\ \A n \in DOMAIN x.meant : ~(Spot(x, n) <= Added) => rows[Spot(x, n) - Added] = x.meant[n]
  BY <1>2, <1>5 DEF Knows
<1>6. ASSUME x.steady, NEW n \in DOMAIN x.meant, ~(Spot(x, n) <= Added)
      PROVE  y.got[n] = x.meant[n] /\ x.meant[n] \in Keys
  <2>1. n \in 1..(x.to - x.from + 1) /\ n \in 1..card
    BY <1>4, <1>5, <1>6
  <2>2. y.got[n] = rows[Spot(x, n) - Added] /\ rows[Spot(x, n) - Added] = x.meant[n]
    BY <1>1, <1>5, <1>6, <2>1 DEF RowAt, Spot
  <2>3. Spot(x, n) - Added \in 1..Len(rows)
    <3>1. x.from + n - 1 <= x.to /\ x.from + n - 1 \in Nat /\ x.to <= Added + Len(rows)
      BY <1>3, <1>5, <1>6, <2>1
    <3>2. (x.from + n - 1) - Added \in 1..Len(rows)
      BY <1>2, <1>3, <1>6, <3>1 DEF Spot
    <3>3. QED
      BY <3>2 DEF Spot
  <2>4. rows[Spot(x, n) - Added] \in Keys
    BY <1>2, <2>3
  <2>5. QED
    BY <2>2, <2>4
<1>7. x.steady => DOMAIN y.got = DOMAIN x.meant
  BY <1>1, <1>4, <1>5
<1>8. \A n : Spot(y, n) = Spot(x, n)
  BY <1>1 DEF Spot
<1>9. ASSUME y.steady
      PROVE  /\ DOMAIN y.meant = 1..(y.to - y.from + 1) /\ y.at # "reading"
             /\ \A n \in DOMAIN y.meant : Spot(y, n) <= Added => pending.added[Spot(y, n)].name = y.meant[n]
             /\ DOMAIN y.got = DOMAIN y.meant
             /\ \A n \in DOMAIN y.meant :
                  ~(Spot(y, n) <= Added) => y.got[n] = y.meant[n] /\ y.meant[n] \in Keys
  <2>1. x.steady
    BY <1>1, <1>9
  <2>2. /\ DOMAIN x.meant = 1..(x.to - x.from + 1)
        /\ \A n \in DOMAIN x.meant : Spot(x, n) <= Added => pending.added[Spot(x, n)].name = x.meant[n]
    BY <1>5, <2>1
  <2>3. \A n \in DOMAIN x.meant : ~(Spot(x, n) <= Added) => y.got[n] = x.meant[n] /\ x.meant[n] \in Keys
    BY <1>6, <2>1
  <2>4. DOMAIN y.got = DOMAIN x.meant
    BY <1>7, <2>1
  <2>5. y.meant = x.meant /\ y.from = x.from /\ y.to = x.to /\ y.at = "read"
    BY <1>1
  <2>6. QED
    BY <1>8, <2>2, <2>3, <2>4, <2>5
<1>10. Knows(y, pending.added, rows)
  BY <1>2, <1>9 DEF Knows
<1>11. QED
  BY <1>10 DEF y

LEMMA FillStep ==
  ASSUME Types, FillRight, [Next]_vars
  PROVE  FillRight'
<1>0. Whole(pending) /\ SameNew(pending, pending) /\ Len(pending.added) \in Nat
  BY SameNewFacts, DraftParts DEF Types, Whole
<1>1. CASE EditCell
  <2>1. PICK p : Stage(p) /\ SameNew(pending, p)
    BY <1>1, EditCellStages
  <2>2. pending' = p
    BY <2>1 DEF Stage
  <2>3. UNCHANGED <<rows, fills, astray>>
    BY <1>1, EditCellStages
  <2>4. FillKnows'
    BY <2>1, <2>2, <2>3, AllStay DEF FillRight
  <2>5. QED
    BY <2>3, <2>4 DEF FillRight, FillsWhatItRead
<1>2. CASE Moves
  <2>1. PICK p : Stage(p) /\ Safely(p)
    BY <1>2, MovesStage
  <2>2. pending' = p /\ (Len(p.added) = Len(pending.added) => SameNew(pending, p))
    BY <2>1 DEF Stage, Safely
  <2>3. UNCHANGED <<rows, astray>> /\ Shifts
    BY <1>2, MovesStage
  <2>4. FillKnows'
    BY <2>2, <2>3, ShiftedStay DEF FillRight
  <2>5. QED
    BY <2>3, <2>4 DEF FillRight, FillsWhatItRead
<1>3. CASE StartFill
  <2>1. PICK i \in Places : \E j \in i..(Added + Len(rows)) :
          fills' = fills \cup
            {[at |-> "reading", from |-> i, to |-> j, value |-> edits + 1,
              meant |-> [n \in 1..(j - i + 1) |-> RowAt(i + n - 1)], got |-> <<>>, steady |-> TRUE]}
    BY <1>3 DEF StartFill
  <2>2. PICK j \in i..(Added + Len(rows)) :
          fills' = fills \cup
            {[at |-> "reading", from |-> i, to |-> j, value |-> edits + 1,
              meant |-> [n \in 1..(j - i + 1) |-> RowAt(i + n - 1)], got |-> <<>>, steady |-> TRUE]}
    BY <2>1
  <2> DEFINE x == [at |-> "reading", from |-> i, to |-> j, value |-> edits + 1,
                   meant |-> [n \in 1..(j - i + 1) |-> RowAt(i + n - 1)], got |-> <<>>, steady |-> TRUE]
  <2>3. fills' = fills \cup {x}
    BY <2>2
  <2>4. /\ x.at = "reading" /\ x.from = i /\ x.to = j
        /\ DOMAIN x.meant = 1..(j - i + 1)
        /\ \A n \in 1..(j - i + 1) : x.meant[n] = RowAt(i + n - 1)
    OBVIOUS
  <2> HIDE DEF x
  <2>5. UNCHANGED <<rows, pending, astray>>
    BY <1>3 DEF StartFill, ghosts
  <2>6. j <= Added + Len(rows) /\ Added = Len(pending.added)
    BY <1>0 DEF Types, Added, Places
  <2>7. Knows(x, pending.added, rows)
    BY <2>4, <2>6 DEF Knows, Spot, RowAt
  <2>8. FillKnows'
    BY <2>3, <2>5, <2>7 DEF FillRight, FillKnows
  <2>9. QED
    BY <2>5, <2>8 DEF FillRight, FillsWhatItRead
<1>4. CASE ReadRows
  <2>1. UNCHANGED <<rows, pending, astray>>
    BY <1>4 DEF ReadRows, ghosts
  <2>2. PICK x \in fills :
          /\ x.at = "reading"
          /\ \/ fills' = (fills \ {x}) \cup {HavingRead(x)}
             \/ fills' = fills \ {x}
    BY <1>4 DEF ReadRows, HavingRead
  <2>3. Knows(HavingRead(x), pending.added, rows)
    BY <2>2, ReadKnows DEF Types, FillShape, FillRight, FillKnows
  <2>4. FillKnows'
    BY <2>1, <2>2, <2>3 DEF FillRight, FillKnows
  <2>5. QED
    BY <2>1, <2>4 DEF FillRight, FillsWhatItRead
<1>5. CASE FillRows
  <2>1. PICK x \in fills :
          /\ x.at = "read"
          /\ astray' = (astray \/ (x.steady /\ \E n \in DOMAIN x.got : Target(x, n) # x.meant[n]))
    BY <1>5 DEF FillRows
  <2>2. ASSUME x.steady, NEW n \in DOMAIN x.got PROVE Target(x, n) = x.meant[n]
    <3>1. Knows(x, pending.added, rows)
      BY DEF FillRight, FillKnows
    <3>2. n \in DOMAIN x.meant
      BY <2>1, <2>2, <3>1 DEF Knows
    <3>3. Spot(x, n) <= Added => pending.added[Spot(x, n)].name = x.meant[n]
      BY <2>1, <2>2, <3>1, <3>2 DEF Knows, Added
    <3>4. ~(Spot(x, n) <= Added) => x.got[n] = x.meant[n] /\ x.meant[n] \in Keys
      BY <2>1, <2>2, <3>1, <3>2 DEF Knows, Added
    <3>5. QED
      BY <3>3, <3>4 DEF Target, Spot
  <2>3. ~astray'
    BY <2>1, <2>2 DEF FillRight, FillsWhatItRead
  <2>4. PICK p : Stage(p) /\ SameNew(pending, p)
    BY <1>5, FillRowsStages
  <2>5. pending' = p /\ UNCHANGED rows /\ fills' \subseteq fills
    BY <1>5, <2>4, FillRowsStages DEF Stage
  <2>6. FillKnows'
    BY <2>4, <2>5, AllStay DEF FillRight
  <2>7. QED
    BY <2>3, <2>6 DEF FillRight, FillsWhatItRead
<1>6. CASE Review \/ Answered \/ Consent \/ Writes \/ UNCHANGED vars
  <2>1. UNCHANGED <<rows, pending, fills, astray>>
    BY <1>6 DEF Review, Answered, Consent, Writes, vars, ghosts
  <2>2. FillKnows'
    BY <1>0, <2>1, AllStay DEF FillRight
  <2>3. QED
    BY <2>1, <2>2 DEF FillRight, FillsWhatItRead
<1>7. CASE Applied
  <2>1. UNCHANGED astray
    BY <1>7 DEF Applied, ghosts
  <2>2. FillKnows'
    <3>1. CASE writer = "done"
      <4>1. pending' = Nothing /\ Shifts
        BY <1>7, <3>1 DEF Applied
      <4>2. Len(pending'.added) = Len(pending.added) => SameNew(pending, pending')
        BY <1>0, <4>1, NothingWhole DEF SameNew
      <4>3. QED
        BY <4>1, <4>2, ShiftedStay DEF FillRight
    <3>2. CASE writer # "done"
      <4>1. UNCHANGED <<rows, pending, fills>>
        BY <1>7, <3>2 DEF Applied
      <4>2. QED
        BY <1>0, <4>1, AllStay DEF FillRight
    <3>3. QED
      BY <3>1, <3>2
  <2>3. QED
    BY <2>1, <2>2 DEF FillRight, FillsWhatItRead
<1>8. QED
  BY <1>1, <1>2, <1>3, <1>4, <1>5, <1>6, <1>7 DEF Next, Moves

\* A value for the selected rows goes to them, though the rows were replaced once it had
\* read them, if no new row came or went (Shell.fill, fillRows, setter).
THEOREM FillsHolds == Spec => []FillsWhatItRead
<1>1. Init => FillRight
  BY DEF Init, FillRight, FillKnows, FillsWhatItRead
<1>2. Types /\ FillRight /\ [Next]_vars => FillRight'
  BY FillStep
<1>3. FillRight => FillsWhatItRead
  BY DEF FillRight
<1>4. Spec => []Types
  BY TypesHold
<1>5. QED
  BY <1>1, <1>2, <1>3, <1>4, PTL DEF Spec
==============================================================================
