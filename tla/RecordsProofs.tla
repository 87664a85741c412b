--------------------------- MODULE RecordsProofs ---------------------------
(***************************************************************************)
(* Theorems about Records: what fields() makes of a record, however many   *)
(* entries it has.                                                         *)
(*                                                                         *)
(* The induction theorems of the library take a predicate as a parameter,  *)
(* which no prover here can instantiate.  The induction below is over a    *)
(* set of lengths instead: < is well-founded on Nat, so a set of lengths   *)
(* that is not all of 0 .. L misses a least one.                           *)
(***************************************************************************)
EXTENDS Records, WellFoundedInduction, TLAPS

LEMMA LeastElement ==
    ASSUME NEW T, T \subseteq Nat, T # {}
    PROVE  \E n \in T : \A m \in T : n <= m
<1>1. PICK R : IsWellFoundedOn(R, Nat) /\ \A m, n \in Nat : m < n => <<m, n>> \in R
  <2> DEFINE Less == OpToRel(<, Nat)
  <2>1. IsWellFoundedOn(Less, Nat) /\ \A m, n \in Nat : m < n => <<m, n>> \in Less
    BY NatLessThanWellFounded DEF OpToRel
  <2> HIDE DEF Less
  <2> QED
    BY <2>1
<1>2. PICK n \in T : \A m \in T : ~ (<<m, n>> \in R)
  <2>1. IsWellFoundedOn(R, Nat)
    BY <1>1
  <2> QED
    BY ONLY <2>1, WFMin, T \subseteq Nat, T # {}
<1>3. ASSUME NEW m \in T PROVE n <= m
  <2>1. m \in Nat /\ n \in Nat /\ ~(m < n)
    BY <1>1, <1>2
  <2> QED
    BY <2>1
<1> QED
  BY <1>3

\* Induction up to L: a set of lengths with 0 in it that goes on to the next.
LEMMA AllLengths ==
    ASSUME NEW L \in Nat, NEW S \in SUBSET (0 .. L), 0 \in S,
           \A n \in S : n < L => n + 1 \in S
    PROVE  S = 0 .. L
<1> SUFFICES ASSUME (0 .. L) \ S # {} PROVE FALSE
  OBVIOUS
<1>1. (0 .. L) \ S \subseteq Nat
  OBVIOUS
<1>2. PICK n \in (0 .. L) \ S : \A m \in (0 .. L) \ S : n <= m
  BY <1>1, LeastElement
<1>3. n \in 1 .. L
  BY <1>2
<1>4. n - 1 \in 0 .. L /\ n - 1 < L /\ n - 1 + 1 = n /\ ~(n <= n - 1)
  BY <1>3
<1>5. n - 1 \in S
  BY <1>2, <1>4
<1> QED
  BY <1>2, <1>4, <1>5

-----------------------------------------------------------------------------
Name(data, n) == FieldName(data[n].key)
Value(data, n) == data[n].value

\* dicts[i] is the dict after i entries, as in Fields.
AreDicts(data, n, dicts) ==
    dicts = [i \in 0 .. n |->
                IF i = 0 THEN <<>> ELSE SetItem(dicts[i - 1], Name(data, i), Value(data, i))]

\* Of the first n entries, those whose name no later one of them has.
LastOf(data, n) == {i \in 1 .. n : \A j \in i + 1 .. n : Name(data, j) # Name(data, i)}

\* dict has the last value of each name among the first n entries.
HoldsLast(data, n, dict) ==
    /\ DOMAIN dict = {Name(data, i) : i \in LastOf(data, n)}
    /\ \A i \in LastOf(data, n) : dict[Name(data, i)] = Value(data, i)

LEMMA FieldsAreDicts ==
    ASSUME NEW record
    PROVE  LET data == Data(record)
               dicts == CHOOSE d : AreDicts(data, Len(data), d)
           IN  Fields(record) = dicts[Len(data)]
BY DEF Fields, AreDicts, Name, Value

\* The recursion of Fields has a solution.
LEMMA DictsExist ==
    ASSUME NEW data, Len(data) \in Nat
    PROVE  \E dicts : AreDicts(data, Len(data), dicts)
<1> DEFINE S == {n \in 0 .. Len(data) : \E d : AreDicts(data, n, d)}
<1>1. 0 \in S
  <2>1. AreDicts(data, 0, [i \in 0 .. 0 |-> <<>>])
    BY DEF AreDicts
  <2> QED
    BY <2>1
<1>2. ASSUME NEW n \in S, n < Len(data) PROVE n + 1 \in S
  <2>1. PICK d : AreDicts(data, n, d)
    OBVIOUS
  <2> DEFINE last == SetItem(d[n], Name(data, n + 1), Value(data, n + 1))
             e == [i \in 0 .. n + 1 |-> IF i \in 0 .. n THEN d[i] ELSE last]
             step(i) == IF i = 0 THEN <<>>
                        ELSE SetItem(e[i - 1], Name(data, i), Value(data, i))
  <2>2. n \in Nat
    OBVIOUS
  <2>3. ASSUME NEW i \in 0 .. n + 1 PROVE e[i] = step(i)
    <3>1. CASE i = 0
      BY <2>1, <2>2, <3>1 DEF AreDicts
    <3>2. CASE i \in 1 .. n
      <4>1. i \in 0 .. n /\ i # 0 /\ i - 1 \in 0 .. n /\ i - 1 \in 0 .. n + 1
        BY <2>2, <3>2
      <4>2. e[i] = d[i] /\ e[i - 1] = d[i - 1]
        BY <4>1
      <4>3. d[i] = SetItem(d[i - 1], Name(data, i), Value(data, i))
        BY <2>1, <4>1 DEF AreDicts
      <4> QED
        BY <4>1, <4>2, <4>3
    <3>3. CASE i = n + 1
      <4>1. i \notin 0 .. n /\ i # 0 /\ i - 1 = n /\ n \in 0 .. n /\ n \in 0 .. n + 1
        BY <2>2, <3>3
      <4>2. e[i] = last /\ e[i - 1] = d[n]
        BY <4>1
      <4> QED
        BY <3>3, <4>1, <4>2
    <3> QED
      BY <2>2, <3>1, <3>2, <3>3
  <2>4. e = [i \in 0 .. n + 1 |-> step(i)]
    <3> HIDE DEF step
    <3> QED
      BY <2>3
  <2>5. AreDicts(data, n + 1, e)
    BY <2>4 DEF AreDicts
  <2>6. n + 1 \in 0 .. Len(data)
    BY <1>2
  <2> QED
    BY <2>5, <2>6
<1>3. S = 0 .. Len(data)
  <2> HIDE DEF S
  <2>1. S \in SUBSET (0 .. Len(data))
    BY DEF S
  <2> QED
    BY <1>1, <1>2, <2>1, AllLengths
<1>4. Len(data) \in S
  BY <1>3
<1> QED
  BY <1>4

\* Setting the name of the next entry leaves a dict of last values.
LEMMA SetItemKeepsLast ==
    ASSUME NEW data, NEW n \in Nat, NEW dict, HoldsLast(data, n, dict)
    PROVE  HoldsLast(data, n + 1, SetItem(dict, Name(data, n + 1), Value(data, n + 1)))
<1> DEFINE new == SetItem(dict, Name(data, n + 1), Value(data, n + 1))
<1>1. LastOf(data, n + 1) =
         {n + 1} \cup {i \in LastOf(data, n) : Name(data, i) # Name(data, n + 1)}
  <2>1. ASSUME NEW i \in LastOf(data, n + 1), i # n + 1
        PROVE  i \in LastOf(data, n) /\ Name(data, i) # Name(data, n + 1)
    <3>1. i \in 1 .. n + 1 /\ \A j \in i + 1 .. n + 1 : Name(data, j) # Name(data, i)
      BY DEF LastOf
    <3>2. i \in 1 .. n /\ n + 1 \in i + 1 .. n + 1 /\ i + 1 .. n \subseteq i + 1 .. n + 1
      BY <2>1, <3>1
    <3> QED
      BY <3>1, <3>2 DEF LastOf
  <2>2. ASSUME NEW i \in LastOf(data, n), Name(data, i) # Name(data, n + 1)
        PROVE  i \in LastOf(data, n + 1)
    <3>1. i \in 1 .. n /\ \A j \in i + 1 .. n : Name(data, j) # Name(data, i)
      BY DEF LastOf
    <3>2. i \in 1 .. n + 1 /\ i + 1 .. n + 1 = (i + 1 .. n) \cup {n + 1}
      BY <3>1
    <3> QED
      BY <2>2, <3>1, <3>2 DEF LastOf
  <2>3. n + 1 \in LastOf(data, n + 1)
    <3>1. n + 1 \in 1 .. n + 1 /\ (n + 1) + 1 .. n + 1 = {}
      OBVIOUS
    <3> QED
      BY <3>1 DEF LastOf
  <2> QED
    BY <2>1, <2>2, <2>3
<1>2. /\ DOMAIN new = DOMAIN dict \cup {Name(data, n + 1)}
      /\ new[Name(data, n + 1)] = Value(data, n + 1)
      /\ \A k \in DOMAIN dict : k # Name(data, n + 1) => new[k] = dict[k]
  BY DEF SetItem
<1> HIDE DEF new
<1>3. DOMAIN new = {Name(data, i) : i \in LastOf(data, n + 1)}
  BY <1>1, <1>2 DEF HoldsLast
<1>4. \A i \in LastOf(data, n + 1) : new[Name(data, i)] = Value(data, i)
  BY <1>1, <1>2 DEF HoldsLast
<1>5. HoldsLast(data, n + 1, new)
  BY <1>3, <1>4 DEF HoldsLast
<1> QED
  BY <1>5 DEF new

\* fields() of a record with any number of entries, names repeated at will: the
\* last value of each name, and no other name (Record.fields,
\* records.py:77).
THEOREM FieldsHoldLast ==
    ASSUME NEW record, Len(Data(record)) \in Nat
    PROVE  HoldsLast(Data(record), Len(Data(record)), Fields(record))
<1> DEFINE data == Data(record)
           L == Len(data)
           dicts == CHOOSE d : AreDicts(data, L, d)
           S == {n \in 0 .. L : HoldsLast(data, n, dicts[n])}
<1>1. AreDicts(data, L, dicts)
  BY DictsExist
<1>2. Fields(record) = dicts[L]
  BY FieldsAreDicts
<1>3. L \in Nat
  OBVIOUS
<1> HIDE DEF data, L, dicts
<1>4. 0 \in S
  <2>1. dicts[0] = <<>>
    BY <1>1, <1>3 DEF AreDicts
  <2>2. LastOf(data, 0) = {}
    BY DEF LastOf
  <2>3. HoldsLast(data, 0, dicts[0])
    BY <2>1, <2>2 DEF HoldsLast
  <2> QED
    BY <1>3, <2>3
<1>5. ASSUME NEW n \in S, n < L PROVE n + 1 \in S
  <2>1. n \in Nat /\ n + 1 \in 0 .. L /\ n + 1 # 0 /\ n + 1 - 1 = n
    BY <1>3, <1>5
  <2>2. dicts[n + 1] = SetItem(dicts[n], Name(data, n + 1), Value(data, n + 1))
    BY <1>1, <2>1 DEF AreDicts
  <2>3. HoldsLast(data, n + 1, dicts[n + 1])
    BY <2>1, <2>2, SetItemKeepsLast
  <2> QED
    BY <2>1, <2>3
<1>6. S = 0 .. L
  <2>1. S \in SUBSET (0 .. L)
    OBVIOUS
  <2> HIDE DEF S
  <2> QED
    BY <1>3, <1>4, <1>5, <2>1, AllLengths
<1>7. HoldsLast(data, L, dicts[L])
  <2>1. L \in S
    BY <1>3, <1>6
  <2> QED
    BY <2>1
<1> QED
  BY <1>2, <1>7 DEF data, L
=============================================================================
