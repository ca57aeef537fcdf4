-------------------------- MODULE EventLoopProofs ---------------------------
(***************************************************************************)
(* The list of timers stays sorted, whatever callbacks do to it; and a     *)
(* whole control command reaches the listener of its first word.           *)
(***************************************************************************)
EXTENDS EventLoop, FiniteSetTheorems, SequenceTheorems, WellFoundedInduction, TLAPS

Timer == [timer : Timers, step : Steps, next : 0 .. MaxTime]

(***************************************************************************)
(* A list that upper_bound may search.                                     *)
(***************************************************************************)
Sorted(list) == \A i, j \in 1 .. Len(list) : i < j => list[i].next <= list[j].next

Distinct(list) == \A i, j \in 1 .. Len(list) : list[i].timer = list[j].timer => i = j

(***************************************************************************)
(* The inductive invariant: sorted insertion needs the type of the list,   *)
(* and that a timer is in it once is a part of that type.                  *)
(***************************************************************************)
ListInv == TimerTypeOK /\ ListSorted

ListOK(list) == list \in Seq(Timer) /\ Sorted(list) /\ Distinct(list)

(***************************************************************************)
(* The invariant in terms of the list.                                     *)
(***************************************************************************)
LEMMA ListInvIs == ListInv <=> ListOK(timer_list) /\ now \in 0 .. MaxTime
BY DEF ListInv, ListOK, TimerTypeOK, ListSorted, Sorted, Distinct, Timer

(***************************************************************************)
(* The fields of a timer that are compared and added are numbers.          *)
(***************************************************************************)
LEMMA TimerFields ==
    /\ MaxTime \in Nat
    /\ \A t \in Timer : t.next \in Nat /\ t.next <= MaxTime /\ t.step \in Nat /\ t.step \in Steps
<1>1. MaxTime \in Nat /\ \A x \in Steps : x \in Nat
  BY TimerAssumption DEF TimerAssumption
<1>2. \A t \in Timer : t.next \in 0 .. MaxTime /\ t.step \in Steps
  BY DEF Timer
<1> QED
  BY <1>1, <1>2

-----------------------------------------------------------------------------
(***************************************************************************)
(* In a sorted list upper_bound finds the border: the timers in front of   *)
(* it are due at next or before, those behind it later.                    *)
(***************************************************************************)
LEMMA UpperBoundIsBorder ==
    ASSUME NEW list \in Seq(Timer), Sorted(list), NEW next \in Nat
    PROVE  /\ UpperBound(list, next) \in 0 .. Len(list)
           /\ \A i \in 1 .. Len(list) :
                  list[i].next <= next <=> i <= UpperBound(list, next)
<1> DEFINE n == Len(list)
           S == {i \in 1 .. n : list[i].next <= next}
           k == Cardinality(S)
<1>1. n \in Nat /\ IsFiniteSet(1 .. n) /\ Cardinality(1 .. n) = n
  <2>1. n \in Nat /\ n \in Int /\ 1 \in Int
    OBVIOUS
  <2>2. IsFiniteSet(1 .. n) /\ Cardinality(1 .. n) = IF 1 > n THEN 0 ELSE n - 1 + 1
    BY <2>1, FS_Interval
  <2> QED
    BY <2>1, <2>2
<1>2. IsFiniteSet(S) /\ k <= n
  BY <1>1, FS_Subset
<1>3. k \in Nat
  BY <1>2, FS_CardinalityType
<1>4. \A i \in 1 .. n : list[i].next \in Nat
  <2>1. \A i \in 1 .. n : list[i] \in Timer
    OBVIOUS
  <2> QED
    BY <2>1, TimerFields
<1>5. ASSUME NEW i \in S
      PROVE  i <= k
  <2>1. 1 .. i \subseteq S
    BY <1>4, <1>1 DEF Sorted
  <2>2. Cardinality(1 .. i) <= k
    BY <1>2, <2>1, FS_Subset
  <2>3. Cardinality(1 .. i) = i
    <3>1. i \in Nat /\ 1 <= i /\ i \in Int /\ 1 \in Int
      BY <1>1
    <3>2. Cardinality(1 .. i) = IF 1 > i THEN 0 ELSE i - 1 + 1
      BY <3>1, FS_Interval
    <3> QED
      BY <3>1, <3>2
  <2> QED
    BY <2>2, <2>3
<1>6. ASSUME NEW i \in 1 .. n, i \notin S
      PROVE  k < i
  <2>1. S \subseteq 1 .. (i - 1)
    <3> SUFFICES ASSUME NEW j \in S PROVE j < i
      BY <1>1
    <3>1. j \in 1 .. n /\ i \in 1 .. n /\ list[j].next <= next /\ ~(list[i].next <= next)
      BY <1>6
    <3>2. list[i].next \in Nat /\ list[j].next \in Nat
      BY <1>4, <3>1
    <3>3. i # j
      BY <3>1
    <3>4. ~(i < j)
      BY <3>1, <3>2 DEF Sorted
    <3> QED
      BY <3>1, <3>3, <3>4, <1>1
  <2>2. IsFiniteSet(1 .. (i - 1)) /\ Cardinality(1 .. (i - 1)) = i - 1
    <3>1. i - 1 \in Int /\ 1 <= i /\ i \in Int
      BY <1>1
    <3>2. IsFiniteSet(1 .. (i - 1))
          /\ Cardinality(1 .. (i - 1)) = IF 1 > i - 1 THEN 0 ELSE (i - 1) - 1 + 1
      BY <3>1, FS_Interval
    <3> QED
      BY <3>1, <3>2
  <2>3. k <= i - 1
    BY <2>1, <2>2, FS_Subset
  <2>4. i \in Nat /\ k \in Nat
    BY <1>1, <1>3
  <2> HIDE DEF k
  <2> QED
    BY <2>3, <2>4
<1>7. \A i \in 1 .. n : list[i].next <= next <=> i <= k
  BY <1>1, <1>3, <1>5, <1>6
<1> QED
  BY <1>1, <1>2, <1>3, <1>7 DEF UpperBound

(***************************************************************************)
(* A part of a list, place by place.                                       *)
(***************************************************************************)
LEMMA Part ==
    ASSUME NEW list \in Seq(Timer), NEW m \in Nat, NEW e \in Nat,
           1 <= m, m <= e + 1, e <= Len(list),
           NEW part, part = SubSeq(list, m, e)
    PROVE  /\ part \in Seq(Timer) /\ Len(part) = (e - m) + 1
           /\ \A i \in 1 .. (e - m) + 1 : part[i] = list[(m + i) - 1]
<1>1. \A i \in m .. e : list[i] \in Timer
  OBVIOUS
<1>2. m \in Int /\ e \in Int
  OBVIOUS
<1>3. /\ SubSeq(list, m, e) \in Seq(Timer)
      /\ Len(SubSeq(list, m, e)) = IF m <= e THEN e - m + 1 ELSE 0
      /\ \A i \in 1 .. e - m + 1 : SubSeq(list, m, e)[i] = list[m + i - 1]
  BY <1>1, <1>2, SubSeqProperties
<1>4. Len(part) = (e - m) + 1
  BY <1>3
<1> QED
  BY <1>3, <1>4

(***************************************************************************)
(* Two lists joined, and a list with a timer put in or taken out, place by *)
(* place: m, n and k are lengths and the place.                            *)
(***************************************************************************)
IsJoin(whole, a, m, b, n) ==
    /\ whole \in Seq(Timer) /\ Len(whole) = m + n
    /\ \A i \in 1 .. m : whole[i] = a[i]
    /\ \A i \in m + 1 .. m + n : whole[i] = b[i - m]

IsInserted(new, list, n, k, t) ==
    /\ new \in Seq(Timer) /\ Len(new) = n + 1
    /\ \A i \in 1 .. k : new[i] = list[i]
    /\ new[k + 1] = t
    /\ \A i \in k + 2 .. n + 1 : new[i] = list[i - 1]

IsRemoved(new, list, n, k) ==
    /\ new \in Seq(Timer) /\ Len(new) = n - 1
    /\ \A i \in 1 .. k - 1 : new[i] = list[i]
    /\ \A i \in k .. n - 1 : new[i] = list[i + 1]

(***************************************************************************)
(* Concatenation joins.                                                    *)
(***************************************************************************)
LEMMA Joined ==
    ASSUME NEW a \in Seq(Timer), NEW b \in Seq(Timer),
           NEW m \in Nat, NEW n \in Nat, Len(a) = m, Len(b) = n
    PROVE  IsJoin(a \o b, a, m, b, n)
<1>1. /\ a \o b \in Seq(Timer) /\ Len(a \o b) = m + n
      /\ \A i \in 1 .. m + n : (a \o b)[i] = IF i <= m THEN a[i] ELSE b[i - m]
  BY ConcatProperties
<1>2. PICK whole : whole = a \o b
  OBVIOUS
<1>3. \A i \in 1 .. m + n : whole[i] = IF i <= m THEN a[i] ELSE b[i - m]
  BY <1>1, <1>2
<1>4. \A i \in 1 .. m : whole[i] = a[i]
  BY <1>3
<1>5. \A i \in m + 1 .. m + n : whole[i] = b[i - m]
  BY <1>3
<1> QED
  BY <1>1, <1>2, <1>4, <1>5 DEF IsJoin

(***************************************************************************)
(* The vector operation insert: what is behind the place moves back.       *)
(***************************************************************************)
LEMMA InsertAtPlaces ==
    ASSUME NEW list \in Seq(Timer), NEW n \in Nat, Len(list) = n,
           NEW k \in 0 .. n, NEW t \in Timer,
           NEW new, new = InsertAt(list, k + 1, t)
    PROVE  IsInserted(new, list, n, k, t)
<1>1. PICK front : front = SubSeq(list, 1, k)
  OBVIOUS
<1>2. PICK back : back = SubSeq(list, k + 1, n)
  OBVIOUS
<1>3. front \in Seq(Timer) /\ Len(front) = k /\ \A i \in 1 .. k : front[i] = list[i]
  <2>1. /\ front \in Seq(Timer) /\ Len(front) = (k - 1) + 1
        /\ \A i \in 1 .. (k - 1) + 1 : front[i] = list[(1 + i) - 1]
    BY <1>1, Part
  <2> QED
    BY <2>1
<1>4. /\ back \in Seq(Timer) /\ Len(back) = n - k
      /\ \A i \in 1 .. n - k : back[i] = list[k + i]
  <2>1. /\ back \in Seq(Timer) /\ Len(back) = (n - (k + 1)) + 1
        /\ \A i \in 1 .. (n - (k + 1)) + 1 : back[i] = list[((k + 1) + i) - 1]
    BY <1>2, Part
  <2>2. (n - (k + 1)) + 1 = n - k /\ \A i \in 1 .. n - k : ((k + 1) + i) - 1 = k + i
    OBVIOUS
  <2> QED
    BY <2>1, <2>2
<1>5. PICK one : one = <<t>>
  OBVIOUS
<1>single. one \in Seq(Timer) /\ Len(one) = 1 /\ one[1] = t
  BY <1>5
<1>6. PICK start : start = front \o one
  OBVIOUS
<1>7. /\ start \in Seq(Timer) /\ Len(start) = k + 1
      /\ \A i \in 1 .. k : start[i] = front[i]
      /\ \A i \in k + 1 .. k + 1 : start[i] = one[i - k]
  <2>1. IsJoin(start, front, k, one, 1)
    <3>1. k \in Nat /\ 1 \in Nat
      OBVIOUS
    <3> QED
      BY <3>1, <1>3, <1>single, <1>6, Joined
  <2> QED
    BY <2>1 DEF IsJoin
<1>8. new = start \o back
  <2>1. (k + 1) - 1 = k
    OBVIOUS
  <2> QED
    BY <1>1, <1>2, <1>5, <1>6, <2>1 DEF InsertAt
<1>9. k + 1 \in Nat /\ n - k \in Nat /\ (k + 1) + (n - k) = n + 1
  OBVIOUS
<1>10. /\ new \in Seq(Timer) /\ Len(new) = (k + 1) + (n - k)
       /\ \A i \in 1 .. k + 1 : new[i] = start[i]
       /\ \A i \in (k + 1) + 1 .. (k + 1) + (n - k) : new[i] = back[i - (k + 1)]
  <2>1. PICK p \in Nat, r \in Nat : p = k + 1 /\ r = n - k
    BY <1>9
  <2>2. /\ new \in Seq(Timer) /\ Len(new) = p + r
        /\ \A i \in 1 .. p : new[i] = start[i]
        /\ \A i \in p + 1 .. p + r : new[i] = back[i - p]
    <3>1. Len(start) = p /\ Len(back) = r
      BY <2>1, <1>4, <1>7
    <3>2. start \in Seq(Timer) /\ back \in Seq(Timer)
      BY <1>4, <1>7
    <3>3. IsJoin(new, start, p, back, r)
      BY <3>1, <3>2, <1>8, Joined
    <3> QED
      BY <3>3 DEF IsJoin
  <2> QED
    BY <2>1, <2>2
<1>11. \A i \in 1 .. k : new[i] = list[i]
  BY <1>3, <1>7, <1>10
<1>12. new[k + 1] = t
  <2>1. k + 1 \in 1 .. k + 1 /\ k + 1 \in k + 1 .. k + 1 /\ (k + 1) - k = 1
    OBVIOUS
  <2> QED
    BY <2>1, <1>single, <1>7, <1>10
<1>13. ASSUME NEW i \in k + 2 .. n + 1 PROVE new[i] = list[i - 1]
  <2>1. /\ i \in (k + 1) + 1 .. (k + 1) + (n - k)
        /\ i - (k + 1) \in 1 .. n - k /\ k + (i - (k + 1)) = i - 1
    OBVIOUS
  <2> QED
    BY <1>4, <1>10, <2>1
<1> QED
  BY <1>9, <1>10, <1>11, <1>12, <1>13 DEF IsInserted

(***************************************************************************)
(* The vector operation erase: what is behind the place moves forward.     *)
(***************************************************************************)
LEMMA RemoveAtPlaces ==
    ASSUME NEW list \in Seq(Timer), NEW n \in Nat, Len(list) = n,
           NEW k \in 1 .. n,
           NEW new, new = RemoveAt(list, k)
    PROVE  IsRemoved(new, list, n, k)
<1>1. PICK front : front = SubSeq(list, 1, k - 1)
  OBVIOUS
<1>2. PICK back : back = SubSeq(list, k + 1, n)
  OBVIOUS
<1>3. PICK m \in Nat : m = k - 1 /\ k = m + 1 /\ m <= n
  OBVIOUS
<1>4. front \in Seq(Timer) /\ Len(front) = m /\ \A i \in 1 .. m : front[i] = list[i]
  <2>1. /\ front \in Seq(Timer) /\ Len(front) = (m - 1) + 1
        /\ \A i \in 1 .. (m - 1) + 1 : front[i] = list[(1 + i) - 1]
    BY <1>1, <1>3, Part
  <2> QED
    BY <2>1
<1>5. /\ back \in Seq(Timer) /\ Len(back) = n - k
      /\ \A i \in 1 .. n - k : back[i] = list[k + i]
  <2>1. /\ back \in Seq(Timer) /\ Len(back) = (n - (k + 1)) + 1
        /\ \A i \in 1 .. (n - (k + 1)) + 1 : back[i] = list[((k + 1) + i) - 1]
    BY <1>2, Part
  <2>2. (n - (k + 1)) + 1 = n - k /\ \A i \in 1 .. n - k : ((k + 1) + i) - 1 = k + i
    OBVIOUS
  <2> QED
    BY <2>1, <2>2
<1>6. new = front \o back
  BY <1>1, <1>2 DEF RemoveAt
<1>7. n - k \in Nat /\ m + (n - k) = n - 1
  BY <1>3
<1>8. /\ new \in Seq(Timer) /\ Len(new) = m + (n - k)
      /\ \A i \in 1 .. m : new[i] = front[i]
      /\ \A i \in m + 1 .. m + (n - k) : new[i] = back[i - m]
  <2>1. PICK r \in Nat : r = n - k
    BY <1>7
  <2>2. /\ new \in Seq(Timer) /\ Len(new) = m + r
        /\ \A i \in 1 .. m : new[i] = front[i]
        /\ \A i \in m + 1 .. m + r : new[i] = back[i - m]
    <3>1. Len(front) = m /\ Len(back) = r
      BY <2>1, <1>4, <1>5
    <3>2. IsJoin(new, front, m, back, r)
      BY <3>1, <1>4, <1>5, <1>6, Joined
    <3> QED
      BY <3>2 DEF IsJoin
  <2> QED
    BY <2>1, <2>2
<1>9. \A i \in 1 .. k - 1 : new[i] = list[i]
  BY <1>3, <1>4, <1>8
<1>10. ASSUME NEW i \in k .. n - 1 PROVE new[i] = list[i + 1]
  <2>1. i \in m + 1 .. m + (n - k) /\ i - m \in 1 .. n - k /\ k + (i - m) = i + 1
    BY <1>3
  <2> QED
    BY <1>5, <1>8, <2>1
<1> QED
  BY <1>7, <1>8, <1>9, <1>10 DEF IsRemoved

(***************************************************************************)
(* Sorting in a timer that is not in the list keeps the list in order.     *)
(***************************************************************************)
LEMMA InsertKeepsOrder ==
    ASSUME NEW list, ListOK(list), NEW t \in Timer,
           \A i \in 1 .. Len(list) : list[i].timer # t.timer
    PROVE  ListOK(Insert(list, t))
<1>1. list \in Seq(Timer) /\ Sorted(list) /\ Distinct(list)
  BY DEF ListOK
<1>2. t.next \in Nat
  BY TimerFields
<1>3. PICK k \in 0 .. Len(list) :
          /\ k = UpperBound(list, t.next)
          /\ \A i \in 1 .. Len(list) : list[i].next <= t.next <=> i <= k
  BY <1>1, <1>2, UpperBoundIsBorder
<1>4. PICK new : new = Insert(list, t)
  OBVIOUS
<1>5. new = InsertAt(list, k + 1, t)
  BY <1>3, <1>4 DEF Insert
<1>6. PICK n \in Nat : n = Len(list)
  BY <1>1
<1>7. /\ new \in Seq(Timer) /\ Len(new) = n + 1
      /\ \A i \in 1 .. k : new[i] = list[i]
      /\ new[k + 1] = t
      /\ \A i \in k + 2 .. n + 1 : new[i] = list[i - 1]
  <2>1. k \in 0 .. n
    BY <1>3, <1>6
  <2>2. IsInserted(new, list, n, k, t)
    BY <1>1, <1>5, <1>6, <2>1, InsertAtPlaces
  <2> QED
    BY <2>2 DEF IsInserted
<1>8. \A i \in 1 .. n : list[i].next \in Nat
  <2>1. \A i \in 1 .. n : list[i] \in Timer
    BY <1>1, <1>6
  <2> QED
    BY <2>1, TimerFields
<1>9. Sorted(new)
  <2> SUFFICES ASSUME NEW i \in 1 .. n + 1, NEW j \in 1 .. n + 1, i < j
               PROVE  new[i].next <= new[j].next
    BY <1>7 DEF Sorted
  <2>1. CASE j <= k
    BY <2>1, <1>1, <1>6, <1>7, <1>3 DEF Sorted
  <2>2. CASE j = k + 1
    BY <2>2, <1>3, <1>6, <1>7
  <2>3. CASE j > k + 1 /\ i <= k
    <3>1. i \in 1 .. n /\ j - 1 \in 1 .. n /\ i < j - 1 /\ j \in k + 2 .. n + 1 /\ i \in 1 .. k
      BY <2>3, <1>3, <1>6
    <3>2. new[i] = list[i] /\ new[j] = list[j - 1]
      BY <3>1, <1>7
    <3> QED
      BY <3>1, <3>2, <1>1, <1>6 DEF Sorted
  <2>4. CASE j > k + 1 /\ i = k + 1
    <3>1. k \in 0 .. n
      BY <1>3, <1>6
    <3>2. j - 1 \in 1 .. n /\ ~(j - 1 <= k) /\ j \in k + 2 .. n + 1
      BY <2>4, <3>1
    <3>3. new[i] = t /\ new[j] = list[j - 1]
      BY <2>4, <3>2, <1>7
    <3>4. ~(list[j - 1].next <= t.next)
      BY <3>2, <1>3, <1>6
    <3> QED
      BY <3>2, <3>3, <3>4, <1>2, <1>8
  <2>5. CASE j > k + 1 /\ i > k + 1
    <3>1. /\ i - 1 \in 1 .. n /\ j - 1 \in 1 .. n /\ i - 1 < j - 1
          /\ i \in k + 2 .. n + 1 /\ j \in k + 2 .. n + 1
      BY <2>5, <1>3, <1>6
    <3>2. new[i] = list[i - 1] /\ new[j] = list[j - 1]
      BY <3>1, <1>7
    <3> QED
      BY <3>1, <3>2, <1>1, <1>6 DEF Sorted
  <2> QED
    BY <2>1, <2>2, <2>3, <2>4, <2>5, <1>3, <1>6
<1>10. Distinct(new)
  <2> SUFFICES ASSUME NEW i \in 1 .. n + 1, NEW j \in 1 .. n + 1,
                      new[i].timer = new[j].timer, i < j
               PROVE  FALSE
    BY <1>7 DEF Distinct
  <2>1. CASE j <= k
    BY <2>1, <1>1, <1>6, <1>7, <1>3 DEF Distinct
  <2>2. CASE j = k + 1
    BY <2>2, <1>3, <1>6, <1>7
  <2>3. CASE j > k + 1 /\ i <= k
    <3>1. i \in 1 .. n /\ j - 1 \in 1 .. n /\ i < j - 1 /\ j \in k + 2 .. n + 1 /\ i \in 1 .. k
      BY <2>3, <1>3, <1>6
    <3>2. new[i] = list[i] /\ new[j] = list[j - 1]
      BY <3>1, <1>7
    <3> QED
      BY <3>1, <3>2, <1>1, <1>6 DEF Distinct
  <2>4. CASE j > k + 1 /\ i = k + 1
    <3>1. k \in 0 .. n
      BY <1>3, <1>6
    <3>2. j - 1 \in 1 .. n /\ j \in k + 2 .. n + 1
      BY <2>4, <3>1
    <3>3. new[i] = t /\ new[j] = list[j - 1]
      BY <2>4, <3>2, <1>7
    <3> QED
      BY <3>2, <3>3, <1>6
  <2>5. CASE j > k + 1 /\ i > k + 1
    <3>1. /\ i - 1 \in 1 .. n /\ j - 1 \in 1 .. n /\ i - 1 < j - 1
          /\ i \in k + 2 .. n + 1 /\ j \in k + 2 .. n + 1
      BY <2>5, <1>3, <1>6
    <3>2. new[i] = list[i - 1] /\ new[j] = list[j - 1]
      BY <3>1, <1>7
    <3> QED
      BY <3>1, <3>2, <1>1, <1>6 DEF Distinct
  <2> QED
    BY <2>1, <2>2, <2>3, <2>4, <2>5, <1>3, <1>6
<1> QED
  BY <1>4, <1>7, <1>9, <1>10 DEF ListOK

(***************************************************************************)
(* Erasing a timer keeps the order of the others.                          *)
(***************************************************************************)
LEMMA RemoveKeepsOrder ==
    ASSUME NEW list, ListOK(list), NEW k \in 1 .. Len(list)
    PROVE  ListOK(RemoveAt(list, k))
<1>1. list \in Seq(Timer) /\ Sorted(list) /\ Distinct(list)
  BY DEF ListOK
<1>2. PICK new : new = RemoveAt(list, k)
  OBVIOUS
<1>3. PICK n \in Nat : n = Len(list)
  BY <1>1
<1>4. /\ new \in Seq(Timer) /\ Len(new) = n - 1
      /\ \A i \in 1 .. k - 1 : new[i] = list[i]
      /\ \A i \in k .. n - 1 : new[i] = list[i + 1]
  <2>1. k \in 1 .. n
    BY <1>3
  <2>2. IsRemoved(new, list, n, k)
    BY <1>1, <1>2, <1>3, <2>1, RemoveAtPlaces
  <2> QED
    BY <2>2 DEF IsRemoved
<1> DEFINE Old(i) == IF i < k THEN i ELSE i + 1
<1>5. \A i \in 1 .. n - 1 : Old(i) \in 1 .. n /\ new[i] = list[Old(i)]
  BY <1>3, <1>4
<1>6. \A i, j \in 1 .. n - 1 : (i < j => Old(i) < Old(j)) /\ (Old(i) = Old(j) => i = j)
  BY <1>3
<1> HIDE DEF Old
<1>7. Sorted(new)
  BY <1>1, <1>3, <1>4, <1>5, <1>6 DEF Sorted
<1>8. Distinct(new)
  BY <1>1, <1>3, <1>4, <1>5, <1>6 DEF Distinct
<1> QED
  BY <1>2, <1>4, <1>7, <1>8 DEF ListOK

(***************************************************************************)
(* Taking the first timer off leaves a list in order, without that timer.  *)
(***************************************************************************)
LEMMA TailKeepsOrder ==
    ASSUME NEW list, ListOK(list), list # <<>>
    PROVE  /\ Head(list) \in Timer
           /\ ListOK(Tail(list))
           /\ \A i \in 1 .. Len(Tail(list)) : Tail(list)[i].timer # Head(list).timer
<1>1. list \in Seq(Timer) /\ Sorted(list) /\ Distinct(list)
  BY DEF ListOK
<1>2. PICK new : new = Tail(list)
  OBVIOUS
<1>3. PICK n \in Nat : n = Len(list) /\ n > 0
  BY <1>1
<1>4. /\ new \in Seq(Timer) /\ Len(new) = n - 1
      /\ \A i \in 1 .. n - 1 : new[i] = list[i + 1]
  BY <1>1, <1>2, <1>3
<1>5. Head(list) = list[1] /\ Head(list) \in Timer
  BY <1>1, <1>3
<1>6. Sorted(new)
  BY <1>1, <1>3, <1>4 DEF Sorted
<1>7. Distinct(new)
  BY <1>1, <1>3, <1>4 DEF Distinct
<1>8. \A i \in 1 .. n - 1 : new[i].timer # list[1].timer
  BY <1>1, <1>3, <1>4 DEF Distinct
<1> QED
  BY <1>2, <1>4, <1>5, <1>6, <1>7, <1>8 DEF ListOK
-----------------------------------------------------------------------------
(***************************************************************************)
(* CreateTimer: the new timer is sorted in.                                *)
(***************************************************************************)
LEMMA CreateTimerKeeps ==
    ASSUME ListInv, NEW timer \in Timers, NEW step \in Steps, CreateTimer(timer, step)
    PROVE  ListInv'
<1>1. ListOK(timer_list) /\ now \in 0 .. MaxTime
  BY ListInvIs
<1>2. PICK t : t = Start(timer, step)
  OBVIOUS
<1>3. /\ now + step <= MaxTime /\ now' = now
      /\ timer_list' = Insert(timer_list, t)
      /\ \A i \in 1 .. Len(timer_list) : timer_list[i].timer # timer
  BY <1>2 DEF CreateTimer, AddTimer
<1>4. now + step \in 0 .. MaxTime
  BY <1>1, <1>3, TimerAssumption DEF TimerAssumption
<1>5. t \in Timer /\ t.timer = timer
  BY <1>2, <1>4 DEF Start, Timer
<1>6. ListOK(timer_list')
  BY <1>1, <1>3, <1>5, InsertKeepsOrder
<1> QED
  BY <1>1, <1>3, <1>6 DEF ListInv, ListOK, TimerTypeOK, ListSorted, Sorted, Distinct, Timer

(***************************************************************************)
(* Tick: the first timer is taken off, moved on and sorted in again.       *)
(***************************************************************************)
LEMMA FiresTimerKeeps ==
    ASSUME ListInv, FiresTimer
    PROVE  ListInv'
<1>1. ListOK(timer_list) /\ now \in 0 .. MaxTime
  BY ListInvIs
<1>2. PICK t : t = Head(timer_list)
  OBVIOUS
<1>3. /\ timer_list # <<>> /\ t.next + t.step <= MaxTime /\ now' = now
      /\ timer_list' = Insert(Tail(timer_list), Step(t))
  BY <1>2 DEF FiresTimer, GetNextActiveTimer
<1>4. t \in Timer /\ ListOK(Tail(timer_list))
      /\ \A i \in 1 .. Len(Tail(timer_list)) : Tail(timer_list)[i].timer # t.timer
  BY <1>1, <1>2, <1>3, TailKeepsOrder
<1>5. t.next + t.step \in 0 .. MaxTime
  BY <1>3, <1>4, TimerFields
<1>6. Step(t) \in Timer /\ Step(t).timer = t.timer
  BY <1>4, <1>5 DEF Step, Timer
<1>7. ListOK(timer_list')
  BY <1>3, <1>4, <1>6, InsertKeepsOrder
<1> QED
  BY <1>1, <1>3, <1>7 DEF ListInv, ListOK, TimerTypeOK, ListSorted, Sorted, Distinct, Timer

(***************************************************************************)
(* DestroyTimer: the timer is erased, or the process is gone.              *)
(***************************************************************************)
LEMMA DestroyTimerKeeps ==
    ASSUME ListInv, NEW i \in 1 .. Len(timer_list), DestroyTimer(i)
    PROVE  ListInv'
<1>1. ListOK(timer_list) /\ now \in 0 .. MaxTime
  BY ListInvIs
<1>2. now' = now /\ (timer_list' = RemoveAt(timer_list, i) \/ timer_list' = timer_list)
  BY DEF DestroyTimer, RemoveTimer, timerVars
<1>3. ListOK(timer_list')
  BY <1>1, <1>2, RemoveKeepsOrder
<1> QED
  BY <1>1, <1>2, <1>3 DEF ListInv, ListOK, TimerTypeOK, ListSorted, Sorted, Distinct, Timer

(***************************************************************************)
(* The other callbacks leave the list alone.                               *)
(***************************************************************************)
LEMMA ListStep == ListInv /\ [Next]_vars => ListInv'
<1> SUFFICES ASSUME ListInv, [Next]_vars PROVE ListInv'
  OBVIOUS
<1> DEFINE Untouched == timer_list' = timer_list /\ now' = now
<1>1. ASSUME Untouched PROVE ListInv'
  BY <1>1 DEF ListInv, TimerTypeOK, ListSorted
<1>2. CASE signal_stop_handler
  BY <1>1, <1>2 DEF signal_stop_handler, timerVars
<1>3. CASE TickBegins
  BY <1>1, <1>3 DEF TickBegins, timerVars
<1>4. CASE FiresTimer
  BY <1>4, FiresTimerKeeps
<1>5. CASE TickEnds
  BY <1>1, <1>5 DEF TickEnds, timerVars
<1>6. CASE HandlesCtrlMsg
  BY <1>1, <1>6 DEF HandlesCtrlMsg, timerVars
<1>7. CASE \E timer \in Timers, step \in Steps : CreateTimer(timer, step)
  BY <1>7, CreateTimerKeeps
<1>8. CASE \E i \in 1 .. Len(timer_list) : DestroyTimer(i)
  BY <1>8, DestroyTimerKeeps
<1>9. CASE \E d \in Datagrams : Sends(d)
  BY <1>1, <1>9 DEF Sends, timerVars
<1>10. CASE TimePasses
  <2>1. timer_list' = timer_list /\ now < MaxTime /\ now' = now + 1
    BY <1>10 DEF TimePasses, Clock
  <2>2. now \in 0 .. MaxTime
    BY DEF ListInv, TimerTypeOK
  <2>3. now' \in 0 .. MaxTime
    BY <2>1, <2>2, TimerFields
  <2> QED
    BY <2>1, <2>3 DEF ListInv, TimerTypeOK, ListSorted
<1>11. CASE UNCHANGED vars
  BY <1>1, <1>11 DEF vars, timerVars
<1> QED
  BY <1>2, <1>3, <1>4, <1>5, <1>6, <1>7, <1>8, <1>9, <1>10, <1>11 DEF Next

(***************************************************************************)
(* TimerMgr starts with an empty list.                                     *)
(***************************************************************************)
LEMMA ListInit == TimerInit => ListInv
<1> SUFFICES ASSUME TimerInit PROVE ListInv
  OBVIOUS
<1>1. timer_list = <<>> /\ now = 0
  BY DEF TimerInit
<1>2. now \in 0 .. MaxTime
  BY <1>1, TimerFields
<1> QED
  BY <1>1, <1>2 DEF ListInv, TimerTypeOK, ListSorted

(***************************************************************************)
(* ListSorted: after every operation of TimerMgr, and whatever timers      *)
(* callbacks create and destroy between two turns of Tick, the head of the *)
(* list is the timer that is due first.                                    *)
(***************************************************************************)
THEOREM TimersStaySorted == Spec => []ListSorted
<1>1. Init => ListInv
  BY ListInit DEF Init
<1>2. ListInv => ListSorted
  BY DEF ListInv
<1> QED
  BY <1>1, <1>2, ListStep, PTL DEF Spec

-----------------------------------------------------------------------------
(***************************************************************************)
(* Induction over the natural numbers, with a set in the place of a        *)
(* predicate: a smallest number outside of the set cannot exist.           *)
(***************************************************************************)
LEMMA Induction ==
    ASSUME NEW S, 0 \in S, \A n \in Nat : n \in S => n + 1 \in S
    PROVE  \A n \in Nat : n \in S
<1>1. PICK T : T = {n \in Nat : n \notin S}
  OBVIOUS
<1>2. SUFFICES ASSUME T # {} PROVE FALSE
  BY <1>1
<1>3. PICK m \in T : \A k \in T : ~(<<k, m>> \in OpToRel(<, Nat))
  <2>1. T \subseteq Nat
    BY <1>1
  <2>2. QED
    BY <1>2, <2>1, NatLessThanWellFounded, WFMin
<1>4. ASSUME NEW k \in Nat, k < m PROVE k \in S
  BY <1>1, <1>3, <1>4 DEF OpToRel
<1>5. m \in Nat /\ m \notin S /\ m # 0
  BY <1>1
<1>6. m - 1 \in Nat /\ m - 1 \in S /\ (m - 1) + 1 = m
  BY <1>4, <1>5
<1>7. QED
  BY <1>5, <1>6

-----------------------------------------------------------------------------
(***************************************************************************)
(* The loop of libevent_get_arguments is well defined: the recursion       *)
(* equation of Turns has a solution.                                       *)
(***************************************************************************)
IsTurns(f, text, n) ==
    f = [k \in 0 .. n |-> IF k = 0 THEN Entered(text) ELSE Turn(f[k - 1])]

(***************************************************************************)
(* Every number of turns has such a function, by induction on the turns.   *)
(***************************************************************************)
LEMMA TurnsExist ==
    ASSUME NEW text PROVE \A n \in Nat : \E f : IsTurns(f, text, n)
<1>1. PICK S : S = {n \in Nat : \E f : IsTurns(f, text, n)}
  OBVIOUS
<1>2. 0 \in S
  <2>1. PICK f : f = [k \in 0 .. 0 |-> Entered(text)]
    OBVIOUS
  <2>2. f = [k \in 0 .. 0 |-> IF k = 0 THEN Entered(text) ELSE Turn(f[k - 1])]
    BY <2>1
  <2>3. QED
    BY <1>1, <2>2 DEF IsTurns
<1>3. ASSUME NEW n \in Nat, n \in S PROVE n + 1 \in S
  <2>1. PICK g : IsTurns(g, text, n)
    BY <1>1, <1>3
  <2>2. PICK f : f = [k \in 0 .. n + 1 |-> IF k = n + 1 THEN Turn(g[n]) ELSE g[k]]
    OBVIOUS
  <2>3. ASSUME NEW k \in 0 .. n + 1
        PROVE  f[k] = IF k = 0 THEN Entered(text) ELSE Turn(f[k - 1])
    <3>1. CASE k = n + 1
      BY <2>2, <3>1
    <3>2. CASE k # n + 1
      <4>1. k \in 0 .. n /\ f[k] = g[k]
        BY <2>2, <3>2
      <4>2. k # 0 => k - 1 \in 0 .. n + 1 /\ f[k - 1] = g[k - 1]
        BY <2>2, <4>1
      <4>3. QED
        BY <2>1, <4>1, <4>2 DEF IsTurns
    <3>3. QED
      BY <3>1, <3>2
  <2>4. IsTurns(f, text, n + 1)
    BY <2>2, <2>3 DEF IsTurns
  <2>5. QED
    BY <1>1, <2>4
<1>4. \A n \in Nat : n \in S
  BY <1>2, <1>3, Induction
<1>5. QED
  BY <1>1, <1>4

(***************************************************************************)
(* Turns(text)[n] is where the loop stands after n turns.                  *)
(***************************************************************************)
LEMMA TurnsAre ==
    ASSUME NEW text
    PROVE  /\ Turns(text)[0] = Entered(text)
           /\ \A n \in 0 .. MAX_ARGUMENTS_NUM : Turns(text)[n + 1] = Turn(Turns(text)[n])
<1>1. PICK m \in Nat : m = MAX_ARGUMENTS_NUM + 1
  BY ControlAssumption
<1>2. \E f : IsTurns(f, text, m)
  BY <1>1, TurnsExist
<1>3. Turns(text) = CHOOSE f : IsTurns(f, text, m)
  BY <1>1, Zenon DEF Turns, IsTurns
<1>4. IsTurns(Turns(text), text, m)
  BY <1>2, <1>3
<1>5. PICK f : f = Turns(text)
  OBVIOUS
<1>6. f = [k \in 0 .. m |-> IF k = 0 THEN Entered(text) ELSE Turn(f[k - 1])]
  BY <1>4, <1>5 DEF IsTurns
<1>7. f[0] = Entered(text)
  BY <1>6
<1>8. ASSUME NEW n \in 0 .. MAX_ARGUMENTS_NUM PROVE f[n + 1] = Turn(f[n])
  <2>1. n + 1 \in 0 .. m /\ n + 1 # 0 /\ (n + 1) - 1 = n
    BY <1>1, ControlAssumption
  <2>2. f[n + 1] = Turn(f[(n + 1) - 1])
    BY <1>6, <2>1
  <2>3. QED
    BY <2>1, <2>2
<1>9. QED
  BY <1>5, <1>7, <1>8

-----------------------------------------------------------------------------
(***************************************************************************)
(* Strings in an array.  FirstOf finds the first place, and it is the only *)
(* one with that description.                                              *)
(***************************************************************************)
IsFirst(msg, i, stop, j) ==
    /\ j \in i .. Len(msg)
    /\ msg[j] \in stop
    /\ \A k \in i .. j - 1 : msg[k] \notin stop

(***************************************************************************)
(* There is a first place when there is any, and it is no later.           *)
(***************************************************************************)
LEMMA FirstOfIsFirst ==
    ASSUME NEW msg \in Seq(Chars), NEW i \in Nat, NEW stop,
           NEW z \in i .. Len(msg), msg[z] \in stop
    PROVE  IsFirst(msg, i, stop, FirstOf(msg, i, stop)) /\ FirstOf(msg, i, stop) <= z
<1>1. PICK L \in Nat : L = Len(msg)
  OBVIOUS
<1>2. PICK S : S = {n \in Nat : \A j \in i .. L : j <= n => msg[j] \notin stop}
  OBVIOUS
<1>3. \E j \in i .. L : IsFirst(msg, i, stop, j)
  <2> SUFFICES ASSUME ~\E j \in i .. L : IsFirst(msg, i, stop, j) PROVE FALSE
    OBVIOUS
  <2>1. ASSUME NEW n \in Nat, \A j \in i .. L : j < n => msg[j] \notin stop
        PROVE  \A j \in i .. L : j <= n => msg[j] \notin stop
    <3>1. ASSUME NEW j \in i .. L, j = n PROVE msg[j] \notin stop
      <4>1. \A k \in i .. j - 1 : k \in i .. L /\ k < n
        BY <3>1
      <4>2. \A k \in i .. j - 1 : msg[k] \notin stop
        BY <2>1, <4>1
      <4>3. QED
        BY <1>1, <4>2 DEF IsFirst
    <3>2. \A j \in i .. L : j <= n => j < n \/ j = n
      OBVIOUS
    <3>3. QED
      BY <2>1, <3>1, <3>2
  <2>2. 0 \in S
    <3>1. \A j \in i .. L : j < 0 => msg[j] \notin stop
      OBVIOUS
    <3>2. QED
      BY <1>2, <2>1, <3>1
  <2>3. ASSUME NEW n \in Nat, n \in S PROVE n + 1 \in S
    <3>1. \A j \in i .. L : j < n + 1 => j <= n
      OBVIOUS
    <3>2. \A j \in i .. L : j < n + 1 => msg[j] \notin stop
      BY <1>2, <2>3, <3>1
    <3>3. n + 1 \in Nat
      OBVIOUS
    <3>4. QED
      BY <1>2, <2>1, <3>2, <3>3
  <2>4. z \in Nat /\ z \in i .. L
    BY <1>1
  <2>5. z \in S
    BY <2>2, <2>3, <2>4, Induction
  <2>6. QED
    BY <1>2, <2>4, <2>5
<1>4. PICK f : f = FirstOf(msg, i, stop)
  OBVIOUS
<1>5. f = CHOOSE j \in i .. Len(msg) : msg[j] \in stop /\ \A k \in i .. j - 1 : msg[k] \notin stop
  BY <1>4, Zenon DEF FirstOf
<1>6. \E j \in i .. Len(msg) : msg[j] \in stop /\ \A k \in i .. j - 1 : msg[k] \notin stop
  BY <1>1, <1>3, Zenon DEF IsFirst
<1>7. IsFirst(msg, i, stop, f)
  BY <1>5, <1>6, Zenon DEF IsFirst
<1>8. f <= z
  <2>1. f \in Int /\ z \in Int
    BY <1>7 DEF IsFirst
  <2>2. ~(f <= z) => z \in i .. f - 1
    BY <2>1
  <2>3. QED
    BY <1>7, <2>2 DEF IsFirst
<1>9. QED
  BY <1>4, <1>7, <1>8

(***************************************************************************)
(* A place with the description of the first one is the one FirstOf finds. *)
(***************************************************************************)
LEMMA OneFirst ==
    ASSUME NEW msg \in Seq(Chars), NEW i \in Nat, NEW stop, NEW j, IsFirst(msg, i, stop, j)
    PROVE  FirstOf(msg, i, stop) = j
<1>1. j \in i .. Len(msg) /\ msg[j] \in stop
  BY DEF IsFirst
<1>2. PICK f : f = FirstOf(msg, i, stop) /\ IsFirst(msg, i, stop, f) /\ f <= j
  BY <1>1, FirstOfIsFirst
<1>3. f \in Int /\ j \in Int /\ i <= f
  BY <1>1, <1>2 DEF IsFirst
<1>4. ~(f < j)
  <2>1. f < j => f \in i .. j - 1
    BY <1>3
  <2>2. QED
    BY <1>2, <2>1 DEF IsFirst
<1>5. QED
  BY <1>2, <1>3, <1>4

(***************************************************************************)
(* Overwriting one place with a NUL leaves the others.                     *)
(***************************************************************************)
LEMMA PutOne ==
    ASSUME NEW msg \in Seq(Chars), NEW p \in 1 .. Len(msg), NEW r, r = [msg EXCEPT ![p] = NUL]
    PROVE  /\ r \in Seq(Chars) /\ Len(r) = Len(msg)
           /\ \A i \in 1 .. Len(msg) : r[i] = IF i = p THEN NUL ELSE msg[i]
<1>1. NUL \in Chars /\ DOMAIN msg = 1 .. Len(msg) /\ Len(msg) \in Nat
  BY DEF Chars
<1>2. r \in Seq(Chars) /\ Len(r) = Len(msg)
  BY <1>1
<1>3. \A i \in 1 .. Len(msg) : r[i] = IF i = p THEN NUL ELSE msg[i]
  BY <1>1
<1>4. QED
  BY <1>2, <1>3

(***************************************************************************)
(* Two NULs in a row: a token that is closed at the first one leaves the   *)
(* loop at the second one, where it finds nothing.                         *)
(***************************************************************************)
NulsAt(msg, e) == e >= 1 /\ e + 1 <= Len(msg) /\ msg[e] = NUL /\ msg[e + 1] = NUL

(***************************************************************************)
(* strtok_r before two NULs: it leaves what is before its start as it is,  *)
(* ptr is behind the start and no further than the first NUL, and what is  *)
(* from there on stays.                                                    *)
(***************************************************************************)
LEMMA StrtokStaysBefore ==
    ASSUME NEW msg \in Seq(Chars), NEW e \in Nat, NulsAt(msg, e),
           NEW start \in 1 .. e + 1, NEW t, t = strtok_r(msg, start)
    PROVE  /\ t.msg \in Seq(Chars) /\ Len(t.msg) = Len(msg) /\ t.found \in BOOLEAN
           /\ t.found => t.ptr \in start .. e
           /\ \A i \in 1 .. Len(msg) : i < start \/ i >= e => t.msg[i] = msg[i]
<1>1. PICK token : token = FirstOf(msg, start, Chars \ Delimiters)
  OBVIOUS
<1>2. PICK end : end = FirstOf(msg, token, Delimiters \cup {NUL})
  OBVIOUS
<1>3. t = IF msg[token] = NUL
            THEN [found |-> FALSE, msg |-> msg, ptr |-> start]
            ELSE [found |-> TRUE, msg |-> [msg EXCEPT ![end] = NUL],
                  ptr |-> IF msg[end] = NUL THEN end ELSE end + 1]
  BY <1>1, <1>2, Zenon DEF strtok_r
<1>4. CASE msg[token] = NUL
  <2>1. t = [found |-> FALSE, msg |-> msg, ptr |-> start]
    BY <1>3, <1>4
  <2>2. QED
    BY <2>1
<1>5. CASE msg[token] # NUL
  <2>1. /\ Len(msg) \in Nat /\ e >= 1 /\ e + 1 <= Len(msg) /\ msg[e] = NUL /\ msg[e + 1] = NUL
        /\ start \in Nat /\ start >= 1 /\ start <= e + 1
    BY DEF NulsAt
  <2>2. NUL \in Chars \ Delimiters /\ NUL \in Delimiters \cup {NUL}
    BY ControlAssumption DEF Chars
  <2>3. e + 1 \in start .. Len(msg) /\ msg[e + 1] \in Chars \ Delimiters
    BY <2>1, <2>2
  <2>4. IsFirst(msg, start, Chars \ Delimiters, token) /\ token <= e + 1
    BY <1>1, <2>1, <2>3, FirstOfIsFirst
  <2>5. token \in start .. Len(msg)
    BY <2>4 DEF IsFirst
  <2>6. token \in Nat /\ token >= start /\ token < e
    <3>1. token # e + 1 /\ token # e
      BY <1>5, <2>1
    <3>2. QED
      BY <2>1, <2>4, <2>5, <3>1
  <2>7. e \in token .. Len(msg) /\ msg[e] \in Delimiters \cup {NUL}
    BY <2>1, <2>2, <2>6
  <2>8. IsFirst(msg, token, Delimiters \cup {NUL}, end) /\ end <= e
    BY <1>2, <2>6, <2>7, FirstOfIsFirst
  <2>9. end \in token .. Len(msg)
    BY <2>8 DEF IsFirst
  <2>10. end \in Nat /\ end >= start /\ end \in 1 .. Len(msg) /\ (end # e => end < e)
    BY <2>1, <2>6, <2>8, <2>9
  <2>11. PICK r : r = [msg EXCEPT ![end] = NUL]
    OBVIOUS
  <2>12. /\ t.found = TRUE /\ t.msg = r
         /\ t.ptr = IF msg[end] = NUL THEN end ELSE end + 1
    BY <1>3, <1>5, <2>11
  <2>13. t.ptr \in start .. e
    <3>1. CASE end = e
      BY <2>1, <2>10, <2>12, <3>1
    <3>2. CASE end # e
      BY <2>1, <2>10, <2>12, <3>2
    <3>3. QED
      BY <3>1, <3>2
  <2>14. /\ r \in Seq(Chars) /\ Len(r) = Len(msg)
         /\ \A i \in 1 .. Len(msg) : r[i] = IF i = end THEN NUL ELSE msg[i]
    BY <2>10, <2>11, PutOne
  <2>15. \A i \in 1 .. Len(msg) : i < start \/ i >= e => r[i] = msg[i]
    <3>1. \A i \in 1 .. Len(msg) : (i < start \/ i >= e) /\ i = end => i = e
      BY <2>1, <2>10
    <3>2. QED
      BY <2>1, <2>14, <3>1
  <2>16. QED
    BY <2>12, <2>13, <2>14, <2>15
<1>6. QED
  BY <1>4, <1>5

-----------------------------------------------------------------------------
(***************************************************************************)
(* The loop over a text with two NULs at e: its state is typed, it has not *)
(* come further than the second NUL, and what is from e on stands.         *)
(***************************************************************************)
LoopOK(s, text, e) ==
    /\ s \in [msg : Seq(Chars), start : Nat, starts : Seq(1 .. Len(text)), ended : BOOLEAN]
    /\ Len(s.msg) = Len(text) /\ Len(s.starts) <= MAX_ARGUMENTS_NUM
    /\ s.start \in 1 .. e + 1
    /\ \A i \in 1 .. Len(text) : i >= e => s.msg[i] = text[i]

(***************************************************************************)
(* What is fixed once the first argument has been cut: the loop has left   *)
(* the places up to f, the text stands there and is closed.                *)
(***************************************************************************)
FirstCut(s, text, f) ==
    /\ s.start > f
    /\ \A i \in 1 .. f - 1 : s.msg[i] = text[i]
    /\ s.msg[f] = NUL
    /\ s.starts # <<>> /\ s.starts[1] = 1

(***************************************************************************)
(* The loop before its first turn.                                         *)
(***************************************************************************)
LEMMA EnteredOK ==
    ASSUME NEW text \in Seq(Chars), NEW e \in Nat, NulsAt(text, e)
    PROVE  LoopOK(Entered(text), text, e)
<1>1. PICK s : s = [msg |-> text, start |-> 1, starts |-> <<>>, ended |-> FALSE]
  OBVIOUS
<1>2. s \in [msg : Seq(Chars), start : Nat, starts : Seq(1 .. Len(text)), ended : BOOLEAN]
  BY <1>1
<1>3. Len(s.starts) = 0 /\ 0 <= MAX_ARGUMENTS_NUM /\ 1 \in 1 .. e + 1
  BY <1>1, ControlAssumption DEF NulsAt
<1>4. QED
  BY <1>1, <1>2, <1>3 DEF Entered, LoopOK

(***************************************************************************)
(* The three ways a turn can go.                                           *)
(***************************************************************************)
LEMMA TurnCases ==
    ASSUME NEW s, NEW t, t = strtok_r(s.msg, s.start)
    PROVE  /\ s.ended => Turn(s) = s
           /\ ~s.ended /\ t.found /\ Len(s.starts) < MAX_ARGUMENTS_NUM =>
                Turn(s) = [msg |-> [t.msg EXCEPT ![t.ptr] = NUL], start |-> t.ptr + 1,
                           starts |-> Append(s.starts, s.start), ended |-> FALSE]
           /\ ~s.ended /\ ~(t.found /\ Len(s.starts) < MAX_ARGUMENTS_NUM) =>
                Turn(s) = [msg |-> t.msg, start |-> s.start, starts |-> s.starts, ended |-> TRUE]
<1>1. s.ended => Turn(s) = s
  BY DEF Turn
<1>2. ~s.ended /\ t.found /\ Len(s.starts) < MAX_ARGUMENTS_NUM =>
        Turn(s) = [msg |-> [t.msg EXCEPT ![t.ptr] = NUL], start |-> t.ptr + 1,
                   starts |-> Append(s.starts, s.start), ended |-> FALSE]
  BY DEF Turn
<1>3. ~s.ended /\ ~(t.found /\ Len(s.starts) < MAX_ARGUMENTS_NUM) =>
        Turn(s) = [msg |-> t.msg, start |-> s.start, starts |-> s.starts, ended |-> TRUE]
  BY DEF Turn
<1>4. QED
  BY <1>1, <1>2, <1>3

(***************************************************************************)
(* A turn keeps the types, does not pass the two NULs, and leaves what has *)
(* been cut.                                                               *)
(***************************************************************************)
LEMMA TurnKeeps ==
    ASSUME NEW text \in Seq(Chars), NEW e \in Nat, NulsAt(text, e), NEW s, LoopOK(s, text, e)
    PROVE  /\ LoopOK(Turn(s), text, e)
           /\ \A f \in 1 .. Len(text) : FirstCut(s, text, f) => FirstCut(Turn(s), text, f)
<1>1. PICK t : t = strtok_r(s.msg, s.start)
  OBVIOUS
<1>len. PICK len \in Nat : len = Len(text) /\ e >= 1 /\ e + 1 <= len
  BY DEF NulsAt
<1>2. /\ s.msg \in Seq(Chars) /\ Len(s.msg) = len /\ s.start \in 1 .. e + 1
      /\ s.starts \in Seq(1 .. len) /\ s.ended \in BOOLEAN
      /\ Len(s.starts) \in Nat /\ Len(s.starts) <= MAX_ARGUMENTS_NUM
      /\ \A i \in 1 .. len : i >= e => s.msg[i] = text[i]
  BY <1>len DEF LoopOK
<1>nuls. NulsAt(s.msg, e)
  <2>1. e \in 1 .. len /\ e + 1 \in 1 .. len
    BY <1>len
  <2>2. QED
    BY <1>len, <1>2, <2>1 DEF NulsAt
<1>3. /\ t.msg \in Seq(Chars) /\ Len(t.msg) = len /\ t.found \in BOOLEAN
      /\ t.found => t.ptr \in s.start .. e
      /\ \A i \in 1 .. len : i < s.start \/ i >= e => t.msg[i] = s.msg[i]
  <2>1. /\ t.msg \in Seq(Chars) /\ Len(t.msg) = Len(s.msg) /\ t.found \in BOOLEAN
        /\ t.found => t.ptr \in s.start .. e
        /\ \A i \in 1 .. Len(s.msg) : i < s.start \/ i >= e => t.msg[i] = s.msg[i]
    <3>1. PICK m, start : m = s.msg /\ start = s.start
      OBVIOUS
    <3>2. m \in Seq(Chars) /\ start \in 1 .. e + 1 /\ NulsAt(m, e) /\ t = strtok_r(m, start)
      BY <1>1, <1>2, <1>nuls, <3>1
    <3>3. /\ t.msg \in Seq(Chars) /\ Len(t.msg) = Len(m) /\ t.found \in BOOLEAN
          /\ t.found => t.ptr \in start .. e
          /\ \A i \in 1 .. Len(m) : i < start \/ i >= e => t.msg[i] = m[i]
      BY <3>2, StrtokStaysBefore
    <3>4. QED
      BY <3>1, <3>3, Zenon
  <2>2. Len(s.msg) = len
    BY <1>2
  <2>3. QED
    BY <2>1, <2>2, Zenon
<1>4. CASE s.ended
  BY <1>1, <1>4, TurnCases
<1>5. CASE ~s.ended /\ t.found /\ Len(s.starts) < MAX_ARGUMENTS_NUM
  <2>1. PICK m, a : m = [t.msg EXCEPT ![t.ptr] = NUL] /\ a = Append(s.starts, s.start)
    OBVIOUS
  <2>2. Turn(s) = [msg |-> m, start |-> t.ptr + 1, starts |-> a, ended |-> FALSE]
    BY <1>1, <1>5, <2>1, TurnCases
  <2>ptr. PICK p \in Nat : p = t.ptr /\ p \in 1 .. len /\ p >= s.start /\ p <= e
    BY <1>len, <1>2, <1>3, <1>5
  <2>3. /\ m \in Seq(Chars) /\ Len(m) = len
        /\ \A i \in 1 .. len : m[i] = IF i = p THEN NUL ELSE t.msg[i]
    BY <1>3, <2>1, <2>ptr, PutOne
  <2>4. a \in Seq(1 .. len) /\ Len(a) = Len(s.starts) + 1
    <3>1. s.start \in 1 .. len
      BY <1>len, <1>2
    <3>2. QED
      BY <1>2, <2>1, <3>1
  <2>5. p + 1 \in 1 .. e + 1 /\ Len(s.starts) + 1 <= MAX_ARGUMENTS_NUM
    <3>1. p + 1 \in 1 .. e + 1
      BY <2>ptr
    <3>2. PICK k \in Nat, max \in Nat : k = Len(s.starts) /\ max = MAX_ARGUMENTS_NUM
      BY <1>2, ControlAssumption
    <3>3. k < max => k + 1 <= max
      OBVIOUS
    <3>4. QED
      BY <1>5, <3>1, <3>2, <3>3
  <2>6. LoopOK(Turn(s), text, e)
    <3>1. Turn(s).msg = m /\ Turn(s).starts = a /\ Turn(s).start = p + 1
      BY <2>2, <2>ptr
    <3>2. Turn(s) \in [msg : Seq(Chars), start : Nat, starts : Seq(1 .. len), ended : BOOLEAN]
      BY <2>2, <2>3, <2>4, <2>5, <2>ptr
    <3>3. Len(a) <= MAX_ARGUMENTS_NUM
      BY <2>4, <2>5
    <3>4. ASSUME NEW i \in 1 .. len, i >= e PROVE m[i] = text[i]
      <4>1. i = p => i = e
        BY <2>ptr, <3>4
      <4>2. text[e] = NUL /\ t.msg[i] = s.msg[i] /\ s.msg[i] = text[i]
        BY <1>2, <1>3, <3>4 DEF NulsAt
      <4>3. QED
        BY <2>3, <4>1, <4>2
    <3>5. QED
      BY <1>len, <2>3, <2>5, <3>1, <3>2, <3>3, <3>4 DEF LoopOK
  <2>7. ASSUME NEW f \in 1 .. len, FirstCut(s, text, f) PROVE FirstCut(Turn(s), text, f)
    <3>1. s.start > f /\ p + 1 > f /\ p # f
      BY <1>2, <2>ptr, <2>7 DEF FirstCut
    <3>2. \A i \in 1 .. f : i \in 1 .. len /\ i < s.start /\ i # p
      BY <1>2, <2>ptr, <3>1
    <3>3. \A i \in 1 .. f : m[i] = s.msg[i]
      BY <1>3, <2>3, <3>2
    <3>4. f \in 1 .. f /\ \A i \in 1 .. f - 1 : i \in 1 .. f
      OBVIOUS
    <3>5. s.starts # <<>> /\ Len(s.starts) >= 1 /\ a[1] = s.starts[1] /\ a # <<>>
      <4>1. s.starts \in Seq(1 .. len) /\ s.starts # <<>> /\ a = Append(s.starts, s.start)
        BY <1>2, <2>1, <2>7 DEF FirstCut
      <4>2. Len(s.starts) \in Nat /\ Len(s.starts) >= 1
        BY <4>1
      <4>3. a # <<>>
        BY <2>4, <4>2
      <4>4. a[1] = s.starts[1]
        BY <4>1, <4>2
      <4>5. QED
        BY <4>1, <4>2, <4>3, <4>4
    <3>6. QED
      BY <2>2, <2>7, <2>ptr, <3>1, <3>3, <3>4, <3>5 DEF FirstCut
  <2>8. QED
    BY <1>len, <2>6, <2>7
<1>6. CASE ~s.ended /\ ~(t.found /\ Len(s.starts) < MAX_ARGUMENTS_NUM)
  <2>1. Turn(s) = [msg |-> t.msg, start |-> s.start, starts |-> s.starts, ended |-> TRUE]
    BY <1>1, <1>6, TurnCases
  <2>2. LoopOK(Turn(s), text, e)
    <3>1. Turn(s) \in [msg : Seq(Chars), start : Nat, starts : Seq(1 .. len), ended : BOOLEAN]
      BY <1>2, <1>3, <2>1
    <3>2. \A i \in 1 .. len : i >= e => t.msg[i] = text[i]
      BY <1>2, <1>3
    <3>3. QED
      BY <1>len, <1>2, <1>3, <2>1, <3>1, <3>2 DEF LoopOK
  <2>3. ASSUME NEW f \in 1 .. len, FirstCut(s, text, f) PROVE FirstCut(Turn(s), text, f)
    <3>1. \A i \in 1 .. f : i \in 1 .. len /\ i < s.start
      BY <1>2, <2>3 DEF FirstCut
    <3>2. \A i \in 1 .. f : t.msg[i] = s.msg[i]
      BY <1>3, <3>1
    <3>3. f \in 1 .. f /\ \A i \in 1 .. f - 1 : i \in 1 .. f
      OBVIOUS
    <3>4. QED
      BY <2>1, <2>3, <3>2, <3>3 DEF FirstCut
  <2>4. QED
    BY <1>len, <2>2, <2>3
<1>7. QED
  BY <1>2, <1>4, <1>5, <1>6

(***************************************************************************)
(* The first turn: a text that begins with a letter is cut at its first    *)
(* delimiter or NUL.                                                       *)
(***************************************************************************)
LEMMA FirstTurnCuts ==
    ASSUME NEW text \in Seq(Chars), NEW f \in 1 .. Len(text), text[1] \in Letters,
           NEW e \in Nat, NulsAt(text, e), IsFirst(text, 1, Delimiters \cup {NUL}, f)
    PROVE  FirstCut(Turn(Entered(text)), text, f)
<1>1. PICK s : s = Entered(text)
  OBVIOUS
<1>2. /\ s.msg = text /\ s.start = 1 /\ s.starts = <<>> /\ s.ended = FALSE
      /\ Len(s.starts) = 0
  BY <1>1 DEF Entered
<1>3. Len(text) \in Nat /\ 1 \in 1 .. Len(text)
  OBVIOUS
<1>4. text[1] \in Chars \ Delimiters /\ text[1] # NUL
  BY ControlAssumption DEF Chars
<1>5. FirstOf(text, 1, Chars \ Delimiters) = 1
  <2>1. IsFirst(text, 1, Chars \ Delimiters, 1)
    BY <1>3, <1>4 DEF IsFirst
  <2>2. QED
    BY <2>1, OneFirst
<1>6. FirstOf(text, 1, Delimiters \cup {NUL}) = f
  BY OneFirst
<1>7. PICK t : t = strtok_r(text, 1)
  OBVIOUS
<1>r. PICK r : r = [text EXCEPT ![f] = NUL]
  OBVIOUS
<1>9. t = [found |-> TRUE, msg |-> r, ptr |-> IF text[f] = NUL THEN f ELSE f + 1]
  BY <1>4, <1>5, <1>6, <1>7, <1>r, Zenon DEF strtok_r
<1>inside. t.found => t.ptr \in 1 .. e
  <2>1. 1 \in 1 .. e + 1
    BY DEF NulsAt
  <2>2. QED
    BY <1>7, <2>1, StrtokStaysBefore
<1>10. PICK p \in Nat : p = t.ptr /\ (p = f \/ p = f + 1) /\ p \in 1 .. Len(text)
  BY <1>3, <1>9, <1>inside DEF NulsAt
<1>13. /\ r \in Seq(Chars) /\ Len(r) = Len(text)
       /\ \A i \in 1 .. Len(text) : r[i] = IF i = f THEN NUL ELSE text[i]
  BY <1>r, PutOne
<1>11. PICK m : m = [r EXCEPT ![p] = NUL]
  OBVIOUS
<1>12. Turn(s) = [msg |-> m, start |-> p + 1, starts |-> Append(<<>>, 1), ended |-> FALSE]
  <2>1. t.found /\ t.msg = r /\ 0 < MAX_ARGUMENTS_NUM
    BY <1>9, ControlAssumption
  <2>2. QED
    BY <1>2, <1>7, <1>10, <1>11, <2>1, TurnCases
<1>14. \A i \in 1 .. Len(text) : m[i] = IF i = p THEN NUL ELSE r[i]
  BY <1>10, <1>11, <1>13, PutOne
<1>15. \A i \in 1 .. f - 1 : i \in 1 .. Len(text) /\ i # f /\ i # p
  BY <1>3, <1>10
<1>16. \A i \in 1 .. f - 1 : m[i] = text[i]
  BY <1>13, <1>14, <1>15
<1>17. m[f] = NUL
  BY <1>13, <1>14
<1>18. Append(<<>>, 1) # <<>> /\ Append(<<>>, 1)[1] = 1
  OBVIOUS
<1>19. QED
  BY <1>1, <1>10, <1>12, <1>16, <1>17, <1>18 DEF FirstCut

(***************************************************************************)
(* All turns, by induction.                                                *)
(***************************************************************************)
LEMMA TurnsOK ==
    ASSUME NEW text \in Seq(Chars), NEW e \in Nat, NulsAt(text, e),
           NEW n \in 0 .. MAX_ARGUMENTS_NUM + 1
    PROVE  LoopOK(Turns(text)[n], text, e)
<1>1. PICK S : S = {k \in Nat : k <= MAX_ARGUMENTS_NUM + 1 => LoopOK(Turns(text)[k], text, e)}
  OBVIOUS
<1>3. 0 \in S
  BY <1>1, EnteredOK, TurnsAre
<1>4. ASSUME NEW k \in Nat, k \in S PROVE k + 1 \in S
  <2>1. CASE k <= MAX_ARGUMENTS_NUM
    <3>1. k \in 0 .. MAX_ARGUMENTS_NUM /\ k <= MAX_ARGUMENTS_NUM + 1
      BY <2>1, ControlAssumption
    <3>2. LoopOK(Turns(text)[k], text, e) /\ Turns(text)[k + 1] = Turn(Turns(text)[k])
      BY <1>1, <1>4, <3>1, TurnsAre
    <3>3. LoopOK(Turns(text)[k + 1], text, e)
      BY <3>2, TurnKeeps
    <3>4. QED
      BY <1>1, <3>3
  <2>2. CASE ~(k <= MAX_ARGUMENTS_NUM)
    BY <1>1, <2>2, ControlAssumption
  <2>3. QED
    BY <2>1, <2>2
<1>5. n \in Nat /\ n <= MAX_ARGUMENTS_NUM + 1
  BY ControlAssumption
<1>6. n \in S
  BY <1>3, <1>4, <1>5, Induction
<1>7. QED
  BY <1>1, <1>5, <1>6

(***************************************************************************)
(* Once cut, the first argument stands until the loop ends.                *)
(***************************************************************************)
LEMMA TurnsKeepFirstCut ==
    ASSUME NEW text \in Seq(Chars), NEW f \in 1 .. Len(text), text[1] \in Letters,
           NEW e \in Nat, NulsAt(text, e), IsFirst(text, 1, Delimiters \cup {NUL}, f)
    PROVE  FirstCut(Turns(text)[MAX_ARGUMENTS_NUM + 1], text, f)
<1>1. PICK S : S = {k \in Nat : k <= MAX_ARGUMENTS_NUM => FirstCut(Turns(text)[k + 1], text, f)}
  OBVIOUS
<1>2. 0 \in S
  <2>1. 0 \in 0 .. MAX_ARGUMENTS_NUM
    BY ControlAssumption
  <2>2. Turns(text)[0 + 1] = Turn(Entered(text))
    BY <2>1, TurnsAre
  <2>3. QED
    BY <1>1, <2>2, FirstTurnCuts
<1>3. ASSUME NEW k \in Nat, k \in S PROVE k + 1 \in S
  <2>1. CASE k + 1 <= MAX_ARGUMENTS_NUM
    <3>1. /\ k + 1 \in 0 .. MAX_ARGUMENTS_NUM /\ k + 1 \in 0 .. MAX_ARGUMENTS_NUM + 1
          /\ k <= MAX_ARGUMENTS_NUM
      BY <2>1, ControlAssumption
    <3>2. /\ FirstCut(Turns(text)[k + 1], text, f)
          /\ Turns(text)[(k + 1) + 1] = Turn(Turns(text)[k + 1])
      BY <1>1, <1>3, <3>1, TurnsAre
    <3>3. LoopOK(Turns(text)[k + 1], text, e)
      BY <3>1, TurnsOK
    <3>4. FirstCut(Turns(text)[(k + 1) + 1], text, f)
      BY <3>2, <3>3, TurnKeeps
    <3>5. QED
      BY <1>1, <3>4
  <2>2. CASE ~(k + 1 <= MAX_ARGUMENTS_NUM)
    BY <1>1, <2>2
  <2>3. QED
    BY <2>1, <2>2
<1>4. MAX_ARGUMENTS_NUM \in Nat
  BY ControlAssumption
<1>5. MAX_ARGUMENTS_NUM \in S
  BY <1>2, <1>3, <1>4, Induction
<1>6. QED
  BY <1>1, <1>4, <1>5

-----------------------------------------------------------------------------
(***************************************************************************)
(* libevent_get_arguments: its types, and its first argument.              *)
(***************************************************************************)
LEMMA StringsAreTyped ==
    ASSUME NEW msg \in Seq(Chars), NEW i \in 1 .. Len(msg), msg[Len(msg)] = NUL
    PROVE  StringAt(msg, i) \in Seq(Chars)
<1>1. PICK L \in Nat : L = Len(msg) /\ i \in Nat /\ i >= 1 /\ L \in i .. Len(msg) /\ msg[L] \in {NUL}
  OBVIOUS
<1>2. PICK f : f = FirstOf(msg, i, {NUL}) /\ f \in i .. L
  BY <1>1, FirstOfIsFirst DEF IsFirst
<1>3. f - 1 \in Int /\ i \in Int /\ \A k \in i .. f - 1 : k \in 1 .. L
  <2>1. i \in Int /\ i >= 1 /\ f \in Int /\ f <= L
    BY <1>1, <1>2
  <2>2. QED
    BY <2>1
<1>4. \A k \in i .. f - 1 : msg[k] \in Chars
  BY <1>1, <1>3
<1>5. SubSeq(msg, i, f - 1) \in Seq(Chars)
  BY <1>3, <1>4, SubSeqProperties
<1>6. QED
  BY <1>2, <1>5 DEF StringAt

(***************************************************************************)
(* libevent_get_arguments returns at most MAX_ARGUMENTS_NUM arguments,     *)
(* leaves an array of the same length and, where there are two NULs in a   *)
(* row, looks for nothing and changes nothing behind them.                 *)
(***************************************************************************)
LEMMA ArgumentsAreTyped ==
    ASSUME NEW text \in Seq(Chars), text[Len(text)] = NUL, NEW e \in Nat, NulsAt(text, e),
           NEW r, r = libevent_get_arguments(text)
    PROVE  /\ r.msg \in Seq(Chars) /\ Len(r.msg) = Len(text)
           /\ r.argv \in Seq(Seq(Chars)) /\ Len(r.argv) <= MAX_ARGUMENTS_NUM
           /\ r.start \in 1 .. e + 1
           /\ \A i \in 1 .. Len(text) : i >= e => r.msg[i] = text[i]
<1>1. PICK s : s = Turns(text)[MAX_ARGUMENTS_NUM + 1]
  OBVIOUS
<1>2. LoopOK(s, text, e)
  <2>1. MAX_ARGUMENTS_NUM + 1 \in 0 .. MAX_ARGUMENTS_NUM + 1
    BY ControlAssumption
  <2>2. QED
    BY <1>1, <2>1, TurnsOK
<1>3. r = [msg |-> s.msg, start |-> s.start,
           argv |-> [i \in DOMAIN s.starts |-> StringAt(s.msg, s.starts[i])]]
  BY <1>1, Zenon DEF libevent_get_arguments
<1>4. PICK a, m, n, len : a = s.starts /\ m = s.msg /\ n = Len(s.starts) /\ len = Len(text)
  OBVIOUS
<1>types. /\ n \in Nat /\ m \in Seq(Chars) /\ DOMAIN a = 1 .. n
           /\ n <= MAX_ARGUMENTS_NUM /\ Len(m) = len
           /\ \A i \in 1 .. n : a[i] \in 1 .. len
  <2>1. /\ s.starts \in Seq(1 .. len) /\ s.msg \in Seq(Chars)
        /\ Len(s.msg) = len /\ Len(s.starts) <= MAX_ARGUMENTS_NUM
    BY <1>2, <1>4 DEF LoopOK
  <2>2. /\ Len(s.starts) \in Nat /\ DOMAIN s.starts = 1 .. Len(s.starts)
        /\ \A i \in 1 .. Len(s.starts) : s.starts[i] \in 1 .. len
    BY <2>1
  <2>3. QED
    BY <1>4, <2>1, <2>2
<1>closed. m[len] = NUL
  <2>1. len \in 1 .. len /\ len >= e
    BY <1>4 DEF NulsAt
  <2>2. QED
    BY <1>2, <1>4, <2>1 DEF LoopOK
<1>5. r.msg = m /\ r.start = s.start /\ r.argv = [i \in 1 .. n |-> StringAt(m, a[i])]
  BY <1>3, <1>4, <1>types
<1>6. \A i \in 1 .. n : StringAt(m, a[i]) \in Seq(Chars)
  BY <1>types, <1>closed, StringsAreTyped
<1>7. r.argv \in Seq(Seq(Chars)) /\ Len(r.argv) = n
  BY <1>5, <1>6, <1>types
<1>8. r.start \in 1 .. e + 1 /\ \A i \in 1 .. len : i >= e => r.msg[i] = text[i]
  BY <1>2, <1>4, <1>5 DEF LoopOK
<1>9. QED
  BY <1>4, <1>types, <1>5, <1>7, <1>8

(***************************************************************************)
(* The first argument of a text that begins with a letter is the text up   *)
(* to its first delimiter or NUL, whatever follows.                        *)
(***************************************************************************)
LEMMA FirstArgument ==
    ASSUME NEW text \in Seq(Chars), NEW f \in 1 .. Len(text), text[1] \in Letters,
           NEW e \in Nat, NulsAt(text, e), IsFirst(text, 1, Delimiters \cup {NUL}, f),
           NEW r, r = libevent_get_arguments(text)
    PROVE  r.argv # <<>> /\ r.argv[1] = SubSeq(text, 1, f - 1)
<1>1. PICK s : s = Turns(text)[MAX_ARGUMENTS_NUM + 1]
  OBVIOUS
<1>2. LoopOK(s, text, e) /\ FirstCut(s, text, f)
  <2>1. MAX_ARGUMENTS_NUM + 1 \in 0 .. MAX_ARGUMENTS_NUM + 1
    BY ControlAssumption
  <2>2. QED
    BY <1>1, <2>1, TurnsOK, TurnsKeepFirstCut
<1>3. r = [msg |-> s.msg, start |-> s.start,
           argv |-> [i \in DOMAIN s.starts |-> StringAt(s.msg, s.starts[i])]]
  BY <1>1, Zenon DEF libevent_get_arguments
<1>4. 1 \in DOMAIN s.starts /\ s.starts[1] = 1
  <2>1. s.starts \in Seq(1 .. Len(text)) /\ s.starts # <<>> /\ s.starts[1] = 1
    BY <1>2 DEF LoopOK, FirstCut
  <2>2. QED
    BY <2>1
<1>5. PICK m \in Seq(Chars) : m = s.msg /\ Len(m) = Len(text)
  BY <1>2 DEF LoopOK
<1>6. r.argv[1] = StringAt(m, 1) /\ r.argv # <<>>
  BY <1>3, <1>4, <1>5
<1>8. FirstOf(m, 1, {NUL}) = f
  <2>1. \A i \in 1 .. f - 1 : m[i] = text[i]
    BY <1>2, <1>5 DEF FirstCut
  <2>2. \A i \in 1 .. f - 1 : m[i] \notin {NUL}
    BY <2>1 DEF IsFirst
  <2>3. m[f] = NUL
    BY <1>2, <1>5 DEF FirstCut
  <2>4. IsFirst(m, 1, {NUL}, f)
    BY <1>5, <2>2, <2>3 DEF IsFirst
  <2>5. QED
    BY <1>5, <2>4, OneFirst
<1>9. StringAt(m, 1) = SubSeq(m, 1, f - 1)
  BY <1>5, <1>8 DEF StringAt
<1>10. SubSeq(m, 1, f - 1) = SubSeq(text, 1, f - 1)
  <2>1. \A i \in 1 .. f - 1 : m[i] = text[i]
    BY <1>2, <1>5 DEF FirstCut
  <2>2. QED
    BY <2>1, <1>5
<1>11. QED
  BY <1>6, <1>9, <1>10

-----------------------------------------------------------------------------
(***************************************************************************)
(* The copy has the length of ctrl_msg, and the datagram is at its front.  *)
(***************************************************************************)
LEMMA CopiedIs ==
    ASSUME NEW all \in Seq(Chars), NEW len \in Nat, len <= Len(all), len <= MAX_CTRL_MSG_LEN,
           ctrl_msg \in Seq(Chars), Len(ctrl_msg) = MAX_CTRL_MSG_LEN
    PROVE  /\ Copied(all, len) \in Seq(Chars) /\ Len(Copied(all, len)) = MAX_CTRL_MSG_LEN
           /\ Copied(all, len)[MAX_CTRL_MSG_LEN] = NUL
           /\ \A i \in 1 .. len : Copied(all, len)[i] =
                                     IF i = MAX_CTRL_MSG_LEN THEN NUL ELSE all[i]
           /\ \A i \in len + 1 .. MAX_CTRL_MSG_LEN - 1 : Copied(all, len)[i] = ctrl_msg[i]
<1>1. PICK N \in Nat \ {0} : N = MAX_CTRL_MSG_LEN
  BY ControlAssumption
<1>2. Len(all) \in Nat /\ len <= N /\ Len(ctrl_msg) = N /\ len \in Int /\ len + 1 \in Int /\ 1 \in Int /\ N \in Int
  BY <1>1
<1>3. PICK a, b : a = SubSeq(all, 1, len) /\ b = SubSeq(ctrl_msg, len + 1, N)
  OBVIOUS
<1>4. /\ a \in Seq(Chars) /\ Len(a) = IF 1 <= len THEN len - 1 + 1 ELSE 0
      /\ \A i \in 1 .. len - 1 + 1 : a[i] = all[1 + i - 1]
  <2>1. \A i \in 1 .. len : i \in 1 .. Len(all)
    BY <1>2
  <2>2. \A i \in 1 .. len : all[i] \in Chars
    BY <2>1
  <2>3. QED
    BY <1>2, <1>3, <2>2, SubSeqProperties
<1>5. /\ b \in Seq(Chars) /\ Len(b) = IF len + 1 <= N THEN N - (len + 1) + 1 ELSE 0
      /\ \A i \in 1 .. N - (len + 1) + 1 : b[i] = ctrl_msg[(len + 1) + i - 1]
  <2>1. \A i \in len + 1 .. N : i \in 1 .. Len(ctrl_msg)
    BY <1>2
  <2>2. \A i \in len + 1 .. N : ctrl_msg[i] \in Chars
    BY <2>1
  <2>3. QED
    BY <1>2, <1>3, <2>2, SubSeqProperties
<1>6. Len(a) = len /\ Len(b) = N - len /\ Len(a) + Len(b) = N
  BY <1>2, <1>4, <1>5
<1>7. \A i \in 1 .. len : a[i] = all[i]
  <2>1. \A i \in 1 .. len : i \in 1 .. len - 1 + 1 /\ 1 + i - 1 = i
    OBVIOUS
  <2>2. QED
    BY <1>4, <2>1
<1>8. PICK c : c = a \o b
  OBVIOUS
<1>9. /\ c \in Seq(Chars) /\ Len(c) = Len(a) + Len(b)
      /\ \A i \in 1 .. Len(a) + Len(b) : c[i] = IF i <= Len(a) THEN a[i] ELSE b[i - Len(a)]
  BY <1>4, <1>5, <1>8, ConcatProperties
<1>10. Len(c) = N /\ \A i \in 1 .. len : i \in 1 .. N /\ c[i] = all[i]
  <2>1. \A i \in 1 .. len : i \in 1 .. N /\ i <= Len(a)
    BY <1>2, <1>6
  <2>2. QED
    BY <1>6, <1>7, <1>9, <2>1
<1>left. \A i \in len + 1 .. N : i \in 1 .. N /\ c[i] = ctrl_msg[i]
  <2>1. ASSUME NEW i \in len + 1 .. N
        PROVE  /\ i \in 1 .. N /\ i - len \in 1 .. N - (len + 1) + 1
               /\ (len + 1) + (i - len) - 1 = i /\ ~(i <= Len(a)) /\ Len(a) = len
    BY <1>2, <1>6
  <2>2. \A i \in len + 1 .. N : c[i] = b[i - len] /\ b[i - len] = ctrl_msg[i]
    BY <1>5, <1>6, <1>9, <2>1
  <2>3. QED
    BY <2>1, <2>2
<1>11. PICK r : r = [c EXCEPT ![N] = NUL]
  OBVIOUS
<1>12. /\ r \in Seq(Chars) /\ Len(r) = N
       /\ \A i \in 1 .. N : r[i] = IF i = N THEN NUL ELSE c[i]
  <2>1. NUL \in Chars /\ N \in 1 .. Len(c) /\ DOMAIN c = 1 .. N
    BY <1>9, <1>10 DEF Chars
  <2>2. r \in Seq(Chars) /\ Len(r) = Len(c)
    BY <1>9, <1>11, <2>1, ExceptSeq
  <2>3. \A i \in 1 .. N : r[i] = IF i = N THEN NUL ELSE c[i]
    BY <1>11, <2>1
  <2>4. QED
    BY <1>10, <2>2, <2>3
<1>13. r = Copied(all, len)
  BY <1>1, <1>3, <1>8, <1>11 DEF Copied
<1>14. N \in 1 .. N /\ \A i \in len + 1 .. N - 1 : i \in len + 1 .. N /\ i # N
  BY <1>2
<1>15. QED
  BY <1>1, <1>10, <1>left, <1>12, <1>13, <1>14

(***************************************************************************)
(* ctrl_msg and what lies behind it, as libevent_get_arguments sees them.  *)
(***************************************************************************)
MemoryOK(msg, rest, text) ==
    /\ rest \in Seq(Chars) /\ text \in Seq(Chars)
    /\ Len(text) = MAX_CTRL_MSG_LEN + Len(rest)
    /\ Len(text) > MAX_CTRL_MSG_LEN
    /\ NulsAt(text, Len(text) - 1) /\ text[Len(text)] = NUL
    /\ \A i \in 1 .. MAX_CTRL_MSG_LEN : text[i] = msg[i]
    /\ \A i \in 1 .. Len(rest) : text[MAX_CTRL_MSG_LEN + i] = rest[i]

(***************************************************************************)
(* ctrl_msg in memory, whatever lies behind it.                            *)
(***************************************************************************)
LEMMA MemoryIs ==
    ASSUME NEW msg \in Seq(Chars), Len(msg) = MAX_CTRL_MSG_LEN, NEW rest \in Behind,
           NEW text, text = msg \o rest
    PROVE  MemoryOK(msg, rest, text)
<1>1. PICK N \in Nat \ {0}, B \in Nat : N = MAX_CTRL_MSG_LEN /\ B = BEHIND
  BY ControlAssumption
<1>2. PICK g \in [1 .. B -> Chars] : rest = g \o <<NUL, NUL>>
  BY <1>1 DEF Behind
<1>3. g \in Seq(Chars) /\ Len(g) = B /\ <<NUL, NUL>> \in Seq(Chars) /\ Len(<<NUL, NUL>>) = 2
  <2>1. NUL \in Chars
    BY DEF Chars
  <2>2. QED
    BY <2>1
<1>4. /\ rest \in Seq(Chars) /\ Len(rest) = B + 2
      /\ \A i \in 1 .. B + 2 : rest[i] = IF i <= B THEN g[i] ELSE <<NUL, NUL>>[i - B]
  BY <1>2, <1>3, ConcatProperties
<1>5. rest[B + 1] = NUL /\ rest[B + 2] = NUL
  <2>1. /\ B + 1 \in 1 .. B + 2 /\ ~(B + 1 <= B) /\ B + 1 - B = 1
        /\ B + 2 \in 1 .. B + 2 /\ ~(B + 2 <= B) /\ B + 2 - B = 2
    OBVIOUS
  <2>2. QED
    BY <1>4, <2>1
<1>6. /\ text \in Seq(Chars) /\ Len(text) = N + (B + 2)
      /\ \A i \in 1 .. N + (B + 2) : text[i] = IF i <= N THEN msg[i] ELSE rest[i - N]
  <2>1. /\ text \in Seq(Chars) /\ Len(text) = Len(msg) + Len(rest)
        /\ \A i \in 1 .. Len(msg) + Len(rest) :
             text[i] = IF i <= Len(msg) THEN msg[i] ELSE rest[i - Len(msg)]
    BY <1>4, ConcatProperties
  <2>2. Len(msg) = N /\ Len(rest) = B + 2
    BY <1>1, <1>4
  <2>3. QED
    BY <2>1, <2>2, Zenon
<1>7. \A i \in 1 .. N : text[i] = msg[i]
  <2>1. \A i \in 1 .. N : i \in 1 .. N + (B + 2) /\ i <= N
    OBVIOUS
  <2>2. QED
    BY <1>6, <2>1
<1>8. \A i \in 1 .. B + 2 : text[N + i] = rest[i]
  <2>1. \A i \in 1 .. B + 2 : N + i \in 1 .. N + (B + 2) /\ ~(N + i <= N) /\ N + i - N = i
    OBVIOUS
  <2>2. QED
    BY <1>6, <2>1
<1>9. text[N + (B + 1)] = NUL /\ text[N + (B + 2)] = NUL
  <2>1. B + 1 \in 1 .. B + 2 /\ B + 2 \in 1 .. B + 2
    OBVIOUS
  <2>2. QED
    BY <1>5, <1>8, <2>1, Zenon
<1>10. /\ Len(text) - 1 = N + (B + 1) /\ (Len(text) - 1) + 1 = N + (B + 2)
       /\ Len(text) - 1 >= 1 /\ (Len(text) - 1) + 1 <= Len(text) /\ Len(text) > N
  BY <1>6
<1>11. NulsAt(text, Len(text) - 1) /\ text[Len(text)] = NUL
  BY <1>6, <1>9, <1>10 DEF NulsAt
<1>12. QED
  BY <1>1, <1>4, <1>6, <1>7, <1>8, <1>10, <1>11 DEF MemoryOK

(***************************************************************************)
(* The invariant of the control channel: types, and that the last command  *)
(* went where it should.                                                   *)
(***************************************************************************)
Commands == [text : Seq(Chars), clean : BOOLEAN, argv : Seq(Seq(Chars)),
             to : {"NOBODY", "LISTENER", "APP"}, inside : BOOLEAN]

CtrlInv ==
    /\ arrived \in Seq(Datagrams) /\ input \in Seq(Chars)
    /\ ctrl_msg \in Seq(Chars) /\ Len(ctrl_msg) = MAX_CTRL_MSG_LEN
    /\ command \in Commands /\ Len(command.argv) <= MAX_ARGUMENTS_NUM
    /\ sent \in 0 .. MaxDatagrams
    /\ CommandReachesListener

(***************************************************************************)
(* The control channel starts in CtrlInv.                                  *)
(***************************************************************************)
LEMMA CtrlInit == ControlInit => CtrlInv
<1> SUFFICES ASSUME ControlInit PROVE CtrlInv
  OBVIOUS
<1>1. NUL \in Chars /\ MAX_CTRL_MSG_LEN \in Nat /\ MAX_ARGUMENTS_NUM \in Nat /\ MaxDatagrams \in Nat
  BY ControlAssumption DEF Chars
<1>2. ctrl_msg \in Seq(Chars) /\ Len(ctrl_msg) = MAX_CTRL_MSG_LEN
  BY <1>1 DEF ControlInit
<1>3. command = [text |-> <<>>, clean |-> TRUE, argv |-> <<>>, to |-> "NOBODY", inside |-> TRUE]
  BY DEF ControlInit, Nobody
<1>4. command \in Commands /\ Len(command.argv) <= MAX_ARGUMENTS_NUM /\ command.to = "NOBODY"
  BY <1>1, <1>3 DEF Commands
<1>5. QED
  BY <1>1, <1>2, <1>4 DEF CtrlInv, ControlInit, CommandReachesListener

(***************************************************************************)
(* A whole command is dispatched by its first word, whatever ctrl_msg held *)
(* and whatever lies behind it.                                            *)
(***************************************************************************)
LEMMA WholeCommand ==
    ASSUME ctrl_msg \in Seq(Chars), Len(ctrl_msg) = MAX_CTRL_MSG_LEN,
           NEW d \in Seq(Chars), d # <<>>, Whole(d), NEW rest \in Behind, NEW r,
           r = libevent_get_arguments(Copied(d, Len(d)) \o rest)
    PROVE  r.argv # <<>> /\ r.argv[1] = FirstWord(d)
<1>1. PICK n \in Nat \ {0} : n = Len(d) /\ n <= MAX_CTRL_MSG_LEN
  BY DEF Whole
<1>2. d[1] \in Letters /\ d[n] = NUL
  BY <1>1 DEF Whole, Last
<1>3. PICK c \in Seq(Chars) : c = Copied(d, Len(d))
  BY <1>1, CopiedIs
<1>4. Len(c) = MAX_CTRL_MSG_LEN /\ \A i \in 1 .. n : c[i] = IF i = MAX_CTRL_MSG_LEN THEN NUL ELSE d[i]
  BY <1>1, <1>3, CopiedIs
<1>5. \A i \in 1 .. n : c[i] = d[i]
  <2>1. ASSUME NEW i \in 1 .. n, i = MAX_CTRL_MSG_LEN PROVE i = n
    BY <1>1, <2>1
  <2>2. QED
    BY <1>2, <1>4, <2>1
<1>6. PICK m : m = c \o rest
  OBVIOUS
<1>7. /\ m \in Seq(Chars) /\ Len(m) > MAX_CTRL_MSG_LEN /\ NulsAt(m, Len(m) - 1)
      /\ \A i \in 1 .. MAX_CTRL_MSG_LEN : m[i] = c[i]
  <2>1. MemoryOK(c, rest, m)
    BY <1>4, <1>6, MemoryIs
  <2>2. QED
    BY <2>1, Zenon DEF MemoryOK
<1>8. Len(m) \in Nat /\ Len(m) - 1 \in Nat /\ n < Len(m) /\ MAX_CTRL_MSG_LEN \in Nat
  BY <1>1, <1>7, ControlAssumption
<1>9. \A i \in 1 .. n : m[i] = d[i]
  <2>1. \A i \in 1 .. n : i \in 1 .. MAX_CTRL_MSG_LEN
    BY <1>1, <1>8
  <2>2. QED
    BY <1>5, <1>7, <2>1
<1>10. PICK f : f = FirstOf(d, 1, Delimiters \cup {NUL}) /\ IsFirst(d, 1, Delimiters \cup {NUL}, f)
  <2>1. n \in 1 .. Len(d) /\ d[n] \in Delimiters \cup {NUL}
    BY <1>1, <1>2
  <2>2. QED
    BY <2>1, FirstOfIsFirst
<1>11. f \in 1 .. n /\ d[f] \in Delimiters \cup {NUL}
       /\ \A i \in 1 .. f - 1 : d[i] \notin Delimiters \cup {NUL}
  BY <1>1, <1>10 DEF IsFirst
<1>12. f \in 1 .. Len(m) /\ f - 1 \in Nat /\ f - 1 <= n /\ \A i \in 1 .. f - 1 : i \in 1 .. n
  BY <1>8, <1>11
<1>13. IsFirst(m, 1, Delimiters \cup {NUL}, f)
  BY <1>9, <1>11, <1>12 DEF IsFirst
<1>14. m[1] \in Letters
  <2>1. 1 \in 1 .. n
    OBVIOUS
  <2>2. QED
    BY <1>2, <1>9, <2>1
<1>15. r.argv # <<>> /\ r.argv[1] = SubSeq(m, 1, f - 1)
  <2>1. PICK e \in Nat : NulsAt(m, e)
    BY <1>7, <1>8, Zenon
  <2>2. r = libevent_get_arguments(m)
    BY <1>3, <1>6, Zenon
  <2>3. m \in Seq(Chars) /\ f \in 1 .. Len(m)
    BY <1>7, <1>12, Zenon
  <2>4. QED
    BY <1>13, <1>14, <2>1, <2>2, <2>3, FirstArgument
<1>16. SubSeq(m, 1, f - 1) = SubSeq(d, 1, f - 1)
  <2>1. \A i \in 1 .. f - 1 : m[i] = d[i]
    BY <1>9, <1>12
  <2>2. f - 1 <= Len(m) /\ f - 1 <= Len(d)
    BY <1>1, <1>8, <1>12
  <2>3. QED
    BY <1>7, <1>12, <2>1, <2>2
<1>17. QED
  BY <1>10, <1>15, <1>16 DEF FirstWord

(***************************************************************************)
(* What OnCtrlMsg does, in terms of the text it parses.                    *)
(***************************************************************************)
CommandIs(d, r, rest) ==
    command' = [text |-> d, clean |-> input = <<>>, argv |-> r.argv, to |-> Dispatch(r.argv),
                inside |-> /\ r.start <= MAX_CTRL_MSG_LEN
                           /\ \A i \in DOMAIN rest : r.msg[MAX_CTRL_MSG_LEN + i] = rest[i]]

LenOf(all) == IF Len(all) < MAX_CTRL_MSG_LEN THEN Len(all) ELSE MAX_CTRL_MSG_LEN

(***************************************************************************)
(* The parts of a step of OnCtrlMsg.                                       *)
(***************************************************************************)
LEMMA OnCtrlMsgIs ==
    ASSUME CtrlInv, OnCtrlMsg
    PROVE  \E d \in Datagrams, all \in Seq(Chars), rest \in Behind : \E r :
             /\ d \in Seq(Chars) /\ d # <<>> /\ (input = <<>> => all = d)
             /\ arrived' \in Seq(Datagrams) /\ sent' = sent
             /\ LenOf(all) \in Nat /\ LenOf(all) <= Len(all) /\ LenOf(all) <= MAX_CTRL_MSG_LEN
             /\ input' = SubSeq(all, LenOf(all) + 1, Len(all)) /\ input' \in Seq(Chars)
             /\ Copied(all, LenOf(all)) \in Seq(Chars)
             /\ Len(Copied(all, LenOf(all))) = MAX_CTRL_MSG_LEN
             /\ r = libevent_get_arguments(Copied(all, LenOf(all)) \o rest)
             /\ ctrl_msg' = SubSeq(r.msg, 1, MAX_CTRL_MSG_LEN)
             /\ CommandIs(d, r, rest)
<1>1. PICK d : d = Head(arrived)
  OBVIOUS
<1>2. PICK all : all = input \o d
  OBVIOUS
<1>3. PICK len : len = LenOf(all)
  OBVIOUS
<1>4. /\ arrived # <<>> /\ arrived' = Tail(arrived)
      /\ input' = SubSeq(all, len + 1, Len(all)) /\ Handles(Copied(all, len))
      /\ sent' = sent
  BY <1>1, <1>2, <1>3, Zenon DEF OnCtrlMsg, LenOf
<1>5. PICK rest \in Behind :
        /\ ctrl_msg' = SubSeq(libevent_get_arguments(Copied(all, len) \o rest).msg, 1, MAX_CTRL_MSG_LEN)
        /\ CommandIs(d, libevent_get_arguments(Copied(all, len) \o rest), rest)
  BY <1>1, <1>4, Zenon DEF Handles, CommandIs
<1>6. /\ arrived \in Seq(Datagrams) /\ input \in Seq(Chars)
      /\ ctrl_msg \in Seq(Chars) /\ Len(ctrl_msg) = MAX_CTRL_MSG_LEN
  BY DEF CtrlInv
<1>7. d \in Datagrams /\ d \in Seq(Chars) /\ d # <<>> /\ arrived' \in Seq(Datagrams)
  <2>1. d \in Datagrams /\ arrived' \in Seq(Datagrams)
    BY <1>1, <1>4, <1>6
  <2>2. QED
    BY <2>1, ControlAssumption
<1>8. all \in Seq(Chars) /\ (input = <<>> => all = d)
  <2>1. all \in Seq(Chars)
    BY <1>2, <1>6, <1>7, ConcatProperties
  <2>2. input = <<>> => all = d
    BY <1>2, <1>7, ConcatEmptySeq
  <2>3. QED
    BY <2>1, <2>2
<1>9. len \in Nat /\ len <= Len(all) /\ len <= MAX_CTRL_MSG_LEN /\ Len(all) \in Nat
  BY <1>3, <1>8, ControlAssumption DEF LenOf
<1>10. Copied(all, len) \in Seq(Chars) /\ Len(Copied(all, len)) = MAX_CTRL_MSG_LEN
  BY <1>6, <1>8, <1>9, CopiedIs
<1>11. input' \in Seq(Chars)
  <2>1. len + 1 \in Int /\ Len(all) \in Int /\ \A i \in len + 1 .. Len(all) : i \in 1 .. Len(all)
    BY <1>9
  <2>2. \A i \in len + 1 .. Len(all) : all[i] \in Chars
    BY <1>8, <2>1
  <2>3. QED
    BY <1>4, <2>1, <2>2, SubSeqProperties
<1>12. PICK r : r = libevent_get_arguments(Copied(all, len) \o rest)
  OBVIOUS
<1>13. QED
  BY <1>3, <1>4, <1>5, <1>7, <1>8, <1>9, <1>10, <1>11, <1>12, Zenon

(***************************************************************************)
(* OnCtrlMsg keeps CtrlInv.                                                *)
(***************************************************************************)
LEMMA OnCtrlMsgKeepsCtrlInv ==
    ASSUME CtrlInv, OnCtrlMsg
    PROVE  CtrlInv'
<1>1. PICK d \in Datagrams, all \in Seq(Chars), rest \in Behind : \E r :
             /\ d \in Seq(Chars) /\ d # <<>> /\ (input = <<>> => all = d)
             /\ arrived' \in Seq(Datagrams) /\ sent' = sent
             /\ LenOf(all) \in Nat /\ LenOf(all) <= Len(all) /\ LenOf(all) <= MAX_CTRL_MSG_LEN
             /\ input' = SubSeq(all, LenOf(all) + 1, Len(all)) /\ input' \in Seq(Chars)
             /\ Copied(all, LenOf(all)) \in Seq(Chars)
             /\ Len(Copied(all, LenOf(all))) = MAX_CTRL_MSG_LEN
             /\ r = libevent_get_arguments(Copied(all, LenOf(all)) \o rest)
             /\ ctrl_msg' = SubSeq(r.msg, 1, MAX_CTRL_MSG_LEN)
             /\ CommandIs(d, r, rest)
  BY OnCtrlMsgIs, Zenon
<1>2. PICK text, r :
        /\ text = Copied(all, LenOf(all)) \o rest /\ r = libevent_get_arguments(text)
        /\ ctrl_msg' = SubSeq(r.msg, 1, MAX_CTRL_MSG_LEN) /\ CommandIs(d, r, rest)
  BY <1>1, Zenon
<1>3. /\ text \in Seq(Chars) /\ Len(text) > MAX_CTRL_MSG_LEN
      /\ NulsAt(text, Len(text) - 1) /\ text[Len(text)] = NUL
  <2>1. PICK c \in Seq(Chars) : c = Copied(all, LenOf(all)) /\ Len(c) = MAX_CTRL_MSG_LEN
    BY <1>1, Zenon
  <2>2. text = c \o rest
    BY <1>2, <2>1, Zenon
  <2>3. MemoryOK(c, rest, text)
    BY <2>1, <2>2, MemoryIs
  <2>4. QED
    BY <2>3, Zenon DEF MemoryOK
<1>4. /\ Len(text) - 1 \in Nat /\ MAX_CTRL_MSG_LEN \in Nat /\ 1 <= MAX_CTRL_MSG_LEN
  BY <1>3, ControlAssumption
<1>5. /\ r.msg \in Seq(Chars) /\ Len(r.msg) = Len(text)
      /\ r.argv \in Seq(Seq(Chars)) /\ Len(r.argv) <= MAX_ARGUMENTS_NUM
  BY <1>2, <1>3, <1>4, ArgumentsAreTyped
<1>6. ctrl_msg' \in Seq(Chars) /\ Len(ctrl_msg') = MAX_CTRL_MSG_LEN
  <2>1. \A i \in 1 .. MAX_CTRL_MSG_LEN : i \in 1 .. Len(r.msg)
    BY <1>3, <1>4, <1>5
  <2>2. \A i \in 1 .. MAX_CTRL_MSG_LEN : r.msg[i] \in Chars
    BY <1>5, <2>1
  <2>3. /\ ctrl_msg' \in Seq(Chars)
        /\ Len(ctrl_msg') = IF 1 <= MAX_CTRL_MSG_LEN THEN MAX_CTRL_MSG_LEN - 1 + 1 ELSE 0
    BY <1>2, <1>4, <1>5, <2>2, SubSeqProperties
  <2>4. QED
    BY <1>4, <2>3
<1>7. Dispatch(r.argv) = IF r.argv # <<>> /\ r.argv[1] \in Supported THEN "LISTENER" ELSE "APP"
  BY DEF Dispatch
<1>8. PICK in \in BOOLEAN : command' = [text |-> d, clean |-> input = <<>>, argv |-> r.argv,
                                        to |-> Dispatch(r.argv), inside |-> in]
  BY <1>2, Zenon DEF CommandIs
<1>9. command' \in Commands /\ Len(command'.argv) <= MAX_ARGUMENTS_NUM
  BY <1>1, <1>5, <1>7, <1>8 DEF Commands
<1>10. ASSUME input = <<>>, Whole(d)
       PROVE  /\ r.argv[1] = FirstWord(d)
              /\ Dispatch(r.argv) = IF FirstWord(d) \in Supported THEN "LISTENER" ELSE "APP"
  <2>1. all = d /\ LenOf(all) = Len(d)
    BY <1>1, <1>10, ControlAssumption DEF Whole, LenOf
  <2>2. ctrl_msg \in Seq(Chars) /\ Len(ctrl_msg) = MAX_CTRL_MSG_LEN
    BY DEF CtrlInv
  <2>3. r.argv # <<>> /\ r.argv[1] = FirstWord(d)
    BY <1>1, <1>2, <1>10, <2>1, <2>2, WholeCommand
  <2>4. QED
    BY <1>7, <2>3
<1>11. /\ command'.text = d /\ (command'.clean <=> input = <<>>)
       /\ command'.argv = r.argv /\ command'.to = Dispatch(r.argv)
  BY <1>8
<1>12. CommandReachesListener'
  <2> SUFFICES ASSUME command'.clean, Whole(command'.text)
               PROVE  /\ command'.argv[1] = FirstWord(command'.text)
                      /\ command'.to = IF FirstWord(command'.text) \in Supported
                                         THEN "LISTENER" ELSE "APP"
    BY DEF CommandReachesListener, Whole, FirstWord, FirstOf
  <2>1. QED
    BY <1>10, <1>11
<1>13. QED
  BY <1>1, <1>6, <1>9, <1>12 DEF CtrlInv

(***************************************************************************)
(* Every step keeps CtrlInv.                                               *)
(***************************************************************************)
LEMMA CtrlStep == ASSUME CtrlInv, [Next]_vars PROVE CtrlInv'
<1>1. ASSUME UNCHANGED ctrlVars PROVE CtrlInv'
  <2>1. /\ UNCHANGED <<arrived, input, ctrl_msg, command, sent>>
    BY <1>1 DEF ctrlVars
  <2>2. CommandReachesListener'
    BY <2>1 DEF CtrlInv, CommandReachesListener
  <2>3. QED
    BY <2>1, <2>2 DEF CtrlInv
<1>2. ASSUME NEW d \in Datagrams, Sends(d) PROVE CtrlInv'
  <2>1. /\ sent < MaxDatagrams /\ arrived' = Append(arrived, d) /\ sent' = sent + 1
        /\ UNCHANGED <<input, ctrl_msg, command>>
    BY <1>2 DEF Sends, SendDatagram
  <2>2. CommandReachesListener'
    BY <2>1 DEF CtrlInv, CommandReachesListener
  <2>3. arrived' \in Seq(Datagrams) /\ sent' \in 0 .. MaxDatagrams
    BY <1>2, <2>1, ControlAssumption DEF CtrlInv
  <2>4. QED
    BY <2>1, <2>2, <2>3 DEF CtrlInv
<1>3. CASE HandlesCtrlMsg
  BY <1>3, OnCtrlMsgKeepsCtrlInv DEF HandlesCtrlMsg
<1>4. CASE signal_stop_handler \/ TickBegins \/ FiresTimer \/ TickEnds \/ TimePasses
  BY <1>1, <1>4 DEF signal_stop_handler, TickBegins, FiresTimer, TickEnds, TimePasses
<1>5. ASSUME NEW timer \in Timers, NEW step \in Steps, CreateTimer(timer, step) PROVE CtrlInv'
  BY <1>1, <1>5 DEF CreateTimer
<1>6. ASSUME NEW i \in 1 .. Len(timer_list), DestroyTimer(i) PROVE CtrlInv'
  BY <1>1, <1>6 DEF DestroyTimer
<1>7. CASE UNCHANGED vars
  BY <1>1, <1>7 DEF vars
<1>8. QED
  BY <1>2, <1>3, <1>4, <1>5, <1>6, <1>7 DEF Next

(***************************************************************************)
(* A command that fits, brings its NUL along and finds nothing unread in   *)
(* front of it goes to the listener of its first word, or to the           *)
(* application, for any length of ctrl_msg, any number of arguments and    *)
(* any history of commands: libevent_get_arguments (rapidapp_framework_    *)
(* imp.cpp) and AppControlDispatcher.                                      *)
(***************************************************************************)
THEOREM CommandsReachTheirListener == Spec => []CommandReachesListener
<1>1. Init => CtrlInv
  BY CtrlInit DEF Init
<1>2. CtrlInv => CommandReachesListener
  BY DEF CtrlInv
<1>3. QED
  BY <1>1, <1>2, CtrlStep, PTL DEF Spec

-----------------------------------------------------------------------------
(***************************************************************************)
(* Commands that leave two places of ctrl_msg free: nothing is left        *)
(* unread, those two places hold NULs, and no command has left ctrl_msg.   *)
(***************************************************************************)
ShortInv == input = <<>> /\ ctrl_msg[MAX_CTRL_MSG_LEN - 1] = NUL /\ command.inside

(***************************************************************************)
(* OnCtrlMsg keeps ShortInv.                                               *)
(***************************************************************************)
LEMMA OnCtrlMsgKeepsShortInv ==
    ASSUME MAX_CTRL_MSG_LEN > 2, \A d \in Datagrams : Len(d) <= MAX_CTRL_MSG_LEN - 2,
           CtrlInv, ShortInv, OnCtrlMsg
    PROVE  ShortInv'
<1>1. PICK d \in Datagrams, all \in Seq(Chars), rest \in Behind : \E r :
             /\ d \in Seq(Chars) /\ d # <<>> /\ (input = <<>> => all = d)
             /\ arrived' \in Seq(Datagrams) /\ sent' = sent
             /\ LenOf(all) \in Nat /\ LenOf(all) <= Len(all) /\ LenOf(all) <= MAX_CTRL_MSG_LEN
             /\ input' = SubSeq(all, LenOf(all) + 1, Len(all)) /\ input' \in Seq(Chars)
             /\ Copied(all, LenOf(all)) \in Seq(Chars)
             /\ Len(Copied(all, LenOf(all))) = MAX_CTRL_MSG_LEN
             /\ r = libevent_get_arguments(Copied(all, LenOf(all)) \o rest)
             /\ ctrl_msg' = SubSeq(r.msg, 1, MAX_CTRL_MSG_LEN)
             /\ CommandIs(d, r, rest)
  BY OnCtrlMsgIs, Zenon
<1>2. PICK N \in Nat : N = MAX_CTRL_MSG_LEN /\ N > 2
  BY ControlAssumption
<1>3. PICK len \in Nat : all = d /\ len = Len(d) /\ LenOf(d) = len /\ len <= N - 2
  <2>1. all = d /\ Len(d) \in Nat /\ Len(d) <= N - 2
    BY <1>1, <1>2 DEF ShortInv
  <2>2. QED
    BY <1>2, <2>1 DEF LenOf
<1>4. PICK c \in Seq(Chars) : c = Copied(d, len) /\ Len(c) = MAX_CTRL_MSG_LEN
  BY <1>1, <1>3, Zenon
<1>5. PICK text, r :
        /\ text = c \o rest /\ r = libevent_get_arguments(text)
        /\ ctrl_msg' = SubSeq(r.msg, 1, MAX_CTRL_MSG_LEN) /\ CommandIs(d, r, rest)
  BY <1>1, <1>3, <1>4, Zenon
<1>6. c[N] = NUL /\ c[N - 1] = NUL
  <2>1. ctrl_msg \in Seq(Chars) /\ Len(ctrl_msg) = MAX_CTRL_MSG_LEN
    BY DEF CtrlInv
  <2>2. N - 1 \in len + 1 .. N - 1 /\ len <= Len(d) /\ len <= N /\ d \in Seq(Chars)
    BY <1>1, <1>2, <1>3
  <2>3. /\ c[MAX_CTRL_MSG_LEN] = NUL
        /\ \A i \in len + 1 .. MAX_CTRL_MSG_LEN - 1 : c[i] = ctrl_msg[i]
    BY <1>2, <1>4, <2>1, <2>2, CopiedIs
  <2>4. QED
    BY <1>2, <2>2, <2>3 DEF ShortInv
<1>7. MemoryOK(c, rest, text)
  BY <1>4, <1>5, MemoryIs
<1>8. /\ text \in Seq(Chars) /\ rest \in Seq(Chars) /\ Len(text) = N + Len(rest) /\ Len(text) > N
      /\ text[Len(text)] = NUL
      /\ \A i \in 1 .. N : text[i] = c[i]
      /\ \A i \in 1 .. Len(rest) : text[N + i] = rest[i]
  BY <1>2, <1>7, Zenon DEF MemoryOK
<1>9. PICK e \in Nat : e = N - 1 /\ NulsAt(text, e)
  <2>1. /\ N - 1 \in Nat /\ N - 1 >= 1 /\ (N - 1) + 1 = N /\ N <= Len(text)
        /\ N \in 1 .. N /\ N - 1 \in 1 .. N
    BY <1>2, <1>8
  <2>2. QED
    BY <1>6, <1>8, <2>1 DEF NulsAt
<1>10. /\ r.msg \in Seq(Chars) /\ Len(r.msg) = Len(text) /\ r.start \in 1 .. e + 1
       /\ \A i \in 1 .. Len(text) : i >= e => r.msg[i] = text[i]
  <2>1. /\ text \in Seq(Chars) /\ text[Len(text)] = NUL /\ NulsAt(text, e)
        /\ r = libevent_get_arguments(text)
    BY <1>5, <1>8, <1>9, Zenon
  <2>2. QED
    BY <2>1, ArgumentsAreTyped
<1>11. r.start <= MAX_CTRL_MSG_LEN
  BY <1>2, <1>9, <1>10
<1>12. ASSUME NEW i \in DOMAIN rest PROVE r.msg[MAX_CTRL_MSG_LEN + i] = rest[i]
  <2>1. i \in 1 .. Len(rest)
    BY <1>8
  <2>2. N + i \in 1 .. Len(text) /\ N + i >= e
    BY <1>8, <1>9, <2>1
  <2>3. QED
    BY <1>2, <1>8, <1>10, <2>1, <2>2
<1>13. command'.inside
  <2>1. PICK in : /\ in = (/\ r.start <= MAX_CTRL_MSG_LEN
                           /\ \A i \in DOMAIN rest : r.msg[MAX_CTRL_MSG_LEN + i] = rest[i])
                  /\ command' = [text |-> d, clean |-> input = <<>>, argv |-> r.argv,
                                 to |-> Dispatch(r.argv), inside |-> in]
    BY <1>5, Zenon DEF CommandIs
  <2>2. in = TRUE
    BY <1>11, <1>12, <2>1, Zenon
  <2>3. QED
    BY <2>1, <2>2, Zenon
<1>14. ctrl_msg'[MAX_CTRL_MSG_LEN - 1] = NUL
  <2>1. \A i \in 1 .. N : i \in 1 .. Len(r.msg)
    BY <1>8, <1>10
  <2>2. \A i \in 1 .. N : r.msg[i] \in Chars
    BY <1>10, <2>1
  <2>3. \A i \in 1 .. N - 1 + 1 : ctrl_msg'[i] = r.msg[1 + i - 1]
    BY <1>2, <1>5, <1>10, <2>2, SubSeqProperties
  <2>4. /\ N - 1 \in 1 .. N - 1 + 1 /\ 1 + (N - 1) - 1 = e /\ N - 1 \in 1 .. N
        /\ e \in 1 .. Len(text) /\ e >= e
    BY <1>2, <1>8, <1>9
  <2>5. ctrl_msg'[N - 1] = r.msg[e] /\ r.msg[e] = text[e] /\ text[e] = NUL
    BY <1>9, <1>10, <2>3, <2>4 DEF NulsAt
  <2>6. QED
    BY <1>2, <2>5
<1>15. input' = <<>>
  <2>1. input' = SubSeq(d, len + 1, len) /\ d \in Seq(Chars) /\ len = Len(d)
    BY <1>1, <1>3
  <2>2. QED
    BY <2>1
<1>16. QED
  BY <1>13, <1>14, <1>15 DEF ShortInv

(***************************************************************************)
(* libevent_get_arguments (rapidapp_framework_imp.cpp) looks for tokens    *)
(* and writes NULs without a look at the size of ctrl_msg.  As long as     *)
(* every datagram leaves two places of ctrl_msg free it stays inside, for  *)
(* any size of ctrl_msg, any delimiters, any history of commands and       *)
(* whatever lies behind ctrl_msg.  Longer datagrams may take it outside.   *)
(***************************************************************************)
THEOREM ShortCommandsStayInside ==
    ASSUME MAX_CTRL_MSG_LEN > 2, \A d \in Datagrams : Len(d) <= MAX_CTRL_MSG_LEN - 2
    PROVE  Spec => [](command.inside)
<1>1. Init => CtrlInv /\ ShortInv
  <2> SUFFICES ASSUME ControlInit PROVE ShortInv
    BY CtrlInit DEF Init
  <2>1. MAX_CTRL_MSG_LEN - 1 \in 1 .. MAX_CTRL_MSG_LEN
    BY ControlAssumption
  <2>2. QED
    BY <2>1 DEF ControlInit, ShortInv, Nobody
<1>2. ASSUME CtrlInv, ShortInv, [Next]_vars PROVE ShortInv'
  <2>1. ASSUME UNCHANGED <<input, ctrl_msg, command>> PROVE ShortInv'
    BY <1>2, <2>1 DEF ShortInv
  <2>2. ASSUME NEW d \in Datagrams, Sends(d) PROVE ShortInv'
    BY <2>1, <2>2 DEF Sends, SendDatagram
  <2>3. CASE HandlesCtrlMsg
    BY <1>2, <2>3, OnCtrlMsgKeepsShortInv DEF HandlesCtrlMsg
  <2>4. CASE signal_stop_handler \/ TickBegins \/ FiresTimer \/ TickEnds \/ TimePasses
    BY <2>1, <2>4 DEF signal_stop_handler, TickBegins, FiresTimer, TickEnds, TimePasses, ctrlVars
  <2>5. ASSUME NEW timer \in Timers, NEW step \in Steps, CreateTimer(timer, step) PROVE ShortInv'
    BY <2>1, <2>5 DEF CreateTimer, ctrlVars
  <2>6. ASSUME NEW i \in 1 .. Len(timer_list), DestroyTimer(i) PROVE ShortInv'
    BY <2>1, <2>6 DEF DestroyTimer, ctrlVars
  <2>7. CASE UNCHANGED vars
    BY <2>1, <2>7 DEF vars, ctrlVars
  <2>8. QED
    BY <1>2, <2>2, <2>3, <2>4, <2>5, <2>6, <2>7 DEF Next
<1>3. ShortInv => command.inside
  BY DEF ShortInv
<1>4. QED
  BY <1>1, <1>2, <1>3, CtrlStep, PTL DEF Spec

(***************************************************************************)
(* TypeOK: the list of timers, the control channel and the loop stay in    *)
(* their types; in particular argv, an array of MAX_ARGUMENTS_NUM places,  *)
(* is never written past its end.                                          *)
(***************************************************************************)
THEOREM EventLoopTypes == Spec => []TypeOK
<1> DEFINE Flags == /\ loop \in {"DISPATCH", "TICK", "ENDED", "CRASHED"}
                    /\ running \in BOOLEAN /\ breaking \in BOOLEAN
<1>1. Init => ListInv /\ CtrlInv /\ Flags
  BY ListInit, CtrlInit DEF Init
<1>2. ASSUME Flags, [Next]_vars PROVE Flags'
  <2>1. CASE UNCHANGED loopVars
    BY <1>2, <2>1 DEF loopVars
  <2>2. CASE signal_stop_handler
    BY <1>2, <2>2 DEF signal_stop_handler
  <2>3. CASE TickBegins
    BY <1>2, <2>3 DEF TickBegins
  <2>4. CASE TickEnds
    BY <1>2, <2>4 DEF TickEnds
  <2>5. ASSUME NEW i \in 1 .. Len(timer_list), DestroyTimer(i) PROVE Flags'
    BY <1>2, <2>5 DEF DestroyTimer
  <2>6. ASSUME NEW t \in Timers, NEW s \in Steps, CreateTimer(t, s) PROVE UNCHANGED loopVars
    BY <2>6 DEF CreateTimer
  <2>7. ASSUME NEW d \in Datagrams, Sends(d) PROVE UNCHANGED loopVars
    BY <2>7 DEF Sends
  <2>8. CASE FiresTimer \/ HandlesCtrlMsg \/ TimePasses \/ UNCHANGED vars
    BY <2>1, <2>8 DEF FiresTimer, HandlesCtrlMsg, TimePasses, vars
  <2> QED
    BY <1>2, <2>1, <2>2, <2>3, <2>4, <2>5, <2>6, <2>7, <2>8 DEF Next
<1>3. ListInv /\ CtrlInv /\ Flags => TypeOK
  <2> SUFFICES ASSUME ListInv, CtrlInv, Flags PROVE TypeOK
    OBVIOUS
  <2>1. TimerTypeOK
    BY DEF ListInv
  <2>2. ctrl_msg \in [1 .. MAX_CTRL_MSG_LEN -> Chars]
    BY DEF CtrlInv
  <2>3. ControlTypeOK
    BY <2>2 DEF CtrlInv, ControlTypeOK
  <2> QED
    BY <2>1, <2>3 DEF TypeOK
<1> QED
  BY <1>1, <1>2, <1>3, ListStep, CtrlStep, PTL DEF Spec
=============================================================================
