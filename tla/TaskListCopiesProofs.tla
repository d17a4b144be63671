------------------------- MODULE TaskListCopiesProofs -------------------------
(***************************************************************************)
(* The proof that a task has no more rows in a task list than overlaps and *)
(* changes of the listing account for, for any listing and any bounds.     *)
(*                                                                         *)
(* The table does not remember which page a row came from, so the          *)
(* invariant looks ahead instead of back: what matters of a page is how    *)
(* many requests for it are in flight, and whether one more may be sent    *)
(* without an overlap.                                                     *)
(***************************************************************************)
EXTENDS TaskListModelProofs, FiniteSetTheorems

-----------------------------------------------------------------------------
(* The inductive invariant                                                 *)

(* The requests and the answers in flight for a page, the answers that     *)
(* carry a task, and the rows that show it.                                *)
Pending(p) == {q \in requests : q.page = p}
Late(p) == {r \in replies : r.page = p}
Carries(r, t) == \E i \in 1..Len(r.tasks) : r.tasks[i] = t
Carrying(t) == {r \in replies : Carries(r, t)}
Copies(t) == {i \in 1..Len(data) : data[i] = t}

(* Whether an answer in flight may take the cursor back before page p.     *)
Below(p) == \E r \in InFlight : r.page < p

(* Whether page p may yet be asked for without an overlap: the cursor may  *)
(* go back before it, or it is there and neither a request for the page    *)
(* nor one of these answers is on its way.                                 *)
MayAsk(p, answers) ==
  Below(p) \/ (page < p /\ Pending(p) = {} /\ answers = {})

Once(b) == IF b THEN 1 ELSE 0

(* The requests for a page that are in flight, and the one that may come,  *)
(* are paid for by overlaps.                                               *)
RequestsPaid ==
  loaded =>
    \A p \in Nat \ {0} :
      Cardinality(Pending(p)) + Cardinality(Late(p)) + Once(MayAsk(p, Late(p)))
        <= 1 + overlaps

OnPage(t, p) ==
  \E i \in 1..Len(PageOf(listing, p)) : PageOf(listing, p)[i] = t

(* The rows a task has or is about to have.                                *)
Due(t) == Cardinality(Copies(t)) + Cardinality(Carrying(t))

(* The requests that would bring it once more, when it is on page p now.   *)
Demand(t, p) == Cardinality(Pending(p)) + Once(MayAsk(p, Carrying(t)))

Price == (1 + overlaps) * (1 + churned)

(* The rows of a task, those on their way and those still to be asked for  *)
(* are paid for by overlaps and changes of the listing.                    *)
RowsPaid ==
  loaded =>
    \A t \in Task :
      /\ Due(t) <= Price
      /\ \A p \in Nat \ {0} : OnPage(t, p) => Due(t) + Demand(t, p) <= Price

NoneTwice(list) == \A i, j \in 1..Len(list) : list[i] = list[j] => i = j

(* No page has a task twice.                                               *)
PagesDistinct == NoneTwice(listing) /\ \A r \in replies : NoneTwice(r.tasks)

FiniteNet == IsFiniteSet(requests) /\ IsFiniteSet(replies)

CopiesInv ==
  /\ IInv
  /\ FiniteNet
  /\ PagesDistinct
  /\ RequestsPaid
  /\ RowsPaid

-----------------------------------------------------------------------------
(* Counting                                                                *)

LEMMA CountTypes ==
  ASSUME TypeOK, FiniteNet, NEW p, NEW t
  PROVE  /\ IsFiniteSet(Pending(p)) /\ Cardinality(Pending(p)) \in Nat
         /\ IsFiniteSet(Late(p)) /\ Cardinality(Late(p)) \in Nat
         /\ IsFiniteSet(Carrying(t)) /\ Cardinality(Carrying(t)) \in Nat
         /\ IsFiniteSet(Copies(t)) /\ Cardinality(Copies(t)) \in Nat
<1>1. IsFiniteSet(Pending(p)) /\ IsFiniteSet(Late(p)) /\ IsFiniteSet(Carrying(t))
  <2>1. /\ Pending(p) \subseteq requests /\ Late(p) \subseteq replies
        /\ Carrying(t) \subseteq replies
    BY DEF Pending, Late, Carrying
  <2> QED
    BY <2>1, FS_Subset DEF FiniteNet
<1>2. IsFiniteSet(Copies(t))
  <2>1. IsFiniteSet(1..Len(data))
    BY LenProperties, FS_Interval DEF TypeOK
  <2> QED
    BY <2>1, FS_Subset DEF Copies
<1> QED
  BY <1>1, <1>2, FS_CardinalityType

(* Adding an element adds at most one, removing one takes exactly one.     *)
LEMMA AddOne ==
  ASSUME NEW S, IsFiniteSet(S), NEW x, NEW T, T \subseteq S \cup {x}
  PROVE  Cardinality(T) <= Cardinality(S) + 1 /\ Cardinality(T) \in Nat /\ IsFiniteSet(T)
<1>1. /\ IsFiniteSet(S \cup {x})
      /\ Cardinality(S \cup {x}) = IF x \in S THEN Cardinality(S) ELSE Cardinality(S) + 1
  BY FS_AddElement
<1>2. IsFiniteSet(T) /\ Cardinality(T) <= Cardinality(S \cup {x})
  BY <1>1, FS_Subset
<1>3. Cardinality(T) \in Nat /\ Cardinality(S) \in Nat
  BY <1>2, FS_CardinalityType
<1> QED
  BY <1>1, <1>2, <1>3

LEMMA TakeOne ==
  ASSUME NEW S, IsFiniteSet(S), NEW x
  PROVE  /\ IsFiniteSet(S \ {x}) /\ Cardinality(S \ {x}) \in Nat
         /\ Cardinality(S \ {x}) <= Cardinality(S)
         /\ x \in S => Cardinality(S \ {x}) = Cardinality(S) - 1
         /\ x \notin S => S \ {x} = S
<1>1. /\ IsFiniteSet(S \ {x})
      /\ Cardinality(S \ {x}) = IF x \in S THEN Cardinality(S) - 1 ELSE Cardinality(S)
  BY FS_RemoveElement
<1>2. Cardinality(S \ {x}) \in Nat /\ Cardinality(S) \in Nat
  BY <1>1, FS_CardinalityType
<1> QED
  BY <1>1, <1>2

(* An overlap and a change of the listing raise the price.                 *)
LEMMA PriceRises ==
  ASSUME NEW o \in Nat, NEW c \in Nat
  PROVE  /\ (1 + o) * (1 + c) \in Nat
         /\ (1 + o) * (1 + c) >= 1
         /\ (1 + (o + 1)) * (1 + c) >= (1 + o) * (1 + c) + 1
         /\ (1 + o) * (1 + (c + 1)) = (1 + o) * (1 + c) + (1 + o)
<1>1. (1 + o) * (1 + c) = 1 + o + c + o * c
  OBVIOUS
<1>2. (1 + (o + 1)) * (1 + c) = 1 + o + c + o * c + 1 + c
  OBVIOUS
<1>3. (1 + o) * (1 + (c + 1)) = 1 + o + c + o * c + 1 + o
  OBVIOUS
<1>4. o * c \in Nat
  OBVIOUS
<1> QED
  BY <1>1, <1>2, <1>3, <1>4

-----------------------------------------------------------------------------
(* Pages without repetitions                                               *)

(* PageType, for page p.                                                   *)
LEMMA PageRows ==
  ASSUME NEW list \in Seq(Task), NEW p \in Nat \ {0}
  PROVE  /\ Len(PageOf(list, p)) = LastRow(list, p) - LastRow(list, p - 1)
         /\ \A i \in 1..Len(PageOf(list, p)) :
              PageOf(list, p)[i] = list[LastRow(list, p - 1) + i]
         /\ LastRow(list, p) \in 0..Len(list)
         /\ LastRow(list, p - 1) \in 0..Len(list)
<1>1. PICK m \in Nat : m = p - 1 /\ m + 1 = p
  OBVIOUS
<1>2. /\ Len(PageOf(list, m + 1)) = LastRow(list, m + 1) - LastRow(list, m)
      /\ \A i \in 1..Len(PageOf(list, m + 1)) :
           PageOf(list, m + 1)[i] = list[LastRow(list, m) + i]
  BY PageType
<1>3. LastRow(list, m) \in 0..Len(list) /\ LastRow(list, p) \in 0..Len(list)
  BY LastRowType
<1> QED
  BY <1>1, <1>2, <1>3, Zenon

(* A task is on one page only.                                             *)
LEMMA OnePage ==
  ASSUME TypeOK, NoneTwice(listing), NEW t,
         NEW p \in Nat \ {0}, NEW q \in Nat \ {0}, OnPage(t, p), OnPage(t, q)
  PROVE  p = q
<1> DEFINE first(n) == LastRow(listing, n - 1)
<1>1. listing \in Seq(Task) /\ Len(listing) \in Nat
  BY LenProperties DEF TypeOK
<1>2. ASSUME NEW n \in Nat \ {0}, OnPage(t, n)
      PROVE  \E k \in 1..Len(listing) :
               /\ listing[k] = t
               /\ first(n) < k
               /\ k <= LastRow(listing, n)
  <2>2. /\ Len(PageOf(listing, n)) = LastRow(listing, n) - first(n)
        /\ \A i \in 1..Len(PageOf(listing, n)) :
             PageOf(listing, n)[i] = listing[first(n) + i]
        /\ first(n) \in 0..Len(listing) /\ LastRow(listing, n) \in 0..Len(listing)
    BY <1>1, PageRows
  <2> HIDE DEF first
  <2>4. PICK i \in 1..Len(PageOf(listing, n)) : PageOf(listing, n)[i] = t
    BY <1>2 DEF OnPage
  <2>5. /\ first(n) + i \in 1..Len(listing) /\ first(n) < first(n) + i
        /\ first(n) + i <= LastRow(listing, n)
    BY <1>1, <2>2, <2>4
  <2> QED
    BY <2>2, <2>4, <2>5
<1>3. ASSUME NEW m \in Nat \ {0}, NEW n \in Nat \ {0}, m < n,
             OnPage(t, m), OnPage(t, n)
      PROVE  FALSE
  <2>1. PICK k \in 1..Len(listing) : listing[k] = t /\ k <= LastRow(listing, m)
    BY <1>2, <1>3
  <2>2. PICK l \in 1..Len(listing) : listing[l] = t /\ first(n) < l
    BY <1>2, <1>3
  <2>3. k = l
    BY <2>1, <2>2 DEF NoneTwice
  <2>4. m \in Nat /\ n - 1 \in Nat /\ m <= n - 1
    BY <1>3
  <2>5. LastRow(listing, m) <= LastRow(listing, n - 1)
    BY <1>1, <2>4, LastRowMonotonic
  <2>6. LastRow(listing, m) \in Nat /\ LastRow(listing, n - 1) \in Nat
    <3>1. /\ LastRow(listing, m) \in 0..Len(listing)
          /\ LastRow(listing, n - 1) \in 0..Len(listing)
      BY <1>1, <2>4, LastRowType
    <3> QED
      BY <1>1, <3>1
  <2> QED
    BY <2>1, <2>2, <2>3, <2>5, <2>6
<1>4. ~(p < q) /\ ~(q < p)
  BY <1>3
<1> QED
  BY <1>4

LEMMA PageDistinct ==
  ASSUME TypeOK, NoneTwice(listing), NEW p \in Nat \ {0}
  PROVE  NoneTwice(PageOf(listing, p))
<1>1. listing \in Seq(Task) /\ Len(listing) \in Nat
  BY LenProperties DEF TypeOK
<1> DEFINE first == LastRow(listing, p - 1)
<1>2. /\ Len(PageOf(listing, p)) = LastRow(listing, p) - first
      /\ \A i \in 1..Len(PageOf(listing, p)) :
           PageOf(listing, p)[i] = listing[first + i]
      /\ first \in 0..Len(listing) /\ LastRow(listing, p) \in 0..Len(listing)
  BY <1>1, PageRows
<1> HIDE DEF first
<1>4. \A i \in 1..Len(PageOf(listing, p)) : first + i \in 1..Len(listing)
  BY <1>1, <1>2
<1> SUFFICES ASSUME NEW i \in 1..Len(PageOf(listing, p)),
                    NEW j \in 1..Len(PageOf(listing, p)),
                    PageOf(listing, p)[i] = PageOf(listing, p)[j]
             PROVE  i = j
  BY DEF NoneTwice
<1>5. first + i = first + j
  BY <1>2, <1>4 DEF NoneTwice
<1> QED
  BY <1>2, <1>5

(* Deleting a task or adding a new one makes none appear twice.            *)
LEMMA ChurnDistinct ==
  ASSUME TypeOK, NoneTwice(listing), Churn
  PROVE  NoneTwice(listing')
<1> DEFINE n == Len(listing)
<1>1. listing \in Seq(Task) /\ n \in Nat /\ \A i \in 1..n : listing[i] \in Task
  BY LenProperties, ElementOfSeq DEF TypeOK
<1>2. ASSUME NEW a \in 1..n + 1, NEW b \in 0..n
      PROVE  /\ SubSeq(listing, a, b) \in Seq(Task)
             /\ Len(SubSeq(listing, a, b)) = IF a <= b THEN b - a + 1 ELSE 0
             /\ \A i \in 1..b - a + 1 : SubSeq(listing, a, b)[i] = listing[a + i - 1]
  <2>1. \A i \in a..b : listing[i] \in Task
    BY <1>1
  <2> QED
    BY <1>1, <2>1, SubSeqProperties
<1>3. CASE \E i \in 1..n :
             listing' = SubSeq(listing, 1, i - 1) \o SubSeq(listing, i + 1, n)
  <2>1. PICK i \in 1..n :
          listing' = SubSeq(listing, 1, i - 1) \o SubSeq(listing, i + 1, n)
    BY <1>3
  <2> DEFINE left == SubSeq(listing, 1, i - 1)
             right == SubSeq(listing, i + 1, n)
  <2>2. /\ 1 \in 1..n + 1 /\ i - 1 \in 0..n /\ i + 1 \in 1..n + 1 /\ n \in 0..n
    BY <1>1
  <2>3. /\ left \in Seq(Task) /\ Len(left) = i - 1
        /\ \A k \in 1..i - 1 : left[k] = listing[k]
    BY <1>1, <1>2, <2>2
  <2>4. /\ right \in Seq(Task) /\ Len(right) = n - i
        /\ \A k \in 1..n - i : right[k] = listing[i + k]
    BY <1>1, <1>2, <2>2
  <2> HIDE DEF left, right
  <2>5. /\ Len(left \o right) = Len(left) + Len(right)
        /\ \A k \in 1..Len(left) + Len(right) :
             (left \o right)[k] = IF k <= Len(left) THEN left[k] ELSE right[k - Len(left)]
    BY <2>3, <2>4, ConcatProperties
  <2>6. listing' = left \o right
    BY <2>1 DEF left, right
  <2>7. /\ Len(listing') = n - 1
        /\ \A k \in 1..n - 1 :
             listing'[k] = listing[IF k <= i - 1 THEN k ELSE k + 1]
    <3>1. Len(listing') = n - 1
      <4>1. Len(listing') = Len(left) + Len(right)
        BY <2>5, <2>6, Zenon
      <4> HIDE DEF n
      <4>2. (i - 1) + (n - i) = n - 1
        BY <1>1
      <4> QED
        BY <2>3, <2>4, <4>1, <4>2, Zenon
    <3>2. ASSUME NEW k \in 1..i - 1
          PROVE  listing'[k] = listing[k]
      BY <1>1, <2>3, <2>4, <2>5, <2>6
    <3>3. ASSUME NEW k \in i..n - 1
          PROVE  listing'[k] = listing[k + 1]
      <4>1. k - Len(left) \in 1..n - i /\ i + (k - Len(left)) = k + 1
        BY <1>1, <2>3
      <4>2. listing'[k] = right[k - Len(left)]
        BY <1>1, <2>3, <2>4, <2>5, <2>6
      <4> QED
        BY <2>4, <4>1, <4>2
    <3>4. \A k \in 1..n - 1 : IF k <= i - 1 THEN k \in 1..i - 1 ELSE k \in i..n - 1
      BY <1>1
    <3> QED
      BY <3>1, <3>2, <3>3, <3>4
  <2> SUFFICES ASSUME NEW k \in 1..Len(listing'), NEW l \in 1..Len(listing'),
                      listing'[k] = listing'[l]
               PROVE  k = l
    BY DEF NoneTwice
  <2>8. (IF k <= i - 1 THEN k ELSE k + 1) = (IF l <= i - 1 THEN l ELSE l + 1)
    BY <1>1, <2>7 DEF NoneTwice
  <2> QED
    BY <1>1, <2>7, <2>8
<1>4. CASE \E i \in 0..n, t \in Created :
             /\ \A j \in 1..n : listing[j] # t
             /\ listing' = SubSeq(listing, 1, i) \o <<t>> \o SubSeq(listing, i + 1, n)
  <2>1. PICK i \in 0..n, t \in Created :
          /\ \A j \in 1..n : listing[j] # t
          /\ listing' = SubSeq(listing, 1, i) \o <<t>> \o SubSeq(listing, i + 1, n)
    BY <1>4
  <2> DEFINE left == SubSeq(listing, 1, i)
             right == SubSeq(listing, i + 1, n)
             front == left \o <<t>>
  <2>2. 1 \in 1..n + 1 /\ i \in 0..n /\ i + 1 \in 1..n + 1 /\ n \in 0..n
    BY <1>1
  <2>3. /\ left \in Seq(Task) /\ Len(left) = i
        /\ \A k \in 1..i : left[k] = listing[k]
    BY <1>1, <1>2, <2>2
  <2>4. /\ right \in Seq(Task) /\ Len(right) = n - i
        /\ \A k \in 1..n - i : right[k] = listing[i + k]
    BY <1>1, <1>2, <2>2
  <2> HIDE DEF left, right
  <2>5. /\ front \in Seq(Task) /\ Len(front) = i + 1 /\ front[i + 1] = t
        /\ \A k \in 1..i : front[k] = listing[k]
    <3>1. t \in Task
      BY DEF Task
    <3>2. <<t>> \in Seq(Task) /\ Len(<<t>>) = 1 /\ <<t>>[1] = t
      BY <3>1
    <3>3. /\ front \in Seq(Task) /\ Len(front) = Len(left) + 1
          /\ \A k \in 1..Len(left) + 1 :
               front[k] = IF k <= Len(left) THEN left[k] ELSE <<t>>[k - Len(left)]
      BY <2>3, <3>2, ConcatProperties
    <3> QED
      BY <2>2, <2>3, <3>2, <3>3
  <2> HIDE DEF front
  <2>6. /\ Len(front \o right) = Len(front) + Len(right)
        /\ \A k \in 1..Len(front) + Len(right) :
             (front \o right)[k] = IF k <= Len(front) THEN front[k] ELSE right[k - Len(front)]
    BY <2>4, <2>5, ConcatProperties
  <2>7. listing' = front \o right
    BY <2>1 DEF left, right, front
  <2>8. /\ Len(listing') = n + 1
        /\ \A k \in 1..n + 1 :
             listing'[k] = IF k = i + 1 THEN t
                           ELSE listing[IF k <= i THEN k ELSE k - 1]
    <3>1. Len(listing') = n + 1
      <4>1. Len(listing') = Len(front) + Len(right)
        BY <2>6, <2>7, Zenon
      <4> HIDE DEF n
      <4>2. (i + 1) + (n - i) = n + 1
        BY <1>1
      <4> QED
        BY <2>4, <2>5, <4>1, <4>2, Zenon
    <3>2. ASSUME NEW k \in 1..i + 1
          PROVE  listing'[k] = front[k]
      BY <1>1, <2>4, <2>5, <2>6, <2>7
    <3>3. ASSUME NEW k \in i + 2 .. n + 1
          PROVE  listing'[k] = listing[k - 1]
      <4>1. k - Len(front) \in 1..n - i /\ i + (k - Len(front)) = k - 1
        BY <1>1, <2>5
      <4>2. listing'[k] = right[k - Len(front)]
        BY <1>1, <2>4, <2>5, <2>6, <2>7
      <4> QED
        BY <2>4, <4>1, <4>2
    <3>4. \A k \in 1..n + 1 : k \in 1..i \/ k = i + 1 \/ k \in i + 2 .. n + 1
      BY <1>1
    <3>5. ASSUME NEW k \in 1..n + 1
          PROVE  listing'[k] = IF k = i + 1 THEN t
                               ELSE listing[IF k <= i THEN k ELSE k - 1]
      <4>1. CASE k \in 1..i
        BY <4>1, <2>5, <3>2
      <4>2. CASE k = i + 1
        BY <4>2, <2>5, <3>2
      <4>3. CASE k \in i + 2 .. n + 1
        BY <4>3, <3>3
      <4> QED
        BY <3>4, <4>1, <4>2, <4>3
    <3> QED
      BY <3>1, <3>5
  <2> SUFFICES ASSUME NEW k \in 1..Len(listing'), NEW l \in 1..Len(listing'),
                      listing'[k] = listing'[l]
               PROVE  k = l
    BY DEF NoneTwice
  <2>9. \A m \in 1..n + 1 :
          m # i + 1 => (IF m <= i THEN m ELSE m - 1) \in 1..n
    BY <1>1
  <2>10. CASE k = i + 1 \/ l = i + 1
    BY <1>1, <2>1, <2>8, <2>9, <2>10
  <2>11. CASE k # i + 1 /\ l # i + 1
    <3>1. (IF k <= i THEN k ELSE k - 1) = (IF l <= i THEN l ELSE l - 1)
      BY <2>8, <2>9, <2>11 DEF NoneTwice
    <3> QED
      BY <1>1, <2>8, <2>11, <3>1
  <2> QED
    BY <2>10, <2>11
<1> QED
  BY <1>3, <1>4 DEF Churn

-----------------------------------------------------------------------------
(* The steps                                                               *)

(* The numbers of the invariant are natural numbers.                       *)
LEMMA PriceType ==
  ASSUME TypeOK
  PROVE  Price \in Nat /\ Price >= 1 /\ overlaps \in Nat /\ churned \in Nat
BY PriceRises DEF TypeOK, Price

(* What is paid for when a request is sent: with nothing in flight it was  *)
(* due, and otherwise it is one overlap more.                              *)
LEMMA SendPaid ==
  ASSUME TypeOK, FiniteNet, NEW p \in Nat \ {0}, NEW answers,
         InFlight = {} => answers = {},
         Send(page + 1), page' = page, replies' = replies
  PROVE  Cardinality(Pending(p)')
           + Once(Below(p)' \/ (page' < p /\ Pending(p)' = {} /\ answers = {}))
           <= Cardinality(Pending(p)) + Once(MayAsk(p, answers))
                + (IF InFlight = {} THEN 0 ELSE 1)
<1> DEFINE q == [id |-> sent, page |-> page + 1]
           May == MayAsk(p, answers)
           May2 == Below(p)' \/ (page' < p /\ Pending(p)' = {} /\ answers = {})
<1>1. /\ page \in Nat /\ q.page = page + 1 /\ requests' = requests \cup {q}
      /\ IsFiniteSet(Pending(p)) /\ Cardinality(Pending(p)) \in Nat
  BY CountTypes DEF TypeOK, Send
<1> HIDE DEF q
<1>2. InFlight' = InFlight \cup {q}
  BY <1>1 DEF InFlight
<1>3. Below(p)' <=> Below(p) \/ page + 1 < p
  BY <1>1, <1>2 DEF Below
<1>4. InFlight = {} => ~Below(p) /\ Pending(p) = {} /\ Cardinality(Pending(p)) = 0
  BY FS_EmptySet DEF Below, Pending, InFlight
<1>5. CASE page + 1 = p
  <2>1. Pending(p)' = Pending(p) \cup {q}
    BY <1>1, <1>5 DEF Pending
  <2>2. Cardinality(Pending(p)') <= Cardinality(Pending(p)) + 1 /\ Cardinality(Pending(p)') \in Nat
    BY <1>1, <2>1, AddOne
  <2>3. Pending(p)' # {} /\ ~(page + 1 < p) /\ page < p
    BY <1>1, <1>5, <2>1
  <2>4. May2 <=> Below(p)
    BY <1>3, <2>3
  <2>5. Below(p) => May
    BY DEF MayAsk
  <2>6. InFlight = {} => May /\ ~May2
    BY <1>4, <2>3, <2>4 DEF MayAsk
  <2> HIDE DEF May, May2
  <2>7. Once(May2) <= Once(May) /\ Once(May2) \in Nat /\ Once(May) \in Nat
    BY <2>4, <2>5 DEF Once
  <2>8. InFlight = {} => Once(May) = 1 /\ Once(May2) = 0
    BY <2>6 DEF Once
  <2>9. Cardinality(Pending(p)') + Once(May2)
          <= Cardinality(Pending(p)) + Once(May) + (IF InFlight = {} THEN 0 ELSE 1)
    BY <1>1, <2>2, <2>7, <2>8
  <2> QED
    BY <2>9 DEF May, May2
<1>6. CASE page + 1 # p
  <2>1. Pending(p)' = Pending(p)
    BY <1>1, <1>6 DEF Pending
  <2>2. May2 => May \/ page + 1 < p
    BY <1>1, <1>3, <2>1 DEF MayAsk
  <2>3. InFlight = {} /\ page + 1 < p => May
    BY <1>1, <1>4 DEF MayAsk
  <2> HIDE DEF May, May2
  <2>4. Once(May2) <= Once(May) + (IF InFlight = {} THEN 0 ELSE 1)
    BY <2>2, <2>3 DEF Once
  <2>5. Once(May2) \in Nat /\ Once(May) \in Nat
    BY DEF Once
  <2>6. Cardinality(Pending(p)') + Once(May2)
          <= Cardinality(Pending(p)) + Once(May) + (IF InFlight = {} THEN 0 ELSE 1)
    BY <1>1, <2>1, <2>4, <2>5
  <2> QED
    BY <2>6 DEF May, May2
<1> QED
  BY <1>5, <1>6

(* A row that is displayed asks for the next page.                         *)
LEMMA DisplayPaid ==
  ASSUME CopiesInv, WillDisplay
  PROVE  RequestsPaid' /\ RowsPaid'
<1>1. /\ TypeOK /\ FiniteNet /\ RequestsPaid /\ RowsPaid /\ loaded
      /\ Send(page + 1)
      /\ UNCHANGED <<data, page, loaded, replies, listing, churned>>
      /\ overlaps' = IF InFlight = {} THEN overlaps ELSE overlaps + 1
  BY DEF CopiesInv, IInv, WillDisplay, Send, model
<1>2. Price \in Nat /\ overlaps \in Nat /\ churned \in Nat
  BY <1>1, PriceType
<1>3. Price' >= Price + (IF InFlight = {} THEN 0 ELSE 1) /\ Price' \in Nat
  <2>1. CASE InFlight = {}
    BY <1>1, <1>2, <2>1 DEF Price
  <2>2. CASE InFlight # {}
    <3>1. (1 + (overlaps + 1)) * (1 + churned) >= (1 + overlaps) * (1 + churned) + 1
      BY <1>2, PriceRises
    <3>2. Price' = (1 + (overlaps + 1)) * (1 + churned)
      BY <1>1, <2>2 DEF Price
    <3>3. (1 + (overlaps + 1)) * (1 + churned) \in Nat
      BY <1>2, PriceRises
    <3> QED
      BY <2>2, <3>1, <3>2, <3>3 DEF Price
  <2> QED
    BY <2>1, <2>2
<1>4. RequestsPaid'
  <2> SUFFICES ASSUME NEW p \in Nat \ {0}
               PROVE  (Cardinality(Pending(p)) + Cardinality(Late(p))
                         + Once(MayAsk(p, Late(p))) <= 1 + overlaps)'
    BY DEF RequestsPaid
  <2>1. PICK answers : answers = Late(p)
    OBVIOUS
  <2>2. Late(p)' = answers /\ (InFlight = {} => answers = {})
    BY <1>1, <2>1 DEF Late, InFlight
  <2>3. Cardinality(Pending(p)')
          + Once(Below(p)' \/ (page' < p /\ Pending(p)' = {} /\ answers = {}))
          <= Cardinality(Pending(p)) + Once(MayAsk(p, answers))
               + (IF InFlight = {} THEN 0 ELSE 1)
    BY <1>1, <2>2, SendPaid
  <2>4. Once(MayAsk(p, Late(p)))' =
          Once(Below(p)' \/ (page' < p /\ Pending(p)' = {} /\ answers = {}))
    BY <2>2 DEF MayAsk
  <2>5. Cardinality(Pending(p)) + Cardinality(answers) + Once(MayAsk(p, answers))
          <= 1 + overlaps
    BY <1>1, <2>1 DEF RequestsPaid
  <2>6. /\ Cardinality(Pending(p)) \in Nat /\ Cardinality(answers) \in Nat
        /\ Once(MayAsk(p, answers)) \in Nat /\ Once(MayAsk(p, Late(p)))' \in Nat
        /\ Cardinality(Pending(p)') \in Nat
    <3>1. Cardinality(Pending(p)) \in Nat /\ Cardinality(answers) \in Nat
      BY <1>1, <2>1, CountTypes
    <3>2. Pending(p)' \subseteq Pending(p) \cup {[id |-> sent, page |-> page + 1]}
      BY <1>1 DEF Pending, Send
    <3>3. Cardinality(Pending(p)') \in Nat
      BY <1>1, <3>2, AddOne, CountTypes
    <3>4. Once(MayAsk(p, answers)) \in Nat
      BY DEF Once
    <3>5. Once(MayAsk(p, Late(p)))' \in Nat
      BY DEF Once
    <3> QED
      BY <3>1, <3>3, <3>4, <3>5
  <2>7. Cardinality(Pending(p)') + Once(MayAsk(p, Late(p)))'
          <= Cardinality(Pending(p)) + Once(MayAsk(p, answers))
               + (IF InFlight = {} THEN 0 ELSE 1)
    BY <2>3, <2>4, Zenon
  <2>8. Cardinality(Pending(p)') + Cardinality(answers) + Once(MayAsk(p, Late(p)))'
          <= 1 + overlaps'
    BY <1>1, <1>2, <2>5, <2>6, <2>7
  <2> QED
    BY <2>2, <2>8, Zenon
<1>5. RowsPaid'
  <2> SUFFICES ASSUME NEW t \in Task
               PROVE  /\ (Due(t) <= Price)'
                      /\ \A p \in Nat \ {0} :
                           OnPage(t, p)' => (Due(t) + Demand(t, p) <= Price)'
    BY DEF RowsPaid
  <2>1. Due(t)' = Due(t) /\ Carrying(t)' = Carrying(t) /\ Due(t) \in Nat /\ Due(t) <= Price
    <3>1. Copies(t)' = Copies(t) /\ Carrying(t)' = Carrying(t)
      BY <1>1 DEF Copies, Carrying
    <3>2. Due(t) \in Nat
      BY <1>1, CountTypes DEF Due
    <3> QED
      BY <1>1, <3>1, <3>2 DEF Due, RowsPaid
  <2>2. ASSUME NEW p \in Nat \ {0}, OnPage(t, p)'
        PROVE  (Due(t) + Demand(t, p) <= Price)'
    <3>1. OnPage(t, p)
      BY <1>1, <2>2 DEF OnPage, PageOf, LastRow
    <3>2. PICK answers : answers = Carrying(t)
      OBVIOUS
    <3>3. Carrying(t)' = answers /\ (InFlight = {} => answers = {})
      BY <2>1, <3>2 DEF Carrying, InFlight
    <3>4. Cardinality(Pending(p)')
            + Once(Below(p)' \/ (page' < p /\ Pending(p)' = {} /\ answers = {}))
            <= Cardinality(Pending(p)) + Once(MayAsk(p, answers))
                 + (IF InFlight = {} THEN 0 ELSE 1)
      BY <1>1, <3>3, SendPaid
    <3>5. Demand(t, p)' =
            Cardinality(Pending(p)')
            + Once(Below(p)' \/ (page' < p /\ Pending(p)' = {} /\ answers = {}))
      BY <3>3 DEF Demand, MayAsk
    <3>6. Demand(t, p) = Cardinality(Pending(p)) + Once(MayAsk(p, answers))
      BY <3>2 DEF Demand
    <3>7. Demand(t, p)' <= Demand(t, p) + (IF InFlight = {} THEN 0 ELSE 1)
      BY <3>4, <3>5, <3>6, Zenon
    <3>8. Due(t) + Demand(t, p) <= Price
      BY <1>1, <3>1 DEF RowsPaid
    <3>9. Demand(t, p) \in Nat /\ Demand(t, p)' \in Nat
      <4>1. Cardinality(Pending(p)) \in Nat
        BY <1>1, CountTypes
      <4>2. Pending(p)' \subseteq Pending(p) \cup {[id |-> sent, page |-> page + 1]}
        BY <1>1 DEF Pending, Send
      <4>3. Cardinality(Pending(p)') \in Nat
        BY <1>1, <4>2, AddOne, CountTypes
      <4> QED
        BY <4>1, <4>3 DEF Demand, Once
    <3> QED
      BY <1>2, <1>3, <2>1, <3>7, <3>8, <3>9
  <2> QED
    BY <1>2, <1>3, <2>1, <2>2
<1> QED
  BY <1>4, <1>5

(* Loading the view starts with nothing in flight and no row.              *)
LEMMA LoadPaid ==
  ASSUME CopiesInv, ViewDidLoad
  PROVE  RequestsPaid' /\ RowsPaid'
<1> DEFINE q == [id |-> sent, page |-> 1]
<1>1. /\ TypeOK /\ InFlight = {} /\ requests' = {q} /\ replies' = {} /\ q.page = 1
      /\ data' = <<>> /\ page' = 0
  BY DEF CopiesInv, IInv, Fresh, ViewDidLoad, Send, InFlight
<1>2. Price' \in Nat /\ Price' >= 1 /\ overlaps' \in Nat
  BY <1>1, PriceType DEF ViewDidLoad, Send, Price
<1> HIDE DEF q
<1>3. \A p, t : Late(p)' = {} /\ Carrying(t)' = {} /\ Copies(t)' = {}
  BY <1>1 DEF Late, Carrying, Copies
<1>4. ASSUME NEW p \in Nat \ {0}
      PROVE  Cardinality(Pending(p)') + Once(Below(p)' \/ (page' < p /\ Pending(p)' = {})) = 1
  <2>1. CASE p = 1
    <3>1. Pending(p)' = {q} /\ ~Below(p)'
      BY <1>1, <2>1 DEF Pending, Below, InFlight
    <3>2. Cardinality(Pending(p)') = 1
      BY <3>1, FS_Singleton
    <3>3. ~(Below(p)' \/ (page' < p /\ Pending(p)' = {}))
      BY <3>1
    <3>4. Once(Below(p)' \/ (page' < p /\ Pending(p)' = {})) = 0
      BY <3>3 DEF Once
    <3> QED
      BY <3>2, <3>4
  <2>2. CASE p # 1
    <3>1. Pending(p)' = {}
      BY <1>1, <2>2 DEF Pending
    <3>2. Cardinality(Pending(p)') = 0
      BY <3>1, FS_EmptySet
    <3>3. page' < p
      BY <1>1
    <3>4. Once(Below(p)' \/ (page' < p /\ Pending(p)' = {})) = 1
      BY <3>1, <3>3 DEF Once
    <3> QED
      BY <3>2, <3>4
  <2> QED
    BY <2>1, <2>2
<1>5. RequestsPaid'
  <2> SUFFICES ASSUME NEW p \in Nat \ {0}
               PROVE  (Cardinality(Pending(p)) + Cardinality(Late(p))
                         + Once(MayAsk(p, Late(p))) <= 1 + overlaps)'
    BY DEF RequestsPaid
  <2>1. Cardinality(Late(p)') = 0
    BY <1>3, FS_EmptySet
  <2>2. Once(MayAsk(p, Late(p)))' = Once(Below(p)' \/ (page' < p /\ Pending(p)' = {}))
    BY <1>3 DEF MayAsk
  <2>3. Cardinality(Pending(p)') + Once(MayAsk(p, Late(p)))' = 1
    BY <1>4, <2>2, Zenon
  <2>4. Cardinality(Pending(p)') \in Nat /\ Once(MayAsk(p, Late(p)))' \in Nat
    <3>1. IsFiniteSet(requests')
      BY <1>1, FS_Singleton
    <3>2. Cardinality(Pending(p)') \in Nat
      BY <3>1, FS_Subset, FS_CardinalityType DEF Pending
    <3> QED
      BY <3>2 DEF Once
  <2> QED
    BY <1>2, <2>1, <2>3, <2>4
<1>6. RowsPaid'
  <2> SUFFICES ASSUME NEW t \in Task
               PROVE  /\ (Due(t) <= Price)'
                      /\ \A p \in Nat \ {0} :
                           OnPage(t, p)' => (Due(t) + Demand(t, p) <= Price)'
    BY DEF RowsPaid
  <2>1. Due(t)' = 0
    BY <1>3, FS_EmptySet DEF Due
  <2>2. ASSUME NEW p \in Nat \ {0}
        PROVE  Demand(t, p)' = 1
    <3>1. Demand(t, p)' =
            Cardinality(Pending(p)') + Once(Below(p)' \/ (page' < p /\ Pending(p)' = {}))
      BY <1>3 DEF Demand, MayAsk
    <3> QED
      BY <3>1, <1>4, Zenon
  <2> QED
    BY <1>2, <2>1, <2>2
<1> QED
  BY <1>5, <1>6

(* Once more, or not, is a number.                                         *)
LEMMA OnceType == \A b : Once(b) \in 0..1
BY DEF Once

(* The server's answer takes the place of the request.                     *)
LEMMA ServePaid ==
  ASSUME CopiesInv, NEW q \in requests, Serve(q)
  PROVE  RequestsPaid' /\ RowsPaid'
<1> DEFINE a == [id |-> q.id, page |-> q.page, tasks |-> PageOf(listing, q.page),
                 count |-> Len(listing)]
<1>1. /\ TypeOK /\ FiniteNet /\ NoneTwice(listing) /\ RequestsPaid /\ RowsPaid
      /\ requests' = requests \ {q} /\ replies' = replies \cup {a}
      /\ a.page = q.page /\ a.tasks = PageOf(listing, q.page)
      /\ UNCHANGED <<data, page, loaded, listing, overlaps, churned>>
  BY DEF CopiesInv, IInv, PagesDistinct, Serve, model, history
<1> HIDE DEF a
<1>2. Price \in Nat /\ overlaps \in Nat /\ Price' = Price /\ q.page \in Nat \ {0}
  BY <1>1, PriceType DEF Price, TypeOK, Request
<1>3. \A p : Below(p)' <=> Below(p)
  <2>1. InFlight' \cup {q} = InFlight \cup {a}
    BY <1>1 DEF InFlight
  <2>2. a \in InFlight' /\ q \in InFlight
    BY <1>1 DEF InFlight
  <2> QED
    BY <1>1, <2>1, <2>2 DEF Below
<1>4. \A p : Pending(p)' = Pending(p) \ {q}
  BY <1>1 DEF Pending
<1>5. RequestsPaid'
  <2> SUFFICES ASSUME loaded, NEW p \in Nat \ {0}
               PROVE  (Cardinality(Pending(p)) + Cardinality(Late(p))
                         + Once(MayAsk(p, Late(p))) <= 1 + overlaps)'
    BY <1>1 DEF RequestsPaid
  <2>1. /\ Cardinality(Pending(p)) + Cardinality(Late(p)) + Once(MayAsk(p, Late(p)))
             <= 1 + overlaps
        /\ IsFiniteSet(Pending(p)) /\ Cardinality(Pending(p)) \in Nat
        /\ IsFiniteSet(Late(p)) /\ Cardinality(Late(p)) \in Nat
        /\ Once(MayAsk(p, Late(p))) \in 0..1 /\ Once(MayAsk(p, Late(p)))' \in 0..1
    BY <1>1, CountTypes, OnceType DEF RequestsPaid
  <2>2. CASE q.page = p
    <3>1. q \in Pending(p) /\ Late(p)' = Late(p) \cup {a}
      BY <1>1, <2>2 DEF Pending, Late
    <3>2. /\ Cardinality(Pending(p)') = Cardinality(Pending(p)) - 1
          /\ Cardinality(Late(p)') <= Cardinality(Late(p)) + 1
          /\ Cardinality(Late(p)') \in Nat
      BY <1>4, <2>1, <3>1, TakeOne, AddOne
    <3>3. MayAsk(p, Late(p))' => MayAsk(p, Late(p))
      BY <1>3, <3>1 DEF MayAsk
    <3>4. Once(MayAsk(p, Late(p)))' <= Once(MayAsk(p, Late(p)))
      BY <3>3 DEF Once
    <3> QED
      BY <1>1, <1>2, <2>1, <3>2, <3>4
  <2>3. CASE q.page # p
    <3>1. Pending(p)' = Pending(p) /\ Late(p)' = Late(p)
      BY <1>1, <2>3 DEF Pending, Late
    <3>2. Once(MayAsk(p, Late(p)))' = Once(MayAsk(p, Late(p)))
      BY <1>1, <1>3, <3>1 DEF MayAsk
    <3> QED
      BY <1>1, <2>1, <3>1, <3>2
  <2> QED
    BY <2>2, <2>3
<1>6. RowsPaid'
  <2> SUFFICES ASSUME loaded, NEW t \in Task
               PROVE  /\ (Due(t) <= Price)'
                      /\ \A p \in Nat \ {0} :
                           OnPage(t, p)' => (Due(t) + Demand(t, p) <= Price)'
    BY <1>1 DEF RowsPaid
  <2>1. /\ Due(t) <= Price
        /\ \A p \in Nat \ {0} : OnPage(t, p) => Due(t) + Demand(t, p) <= Price
        /\ IsFiniteSet(Carrying(t)) /\ Cardinality(Carrying(t)) \in Nat
        /\ Cardinality(Copies(t)) \in Nat
        /\ Due(t) = Cardinality(Copies(t)) + Cardinality(Carrying(t))
        /\ Due(t)' = Cardinality(Copies(t)) + Cardinality(Carrying(t)')
    BY <1>1, CountTypes DEF RowsPaid, Due, Copies
  <2>2. \A p : OnPage(t, p)' <=> OnPage(t, p)
    BY <1>1 DEF OnPage, PageOf, LastRow
  <2>3. Carries(a, t) <=> OnPage(t, q.page)
    BY <1>1 DEF Carries, OnPage
  <2>4. CASE OnPage(t, q.page)
    <3>1. Carrying(t)' = Carrying(t) \cup {a}
      BY <1>1, <2>3, <2>4 DEF Carrying
    <3>2. Cardinality(Carrying(t)') <= Cardinality(Carrying(t)) + 1
          /\ Cardinality(Carrying(t)') \in Nat
      BY <2>1, <3>1, AddOne
    <3> DEFINE p == q.page
    <3>3. /\ q \in Pending(p)
          /\ IsFiniteSet(Pending(p)) /\ Cardinality(Pending(p)) \in Nat
      BY <1>1, CountTypes DEF Pending
    <3>4. Cardinality(Pending(p)') = Cardinality(Pending(p)) - 1
          /\ Cardinality(Pending(p)') \in Nat
      BY <1>4, <3>3, TakeOne
    <3>5. MayAsk(p, Carrying(t))' => MayAsk(p, Carrying(t))
      BY <1>3, <3>1 DEF MayAsk
    <3>6. /\ Once(MayAsk(p, Carrying(t)))' <= Once(MayAsk(p, Carrying(t)))
          /\ Once(MayAsk(p, Carrying(t)))' \in 0..1
          /\ Once(MayAsk(p, Carrying(t))) \in 0..1
      BY <3>5 DEF Once
    <3>7. /\ Demand(t, p) = Cardinality(Pending(p)) + Once(MayAsk(p, Carrying(t)))
          /\ Demand(t, p)' = Cardinality(Pending(p)') + Once(MayAsk(p, Carrying(t)))'
      BY <1>1 DEF Demand
    <3>8. Due(t) + Demand(t, p) <= Price
      BY <1>2, <2>1, <2>4
    <3>9. Due(t)' + Demand(t, p)' <= Price /\ Due(t)' <= Price
      BY <1>2, <2>1, <3>2, <3>3, <3>4, <3>6, <3>7, <3>8
    <3>10. ASSUME NEW s \in Nat \ {0}, OnPage(t, s)'
           PROVE  s = p
      BY <1>1, <1>2, <2>2, <2>4, <3>10, OnePage
    <3> QED
      BY <1>2, <3>9, <3>10
  <2>5. CASE ~OnPage(t, q.page)
    <3>1. Carrying(t)' = Carrying(t)
      BY <1>1, <2>3, <2>5 DEF Carrying
    <3>2. ASSUME NEW p \in Nat \ {0}, OnPage(t, p)
          PROVE  Demand(t, p)' = Demand(t, p)
      <4>1. p # q.page
        BY <2>5, <3>2
      <4>2. Pending(p)' = Pending(p)
        BY <1>1, <4>1 DEF Pending
      <4> QED
        BY <1>1, <1>3, <3>1, <4>2 DEF Demand, MayAsk
    <3> QED
      BY <1>2, <2>1, <2>2, <3>1, <3>2
  <2> QED
    BY <2>4, <2>5
<1> QED
  BY <1>5, <1>6

(* The rows of an answer that is delivered were due.                       *)
LEMMA DeliveredRows ==
  ASSUME TypeOK, FiniteNet, PagesDistinct, NEW r \in replies, Deliver(r), NEW t
  PROVE  Due(t)' <= Due(t) /\ Due(t)' \in Nat
<1>1. /\ data \in Seq(Task) /\ r.tasks \in Seq(Task) /\ Len(data) \in Nat
      /\ Len(r.tasks) \in Nat /\ NoneTwice(r.tasks)
      /\ data' = data \o r.tasks /\ replies' = replies \ {r}
  BY LenProperties DEF TypeOK, PagesDistinct, Reply, Deliver
<1>2. /\ Len(data') = Len(data) + Len(r.tasks)
      /\ \A i \in 1..Len(data) + Len(r.tasks) :
           data'[i] = IF i <= Len(data) THEN data[i] ELSE r.tasks[i - Len(data)]
  BY <1>1, ConcatProperties
<1>3. Carrying(t)' = Carrying(t) \ {r}
  BY <1>1 DEF Carrying
<1>4. /\ IsFiniteSet(Carrying(t)) /\ Cardinality(Carrying(t)) \in Nat
      /\ IsFiniteSet(Copies(t)) /\ Cardinality(Copies(t)) \in Nat
  BY CountTypes
<1>5. /\ Due(t) = Cardinality(Copies(t)) + Cardinality(Carrying(t))
      /\ Due(t)' = Cardinality(Copies(t)') + Cardinality(Carrying(t)')
  BY DEF Due
<1>6. ASSUME NEW i \in Copies(t)'
      PROVE  \/ i \in Copies(t)
             \/ /\ i - Len(data) \in 1..Len(r.tasks)
                /\ r.tasks[i - Len(data)] = t
                /\ i \in Nat
  BY <1>1, <1>2 DEF Copies
<1>7. CASE Carries(r, t)
  <2>1. PICK k \in 1..Len(r.tasks) : r.tasks[k] = t
    BY <1>7 DEF Carries
  <2>2. ASSUME NEW i \in Copies(t)', i \notin Copies(t)
        PROVE  i = Len(data) + k
    <3>1. /\ i - Len(data) \in 1..Len(r.tasks)
          /\ r.tasks[i - Len(data)] = r.tasks[k] /\ i \in Nat
      BY <1>6, <2>1, <2>2
    <3>2. i - Len(data) = k
      BY <1>1, <3>1 DEF NoneTwice
    <3> QED
      BY <1>1, <3>1, <3>2
  <2>3. Copies(t)' \subseteq Copies(t) \cup {Len(data) + k}
    BY <2>2
  <2>4. Cardinality(Copies(t)') <= Cardinality(Copies(t)) + 1
        /\ Cardinality(Copies(t)') \in Nat
    BY <1>4, <2>3, AddOne
  <2>5. r \in Carrying(t)
    BY <1>7 DEF Carrying
  <2>6. Cardinality(Carrying(t)') = Cardinality(Carrying(t)) - 1
        /\ Cardinality(Carrying(t)') \in Nat
    BY <1>3, <1>4, <2>5, TakeOne
  <2> QED
    BY <1>4, <1>5, <2>4, <2>6
<1>8. CASE ~Carries(r, t)
  <2>1. Copies(t)' \subseteq Copies(t)
    BY <1>6, <1>8 DEF Carries
  <2>2. Cardinality(Copies(t)') <= Cardinality(Copies(t)) /\ Cardinality(Copies(t)') \in Nat
    BY <1>4, <2>1, FS_Subset, FS_CardinalityType
  <2>3. Carrying(t)' = Carrying(t)
    BY <1>3, <1>8 DEF Carrying
  <2> QED
    BY <1>4, <1>5, <2>2, <2>3
<1> QED
  BY <1>7, <1>8

(* An answer that arrives moves the cursor, back only if it was below.     *)
LEMMA DeliverPaid ==
  ASSUME CopiesInv, NEW r \in replies, Deliver(r)
  PROVE  RequestsPaid' /\ RowsPaid'
<1>1. /\ TypeOK /\ FiniteNet /\ PagesDistinct /\ RequestsPaid /\ RowsPaid
      /\ requests' = requests /\ replies' = replies \ {r} /\ page' = r.page
      /\ UNCHANGED <<loaded, listing, overlaps, churned>>
  BY DEF CopiesInv, IInv, Deliver
<1>2. Price \in Nat /\ overlaps \in Nat /\ Price' = Price /\ r.page \in Nat
  BY <1>1, PriceType DEF Price, TypeOK, Reply
<1>3. \A p : Below(p)' => Below(p)
  BY <1>1 DEF Below, InFlight
<1>4. ASSUME NEW p \in Nat \ {0}, NEW answers, NEW answers2,
             Below(p)' \/ (page' < p /\ Pending(p)' = {} /\ answers2 = {})
      PROVE  MayAsk(p, answers)
  <2>1. CASE r.page < p
    <3>1. r \in InFlight
      BY DEF InFlight
    <3>2. Below(p)
      BY <2>1, <3>1 DEF Below
    <3> QED
      BY <3>2 DEF MayAsk
  <2>2. CASE ~(r.page < p)
    BY <1>1, <1>3, <1>4, <2>2 DEF MayAsk
  <2> QED
    BY <2>1, <2>2
<1>5. RequestsPaid'
  <2> SUFFICES ASSUME loaded, NEW p \in Nat \ {0}
               PROVE  (Cardinality(Pending(p)) + Cardinality(Late(p))
                         + Once(MayAsk(p, Late(p))) <= 1 + overlaps)'
    BY <1>1 DEF RequestsPaid
  <2>1. /\ Cardinality(Pending(p)) + Cardinality(Late(p)) + Once(MayAsk(p, Late(p)))
             <= 1 + overlaps
        /\ Cardinality(Pending(p)) \in Nat
        /\ IsFiniteSet(Late(p)) /\ Cardinality(Late(p)) \in Nat
        /\ Once(MayAsk(p, Late(p))) \in 0..1 /\ Once(MayAsk(p, Late(p)))' \in 0..1
    BY <1>1, CountTypes, OnceType DEF RequestsPaid
  <2>2. Pending(p)' = Pending(p) /\ Late(p)' = Late(p) \ {r}
    BY <1>1 DEF Pending, Late
  <2>3. Cardinality(Late(p)') <= Cardinality(Late(p)) /\ Cardinality(Late(p)') \in Nat
    BY <2>1, <2>2, TakeOne
  <2>4. MayAsk(p, Late(p))' => MayAsk(p, Late(p))
    BY <1>4 DEF MayAsk
  <2>5. Once(MayAsk(p, Late(p)))' <= Once(MayAsk(p, Late(p)))
    BY <2>4 DEF Once
  <2> QED
    BY <1>1, <1>2, <2>1, <2>2, <2>3, <2>5
<1>6. RowsPaid'
  <2> SUFFICES ASSUME loaded, NEW t \in Task
               PROVE  /\ (Due(t) <= Price)'
                      /\ \A p \in Nat \ {0} :
                           OnPage(t, p)' => (Due(t) + Demand(t, p) <= Price)'
    BY <1>1 DEF RowsPaid
  <2>1. /\ Due(t) <= Price
        /\ \A p \in Nat \ {0} : OnPage(t, p) => Due(t) + Demand(t, p) <= Price
        /\ Due(t) \in Nat
    BY <1>1, CountTypes DEF RowsPaid, Due
  <2>2. Due(t)' <= Due(t) /\ Due(t)' \in Nat
    BY <1>1, DeliveredRows
  <2>3. ASSUME NEW p \in Nat \ {0}, OnPage(t, p)'
        PROVE  (Due(t) + Demand(t, p) <= Price)'
    <3>1. OnPage(t, p)
      BY <1>1, <2>3 DEF OnPage, PageOf, LastRow
    <3>2. MayAsk(p, Carrying(t))' => MayAsk(p, Carrying(t))
      BY <1>4 DEF MayAsk
    <3>3. /\ Once(MayAsk(p, Carrying(t)))' <= Once(MayAsk(p, Carrying(t)))
          /\ Once(MayAsk(p, Carrying(t)))' \in 0..1
          /\ Once(MayAsk(p, Carrying(t))) \in 0..1
      BY <3>2 DEF Once
    <3>4. Pending(p)' = Pending(p) /\ Cardinality(Pending(p)) \in Nat
      BY <1>1, CountTypes DEF Pending
    <3>5. /\ Demand(t, p) = Cardinality(Pending(p)) + Once(MayAsk(p, Carrying(t)))
          /\ Demand(t, p)' = Cardinality(Pending(p)) + Once(MayAsk(p, Carrying(t)))'
      BY <3>4 DEF Demand
    <3> QED
      BY <1>2, <2>1, <2>2, <3>1, <3>3, <3>4, <3>5
  <2> QED
    BY <1>2, <2>1, <2>2, <2>3
<1> QED
  BY <1>5, <1>6

(* A loss makes room for one more request, and takes one away.             *)
LEMMA LostCount ==
  ASSUME TypeOK, FiniteNet, NEW r \in InFlight, Lose(r), NEW p \in Nat \ {0},
         NEW answers, IsFiniteSet(answers), NEW answers2, answers2 = answers \ {r}
  PROVE  /\ Cardinality(Pending(p)') + Cardinality(answers2)
              + Once(Below(p)' \/ (page' < p /\ Pending(p)' = {} /\ answers2 = {}))
                <= Cardinality(Pending(p)) + Cardinality(answers) + Once(MayAsk(p, answers))
         /\ Cardinality(Pending(p)') \in Nat
         /\ Cardinality(answers2) <= Cardinality(answers)
         /\ Cardinality(answers2) \in Nat
<1> DEFINE May == MayAsk(p, answers)
           May2 == Below(p)' \/ (page' < p /\ Pending(p)' = {} /\ answers2 = {})
<1>1. /\ requests' = requests \ {r} /\ replies' = replies \ {r} /\ page' = page
      /\ Pending(p)' = Pending(p) \ {r}
      /\ Below(p)' => Below(p)
  BY DEF Lose, model, Pending, Below, InFlight
<1>2. /\ IsFiniteSet(Pending(p)) /\ Cardinality(Pending(p)) \in Nat
      /\ Cardinality(answers) \in Nat
  BY CountTypes, FS_CardinalityType
<1>3. /\ Cardinality(Pending(p)') \in Nat
      /\ Cardinality(Pending(p)') <= Cardinality(Pending(p))
      /\ r \in Pending(p) => Cardinality(Pending(p)') = Cardinality(Pending(p)) - 1
      /\ Cardinality(answers2) \in Nat
      /\ Cardinality(answers2) <= Cardinality(answers)
      /\ r \in answers => Cardinality(answers2) = Cardinality(answers) - 1
  BY <1>1, <1>2, TakeOne
<1>4. r \notin Pending(p) /\ r \notin answers => (May2 => May)
  BY <1>1 DEF MayAsk
<1> HIDE DEF May, May2
<1>5. Once(May) \in 0..1 /\ Once(May2) \in 0..1
  BY OnceType
<1>6. r \notin Pending(p) /\ r \notin answers => Once(May2) <= Once(May)
  BY <1>4 DEF Once
<1>7. Cardinality(Pending(p)') + Cardinality(answers2) + Once(May2)
        <= Cardinality(Pending(p)) + Cardinality(answers) + Once(May)
  BY <1>2, <1>3, <1>5, <1>6
<1> QED
  BY <1>3, <1>7 DEF May, May2

LEMMA LosePaid ==
  ASSUME CopiesInv, NEW r \in InFlight, Lose(r)
  PROVE  RequestsPaid' /\ RowsPaid'
<1>1. /\ TypeOK /\ FiniteNet /\ RequestsPaid /\ RowsPaid
      /\ replies' = replies \ {r}
      /\ UNCHANGED <<data, page, loaded, listing, overlaps, churned>>
  BY DEF CopiesInv, IInv, Lose, model
<1>2. Price \in Nat /\ overlaps \in Nat /\ Price' = Price
  BY <1>1, PriceType DEF Price
<1>3. RequestsPaid'
  <2> SUFFICES ASSUME loaded, NEW p \in Nat \ {0}
               PROVE  (Cardinality(Pending(p)) + Cardinality(Late(p))
                         + Once(MayAsk(p, Late(p))) <= 1 + overlaps)'
    BY <1>1 DEF RequestsPaid
  <2>1. /\ Cardinality(Pending(p)) + Cardinality(Late(p)) + Once(MayAsk(p, Late(p)))
             <= 1 + overlaps
        /\ Cardinality(Pending(p)) \in Nat
        /\ IsFiniteSet(Late(p)) /\ Cardinality(Late(p)) \in Nat
        /\ Once(MayAsk(p, Late(p))) \in 0..1 /\ Once(MayAsk(p, Late(p)))' \in 0..1
    BY <1>1, CountTypes, OnceType DEF RequestsPaid
  <2>2. PICK answers, answers2 : answers = Late(p) /\ answers2 = answers \ {r}
    OBVIOUS
  <2>3. Late(p)' = answers2
    BY <1>1, <2>2 DEF Late
  <2>4. /\ Cardinality(Pending(p)') + Cardinality(answers2)
              + Once(Below(p)' \/ (page' < p /\ Pending(p)' = {} /\ answers2 = {}))
                <= Cardinality(Pending(p)) + Cardinality(answers) + Once(MayAsk(p, answers))
        /\ Cardinality(Pending(p)') \in Nat /\ Cardinality(answers2) \in Nat
    BY <1>1, <2>1, <2>2, LostCount
  <2>5. Once(MayAsk(p, Late(p)))' =
          Once(Below(p)' \/ (page' < p /\ Pending(p)' = {} /\ answers2 = {}))
    BY <2>3 DEF MayAsk
  <2>6. Cardinality(Pending(p)') + Cardinality(answers2) + Once(MayAsk(p, Late(p)))'
          <= Cardinality(Pending(p)) + Cardinality(Late(p)) + Once(MayAsk(p, Late(p)))
    BY <2>2, <2>4, <2>5, Zenon
  <2>7. Cardinality(Pending(p)') + Cardinality(answers2) + Once(MayAsk(p, Late(p)))'
          <= 1 + overlaps
    BY <1>2, <2>1, <2>4, <2>6
  <2> QED
    BY <1>1, <2>3, <2>7, Zenon
<1>4. RowsPaid'
  <2> SUFFICES ASSUME loaded, NEW t \in Task
               PROVE  /\ (Due(t) <= Price)'
                      /\ \A p \in Nat \ {0} :
                           OnPage(t, p)' => (Due(t) + Demand(t, p) <= Price)'
    BY <1>1 DEF RowsPaid
  <2>1. /\ Due(t) <= Price
        /\ \A p \in Nat \ {0} : OnPage(t, p) => Due(t) + Demand(t, p) <= Price
        /\ IsFiniteSet(Carrying(t)) /\ Cardinality(Carrying(t)) \in Nat
        /\ Cardinality(Copies(t)) \in Nat
        /\ Due(t) = Cardinality(Copies(t)) + Cardinality(Carrying(t))
        /\ Due(t)' = Cardinality(Copies(t)) + Cardinality(Carrying(t)')
    BY <1>1, CountTypes DEF RowsPaid, Due, Copies
  <2>2. PICK answers, answers2 : answers = Carrying(t) /\ answers2 = answers \ {r}
    OBVIOUS
  <2>3. Carrying(t)' = answers2
    BY <1>1, <2>2 DEF Carrying
  <2>4. Cardinality(answers2) <= Cardinality(answers) /\ Cardinality(answers2) \in Nat
    BY <2>1, <2>2, TakeOne
  <2>5. Due(t)' <= Price
    BY <1>2, <2>1, <2>2, <2>3, <2>4
  <2>6. ASSUME NEW p \in Nat \ {0}, OnPage(t, p)'
        PROVE  (Due(t) + Demand(t, p) <= Price)'
    <3>1. OnPage(t, p)
      BY <1>1, <2>6 DEF OnPage, PageOf, LastRow
    <3>2. /\ Cardinality(Pending(p)') + Cardinality(answers2)
               + Once(Below(p)' \/ (page' < p /\ Pending(p)' = {} /\ answers2 = {}))
                 <= Cardinality(Pending(p)) + Cardinality(answers) + Once(MayAsk(p, answers))
          /\ Cardinality(Pending(p)') \in Nat
      BY <1>1, <2>1, <2>2, LostCount
    <3>3. Demand(t, p)' =
            Cardinality(Pending(p)')
            + Once(Below(p)' \/ (page' < p /\ Pending(p)' = {} /\ answers2 = {}))
      BY <2>3 DEF Demand, MayAsk
    <3>4. Demand(t, p) = Cardinality(Pending(p)) + Once(MayAsk(p, answers))
      BY <2>2 DEF Demand
    <3>5. PICK n \in 0..1, m \in 0..1 :
            /\ n = Once(MayAsk(p, answers))
            /\ m = Once(Below(p)' \/ (page' < p /\ Pending(p)' = {} /\ answers2 = {}))
      BY OnceType
    <3>6. Cardinality(Pending(p)') + Cardinality(answers2) + m
            <= Cardinality(Pending(p)) + Cardinality(answers) + n
      BY <3>2, <3>5, Zenon
    <3>7. /\ Demand(t, p)' = Cardinality(Pending(p)') + m
          /\ Demand(t, p) = Cardinality(Pending(p)) + n
      BY <3>3, <3>4, <3>5, Zenon
    <3>8. Cardinality(Pending(p)) \in Nat
      BY <1>1, CountTypes
    <3>9. Due(t) + Demand(t, p) <= Price
      BY <2>1, <3>1
    <3> QED
      BY <1>2, <2>1, <2>2, <2>3, <2>4, <3>2, <3>6, <3>7, <3>8, <3>9
  <2> QED
    BY <1>2, <2>5, <2>6
<1> QED
  BY <1>3, <1>4

(* A change of the listing may put a task on any page: what it costs is    *)
(* what was to be asked for there anyway.                                  *)
LEMMA ChurnPaid ==
  ASSUME CopiesInv, Churn
  PROVE  RequestsPaid' /\ RowsPaid'
<1>1. /\ TypeOK /\ FiniteNet /\ RequestsPaid /\ RowsPaid
      /\ churned' = churned + 1
      /\ UNCHANGED <<data, page, loaded, requests, replies, overlaps>>
  BY DEF CopiesInv, IInv, Churn, model, net
<1>2. Price \in Nat /\ overlaps \in Nat /\ churned \in Nat
  BY <1>1, PriceType
<1>3. Price' = Price + (1 + overlaps) /\ Price' \in Nat
  <2>1. (1 + overlaps) * (1 + (churned + 1)) = (1 + overlaps) * (1 + churned) + (1 + overlaps)
    BY <1>2, PriceRises
  <2>2. Price' = (1 + overlaps) * (1 + (churned + 1))
    BY <1>1 DEF Price
  <2>3. Price' = Price + (1 + overlaps)
    BY <2>1, <2>2 DEF Price
  <2> QED
    BY <1>2, <2>3
<1>4. \A p, t : /\ Pending(p)' = Pending(p) /\ Late(p)' = Late(p)
                /\ Carrying(t)' = Carrying(t) /\ Due(t)' = Due(t)
                /\ Below(p)' = Below(p)
  BY <1>1 DEF Pending, Late, Carrying, Due, Copies, Below, InFlight
<1>5. \A p, t : Demand(t, p)' = Demand(t, p)
  BY <1>1, <1>4 DEF Demand, MayAsk
<1>6. RequestsPaid'
  BY <1>1, <1>4 DEF RequestsPaid, MayAsk
<1>7. ASSUME loaded, NEW t \in Task, NEW p \in Nat \ {0}
      PROVE  Demand(t, p) <= 1 + overlaps /\ Demand(t, p) \in Nat
  <2>1. /\ Cardinality(Pending(p)) + Cardinality(Late(p)) + Once(MayAsk(p, Late(p)))
             <= 1 + overlaps
        /\ IsFiniteSet(Pending(p)) /\ IsFiniteSet(Late(p))
        /\ Cardinality(Pending(p)) \in Nat /\ Cardinality(Late(p)) \in Nat
        /\ Once(MayAsk(p, Late(p))) \in 0..1
        /\ Once(MayAsk(p, Carrying(t))) \in 0..1
    BY <1>1, <1>7, CountTypes, OnceType DEF RequestsPaid
  <2>2. Once(MayAsk(p, Carrying(t))) <= Cardinality(Late(p)) + Once(MayAsk(p, Late(p)))
    <3>1. CASE Late(p) = {}
      <4>1. MayAsk(p, Carrying(t)) => MayAsk(p, Late(p))
        BY <3>1 DEF MayAsk
      <4>2. Once(MayAsk(p, Carrying(t))) <= Once(MayAsk(p, Late(p)))
        BY <4>1 DEF Once
      <4> QED
        BY <2>1, <4>2
    <3>2. CASE Late(p) # {}
      <4>1. Cardinality(Late(p)) # 0
        BY <2>1, <3>2, FS_EmptySet
      <4> QED
        BY <2>1, <4>1
    <3> QED
      BY <3>1, <3>2
  <2>3. Demand(t, p) = Cardinality(Pending(p)) + Once(MayAsk(p, Carrying(t)))
    BY DEF Demand
  <2> QED
    BY <1>2, <2>1, <2>2, <2>3
<1>8. RowsPaid'
  <2> SUFFICES ASSUME loaded, NEW t \in Task
               PROVE  /\ (Due(t) <= Price)'
                      /\ \A p \in Nat \ {0} :
                           OnPage(t, p)' => (Due(t) + Demand(t, p) <= Price)'
    BY <1>1 DEF RowsPaid
  <2>1. Due(t) <= Price /\ Due(t) \in Nat
    BY <1>1, CountTypes DEF RowsPaid, Due
  <2>2. ASSUME NEW p \in Nat \ {0}
        PROVE  Due(t)' + Demand(t, p)' <= Price'
    <3>1. Due(t)' = Due(t) /\ Demand(t, p)' = Demand(t, p)
      BY <1>4, <1>5
    <3>2. Demand(t, p) <= 1 + overlaps /\ Demand(t, p) \in Nat
      BY <1>7
    <3> QED
      BY <1>2, <1>3, <2>1, <3>1, <3>2
  <2>3. Due(t)' <= Price'
    BY <1>2, <1>3, <1>4, <2>1
  <2> QED
    BY <2>2, <2>3
<1> QED
  BY <1>6, <1>8

-----------------------------------------------------------------------------
(* The theorem                                                             *)

LEMMA CopiesInit == Init => CopiesInv
<1> SUFFICES ASSUME Init PROVE CopiesInv
  OBVIOUS
<1>1. IInv
  BY InitIInv
<1>2. FiniteNet
  BY FS_EmptySet DEF Init, FiniteNet
<1>3. PagesDistinct
  BY ListingAssumption DEF Init, PagesDistinct, NoneTwice
<1>4. RequestsPaid /\ RowsPaid
  BY DEF Init, RequestsPaid, RowsPaid
<1> QED
  BY <1>1, <1>2, <1>3, <1>4 DEF CopiesInv

LEMMA NetStep ==
  ASSUME CopiesInv, Next
  PROVE  FiniteNet' /\ PagesDistinct'
<1>1. TypeOK /\ FiniteNet /\ PagesDistinct
  BY DEF CopiesInv, IInv
<1>2. CASE ViewDidLoad \/ WillDisplay
  <2>1. PICK q : /\ requests' = requests \cup {q}
                 /\ UNCHANGED <<replies, listing>>
    BY <1>2 DEF ViewDidLoad, WillDisplay, Send
  <2> QED
    BY <1>1, <2>1, FS_AddElement DEF FiniteNet, PagesDistinct
<1>3. ASSUME NEW q \in requests, Serve(q)
      PROVE  FiniteNet' /\ PagesDistinct'
  <2> DEFINE a == [id |-> q.id, page |-> q.page, tasks |-> PageOf(listing, q.page),
                   count |-> Len(listing)]
  <2>1. /\ requests' = requests \ {q} /\ replies' = replies \cup {a}
        /\ a.tasks = PageOf(listing, q.page) /\ listing' = listing
    BY <1>3 DEF Serve
  <2>2. NoneTwice(a.tasks)
    BY <1>1, <2>1, PageDistinct DEF PagesDistinct, TypeOK, Request
  <2> HIDE DEF a
  <2>3. FiniteNet'
    BY <1>1, <2>1, FS_AddElement, FS_RemoveElement DEF FiniteNet
  <2> QED
    BY <1>1, <2>1, <2>2, <2>3 DEF PagesDistinct
<1>4. ASSUME NEW r, requests' \in {requests, requests \ {r}}, replies' = replies \ {r},
             listing' = listing
      PROVE  FiniteNet' /\ PagesDistinct'
  <2>1. IsFiniteSet(requests \ {r}) /\ IsFiniteSet(replies \ {r})
    BY <1>1, FS_RemoveElement DEF FiniteNet
  <2>2. FiniteNet'
    BY <1>1, <1>4, <2>1 DEF FiniteNet
  <2>3. PagesDistinct'
    BY <1>1, <1>4 DEF PagesDistinct
  <2> QED
    BY <2>2, <2>3
<1>5. ASSUME NEW r \in replies, Deliver(r) PROVE FiniteNet' /\ PagesDistinct'
  <2>1. /\ requests' \in {requests, requests \ {r}}
        /\ replies' = replies \ {r} /\ listing' = listing
    BY <1>5 DEF Deliver
  <2> QED
    BY <1>4, <2>1
<1>6. ASSUME NEW r \in InFlight, Lose(r) PROVE FiniteNet' /\ PagesDistinct'
  BY <1>4, <1>6 DEF Lose
<1>7. CASE Churn
  <2>1. NoneTwice(listing')
    BY <1>1, <1>7, ChurnDistinct DEF PagesDistinct
  <2>2. UNCHANGED <<requests, replies>>
    BY <1>7 DEF Churn, net
  <2> QED
    BY <1>1, <2>1, <2>2 DEF FiniteNet, PagesDistinct
<1> QED
  BY <1>2, <1>3, <1>5, <1>6, <1>7 DEF Next

LEMMA CopiesStep ==
  ASSUME CopiesInv, [Next]_vars
  PROVE  CopiesInv'
<1>1. IInv
  BY DEF CopiesInv
<1>2. CASE Next
  <2>1. IInv'
    <3>1. TypeOK'
      BY <1>1, <1>2, TypeStep DEF IInv
    <3> QED
      BY <1>1, <1>2, <3>1, CursorStep, ContentStep DEF IInv
  <2>2. FiniteNet' /\ PagesDistinct'
    BY <1>2, NetStep
  <2>3. RequestsPaid' /\ RowsPaid'
    BY <1>2, LoadPaid, DisplayPaid, ServePaid, DeliverPaid, LosePaid, ChurnPaid
       DEF Next
  <2> QED
    BY <2>1, <2>2, <2>3 DEF CopiesInv
<1>3. CASE UNCHANGED vars
  <2>1. IInv'
    BY <1>1, <1>3, UnchangedIInv
  <2>2. UNCHANGED <<data, page, loaded, requests, replies, listing, overlaps, churned>>
    BY <1>3 DEF vars, model, net, history
  <2>3. FiniteNet' /\ PagesDistinct'
    BY <2>2 DEF CopiesInv, FiniteNet, PagesDistinct
  <2>4. RequestsPaid' /\ RowsPaid'
    BY <2>2 DEF CopiesInv, RequestsPaid, RowsPaid, Pending, Late, Carrying, Copies,
                Below, InFlight, MayAsk, OnPage, PageOf, LastRow, Due, Demand, Price
  <2> QED
    BY <2>1, <2>3, <2>4 DEF CopiesInv
<1> QED
  BY <1>2, <1>3

(* However many answers are late and however often other devices change    *)
(* the listing, the rows of one task number at most what overlapping       *)
(* requests and changes of the listing account for.                        *)
THEOREM CopiesCorrect == Spec => []DuplicatesAccounted
<1>1. CopiesInv => DuplicatesAccounted
  <2> SUFFICES ASSUME CopiesInv, loaded, NEW t \in Task
               PROVE  Cardinality(Copies(t)) <= Price
    BY DEF DuplicatesAccounted, Copies, Price
  <2>1. /\ Due(t) <= Price /\ Price \in Nat
        /\ Cardinality(Copies(t)) \in Nat /\ Cardinality(Carrying(t)) \in Nat
        /\ Due(t) = Cardinality(Copies(t)) + Cardinality(Carrying(t))
    BY CountTypes, PriceType DEF CopiesInv, IInv, RowsPaid, Due
  <2> QED
    BY <2>1
<1> QED
  BY <1>1, CopiesInit, CopiesStep, PTL DEF Spec
=============================================================================
