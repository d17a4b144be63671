-------------------------- MODULE TaskListModelProofs --------------------------
(***************************************************************************)
(* Proofs about TaskListModel, for any listing, any page size and any      *)
(* number of overlapping, lost and reordered answers.                      *)
(***************************************************************************)
EXTENDS TaskListModel, Integers, SequenceTheorems, TLAPS

-----------------------------------------------------------------------------
(* Pages of a list                                                         *)

LEMMA LastRowType ==
  ASSUME NEW list \in Seq(Task), NEW p \in Nat
  PROVE  LastRow(list, p) \in 0..Len(list) /\ LastRow(list, p) <= p * ServerLimit
<1>1. p * ServerLimit \in Nat /\ Len(list) \in Nat
  BY ServerLimitAssumption, LenProperties
<1> QED
  BY <1>1 DEF LastRow

LEMMA LastRowMonotonic ==
  ASSUME NEW list \in Seq(Task), NEW p \in Nat, NEW q \in Nat, q <= p
  PROVE  LastRow(list, q) <= LastRow(list, p)
<1>1. p * ServerLimit \in Nat /\ q * ServerLimit \in Nat /\ Len(list) \in Nat
  BY ServerLimitAssumption, LenProperties
<1>2. q * ServerLimit <= p * ServerLimit
  BY ServerLimitAssumption
<1> QED
  BY <1>1, <1>2 DEF LastRow

(* Page p + 1 starts after the last row of page p, or is empty.            *)
LEMMA NextPage ==
  ASSUME NEW list \in Seq(Task), NEW p \in Nat
  PROVE  PageOf(list, p + 1) =
           SubSeq(list, LastRow(list, p) + 1, LastRow(list, p + 1))
<1>1. /\ p * ServerLimit \in Nat /\ Len(list) \in Nat
      /\ (p + 1) * ServerLimit = p * ServerLimit + ServerLimit
      /\ (p + 1) - 1 = p
  BY ServerLimitAssumption, LenProperties
<1>2. CASE p * ServerLimit <= Len(list)
  BY <1>1, <1>2 DEF PageOf, LastRow
<1>3. CASE p * ServerLimit > Len(list)
  <2>1. LastRow(list, p) = Len(list) /\ LastRow(list, p + 1) = Len(list)
    BY <1>1, <1>3, ServerLimitAssumption DEF LastRow
  <2>2. SubSeq(list, p * ServerLimit + 1, Len(list)) = <<>>
    BY <1>1, <1>3, SubSeqEmpty
  <2>3. SubSeq(list, Len(list) + 1, Len(list)) = <<>>
    BY <1>1, SubSeqEmpty
  <2> QED
    BY <1>1, <2>1, <2>2, <2>3 DEF PageOf
<1> QED
  BY <1>1, <1>2, <1>3

LEMMA PageType ==
  ASSUME NEW list \in Seq(Task), NEW p \in Nat
  PROVE  /\ PageOf(list, p + 1) \in Seq(Task)
         /\ Len(PageOf(list, p + 1)) = LastRow(list, p + 1) - LastRow(list, p)
         /\ \A i \in 1..Len(PageOf(list, p + 1)) :
              PageOf(list, p + 1)[i] = list[LastRow(list, p) + i]
<1> DEFINE from == LastRow(list, p) + 1
           to == LastRow(list, p + 1)
<1>1. from \in 1..Len(list) + 1 /\ to \in 0..Len(list) /\ from <= to + 1
  <2>1. p + 1 \in Nat /\ p <= p + 1 /\ Len(list) \in Nat
    BY LenProperties
  <2>2. LastRow(list, p) \in 0..Len(list) /\ LastRow(list, p + 1) \in 0..Len(list)
    BY <2>1, LastRowType
  <2>3. LastRow(list, p) <= LastRow(list, p + 1)
    BY <2>1, LastRowMonotonic
  <2> QED
    BY <2>1, <2>2, <2>3
<1>2. Len(list) \in Nat /\ \A i \in 1..Len(list) : list[i] \in Task
  BY LenProperties, ElementOfSeq
<1>3. \A i \in from..to : list[i] \in Task
  BY <1>1, <1>2
<1> HIDE DEF from, to
<1>4. /\ SubSeq(list, from, to) \in Seq(Task)
      /\ Len(SubSeq(list, from, to)) = IF from <= to THEN to - from + 1 ELSE 0
      /\ \A i \in 1..to - from + 1 : SubSeq(list, from, to)[i] = list[from + i - 1]
  BY <1>1, <1>2, <1>3, SubSeqProperties
<1>5. Len(SubSeq(list, from, to)) = to - from + 1
  BY <1>1, <1>2, <1>4
<1>6. PageOf(list, p + 1) = SubSeq(list, from, to)
  BY NextPage DEF from, to
<1>7. LastRow(list, p) \in Nat /\ from = LastRow(list, p) + 1
  BY <1>1, LastRowType DEF from
<1>8. to - from + 1 = to - LastRow(list, p)
  BY <1>1, <1>2, <1>7
<1>9. \A i \in 1..to - from + 1 : from + i - 1 = LastRow(list, p) + i
  BY <1>1, <1>2, <1>7
<1> QED
  BY <1>4, <1>5, <1>6, <1>8, <1>9 DEF to

(* The pages up to p and page p + 1 are the pages up to p + 1.             *)
LEMMA PagesGrow ==
  ASSUME NEW list \in Seq(Task), NEW p \in Nat
  PROVE  PagesTo(list, p) \o PageOf(list, p + 1) = PagesTo(list, p + 1)
<1> DEFINE m == LastRow(list, p)
           n == LastRow(list, p + 1)
<1>1. m \in 0..Len(list) /\ n \in m..Len(list) /\ Len(list) \in Nat
  BY LastRowType, LastRowMonotonic, LenProperties
<1>2. PageOf(list, p + 1) = SubSeq(list, m + 1, n)
  BY NextPage
<1> HIDE DEF m, n
<1>3. 1 \in 1..Len(list) + 1 /\ m \in 1 - 1 .. Len(list)
  BY <1>1
<1>4. SubSeq(list, 1, m) \o SubSeq(list, m + 1, n) = SubSeq(list, 1, n)
  BY <1>1, <1>3, ConcatAdjacentSubSeq
<1> QED
  BY <1>2, <1>4 DEF PagesTo, m, n

-----------------------------------------------------------------------------
(* The inductive invariant                                                 *)

(* Nothing is asked for before the view is loaded.                         *)
Fresh == ~loaded => InFlight = {} /\ reached = 0

(* Without an overlap there is one request at most, for the page after the *)
(* last one delivered.                                                     *)
OneAtATime ==
  /\ overlaps = 0 =>
       /\ requests = {} \/ replies = {}
       /\ \A r, s \in requests : r = s
       /\ \A r, s \in replies : r = s
  /\ loaded /\ overlaps = 0 =>
       page = reached /\ \A r \in InFlight : r.page = reached + 1

(* While the listing stays the same, an answer carries its page of it.     *)
AnswersMatch ==
  churned = 0 =>
    /\ listing = Listing
    /\ \A r \in replies : r.tasks = PageOf(listing, r.page)

(* ... and every row comes from a page that was delivered.                 *)
RowsOnPages ==
  loaded /\ churned = 0 =>
    \A i \in 1..Len(data) : \E j \in 1..LastRow(listing, reached) : data[i] = listing[j]

IInv ==
  /\ TypeOK
  /\ Fresh
  /\ NoPageSkipped
  /\ OneAtATime
  /\ AnswersMatch
  /\ NothingMissing
  /\ RowsOnPages
  /\ CalmMeansExact

LEMMA ListingType == Listing \in Seq(Task)
<1>1. DOMAIN Listing = 1..Len(Listing)
  BY ListingAssumption, LenProperties
<1>2. Listing \in Seq(Listed)
  BY <1>1, ListingAssumption DEF Listed
<1> QED
  BY <1>2, SeqMonotonic DEF Task

(* No row is on page 0.                                                    *)
LEMMA PageZero ==
  ASSUME NEW list \in Seq(Task)
  PROVE  LastRow(list, 0) = 0 /\ PagesTo(list, 0) = <<>>
<1>1. 0 * ServerLimit = 0 /\ Len(list) \in Nat
  BY ServerLimitAssumption, LenProperties
<1>2. LastRow(list, 0) = 0
  BY <1>1 DEF LastRow
<1> QED
  BY <1>2, SubSeqEmpty DEF PagesTo

LEMMA InitIInv == Init => IInv
<1> SUFFICES ASSUME Init PROVE IInv
  OBVIOUS
<1>1. Listing \in Seq(Task) /\ listing = Listing
  BY ListingType DEF Init
<1>2. data \in Seq(Task)
  <2>1. PageOf(Listing, 1) \in Seq(Task)
    <3>1. PageOf(Listing, 0 + 1) \in Seq(Task)
      BY <1>1, PageType
    <3>2. 0 + 1 = 1
      OBVIOUS
    <3> QED
      BY <3>1, <3>2, Zenon
  <2>2. <<>> \in Seq(Task)
    BY EmptySeq
  <2> QED
    BY <2>1, <2>2 DEF Init
<1>3. TypeOK
  BY <1>1, <1>2 DEF Init, TypeOK
<1>4. Fresh /\ NoPageSkipped /\ OneAtATime /\ AnswersMatch
  BY DEF Init, Fresh, NoPageSkipped, OneAtATime, AnswersMatch, InFlight
<1>5. NothingMissing
  <2>1. LastRow(listing, reached) = 0
    BY <1>1, PageZero DEF Init
  <2> QED
    BY <2>1 DEF NothingMissing
<1>6. RowsOnPages /\ CalmMeansExact
  BY DEF Init, RowsOnPages, CalmMeansExact
<1> QED
  BY <1>3, <1>4, <1>5, <1>6 DEF IInv

(* The answer the server makes to a request.                               *)
LEMMA ReplyType ==
  ASSUME TypeOK, NEW q \in requests
  PROVE  /\ [id |-> q.id, page |-> q.page, tasks |-> PageOf(listing, q.page),
             count |-> Len(listing)] \in Reply
         /\ PageOf(listing, q.page) \in Seq(Task)
<1>1. q.id \in Nat /\ q.page \in Nat \ {0} /\ listing \in Seq(Task)
  BY DEF TypeOK, Request
<1>2. q.page - 1 \in Nat /\ (q.page - 1) + 1 = q.page
  BY <1>1
<1>3. PageOf(listing, q.page) \in Seq(Task)
  BY <1>1, <1>2, PageType
<1>4. Len(listing) \in Nat
  BY <1>1, LenProperties
<1> QED
  BY <1>1, <1>3, <1>4 DEF Reply

(* Deleting or adding a task leaves a list of tasks.                       *)
LEMMA ChurnType ==
  ASSUME TypeOK, Churn
  PROVE  listing' \in Seq(Task)
<1>1. listing \in Seq(Task) /\ Len(listing) \in Nat
  BY LenProperties DEF TypeOK
<1>2. \A m \in 1..Len(listing) + 1, n \in 0..Len(listing) :
        SubSeq(listing, m, n) \in Seq(Task)
  <2>1. ASSUME NEW m \in 1..Len(listing) + 1, NEW n \in 0..Len(listing)
        PROVE  SubSeq(listing, m, n) \in Seq(Task)
    <3>1. \A i \in m..n : listing[i] \in Task
      BY <1>1, ElementOfSeq
    <3> QED
      BY <1>1, <3>1, SubSeqProperties
  <2> QED
    BY <2>1
<1>3. CASE \E i \in 1..Len(listing) :
             listing' = SubSeq(listing, 1, i - 1) \o
                        SubSeq(listing, i + 1, Len(listing))
  <2>1. PICK i \in 1..Len(listing) :
          listing' = SubSeq(listing, 1, i - 1) \o
                     SubSeq(listing, i + 1, Len(listing))
    BY <1>3
  <2>2. /\ 1 \in 1..Len(listing) + 1 /\ i - 1 \in 0..Len(listing)
        /\ i + 1 \in 1..Len(listing) + 1 /\ Len(listing) \in 0..Len(listing)
    BY <1>1
  <2>3. /\ SubSeq(listing, 1, i - 1) \in Seq(Task)
        /\ SubSeq(listing, i + 1, Len(listing)) \in Seq(Task)
    BY <2>2, <1>2
  <2> QED
    BY <2>1, <2>3, ConcatProperties
<1>4. CASE \E i \in 0..Len(listing), t \in Created :
             listing' = SubSeq(listing, 1, i) \o <<t>> \o
                        SubSeq(listing, i + 1, Len(listing))
  <2>1. PICK i \in 0..Len(listing), t \in Created :
          listing' = SubSeq(listing, 1, i) \o <<t>> \o
                     SubSeq(listing, i + 1, Len(listing))
    BY <1>4
  <2>2. /\ 1 \in 1..Len(listing) + 1 /\ i + 1 \in 1..Len(listing) + 1
        /\ Len(listing) \in 0..Len(listing)
    BY <1>1
  <2>3. /\ SubSeq(listing, 1, i) \in Seq(Task)
        /\ SubSeq(listing, i + 1, Len(listing)) \in Seq(Task)
    BY <2>2, <1>2
  <2>4. <<t>> \in Seq(Task)
    BY DEF Task
  <2>5. SubSeq(listing, 1, i) \o <<t>> \in Seq(Task)
    BY <2>3, <2>4, ConcatProperties
  <2> QED
    BY <2>1, <2>3, <2>5, ConcatProperties
<1> QED
  BY <1>3, <1>4 DEF Churn

LEMMA TypeStep ==
  ASSUME TypeOK, Next
  PROVE  TypeOK'
<1> USE DEF TypeOK
<1>1. \A p \in Nat \ {0} : [id |-> sent, page |-> p] \in Request
  BY DEF Request
<1>2. CASE ViewDidLoad
  <2>1. [id |-> sent, page |-> 1] \in Request /\ <<>> \in Seq(Task)
    BY <1>1, EmptySeq
  <2> QED
    BY <1>2, <2>1 DEF ViewDidLoad, Send
<1>3. CASE WillDisplay
  <2>1. [id |-> sent, page |-> page + 1] \in Request
    BY <1>1
  <2> QED
    BY <1>3, <2>1 DEF WillDisplay, Send, model
<1>4. ASSUME NEW q \in requests, Serve(q) PROVE TypeOK'
  <2> DEFINE answer == [id |-> q.id, page |-> q.page,
                        tasks |-> PageOf(listing, q.page), count |-> Len(listing)]
  <2>1. answer \in Reply
    BY ReplyType
  <2>2. replies' = replies \cup {answer} /\ requests' = requests \ {q}
    BY <1>4 DEF Serve
  <2> HIDE DEF answer
  <2> QED
    BY <1>4, <2>1, <2>2 DEF Serve, model, history
<1>5. ASSUME NEW r \in replies, Deliver(r) PROVE TypeOK'
  <2>1. r.page \in Nat /\ r.tasks \in Seq(Task) /\ r.count \in Nat
    BY DEF Reply
  <2>2. data \o r.tasks \in Seq(Task)
    BY <2>1, ConcatProperties
  <2> QED
    BY <1>5, <2>1, <2>2, ServerLimitAssumption DEF Deliver
<1>6. ASSUME NEW r \in InFlight, Lose(r) PROVE TypeOK'
  BY <1>6 DEF Lose, model
<1>7. CASE Churn
  <2>1. listing' \in Seq(Task)
    BY <1>7, ChurnType
  <2>2. churned' = churned + 1 /\ UNCHANGED <<model, net, reached, overlaps, lost>>
    BY <1>7 DEF Churn
  <2> QED
    BY <2>1, <2>2 DEF model, net
<1> QED
  BY <1>2, <1>3, <1>4, <1>5, <1>6, <1>7 DEF Next

(* The cursor and the requests.                                            *)
LEMMA CursorStep ==
  ASSUME IInv, Next
  PROVE  Fresh' /\ NoPageSkipped' /\ OneAtATime'
<1>1. TypeOK /\ Fresh /\ NoPageSkipped /\ OneAtATime
  BY DEF IInv
<1>2. /\ page \in Nat /\ reached \in Nat /\ overlaps \in Nat /\ loaded \in BOOLEAN
      /\ \A r \in InFlight : r.page \in Nat
  BY <1>1 DEF TypeOK, InFlight, Request, Reply
<1>3. CASE ViewDidLoad
  <2>1. /\ loaded' = TRUE /\ page' = 0 /\ reached' = reached /\ reached = 0
        /\ requests' = {[id |-> sent, page |-> 1]} /\ replies' = {}
        /\ InFlight' = {[id |-> sent, page |-> 1]}
    BY <1>1, <1>3 DEF ViewDidLoad, Send, Fresh, InFlight
  <2> QED
    BY <2>1 DEF Fresh, NoPageSkipped, OneAtATime
<1>4. CASE WillDisplay
  <2> DEFINE new == [id |-> sent, page |-> page + 1]
  <2>1. /\ requests' = requests \cup {new} /\ replies' = replies
        /\ InFlight' = InFlight \cup {new} /\ loaded /\ loaded' = loaded
        /\ page' = page /\ reached' = reached
        /\ overlaps' = IF InFlight = {} THEN overlaps ELSE overlaps + 1
    BY <1>4 DEF WillDisplay, Send, model, InFlight
  <2>2. new.page = page + 1
    OBVIOUS
  <2> HIDE DEF new
  <2>3. Fresh' /\ NoPageSkipped'
    BY <1>1, <1>2, <2>1, <2>2 DEF Fresh, NoPageSkipped
  <2>4. CASE InFlight = {}
    <3>1. requests' = {new} /\ replies' = {} /\ InFlight' = {new}
      BY <2>1, <2>4 DEF InFlight
    <3>2. loaded' /\ overlaps' = 0 => page' = reached' /\ new.page = reached' + 1
      BY <1>1, <2>1, <2>2, <2>4 DEF OneAtATime
    <3> QED
      BY <2>3, <3>1, <3>2 DEF OneAtATime
  <2>5. CASE InFlight # {}
    <3>1. overlaps' # 0
      BY <1>2, <2>1, <2>5
    <3> QED
      BY <2>3, <3>1 DEF OneAtATime
  <2> QED
    BY <2>3, <2>4, <2>5
<1>5. ASSUME NEW q \in requests, Serve(q)
      PROVE  Fresh' /\ NoPageSkipped' /\ OneAtATime'
  <2> DEFINE answer == [id |-> q.id, page |-> q.page,
                        tasks |-> PageOf(listing, q.page), count |-> Len(listing)]
  <2>1. /\ InFlight' = (requests \ {q}) \cup replies \cup {answer}
        /\ UNCHANGED <<page, loaded, reached, overlaps>>
    BY <1>5 DEF Serve, InFlight, model, history
  <2>2. answer.page = q.page /\ q \in InFlight
    BY DEF InFlight
  <2> HIDE DEF answer
  <2>3. \A r \in InFlight' : r \in InFlight \/ r = answer
    BY <2>1 DEF InFlight
  <2>4. NoPageSkipped' /\ Fresh'
    BY <1>1, <2>1, <2>2, <2>3 DEF NoPageSkipped, Fresh
  <2>5. overlaps = 0 => requests = {q} /\ replies = {}
    BY <1>1 DEF OneAtATime
  <2>6. requests' = requests \ {q} /\ replies' = replies \cup {answer}
    BY <1>5 DEF Serve, answer
  <2>7. overlaps' = 0 =>
          /\ requests' = {} \/ replies' = {}
          /\ \A r, s \in requests' : r = s
          /\ \A r, s \in replies' : r = s
    BY <2>1, <2>5, <2>6
  <2>8. loaded' /\ overlaps' = 0 =>
          page' = reached' /\ \A r \in InFlight' : r.page = reached' + 1
    BY <1>1, <2>1, <2>2, <2>3 DEF OneAtATime
  <2> QED
    BY <2>4, <2>7, <2>8 DEF OneAtATime
<1>6. ASSUME NEW r \in replies, Deliver(r)
      PROVE  Fresh' /\ NoPageSkipped' /\ OneAtATime'
  <2>1. /\ InFlight' \subseteq InFlight
        /\ page' = r.page /\ loaded' = loaded /\ overlaps' = overlaps
        /\ reached' = IF r.page > reached THEN r.page ELSE reached
        /\ r \in InFlight
    BY <1>6 DEF Deliver, InFlight
  <2>2. overlaps = 0 => requests' = {} /\ replies' = {} /\ InFlight' = {}
    <3>1. overlaps = 0 => requests = {} /\ replies = {r}
      BY <1>1 DEF OneAtATime
    <3>2. requests' = requests /\ replies' = replies \ {r}
      BY <1>6 DEF Deliver
    <3> QED
      BY <3>1, <3>2 DEF InFlight
  <2>3. loaded
    BY <1>1, <2>1 DEF Fresh
  <2>4. Fresh' /\ NoPageSkipped'
    BY <1>1, <1>2, <2>1, <2>3 DEF Fresh, NoPageSkipped
  <2>5. loaded' /\ overlaps' = 0 => page' = reached'
    BY <1>1, <1>2, <2>1, <2>3 DEF OneAtATime
  <2> QED
    BY <2>1, <2>2, <2>4, <2>5 DEF OneAtATime
<1>7. ASSUME NEW r \in InFlight, Lose(r)
      PROVE  Fresh' /\ NoPageSkipped' /\ OneAtATime'
  <2>1. /\ requests' \subseteq requests /\ replies' \subseteq replies
        /\ InFlight' \subseteq InFlight
        /\ UNCHANGED <<page, loaded, reached, overlaps>>
    BY <1>7 DEF Lose, InFlight, model
  <2> QED
    BY <1>1, <2>1 DEF Fresh, NoPageSkipped, OneAtATime
<1>8. CASE Churn
  <2>1. /\ InFlight' = InFlight
        /\ UNCHANGED <<page, loaded, reached, overlaps, requests, replies>>
    BY <1>8 DEF Churn, InFlight, model, net
  <2> QED
    BY <1>1, <2>1 DEF Fresh, NoPageSkipped, OneAtATime
<1> QED
  BY <1>3, <1>4, <1>5, <1>6, <1>7, <1>8 DEF Next

(* What an answer's page is made of, and where its rows go.                *)
LEMMA DeliverRows ==
  ASSUME IInv, churned = 0, NEW r \in replies, Deliver(r)
  PROVE  LET p == r.page - 1
             first == LastRow(listing, p)
             n == LastRow(listing, p + 1) - first IN
         /\ p \in Nat /\ p + 1 = r.page /\ n \in Nat /\ first \in Nat
         /\ Len(data) \in Nat
         /\ Len(data') = Len(data) + n
         /\ \A i \in 1..Len(data) : data'[i] = data[i]
         /\ \A k \in 1..n : data'[Len(data) + k] = listing[first + k]
<1> DEFINE p == r.page - 1
           first == LastRow(listing, p)
           n == LastRow(listing, p + 1) - first
<1>1. listing \in Seq(Task) /\ data \in Seq(Task) /\ r \in Reply
  BY DEF IInv, TypeOK
<1>2. p \in Nat /\ p + 1 = r.page
  BY <1>1 DEF Reply
<1>3. r.tasks = PageOf(listing, p + 1)
  BY <1>2 DEF IInv, AnswersMatch
<1>4. /\ r.tasks \in Seq(Task) /\ Len(r.tasks) = n
      /\ \A k \in 1..n : r.tasks[k] = listing[first + k]
  <2> HIDE DEF p
  <2>1. /\ PageOf(listing, p + 1) \in Seq(Task)
        /\ Len(PageOf(listing, p + 1)) = n
        /\ \A k \in 1..Len(PageOf(listing, p + 1)) :
             PageOf(listing, p + 1)[k] = listing[first + k]
    BY <1>1, <1>2, PageType
  <2> HIDE DEF first, n
  <2> QED
    BY <2>1, <1>3
<1>5. first \in Nat /\ n \in Nat /\ Len(data) \in Nat
  <2>1. first \in 0..Len(listing) /\ Len(listing) \in Nat
    BY <1>1, <1>2, LastRowType, LenProperties
  <2> QED
    BY <1>1, <1>4, <2>1, LenProperties
<1> HIDE DEF p, first, n
<1>6. data' = data \o r.tasks
  BY DEF Deliver
<1>7. /\ Len(data') = Len(data) + Len(r.tasks)
      /\ \A i \in 1..Len(data) + Len(r.tasks) :
           data'[i] = IF i <= Len(data) THEN data[i] ELSE r.tasks[i - Len(data)]
  BY <1>1, <1>4, <1>6, ConcatProperties
<1>8. \A i \in 1..Len(data) : data'[i] = data[i]
  <2>1. \A i \in 1..Len(data) : i \in 1..Len(data) + Len(r.tasks) /\ i <= Len(data)
    BY <1>4, <1>5
  <2> QED
    BY <2>1, <1>7
<1>9. \A k \in 1..n : data'[Len(data) + k] = r.tasks[k]
  <2>1. ASSUME NEW k \in 1..n PROVE data'[Len(data) + k] = r.tasks[k]
    <3>1. /\ Len(data) + k \in 1..Len(data) + Len(r.tasks)
          /\ ~(Len(data) + k <= Len(data)) /\ (Len(data) + k) - Len(data) = k
      BY <1>4, <1>5
    <3> QED
      BY <1>7, <3>1
  <2> QED
    BY <2>1
<1> QED
  BY <1>2, <1>4, <1>5, <1>7, <1>8, <1>9 DEF p, first, n

(* An answer keeps what the table says about the listing.                  *)
LEMMA DeliverContent ==
  ASSUME IInv, NEW r \in replies, Deliver(r)
  PROVE  NothingMissing' /\ RowsOnPages' /\ CalmMeansExact'
<1>1. CASE churned # 0
  BY <1>1 DEF Deliver, NothingMissing, RowsOnPages, CalmMeansExact
<1>2. CASE churned = 0
  <2> DEFINE p == r.page - 1
             first == LastRow(listing, p)
             n == LastRow(listing, p + 1) - first
             old == LastRow(listing, reached)
  <2>1. /\ p \in Nat /\ p + 1 = r.page /\ n \in Nat /\ first \in Nat
        /\ Len(data) \in Nat
        /\ Len(data') = Len(data) + n
        /\ \A i \in 1..Len(data) : data'[i] = data[i]
        /\ \A k \in 1..n : data'[Len(data) + k] = listing[first + k]
    BY <1>2, DeliverRows
  <2>2. /\ listing \in Seq(Task) /\ reached \in Nat /\ Len(listing) \in Nat
        /\ loaded /\ r \in InFlight /\ p <= reached
    BY <2>1, LenProperties DEF IInv, TypeOK, Fresh, InFlight, NoPageSkipped
  <2>3. /\ reached' = IF r.page > reached THEN r.page ELSE reached
        /\ listing' = listing /\ UNCHANGED <<churned, overlaps, loaded>>
    BY DEF Deliver
  <2>4. reached' \in Nat /\ reached <= reached' /\ p + 1 <= reached'
        /\ (reached' = reached \/ (reached' = p + 1 /\ p = reached))
    BY <2>1, <2>2, <2>3
  <2>5. /\ old \in Nat /\ old <= LastRow(listing, reached')
        /\ LastRow(listing, reached') \in Nat
        /\ LastRow(listing, p + 1) \in Nat
        /\ LastRow(listing, p + 1) <= LastRow(listing, reached')
    <3>1. p + 1 \in Nat
      BY <2>1
    <3>2. /\ old \in 0..Len(listing) /\ LastRow(listing, reached') \in 0..Len(listing)
          /\ LastRow(listing, p + 1) \in 0..Len(listing)
      BY <2>2, <2>4, <3>1, LastRowType
    <3>3. /\ old <= LastRow(listing, reached')
          /\ LastRow(listing, p + 1) <= LastRow(listing, reached')
      BY <2>2, <2>4, <3>1, LastRowMonotonic
    <3> QED
      BY <2>2, <3>2, <3>3
  <2>6. first + n = LastRow(listing, p + 1)
    BY <2>1, <2>5
  <2>7. \A k \in 1..n : Len(data) + k \in 1..Len(data')
    BY <2>1
  <2>8. \A i \in 1..Len(data) : i \in 1..Len(data')
    BY <2>1
  <2>9. old = first \/ reached' = reached
    BY <2>4
  <2>10. reached' # reached => LastRow(listing, reached') = first + n
    BY <2>4, <2>6
  <2> HIDE DEF first, n, old, p
  <2>11. NothingMissing'
    <3> SUFFICES ASSUME NEW i \in 1..LastRow(listing, reached')
                 PROVE  \E j \in 1..Len(data') : data'[j] = listing[i]
      BY <2>3 DEF NothingMissing, Rows
    <3>1. CASE i <= old
      <4>1. i \in 1..old
        BY <3>1, <2>5
      <4>2. PICK j \in 1..Len(data) : data[j] = listing[i]
        BY <1>2, <4>1 DEF IInv, NothingMissing, Rows, old
      <4> QED
        BY <2>1, <2>8, <4>2
    <3>2. CASE ~(i <= old)
      <4>1. reached' # reached
        BY <3>2, <2>5 DEF old
      <4>2. i - first \in 1..n /\ first + (i - first) = i
        BY <3>2, <4>1, <2>1, <2>5, <2>9, <2>10
      <4> QED
        BY <2>1, <2>7, <4>2
    <3> QED
      BY <3>1, <3>2
  <2>12. RowsOnPages'
    <3> SUFFICES ASSUME NEW i \in 1..Len(data')
                 PROVE  \E j \in 1..LastRow(listing, reached') : data'[i] = listing[j]
      BY <2>3 DEF RowsOnPages
    <3>1. CASE i \in 1..Len(data)
      <4>1. PICK j \in 1..old : data[i] = listing[j]
        BY <1>2, <2>2, <3>1 DEF IInv, RowsOnPages, old
      <4>2. j \in 1..LastRow(listing, reached')
        BY <2>5
      <4> QED
        BY <2>1, <3>1, <4>1, <4>2
    <3>2. CASE i \notin 1..Len(data)
      <4>1. i - Len(data) \in 1..n /\ Len(data) + (i - Len(data)) = i
        BY <2>1, <3>2
      <4>2. data'[i] = listing[first + (i - Len(data))]
        BY <2>1, <4>1
      <4>3. first + (i - Len(data)) \in 1..LastRow(listing, reached')
        BY <2>1, <2>5, <2>6, <4>1
      <4> QED
        BY <4>2, <4>3
    <3> QED
      BY <3>1, <3>2
  <2>13. CalmMeansExact'
    <3> SUFFICES ASSUME overlaps = 0
                 PROVE  data' = PagesTo(listing, reached')
      BY <2>3 DEF CalmMeansExact
    <3>1. r.page = reached + 1 /\ data = PagesTo(listing, reached)
      BY <1>2, <2>2 DEF IInv, OneAtATime, CalmMeansExact
    <3>2. reached' = reached + 1
      BY <2>2, <2>3, <3>1
    <3>3. data' = data \o PageOf(listing, reached + 1)
      BY <1>2, <3>1 DEF Deliver, IInv, AnswersMatch
    <3> QED
      BY <2>2, <3>1, <3>2, <3>3, PagesGrow
  <2> QED
    BY <2>11, <2>12, <2>13
<1> QED
  BY <1>1, <1>2

(* Steps other than the arrival of an answer.                              *)
LEMMA ContentStep ==
  ASSUME IInv, Next
  PROVE  AnswersMatch' /\ NothingMissing' /\ RowsOnPages' /\ CalmMeansExact'
<1>1. TypeOK /\ AnswersMatch /\ NothingMissing /\ RowsOnPages /\ CalmMeansExact
  BY DEF IInv
<1>2. CASE ViewDidLoad
  <2>1. /\ loaded' = TRUE /\ data' = <<>> /\ reached' = 0 /\ reached = 0
        /\ UNCHANGED <<replies, listing, churned>>
    BY <1>2 DEF ViewDidLoad, IInv, Fresh
  <2>2. listing \in Seq(Task) /\ Len(data') = 0
    BY <1>1, <2>1, EmptySeq DEF TypeOK
  <2>3. LastRow(listing, reached') = 0 /\ PagesTo(listing, reached') = <<>>
    BY <2>1, <2>2, PageZero
  <2> QED
    BY <1>1, <2>1, <2>2, <2>3
       DEF AnswersMatch, NothingMissing, RowsOnPages, CalmMeansExact
<1>3. CASE WillDisplay
  <2>1. UNCHANGED <<data, loaded, replies, listing, reached, churned>>
    BY <1>3 DEF WillDisplay, model
  <2>2. overlaps' = 0 => overlaps = 0
    BY <1>1, <1>3 DEF WillDisplay, Send, TypeOK
  <2> QED
    BY <1>1, <2>1, <2>2
       DEF AnswersMatch, NothingMissing, RowsOnPages, CalmMeansExact, Rows
<1>4. ASSUME NEW q \in requests, Serve(q)
      PROVE  AnswersMatch' /\ NothingMissing' /\ RowsOnPages' /\ CalmMeansExact'
  <2> DEFINE answer == [id |-> q.id, page |-> q.page,
                        tasks |-> PageOf(listing, q.page), count |-> Len(listing)]
  <2>1. /\ replies' = replies \cup {answer}
        /\ UNCHANGED <<data, loaded, listing, reached, overlaps, churned>>
    BY <1>4 DEF Serve, model, history
  <2>2. answer.tasks = PageOf(listing, answer.page)
    OBVIOUS
  <2> HIDE DEF answer
  <2>3. AnswersMatch'
    BY <1>1, <2>1, <2>2 DEF AnswersMatch
  <2> QED
    BY <1>1, <2>1, <2>3 DEF NothingMissing, RowsOnPages, CalmMeansExact, Rows
<1>5. ASSUME NEW r \in replies, Deliver(r)
      PROVE  AnswersMatch' /\ NothingMissing' /\ RowsOnPages' /\ CalmMeansExact'
  <2>1. AnswersMatch'
    BY <1>1, <1>5 DEF Deliver, AnswersMatch
  <2> QED
    BY <1>5, <2>1, DeliverContent
<1>6. ASSUME NEW r \in InFlight, Lose(r)
      PROVE  AnswersMatch' /\ NothingMissing' /\ RowsOnPages' /\ CalmMeansExact'
  <2>1. /\ replies' \subseteq replies
        /\ UNCHANGED <<data, loaded, listing, reached, overlaps, churned>>
    BY <1>6 DEF Lose, model
  <2> QED
    BY <1>1, <2>1
       DEF AnswersMatch, NothingMissing, RowsOnPages, CalmMeansExact, Rows
<1>7. CASE Churn
  <2>1. churned' # 0
    BY <1>1, <1>7 DEF Churn, TypeOK
  <2> QED
    BY <2>1 DEF AnswersMatch, NothingMissing, RowsOnPages, CalmMeansExact
<1> QED
  BY <1>2, <1>3, <1>4, <1>5, <1>6, <1>7 DEF Next

-----------------------------------------------------------------------------
(* The theorems                                                            *)

LEMMA UnchangedIInv ==
  ASSUME IInv, UNCHANGED vars
  PROVE  IInv'
BY DEF vars, model, net, history, IInv, TypeOK, Fresh, NoPageSkipped, OneAtATime,
       AnswersMatch, NothingMissing, RowsOnPages, CalmMeansExact, Rows, InFlight

(* The invariant holds in every reachable state.                           *)
THEOREM Invariance == Spec => []IInv
<1>1. IInv /\ [Next]_vars => IInv'
  <2> SUFFICES ASSUME IInv, [Next]_vars PROVE IInv'
    OBVIOUS
  <2>1. CASE Next
    <3>1. TypeOK'
      BY <2>1, TypeStep DEF IInv
    <3> QED
      BY <2>1, <3>1, CursorStep, ContentStep DEF IInv
  <2>2. CASE UNCHANGED vars
    BY <2>2, UnchangedIInv
  <2> QED
    BY <2>1, <2>2
<1> QED
  BY <1>1, InitIInv, PTL DEF Spec

(* Type correctness of the model, the requests and the answers.            *)
THEOREM TypeCorrect == Spec => []TypeOK
<1>1. IInv => TypeOK
  BY DEF IInv
<1> QED
  BY <1>1, Invariance, PTL

(* No page is ever asked for before the one in front of it was delivered,  *)
(* however often a late answer takes the cursor back.                      *)
THEOREM CursorCorrect == Spec => []NoPageSkipped
<1>1. IInv => NoPageSkipped
  BY DEF IInv
<1> QED
  BY <1>1, Invariance, PTL

(* Whatever the order of the answers, no row of a delivered page and of    *)
(* those before it is missing.                                             *)
THEOREM ContentCorrect == Spec => []NothingMissing
<1>1. IInv => NothingMissing
  BY DEF IInv
<1> QED
  BY <1>1, Invariance, PTL

(* With one request at a time the table is the listing, page by page.      *)
THEOREM CalmCorrect == Spec => []CalmMeansExact
<1>1. IInv => CalmMeansExact
  BY DEF IInv
<1> QED
  BY <1>1, Invariance, PTL

-----------------------------------------------------------------------------
(* The refinement of PagedList                                             *)

Visible == IF loaded THEN Rows ELSE {}

LEMMA RowsArePages ==
  IInv /\ loaded /\ churned = 0 => Rows = Promise!Pages(reached)
<1> SUFFICES ASSUME IInv, loaded, churned = 0
             PROVE  Rows = Promise!Pages(reached)
  OBVIOUS
<1>1. listing = Listing /\ listing \in Seq(Task) /\ reached \in Nat
  BY DEF IInv, AnswersMatch, TypeOK
<1>2. Promise!LastRow(reached) = LastRow(listing, reached)
  BY <1>1 DEF Promise!LastRow, LastRow
<1>3. Promise!Pages(reached) = {listing[i] : i \in 1..LastRow(listing, reached)}
  BY <1>1, <1>2 DEF Promise!Pages
<1>4. \A i \in 1..LastRow(listing, reached) : listing[i] \in Rows
  BY DEF IInv, NothingMissing
<1>5. \A i \in 1..Len(data) : \E j \in 1..LastRow(listing, reached) : data[i] = listing[j]
  BY DEF IInv, RowsOnPages
<1> QED
  BY <1>3, <1>4, <1>5 DEF Rows

(* While nobody else changes the listing, what the user sees is a list     *)
(* that grows page by page: TaskListModel implements PagedList.            *)
THEOREM Refinement ==
  ASSUME MaxChurn = 0
  PROVE  Spec => PromiseKept
<1> DEFINE Inv == IInv /\ churned = 0
<1>1. Init => Inv
  BY InitIInv DEF Init
<1>2. Inv /\ [Next]_vars => (churned = 0)'
  <2> SUFFICES ASSUME Inv, [Next]_vars PROVE churned' = 0
    OBVIOUS
  <2>1. ~Churn
    BY DEF Churn
  <2> QED
    BY <2>1 DEF Next, ViewDidLoad, WillDisplay, Serve, Deliver, Lose, vars, history
<1>3. Init => Promise!Init
  BY DEF Init, Promise!Init
<1>4. Inv /\ IInv' /\ [Next]_vars => [Promise!Grow]_(IF loaded THEN Rows ELSE {})
  <2> SUFFICES ASSUME Inv, IInv', [Next]_vars, Visible' # Visible
               PROVE  Promise!Grow
    BY DEF Visible
  <2>1. CASE ViewDidLoad
    <3>1. loaded' /\ ~loaded /\ data' = <<>>
      BY <2>1 DEF ViewDidLoad
    <3> QED
      BY <3>1 DEF Visible, Rows
  <2>2. ASSUME NEW r \in replies, Deliver(r) PROVE Promise!Grow
    <3>1. loaded /\ loaded' /\ churned' = 0 /\ r \in InFlight
      BY <2>2 DEF IInv, Fresh, InFlight, Deliver
    <3>2. Rows = Promise!Pages(reached) /\ Visible = Rows
      BY <3>1, RowsArePages DEF Visible
    <3>3. Rows' = Promise!Pages(reached') /\ Visible' = Rows'
      <4>1. (IInv /\ loaded /\ churned = 0 => Rows = Promise!Pages(reached))'
        BY RowsArePages, PTL
      <4>2. Rows' = Promise!Pages(reached)'
        BY <3>1, <4>1
      <4>3. Promise!Pages(reached)' = Promise!Pages(reached')
        BY DEF Promise!Pages, Promise!LastRow
      <4> QED
        BY <3>1, <4>2, <4>3 DEF Visible
    <3>4. reached \in Nat /\ r.page \in Nat /\ r.page <= reached + 1
      BY <3>1 DEF IInv, TypeOK, Reply, NoPageSkipped
    <3>5. reached' = reached + 1
      BY <2>2, <3>2, <3>3, <3>4 DEF Deliver
    <3>6. reached \in 0..Len(Listing)
      <4>1. Listing \in Seq(Task) /\ Len(Listing) \in Nat
        BY ListingType, LenProperties
      <4>2. ASSUME Len(Listing) < reached
            PROVE  Promise!Pages(reached + 1) = Promise!Pages(reached)
        <5>1. /\ Len(Listing) < reached * ServerLimit
              /\ Len(Listing) < (reached + 1) * ServerLimit
          BY <3>4, <4>1, <4>2, ServerLimitAssumption
        <5>2. /\ reached * ServerLimit \in Nat
              /\ (reached + 1) * ServerLimit \in Nat
          BY <3>4, ServerLimitAssumption
        <5>3. Promise!LastRow(reached + 1) = Promise!LastRow(reached)
          BY <4>1, <5>1, <5>2 DEF Promise!LastRow
        <5> QED
          BY <5>3 DEF Promise!Pages
      <4> QED
        BY <3>2, <3>3, <3>4, <3>5, <4>1, <4>2
    <3> QED
      BY <3>2, <3>3, <3>5, <3>6 DEF Promise!Grow, Visible
  <2>3. CASE UNCHANGED vars \/ WillDisplay \/ (\E q \in requests : Serve(q))
             \/ (\E r \in InFlight : Lose(r)) \/ Churn
    <3>1. UNCHANGED <<data, loaded>>
      BY <2>3 DEF vars, model, WillDisplay, Serve, Lose, Churn
    <3> QED
      BY <3>1 DEF Visible, Rows
  <2> QED
    BY <2>1, <2>2, <2>3 DEF Next
<1>5. Spec => []Inv
  BY <1>1, <1>2, Invariance, PTL DEF Spec
<1> QED
  BY <1>3, <1>4, <1>5, Invariance, PTL DEF Spec, PromiseKept, Promise!Spec
-----------------------------------------------------------------------------
(* There is always a way on                                                *)

(* The user can ask for another page by scrolling: the trigger row exists  *)
(* and the guard of getNextTask holds.                                     *)
CanAsk ==
  /\ \E row \in 0..Len(data) - 1 : Len(data) - row = Lookahead
  /\ MayHaveMore

(* Once the first page is there, the table has all tasks or more of them   *)
(* can be asked for.                                                       *)
NoDeadEnd ==
  loaded /\ reached > 0 /\ churned = 0 => Listed \subseteq Rows \/ CanAsk

(* The table is at least as long as the pages delivered, and what it knows *)
(* of the total and of the page size is true.                              *)
LongEnough == loaded /\ churned = 0 => Len(data) >= LastRow(listing, reached)

TotalsMatch ==
  churned = 0 =>
    /\ \A r \in replies : r.count = Len(listing)
    /\ reached > 0 => totalCounts = Len(listing) /\ limit = ServerLimit

WayInv == LongEnough /\ TotalsMatch

LEMMA WayInit == Init => WayInv
BY DEF Init, WayInv, LongEnough, TotalsMatch

LEMMA DeliverWay ==
  ASSUME IInv, WayInv, NEW r \in replies, Deliver(r)
  PROVE  WayInv'
<1>1. CASE churned # 0
  BY <1>1 DEF Deliver, WayInv, LongEnough, TotalsMatch
<1>2. CASE churned = 0
  <2> DEFINE p == r.page - 1
             first == LastRow(listing, p)
             n == LastRow(listing, p + 1) - first
  <2>1. /\ p \in Nat /\ p + 1 = r.page /\ n \in Nat /\ first \in Nat
        /\ Len(data) \in Nat /\ Len(data') = Len(data) + n
    BY <1>2, DeliverRows
  <2>2. /\ listing \in Seq(Task) /\ reached \in Nat
        /\ loaded /\ r \in InFlight /\ p <= reached
    BY <2>1 DEF IInv, TypeOK, Fresh, InFlight, NoPageSkipped
  <2>3. /\ reached' = IF r.page > reached THEN r.page ELSE reached
        /\ listing' = listing /\ UNCHANGED <<churned, loaded>>
        /\ replies' \subseteq replies /\ totalCounts' = r.count /\ limit' = ServerLimit
    BY DEF Deliver
  <2>4. reached' = reached \/ (reached' = p + 1 /\ p = reached)
    BY <2>1, <2>2, <2>3
  <2>5. /\ LastRow(listing, reached) \in Nat /\ LastRow(listing, p + 1) \in Nat
        /\ Len(listing) \in Nat
    <3>1. Len(listing) \in Nat /\ p + 1 \in Nat
      BY <2>1, <2>2, LenProperties
    <3> HIDE DEF p
    <3>2. /\ LastRow(listing, reached) \in 0..Len(listing)
          /\ LastRow(listing, p + 1) \in 0..Len(listing)
      BY <2>2, <3>1, LastRowType
    <3> QED
      BY <3>1, <3>2
  <2> HIDE DEF p
  <2>6. Len(data') >= LastRow(listing, reached')
    <3>1. Len(data) >= LastRow(listing, reached)
      BY <1>2, <2>2 DEF WayInv, LongEnough
    <3>2. CASE reached' = reached
      BY <2>1, <2>5, <3>1, <3>2
    <3>3. CASE reached' = p + 1 /\ p = reached
      BY <2>1, <2>5, <3>1, <3>3
    <3> QED
      BY <2>4, <3>2, <3>3
  <2>7. TotalsMatch'
    BY <1>2, <2>3 DEF WayInv, TotalsMatch
  <2> QED
    BY <2>3, <2>6, <2>7 DEF WayInv, LongEnough
<1> QED
  BY <1>1, <1>2

LEMMA WayStep ==
  ASSUME IInv, WayInv, [Next]_vars
  PROVE  WayInv'
<1>1. CASE ViewDidLoad
  <2>1. /\ loaded' /\ data' = <<>> /\ reached = 0 /\ UNCHANGED <<reached, listing, churned, replies>>
        /\ listing \in Seq(Task)
    BY <1>1 DEF ViewDidLoad, IInv, Fresh, TypeOK
  <2>2. LastRow(listing, 0) = 0 /\ Len(data') = 0
    BY <2>1, PageZero
  <2> QED
    BY <2>1, <2>2 DEF WayInv, LongEnough, TotalsMatch
<1>2. ASSUME NEW q \in requests, Serve(q) PROVE WayInv'
  <2> DEFINE answer == [id |-> q.id, page |-> q.page,
                        tasks |-> PageOf(listing, q.page), count |-> Len(listing)]
  <2>1. /\ replies' = replies \cup {answer}
        /\ UNCHANGED <<data, loaded, totalCounts, limit, listing, reached, churned>>
    BY <1>2 DEF Serve, model, history
  <2>2. answer.count = Len(listing)
    OBVIOUS
  <2> HIDE DEF answer
  <2> QED
    BY <2>1, <2>2 DEF WayInv, LongEnough, TotalsMatch
<1>3. CASE WillDisplay \/ (\E r \in InFlight : Lose(r)) \/ UNCHANGED vars
  <2>1. /\ replies' \subseteq replies
        /\ UNCHANGED <<data, loaded, totalCounts, limit, listing, reached, churned>>
    BY <1>3 DEF WillDisplay, Lose, vars, model, net, history
  <2> QED
    BY <2>1 DEF WayInv, LongEnough, TotalsMatch
<1>4. CASE Churn
  <2>1. churned' # 0
    BY <1>4 DEF Churn, IInv, TypeOK
  <2> QED
    BY <2>1 DEF WayInv, LongEnough, TotalsMatch
<1> QED
  BY <1>1, <1>2, <1>3, <1>4, DeliverWay DEF Next

LEMMA WayOn ==
  ASSUME IInv, WayInv, Lookahead <= ServerLimit
  PROVE  NoDeadEnd
<1> SUFFICES ASSUME loaded, reached > 0, churned = 0, ~(Listed \subseteq Rows)
             PROVE  CanAsk
  BY DEF NoDeadEnd
<1>1. /\ reached \in Nat /\ page \in Nat /\ page <= reached
      /\ listing = Listing /\ listing \in Seq(Task) /\ data \in Seq(Task)
      /\ Len(listing) \in Nat /\ Len(data) \in Nat
  BY LenProperties DEF IInv, TypeOK, NoPageSkipped, AnswersMatch
<1>2. ~(Len(listing) <= LastRow(listing, reached))
  <2>1. PICK i \in 1..Len(listing) : listing[i] \notin Rows
    BY <1>1 DEF Listed
  <2>2. LastRow(listing, reached) \in 0..Len(listing)
    BY <1>1, LastRowType
  <2>3. i \notin 1..LastRow(listing, reached)
    BY <2>1 DEF IInv, NothingMissing
  <2> QED
    BY <1>1, <2>2, <2>3
<1>3. /\ reached * ServerLimit \in Nat /\ page * ServerLimit \in Nat
      /\ page * ServerLimit <= reached * ServerLimit /\ ServerLimit <= reached * ServerLimit
  BY <1>1, ServerLimitAssumption
<1>4. reached * ServerLimit < Len(listing) /\ LastRow(listing, reached) = reached * ServerLimit
  BY <1>1, <1>2, <1>3 DEF LastRow
<1>5. MayHaveMore
  <2>1. totalCounts = Len(listing) /\ limit = ServerLimit
    BY DEF WayInv, TotalsMatch
  <2>2. page * limit < totalCounts
    BY <1>1, <1>3, <1>4, <2>1
  <2> QED
    BY <2>2 DEF MayHaveMore
<1>6. \E row \in 0..Len(data) - 1 : Len(data) - row = Lookahead
  <2>1. Len(data) >= reached * ServerLimit
    BY <1>4 DEF WayInv, LongEnough
  <2>2. /\ Len(data) - Lookahead \in 0..Len(data) - 1
        /\ Len(data) - (Len(data) - Lookahead) = Lookahead
    BY <1>1, <1>3, <2>1, LookaheadAssumption, ServerLimitAssumption
  <2> QED
    BY <2>2
<1> QED
  BY <1>5, <1>6 DEF CanAsk

(* With a page no shorter than the ten rows of willDisplay, scrolling      *)
(* never ends before the last task: however often requests overlapped or   *)
(* were lost, the trigger row is there and the guard of getNextTask holds. *)
THEOREM ScrollingGoesOn ==
  ASSUME Lookahead <= ServerLimit
  PROVE  Spec => []NoDeadEnd
<1>1. IInv /\ WayInv /\ [Next]_vars => WayInv'
  BY WayStep
<1>2. IInv /\ WayInv => NoDeadEnd
  BY WayOn
<1> QED
  BY Invariance, WayInit, <1>1, <1>2, PTL DEF Spec
=============================================================================
