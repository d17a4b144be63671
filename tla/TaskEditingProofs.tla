--------------------------- MODULE TaskEditingProofs ---------------------------
(***************************************************************************)
(* Proofs about TaskEditing, for any ids and any number of saves, deletes, *)
(* screens and losses.                                                     *)
(***************************************************************************)
EXTENDS TaskEditing, SequenceTheorems, TLAPS

(* The tasks without deletes and without overlapping saves.                *)
Steady == Ids \ (overlapped \cup deletes)

InFlight == requests \cup replies

(* What is in flight has a number given out before, and so has what the    *)
(* server holds: a save pressed now is newer than all of it.               *)
Numbered ==
  /\ \A id \in Ids : server[id] <= sent
  /\ \A r \in InFlight : r.n <= sent

(* Updates and deletes, and the answers to saves and deletes, name a task. *)
Named ==
  /\ \A r \in requests : r.op \in {"update", "delete"} => r.id \in Ids
  /\ \A p \in replies : p.op # "page" => p.id \in Ids
  /\ \A r \in InFlight : r.op = "delete" => r.id \in deletes

(* Nobody has heard of an id that was not given to a task yet.             *)
FreeUnheard ==
  \A id \in free :
    /\ server[id] = 0 /\ acked[id] = 0 /\ editor.id # id
    /\ \A r \in InFlight : r.id # id
    /\ \A p \in replies : p.rows[id] = 0
    /\ \A i \in 1..Len(lists) : lists[i].rows[id] = 0 /\ lists[i].about # id

(* Without overlapping saves one update of a task is under way at most,    *)
(* and it is the newest of all.                                            *)
OneSave ==
  \A r \in requests :
    r.op = "update" /\ r.id \notin overlapped =>
      /\ server[r.id] < r.n
      /\ \A s \in requests : s.op = "update" /\ s.id = r.id => s = r

(* A save or a delete that is being reported, and one that was, is on the  *)
(* server.                                                                 *)
AnswersDone ==
  \A p \in replies :
    p.op # "page" /\ p.body # "message" => Reflects(server[p.id], p.op, p.id, p.n)

ListsDone ==
  \A i \in 1..Len(lists) :
    LET l == lists[i] IN
    l.about \in Ids => Reflects(server[l.about], l.op, l.about, l.cause)

(* The rows on their way to a list were read after the save or delete it   *)
(* reports.                                                                *)
PagesDone ==
  \A p \in replies :
    p.op = "page" =>
      LET l == lists[p.from] IN
      l.about \in Ids => Reflects(p.rows[l.about], l.op, l.about, l.cause)

(* No number is used twice: a request is carried out once.                 *)
Once ==
  /\ sent >= 1
  /\ \A r \in requests :
       /\ r.n > 1
       /\ \A id \in Ids : server[id] # r.n
       /\ \A s \in requests : s.n = r.n => s = r

Consistent ==
  /\ Numbered
  /\ Named
  /\ FreeUnheard
  /\ OneSave
  /\ AnswersDone
  /\ SavesStick
  /\ ListsDone
  /\ PagesDone
  /\ ReadYourWrites
  /\ Once
  /\ OneTaskPerSave

IInv == TypeOK /\ Consistent

-----------------------------------------------------------------------------
(* Types                                                                   *)

LEMMA FunctionIsSeq ==
  ASSUME NEW S, NEW k \in Nat, NEW f \in [1..k -> S]
  PROVE  f \in Seq(S) /\ Len(f) = k
<1>1. f \in Seq(S)
  BY SeqDef
<1> QED
  BY <1>1, LenProperties

(* What TypeOK says of the members of the sets and the lists.              *)
LEMMA Types ==
  ASSUME TypeOK
  PROVE  /\ Len(lists) \in Nat \ {0}
         /\ \A i \in 1..Len(lists) :
              /\ lists[i].loaded \in BOOLEAN /\ lists[i].rows \in Tasks
              /\ lists[i].cause \in Nat /\ lists[i].op \in Op
              /\ lists[i].about \in Ids \cup {NoId}
         /\ \A r \in requests :
              r.n \in Nat /\ r.op \in Op /\ r.id \in Ids \cup {NoId} /\ r.from \in Nat
         /\ \A p \in replies :
              /\ p.n \in Nat /\ p.op \in Op /\ p.id \in Ids \cup {NoId} /\ p.from \in Nat
              /\ p.body \in Body /\ p.rows \in Tasks
         /\ \A id \in Ids : server[id] \in Nat /\ acked[id] \in Nat
<1>1. lists \in Seq(List) /\ lists # <<>> /\ requests \subseteq Request
      /\ replies \subseteq Reply /\ server \in Tasks /\ acked \in Tasks
  BY DEF TypeOK
<1>2. Len(lists) \in Nat \ {0} /\ \A i \in 1..Len(lists) : lists[i] \in List
  BY <1>1, EmptySeq, ElementOfSeq
<1>3. \A i \in 1..Len(lists) :
         /\ lists[i].loaded \in BOOLEAN /\ lists[i].rows \in Tasks
         /\ lists[i].cause \in Nat /\ lists[i].op \in Op
         /\ lists[i].about \in Ids \cup {NoId}
  BY <1>2 DEF List
<1>4. \A r \in requests :
        r.n \in Nat /\ r.op \in Op /\ r.id \in Ids \cup {NoId} /\ r.from \in Nat
  BY <1>1 DEF Request
<1>5. \A p \in replies :
         /\ p.n \in Nat /\ p.op \in Op /\ p.id \in Ids \cup {NoId} /\ p.from \in Nat
         /\ p.body \in Body /\ p.rows \in Tasks
  BY <1>1 DEF Reply
<1>6. \A id \in Ids : server[id] \in Nat /\ acked[id] \in Nat
  BY <1>1 DEF Tasks
<1> QED
  BY <1>2, <1>3, <1>4, <1>5, <1>6

(* The bodies of the server's answers call a closure, once or twice.       *)
LEMMA CallsType ==
  ASSUME NEW p
  PROVE  /\ Len(Calls(p)) \in Nat
         /\ Succeeds(p) => p.body # "message"
<1>1. /\ Len(CreateTask(p.body)) \in Nat
      /\ CreateTask(p.body)[1] = "success" => p.body # "message"
  BY DEF CreateTask, Decodes
<1>2. /\ Len(UpdateTask(p.body)) \in Nat
      /\ UpdateTask(p.body)[1] = "success" => p.body # "message"
  BY DEF UpdateTask, Decodes, TwoBytes
<1>3. /\ Len(DeleteTask(p.body)) \in Nat
      /\ DeleteTask(p.body)[1] = "success" => p.body # "message"
  <2>1. CASE p.body = "message"
    <3>1. DeleteTask(p.body) = <<>> \o <<"error">>
      BY <2>1 DEF DeleteTask, Decodes, TwoBytes
    <3> QED
      BY <3>1
  <2>2. CASE p.body # "message"
    <3> DEFINE first == IF TwoBytes(p.body) THEN <<"success">> ELSE <<>>
               second == IF Decodes(p.body) THEN <<"success">> ELSE <<>>
    <3>1. first \in Seq({"success"}) /\ second \in Seq({"success"})
      OBVIOUS
    <3>2. DeleteTask(p.body) = first \o second
      BY <2>2 DEF DeleteTask
    <3> HIDE DEF first, second
    <3> QED
      BY <2>2, <3>1, <3>2, ConcatProperties
  <2> QED
    BY <2>1, <2>2
<1> QED
  BY <1>1, <1>2, <1>3 DEF Calls, Succeeds

(* Every action keeps the types.                                           *)
LEMMA TypeStep ==
  ASSUME TypeOK, Named, [Next]_vars
  PROVE  TypeOK'
<1> USE IdsAssumption
<1>0. /\ server \in Tasks /\ free \subseteq Ids /\ lists \in Seq(List) /\ lists # <<>>
      /\ editor \in Editor /\ (editor = NoEditor \/ editor.screen \in 1..screens)
      /\ screens \in Nat /\ left \subseteq 1..screens
      /\ requests \subseteq Request /\ replies \subseteq Reply
      /\ sent \in Nat /\ pressed \in Nat /\ lost \in Nat /\ acked \in Tasks
      /\ deletes \subseteq Ids /\ overlapped \subseteq Ids
      /\ Len(lists) \in Nat \ {0}
  BY Types DEF TypeOK
<1>1. ASSUME OpenEditor PROVE TypeOK'
  <2>1. editor' \in Editor /\ editor'.screen \in 1..screens'
    BY <1>0, <1>1 DEF OpenEditor, Editor
  <2> QED
    BY <1>1, <2>1, <1>0 DEF TypeOK, OpenEditor, net, history
<1>2. ASSUME NEW op \in Op, Send(op, editor.id), deletes' \subseteq Ids, overlapped' \subseteq Ids,
             op # "page"
      PROVE  TypeOK'
  <2>1. [n |-> sent + 1, op |-> op, id |-> editor.id, from |-> editor.screen] \in Request
    BY <1>0 DEF Editor, Request
  <2> QED
    BY <1>0, <1>2, <2>1 DEF TypeOK, Send
<1>3. ASSUME SavePressed PROVE TypeOK'
  <2>1. overlapped' \subseteq Ids
    <3>1. CASE UnderWay(editor.id)
      BY <1>0, <1>3, <3>1 DEF SavePressed, UnderWay, Named
    <3>2. CASE ~UnderWay(editor.id)
      BY <1>0, <1>3, <3>2 DEF SavePressed
    <3> QED
      BY <3>1, <3>2
  <2> QED
    BY <1>0, <1>2, <1>3, <2>1 DEF SavePressed, Op
<1>4. ASSUME DeletePressed PROVE TypeOK'
  <2>1. editor.id \in Ids
    BY <1>0, <1>4 DEF DeletePressed, Editor
  <2> QED
    BY <1>0, <1>2, <1>4, <2>1 DEF DeletePressed, Op
<1>5. ASSUME BackPressed PROVE TypeOK'
  BY <1>0, <1>5 DEF TypeOK, BackPressed, net, history, Editor, NoEditor
<1>6. ASSUME NEW r \in requests, NEW id \in Ids \cup {NoId}, NEW body \in Body,
             Answer(r, id, body), server' \in Tasks, free' \subseteq Ids
      PROVE  TypeOK'
  <2>1. [n |-> r.n, op |-> r.op, id |-> id, from |-> r.from,
         body |-> body, rows |-> server] \in Reply
    BY <1>0, <1>6 DEF Request, Reply
  <2> QED
    BY <1>0, <1>6, <2>1 DEF TypeOK, Answer, history
<1>7. ASSUME NEW r \in requests, Serve(r) PROVE TypeOK'
  <2>0. r.n \in Nat /\ r.id \in Ids \cup {NoId}
    BY Types
  <2>1. CASE ServePage(r)
    BY <1>0, <1>6, <2>1 DEF ServePage, Body
  <2>2. CASE ServeCreate(r)
    <3>1. PICK id \in free : /\ server' = [server EXCEPT ![id] = r.n]
                             /\ free' = free \ {id} /\ Answer(r, id, "result")
      BY <2>2 DEF ServeCreate
    <3>2. server' \in Tasks
      BY <1>0, <2>0, <3>1 DEF Tasks
    <3> QED
      BY <1>0, <1>6, <3>1, <3>2 DEF Body
  <2>3. CASE ServeUpdate(r)
    <3>1. server' \in Tasks /\ free' = free
      BY <1>0, <2>0, <2>3 DEF ServeUpdate, Tasks
    <3>2. PICK body \in Body : Answer(r, r.id, body)
      BY <2>3 DEF ServeUpdate, Body
    <3> QED
      BY <1>0, <1>6, <2>0, <3>1, <3>2
  <2>4. CASE ServeDelete(r)
    <3>1. server' \in Tasks /\ free' = free
      <4>1. CASE server[r.id] = 0
        BY <1>0, <2>4, <4>1 DEF ServeDelete
      <4>2. CASE server[r.id] # 0
        <5>1. server' = [server EXCEPT ![r.id] = 0] /\ free' = free
          BY <2>4, <4>2 DEF ServeDelete
        <5> QED
          BY <1>0, <5>1 DEF Tasks
      <4> QED
        BY <4>1, <4>2
    <3>2. PICK body \in Body : Answer(r, r.id, body)
      BY <2>4 DEF ServeDelete, Body
    <3> QED
      BY <1>0, <1>6, <2>0, <3>1, <3>2
  <2> QED
    BY <1>7, <2>1, <2>2, <2>3, <2>4 DEF Serve
<1>8. ASSUME NEW r \in requests \cup replies, Lose(r) PROVE TypeOK'
  BY <1>0, <1>8 DEF TypeOK, Lose
<1>9. ASSUME NEW p \in replies, DeliverPage(p) PROVE TypeOK'
  <2>0. p.from \in 1..Len(lists) /\ p.rows \in Tasks /\ lists[p.from] \in List
    BY <1>0, <1>9, Types, ElementOfSeq DEF TypeOK, DeliverPage
  <2>1. [lists[p.from] EXCEPT !.loaded = TRUE, !.rows = p.rows] \in List
    BY <2>0 DEF List
  <2>2. lists' = [lists EXCEPT ![p.from] =
                    [lists[p.from] EXCEPT !.loaded = TRUE, !.rows = p.rows]]
    BY <1>0, <1>9, <2>0 DEF DeliverPage
  <2>3. lists' \in Seq(List) /\ Len(lists') = Len(lists)
    BY <1>0, <2>0, <2>1, <2>2, ExceptSeq
  <2>4. lists' # <<>>
    BY <1>0, <2>3, EmptySeq
  <2> QED
    BY <1>0, <1>9, <2>3, <2>4 DEF TypeOK, DeliverPage, history
<1>10. ASSUME NEW p \in replies, DeliverSuccess(p) PROVE TypeOK'
  <2> DEFINE k == Len(Calls(p))
             new == [i \in 1..k |-> [loaded |-> FALSE, rows |-> NoTasks,
                                     cause |-> p.n, op |-> p.op, about |-> p.id]]
  <2>0. p.n \in Nat /\ p.id \in Ids /\ p.op \in Op /\ k \in Nat
    BY <1>10, Types, CallsType DEF DeliverSuccess, Succeeds, Named
  <2>1. new \in Seq(List) /\ Len(new) = k
    <3>1. NoTasks \in Tasks
      BY DEF NoTasks, Tasks
    <3>2. new \in [1..k -> List]
      BY <2>0, <3>1 DEF List
    <3> HIDE DEF new, k
    <3> QED
      BY <2>0, <3>2, FunctionIsSeq
  <2>2. lists' = lists \o new
    BY <1>10 DEF DeliverSuccess, OpenLists
  <2> HIDE DEF new, k
  <2>3. lists' \in Seq(List) /\ Len(lists') = Len(lists) + k
    BY <1>0, <2>1, <2>2, ConcatProperties
  <2>4. lists' # <<>>
    BY <1>0, <2>0, <2>3, EmptySeq
  <2> USE DEF k
  <2>5. requests' \subseteq Request
    BY <1>0, <1>10, <2>0 DEF DeliverSuccess, OpenLists, Request, Op
  <2>6. \A r \in requests' \cup replies' : r.op = "page" => r.from \in 1..Len(lists')
    BY <1>0, <1>10, <2>0, <2>3 DEF DeliverSuccess, OpenLists, TypeOK
  <2>7. acked' \in Tasks
    BY <1>0, <1>10, <2>0 DEF DeliverSuccess, Acknowledge, Tasks
  <2>8. sent' \in Nat /\ editor' = NoEditor /\ NoEditor \in Editor /\ replies' \subseteq Reply
    BY <1>0, <1>10, <2>0 DEF DeliverSuccess, OpenLists, Editor, NoEditor
  <2> QED
    BY <1>0, <1>10, <2>3, <2>4, <2>5, <2>6, <2>7, <2>8 DEF DeliverSuccess, TypeOK
<1>11. ASSUME NEW p \in replies, DeliverNothing(p) PROVE TypeOK'
  BY <1>0, <1>11 DEF TypeOK, DeliverNothing, history
<1>12. ASSUME UNCHANGED vars PROVE TypeOK'
  BY <1>12 DEF TypeOK, vars, net, history
<1> QED
  BY <1>1, <1>3, <1>4, <1>5, <1>7, <1>8, <1>9, <1>10, <1>11, <1>12 DEF Next, Deliver

-----------------------------------------------------------------------------
(* The steps of the user, and those that only take something away          *)

(* Opening a screen or leaving it, losing an answer or getting one that    *)
(* opens nothing.                                                          *)
LEMMA QuietStep ==
  ASSUME IInv, requests' \subseteq requests, replies' \subseteq replies,
         UNCHANGED <<server, free, lists, sent, deletes, overlapped, acked>>,
         \A id \in free : editor'.id # id
  PROVE  Consistent'
<1>1. Numbered' /\ Named'
  BY DEF IInv, Consistent, Numbered, Named, InFlight
<1>2. FreeUnheard'
  BY DEF IInv, Consistent, FreeUnheard, InFlight
<1>3. OneSave' /\ AnswersDone' /\ SavesStick'
  BY DEF IInv, Consistent, OneSave, AnswersDone, SavesStick, Reflects
<1>4. ListsDone' /\ PagesDone' /\ ReadYourWrites'
  BY DEF IInv, Consistent, ListsDone, PagesDone, ReadYourWrites, Reflects
<1>5. Once' /\ OneTaskPerSave'
  BY DEF IInv, Consistent, Once, OneTaskPerSave
<1> QED
  BY <1>1, <1>2, <1>3, <1>4, <1>5 DEF Consistent

(* Pressing save or delete sends a request newer than all there is.        *)
LEMMA PressStep ==
  ASSUME IInv, NEW op \in {"create", "update", "delete"}, Send(op, editor.id),
         op # "create" => editor.id \in Ids,
         overlapped \subseteq overlapped', deletes \subseteq deletes',
         op = "update" /\ UnderWay(editor.id) => editor.id \in overlapped',
         op = "delete" => editor.id \in deletes'
  PROVE  Consistent'
<1> DEFINE new == [n |-> sent + 1, op |-> op, id |-> editor.id, from |-> editor.screen]
<1>0. /\ requests' = requests \cup {new} /\ sent' = sent + 1
      /\ UNCHANGED <<server, free, lists, editor, replies, acked>>
      /\ new.n = sent + 1 /\ new.op = op /\ new.id = editor.id
      /\ sent \in Nat /\ Consistent
  BY DEF Send, IInv, TypeOK
<1> HIDE DEF new
<1>1. Numbered'
  BY <1>0, Types DEF IInv, Consistent, Numbered, InFlight
<1>2. Named'
  BY <1>0 DEF Consistent, Named, InFlight
<1>3. FreeUnheard'
  BY <1>0 DEF Consistent, FreeUnheard, InFlight
<1>4. OneSave'
  <2> SUFFICES ASSUME NEW r \in requests', r.op = "update", r.id \notin overlapped'
               PROVE  /\ server[r.id] < r.n
                      /\ \A s \in requests' : s.op = "update" /\ s.id = r.id => s = r
    BY <1>0 DEF OneSave
  <2>0. r.id \in Ids /\ server[r.id] \in Nat /\ server[r.id] <= sent /\ r.id \notin overlapped
    BY <1>0, Types DEF Named, IInv, Consistent, Numbered
  <2>1. CASE r = new
    <3>1. ~UnderWay(r.id)
      BY <1>0, <2>1
    <3> QED
      BY <1>0, <2>0, <2>1, <3>1 DEF UnderWay
  <2>2. CASE r \in requests
    <3>1. new.op = "update" => new.id # r.id
      BY <1>0, <2>2 DEF UnderWay
    <3> QED
      BY <1>0, <2>0, <2>2, <3>1 DEF Consistent, OneSave
  <2> QED
    BY <1>0, <2>1, <2>2
<1>5. AnswersDone'
  BY <1>0 DEF Consistent, AnswersDone, Reflects
<1>6. SavesStick' /\ ListsDone' /\ PagesDone'
  BY <1>0 DEF Consistent, SavesStick, ListsDone, PagesDone, Reflects
<1>7. ReadYourWrites'
  BY <1>0 DEF Consistent, ReadYourWrites, Reflects
<1>8. Once' /\ OneTaskPerSave'
  BY <1>0, Types DEF IInv, Consistent, Once, OneTaskPerSave, Numbered, InFlight
<1> QED
  BY <1>1, <1>2, <1>3, <1>4, <1>5, <1>6, <1>7, <1>8 DEF Consistent

-----------------------------------------------------------------------------
(* The steps of the server                                                 *)

(* The server's tasks change at one id at most: to a newer save of a task  *)
(* that is there, to none if the user deletes it, in any way for one saved *)
(* twice at a time.  A task that is gone does not come back.               *)
Advances(r, id) ==
  /\ \A i \in Ids \ {id} : server'[i] = server[i]
  /\ id \in Ids \ free /\ server[id] = 0 => server'[id] = 0
  /\ id \in Ids \ overlapped =>
       server[id] <= server'[id] \/ (id \in deletes /\ server'[id] = 0)
  /\ id \in Ids => server'[id] \in {0, r.n, server[id]}

(* An answer to r about id, after which the server holds server'.          *)
LEMMA ServeStep ==
  ASSUME IInv, NEW r \in requests, NEW id \in Ids \cup {NoId}, NEW body \in Body,
         Answer(r, id, body), Advances(r, id),
         free' \subseteq free, id \notin free',
         r.op # "page" => id \in Ids,
         r.op \in {"update", "delete"} => id = r.id,
         r.op = "create" => id \in free,
         r.op = "page" => UNCHANGED server,
         r.op \in {"create", "update"} /\ body # "message" => server'[id] = r.n,
         r.op = "delete" => server'[id] \in {0, server[id]},
         r.op = "delete" /\ body # "message" => server'[id] = 0
  PROVE  Consistent'
<1> USE IdsAssumption
<1> DEFINE new == [n |-> r.n, op |-> r.op, id |-> id, from |-> r.from,
                   body |-> body, rows |-> server]
<1>0. /\ requests' = requests \ {r} /\ replies' = replies \cup {new}
      /\ UNCHANGED <<lists, editor, sent, deletes, overlapped, acked>>
      /\ new.n = r.n /\ new.op = r.op /\ new.id = id /\ new.from = r.from
      /\ new.body = body /\ new.rows = server
      /\ sent \in Nat /\ Consistent /\ r.n \in Nat /\ r.op \in Op
      /\ Steady' = Steady /\ Steady \subseteq Ids
      /\ \A i \in Ids : server[i] \in Nat /\ acked[i] \in Nat
  BY Types DEF Answer, history, IInv, TypeOK, Steady
<1> HIDE DEF new
<1>1. /\ \A i \in Steady : server[i] <= server'[i]
      /\ \A i \in Ids : server'[i] \in Nat
  BY <1>0 DEF Advances, Steady
<1>13. ASSUME NEW i \in Ids \ free, NEW op, NEW n \in Nat, Reflects(server[i], op, i, n)
       PROVE  Reflects(server'[i], op, i, n)
  <2>1. \/ server'[i] = server[i]
        \/ /\ server[i] = 0 => server'[i] = 0
           /\ i \notin overlapped =>
                server[i] <= server'[i] \/ (i \in deletes /\ server'[i] = 0)
    BY DEF Advances
  <2> QED
    BY <1>0, <1>1, <1>13, <2>1 DEF Reflects
<1>2. Numbered'
  BY <1>0 DEF Advances, Consistent, Numbered, InFlight
<1>3. Named'
  BY <1>0 DEF Consistent, Named, InFlight
<1>4. FreeUnheard'
  BY <1>0 DEF Consistent, FreeUnheard, InFlight, Advances, IInv, TypeOK
<1>5. OneSave'
  <2> SUFFICES ASSUME NEW s \in requests', s.op = "update", s.id \notin overlapped
               PROVE  /\ server'[s.id] < s.n
                      /\ \A q \in requests' : q.op = "update" /\ q.id = s.id => q = s
    BY <1>0 DEF OneSave
  <2>1. /\ s \in requests /\ s # r /\ server[s.id] < s.n /\ s.id \in Ids /\ 0 < s.n
        /\ \A q \in requests : q.op = "update" /\ q.id = s.id => q = s
    BY <1>0, Types DEF Consistent, OneSave, Named, Once, IInv
  <2>2. s.id # id \/ server'[id] \in {0, server[id]}
    <3>1. CASE r.op = "update"
      BY <2>1, <3>1
    <3>2. CASE r.op = "create"
      BY <1>0, <2>1, <3>2 DEF Consistent, FreeUnheard, InFlight
    <3>3. CASE r.op \in {"delete", "page"}
      BY <3>3
    <3> QED
      BY <1>0, <3>1, <3>2, <3>3 DEF Op
  <2> QED
    BY <1>0, <2>1, <2>2 DEF Advances
<1>6. AnswersDone'
  <2> SUFFICES ASSUME NEW p \in replies', p.op # "page", p.body # "message"
               PROVE  Reflects(server'[p.id], p.op, p.id, p.n)
    BY <1>0 DEF AnswersDone, Reflects
  <2>1. CASE p = new
    <3>1. IF r.op = "delete" THEN server'[id] = 0 ELSE server'[id] = r.n
      BY <1>0, <2>1 DEF Op
    <3> QED
      BY <1>0, <2>1, <3>1 DEF Reflects
  <2>2. CASE p \in replies
    <3>1. Reflects(server[p.id], p.op, p.id, p.n) /\ p.n \in Nat /\ p.id \in Ids \ free
      BY <1>0, <2>2, Types DEF Consistent, AnswersDone, Named, FreeUnheard, InFlight, IInv
    <3> QED
      BY <1>13, <3>1
  <2> QED
    BY <1>0, <2>1, <2>2
<1>7. SavesStick'
  BY <1>0, <1>1 DEF Consistent, SavesStick, Steady
<1>8. ListsDone'
  <2> SUFFICES ASSUME NEW i \in 1..Len(lists), lists[i].about \in Ids
               PROVE  Reflects(server'[lists[i].about], lists[i].op, lists[i].about,
                               lists[i].cause)
    BY <1>0 DEF ListsDone, Reflects
  <2>1. /\ Reflects(server[lists[i].about], lists[i].op, lists[i].about, lists[i].cause)
        /\ lists[i].cause \in Nat /\ lists[i].about \notin free
    BY <1>0, Types DEF Consistent, ListsDone, FreeUnheard, IInv
  <2> QED
    BY <1>13, <2>1
<1>9. PagesDone'
  <2> SUFFICES ASSUME NEW p \in replies', p.op = "page", lists[p.from].about \in Ids
               PROVE  Reflects(p.rows[lists[p.from].about], lists[p.from].op,
                               lists[p.from].about, lists[p.from].cause)
    BY <1>0 DEF PagesDone, Reflects
  <2>1. CASE p = new
    <3>1. r.from \in 1..Len(lists)
      BY <1>0, <2>1 DEF IInv, TypeOK
    <3> QED
      BY <1>0, <2>1, <3>1 DEF Consistent, ListsDone
  <2>2. CASE p \in replies
    BY <1>0, <2>2 DEF Consistent, PagesDone
  <2> QED
    BY <1>0, <2>1, <2>2
<1>10. ReadYourWrites'
  BY <1>0 DEF Consistent, ReadYourWrites, Reflects
<1>11. Once'
  <2> SUFFICES ASSUME NEW s \in requests, s # r, NEW i \in Ids
               PROVE  server'[i] # s.n
    BY <1>0 DEF Consistent, Once
  <2>1. s.n # 0 /\ s.n # r.n /\ s.n # server[i]
    BY <1>0 DEF Consistent, Once
  <2>2. server'[i] \in {0, r.n, server[i]}
    BY DEF Advances
  <2> QED
    BY <2>1, <2>2
<1>12. OneTaskPerSave'
  <2> SUFFICES ASSUME NEW i \in Ids, NEW j \in Ids, i # j, server'[i] = server'[j]
               PROVE  server'[i] <= 1
    BY DEF OneTaskPerSave
  <2>1. server[i] # r.n /\ server[j] # r.n
    BY DEF IInv, Consistent, Once
  <2>2. server[i] = server[j] => server[i] <= 1 /\ server[j] <= 1
    BY DEF IInv, Consistent, OneTaskPerSave
  <2>3. CASE i = id
    <3>1. server'[j] = server[j] /\ server'[i] \in {0, r.n, server[i]}
      BY <2>3 DEF Advances
    <3> QED
      BY <2>1, <2>2, <3>1
  <2>4. CASE i # id
    <3>1. server'[i] = server[i] /\ server'[j] \in {0, r.n, server[j]}
      BY <2>4 DEF Advances
    <3> QED
      BY <2>1, <2>2, <3>1
  <2> QED
    BY <2>3, <2>4
<1> QED
  BY <1>2, <1>3, <1>4, <1>5, <1>6, <1>7, <1>8, <1>9, <1>10, <1>11, <1>12 DEF Consistent

(* The server carries out a request.                                       *)
LEMMA ServesConsistent ==
  ASSUME IInv, NEW r \in requests, Serve(r)
  PROVE  Consistent'
<1> USE IdsAssumption
<1>0. /\ Consistent /\ sent \in Nat /\ free \subseteq Ids /\ server \in Tasks
      /\ r.n \in Nat /\ r.n <= sent /\ r.id \in Ids \cup {NoId}
      /\ \A i \in Ids : server[i] \in Nat /\ server[i] <= sent
      /\ Steady \subseteq Ids
  BY Types DEF IInv, TypeOK, Consistent, Numbered, InFlight, Steady
<1>1. CASE ServePage(r)
  <2>1. /\ Answer(r, NoId, "result") /\ UNCHANGED <<server, free>>
        /\ r.op = "page" /\ NoId \notin Ids
    BY <1>1 DEF ServePage
  <2>2. Advances(r, NoId)
    BY <1>0, <2>1 DEF Advances
  <2> QED
    BY <1>0, <2>1, <2>2, ServeStep DEF Body
<1>2. CASE ServeCreate(r)
  <2>1. PICK id \in free : /\ server' = [server EXCEPT ![id] = r.n]
                           /\ free' = free \ {id} /\ Answer(r, id, "result")
    BY <1>2 DEF ServeCreate
  <2>2. r.op = "create" /\ id \in Ids /\ server[id] = 0
    BY <1>0, <1>2 DEF ServeCreate, Consistent, FreeUnheard
  <2>3. server'[id] = r.n /\ \A i \in Ids \ {id} : server'[i] = server[i]
    BY <1>0, <2>1, <2>2 DEF Tasks
  <2>4. Advances(r, id)
    BY <1>0, <2>2, <2>3 DEF Advances
  <2> QED
    BY <2>1, <2>2, <2>3, <2>4, ServeStep DEF Body
<1>3. CASE ServeUpdate(r)
  <2>1. /\ r.op = "update" /\ r.id \in Ids /\ free' = free
        /\ r.id \notin free
    BY <1>0, <1>3 DEF ServeUpdate, Consistent, Named, FreeUnheard, InFlight
  <2>2. CASE server[r.id] = 0
    <3>1. Answer(r, r.id, "message") /\ UNCHANGED server
      BY <1>3, <2>2 DEF ServeUpdate
    <3>2. Advances(r, r.id)
      BY <1>0, <2>1, <3>1 DEF Advances
    <3> QED
      BY <2>1, <3>1, <3>2, ServeStep DEF Body
  <2>3. CASE server[r.id] # 0
    <3>1. server' = [server EXCEPT ![r.id] = r.n]
      BY <1>3, <2>3 DEF ServeUpdate
    <3>2. server'[r.id] = r.n /\ \A i \in Ids \ {r.id} : server'[i] = server[i]
      BY <1>0, <2>1, <3>1 DEF Tasks
    <3>3. r.id \notin overlapped => server[r.id] < r.n
      BY <1>0, <2>1 DEF Consistent, OneSave
    <3>4. Advances(r, r.id)
      BY <1>0, <2>1, <2>3, <3>2, <3>3 DEF Advances
    <3>5. PICK body \in {"result", "{}"} : Answer(r, r.id, body)
      BY <1>3, <2>3 DEF ServeUpdate
    <3> QED
      BY <2>1, <3>2, <3>4, <3>5, ServeStep DEF Body
  <2> QED
    BY <2>2, <2>3
<1>4. CASE ServeDelete(r)
  <2>1. /\ r.op = "delete" /\ r.id \in Ids /\ free' = free
        /\ r.id \notin free /\ r.id \in deletes
    BY <1>0, <1>4 DEF ServeDelete, Consistent, Named, FreeUnheard, InFlight
  <2>2. CASE server[r.id] = 0
    <3>1. Answer(r, r.id, "message") /\ UNCHANGED server
      BY <1>4, <2>2 DEF ServeDelete
    <3>2. Advances(r, r.id)
      BY <1>0, <2>1, <3>1 DEF Advances
    <3> QED
      BY <2>1, <3>1, <3>2, ServeStep DEF Body
  <2>3. CASE server[r.id] # 0
    <3>1. server' = [server EXCEPT ![r.id] = 0]
      BY <1>4, <2>3 DEF ServeDelete
    <3>2. server'[r.id] = 0 /\ \A i \in Ids \ {r.id} : server'[i] = server[i]
      BY <1>0, <2>1, <3>1 DEF Tasks
    <3>3. Advances(r, r.id)
      BY <1>0, <2>1, <3>2 DEF Advances
    <3>4. PICK body \in {"{}", "[]"} : Answer(r, r.id, body)
      BY <1>4, <2>3 DEF ServeDelete
    <3> QED
      BY <2>1, <3>2, <3>3, <3>4, ServeStep DEF Body
  <2> QED
    BY <2>2, <2>3
<1> QED
  BY <1>1, <1>2, <1>3, <1>4 DEF Serve

-----------------------------------------------------------------------------
(* The answers                                                             *)

(* The first page of a list replaces its rows.                             *)
LEMMA PageStep ==
  ASSUME IInv, NEW p \in replies, DeliverPage(p)
  PROVE  Consistent'
<1>0. /\ replies' = replies \ {p} /\ p.op = "page"
      /\ UNCHANGED <<server, free, editor, requests, sent, deletes, overlapped, acked>>
      /\ Consistent
      /\ p.from \in 1..Len(lists) /\ lists \in Seq(List) /\ free \subseteq Ids
  BY DEF DeliverPage, IInv, TypeOK, history
<1>1. /\ Len(lists') = Len(lists)
      /\ \A i \in 1..Len(lists) :
           /\ lists'[i].cause = lists[i].cause /\ lists'[i].about = lists[i].about
           /\ lists'[i].op = lists[i].op
           /\ i # p.from => lists'[i] = lists[i]
      /\ lists'[p.from].rows = p.rows
  <2>1. lists[p.from] \in List
    BY <1>0, ElementOfSeq
  <2>2. lists' = [lists EXCEPT ![p.from] =
                    [lists[p.from] EXCEPT !.loaded = TRUE, !.rows = p.rows]]
    BY DEF DeliverPage
  <2> DEFINE new == [lists[p.from] EXCEPT !.loaded = TRUE, !.rows = p.rows]
  <2>3. /\ new \in List /\ new.rows = p.rows
        /\ new.cause = lists[p.from].cause /\ new.about = lists[p.from].about
        /\ new.op = lists[p.from].op
    BY <2>1, Types DEF List, IInv
  <2> HIDE DEF new
  <2>4. /\ Len(lists') = Len(lists)
        /\ \A i \in 1..Len(lists) : lists'[i] = IF i = p.from THEN new ELSE lists[i]
    BY <1>0, <2>2, <2>3, ExceptSeq DEF new
  <2> QED
    BY <1>0, <2>3, <2>4
<1>2. /\ Numbered' /\ Named' /\ OneSave' /\ AnswersDone' /\ SavesStick'
      /\ Once' /\ OneTaskPerSave'
  BY <1>0 DEF Consistent, Numbered, Named, OneSave, AnswersDone, SavesStick,
              Reflects, Once, OneTaskPerSave, InFlight
<1>3. FreeUnheard'
  <2> SUFFICES ASSUME NEW id \in free, NEW i \in 1..Len(lists)
               PROVE  lists'[i].rows[id] = 0 /\ lists'[i].about # id
    BY <1>0, <1>1 DEF Consistent, FreeUnheard, InFlight
  <2> QED
    BY <1>0, <1>1 DEF Consistent, FreeUnheard
<1>4. ListsDone'
  BY <1>0, <1>1 DEF Consistent, ListsDone, Reflects
<1>5. PagesDone'
  <2> SUFFICES ASSUME NEW q \in replies, q.op = "page", lists'[q.from].about \in Ids
               PROVE  Reflects(q.rows[lists'[q.from].about], lists'[q.from].op,
                               lists'[q.from].about, lists'[q.from].cause)
    BY <1>0 DEF PagesDone, Reflects
  <2>1. q.from \in 1..Len(lists)
    BY DEF IInv, TypeOK
  <2> QED
    BY <1>0, <1>1, <2>1 DEF Consistent, PagesDone
<1>6. ReadYourWrites'
  <2> SUFFICES ASSUME NEW i \in 1..Len(lists), lists'[i].loaded, lists'[i].about \in Ids
               PROVE  Reflects(lists'[i].rows[lists'[i].about], lists'[i].op,
                               lists'[i].about, lists'[i].cause)
    BY <1>0, <1>1 DEF ReadYourWrites, Reflects
  <2>1. CASE i = p.from
    BY <1>0, <1>1, <2>1 DEF Consistent, PagesDone
  <2>2. CASE i # p.from
    BY <1>0, <1>1, <2>2 DEF Consistent, ReadYourWrites
  <2> QED
    BY <2>1, <2>2
<1> QED
  BY <1>2, <1>3, <1>4, <1>5, <1>6 DEF Consistent

(* A save or a delete was answered: new lists, each with its request.      *)
LEMMA SuccessStep ==
  ASSUME IInv, NEW p \in replies, DeliverSuccess(p)
  PROVE  Consistent'
<1> USE IdsAssumption
<1> DEFINE k == Len(Calls(p))
           added == {[n |-> sent + i, op |-> "page", id |-> NoId,
                      from |-> Len(lists) + i] : i \in 1..k}
           new == [i \in 1..k |-> [loaded |-> FALSE, rows |-> NoTasks,
                                   cause |-> p.n, op |-> p.op, about |-> p.id]]
<1>1. /\ p.n \in Nat /\ p.id \in Ids /\ p.op # "page" /\ p.op \in Op
      /\ p.body # "message" /\ k \in Nat
  BY Types, CallsType DEF DeliverSuccess, Succeeds, IInv, Consistent, Named
<1>2. /\ requests' = requests \cup added /\ replies' = replies \ {p}
      /\ sent' = sent + k /\ editor'.id = NoId
      /\ UNCHANGED <<server, free, deletes, overlapped>>
      /\ Consistent /\ Steady' = Steady /\ Steady \subseteq Ids
      /\ sent \in Nat /\ free \subseteq Ids /\ lists \in Seq(List)
      /\ Len(lists) \in Nat
  BY Types DEF DeliverSuccess, OpenLists, NoEditor, IInv, TypeOK, Steady
<1>3. /\ \A r \in added :
           /\ r.op = "page" /\ r.id = NoId /\ r.n \in sent + 1 .. sent + k
           /\ \A s \in added : s.n = r.n => s = r
  BY <1>1, <1>2, SMTT(30)
<1> HIDE DEF added
<1>4. /\ Reflects(server[p.id], p.op, p.id, p.n)
      /\ p.id \in Steady => p.n <= server[p.id]
  <2>1. Reflects(server[p.id], p.op, p.id, p.n)
    BY <1>1, <1>2 DEF Consistent, AnswersDone
  <2>2. p.op = "delete" => p.id \in deletes
    BY <1>2 DEF Consistent, Named, InFlight
  <2>3. server[p.id] \in Nat
    BY <1>1, Types DEF IInv
  <2> QED
    BY <1>1, <2>1, <2>2, <2>3 DEF Reflects, Steady
<1>5. /\ Len(lists') = Len(lists) + k
      /\ \A i \in 1..Len(lists) : lists'[i] = lists[i]
      /\ \A i \in Len(lists) + 1 .. Len(lists) + k :
           /\ lists'[i].loaded = FALSE /\ lists'[i].rows = NoTasks
           /\ lists'[i].cause = p.n /\ lists'[i].about = p.id
           /\ lists'[i].op = p.op
  <2>1. new \in Seq(List) /\ Len(new) = k
    <3>1. NoTasks \in Tasks
      BY DEF NoTasks, Tasks
    <3>2. new \in [1..k -> List]
      BY <1>1, <3>1 DEF List
    <3> HIDE DEF new, k
    <3> QED
      BY <1>1, <3>2, FunctionIsSeq
  <2>2. \A i \in 1..k : /\ new[i].loaded = FALSE /\ new[i].rows = NoTasks
                        /\ new[i].cause = p.n /\ new[i].about = p.id
                        /\ new[i].op = p.op
    OBVIOUS
  <2>3. lists' = lists \o new
    BY DEF DeliverSuccess, OpenLists
  <2> HIDE DEF new, k
  <2>4. /\ Len(lists') = Len(lists) + k
        /\ \A i \in 1 .. Len(lists) + k :
             lists'[i] = IF i <= Len(lists) THEN lists[i] ELSE new[i - Len(lists)]
    BY <1>2, <2>1, <2>3, ConcatProperties
  <2>5. ASSUME NEW i \in Len(lists) + 1 .. Len(lists) + k
        PROVE  lists'[i] = new[i - Len(lists)] /\ i - Len(lists) \in 1..k
    BY <1>1, <1>2, <2>4
  <2>6. \A i \in 1..Len(lists) : lists'[i] = lists[i]
    BY <1>1, <1>2, <2>4
  <2> QED
    BY <2>2, <2>4, <2>5, <2>6
<1> HIDE DEF k
<1>6. \A i \in 1..Len(lists') : \/ i \in 1..Len(lists)
                                \/ i \in Len(lists) + 1 .. Len(lists) + k
  BY <1>1, <1>2, <1>5
<1>7. Numbered'
  <2>1. \A id \in Ids : server'[id] <= sent'
    BY <1>1, <1>2, Types DEF Consistent, Numbered, IInv
  <2>2. \A r \in InFlight' : r.n <= sent'
    BY <1>1, <1>2, <1>3, Types DEF Consistent, Numbered, InFlight, IInv
  <2> QED
    BY <2>1, <2>2 DEF Numbered
<1>8. Named'
  BY <1>2, <1>3 DEF Consistent, Named, InFlight
<1>9. FreeUnheard'
  <2> SUFFICES ASSUME NEW id \in free
               PROVE  /\ server[id] = 0 /\ acked'[id] = 0 /\ NoId # id
                      /\ \A r \in requests \cup added \cup replies : r.id # id
                      /\ \A q \in replies : q.rows[id] = 0
                      /\ \A i \in 1..Len(lists') :
                           lists'[i].rows[id] = 0 /\ lists'[i].about # id
    BY <1>2 DEF FreeUnheard, InFlight
  <2>1. /\ server[id] = 0 /\ acked[id] = 0 /\ NoId # id /\ id \in Ids
        /\ \A r \in requests \cup replies : r.id # id
        /\ \A q \in replies : q.rows[id] = 0
        /\ \A i \in 1..Len(lists) : lists[i].rows[id] = 0 /\ lists[i].about # id
    BY <1>2 DEF Consistent, FreeUnheard, InFlight
  <2>2. acked'[id] = 0
    BY <2>1 DEF DeliverSuccess, Acknowledge
  <2>3. NoTasks[id] = 0
    BY <2>1 DEF NoTasks
  <2>4. \A i \in 1..Len(lists') : lists'[i].rows[id] = 0 /\ lists'[i].about # id
    BY <1>5, <1>6, <2>1, <2>3
  <2> QED
    BY <1>3, <2>1, <2>2, <2>4
<1>10. OneSave'
  BY <1>2, <1>3 DEF Consistent, OneSave
<1>11. AnswersDone'
  BY <1>2 DEF Consistent, AnswersDone, Reflects
<1>12. SavesStick'
  <2> SUFFICES ASSUME NEW id \in Steady
               PROVE  server[id] >= acked'[id]
    BY <1>2 DEF SavesStick, Steady
  <2>1. server[id] >= acked[id] /\ acked \in Tasks
    BY DEF IInv, TypeOK, Consistent, SavesStick, Steady
  <2>2. CASE p.op \in {"create", "update"} /\ p.n > acked[p.id]
    <3>1. acked' = [acked EXCEPT ![p.id] = p.n]
      BY <2>2 DEF DeliverSuccess, Acknowledge
    <3>2. acked'[id] = IF id = p.id THEN p.n ELSE acked[id]
      BY <1>2, <2>1, <3>1 DEF Tasks
    <3>3. server[id] \in Nat
      BY <1>2, Types DEF IInv
    <3> QED
      BY <1>1, <1>4, <2>1, <3>2, <3>3
  <2>3. CASE ~(p.op \in {"create", "update"} /\ p.n > acked[p.id])
    BY <2>1, <2>3 DEF DeliverSuccess, Acknowledge
  <2> QED
    BY <2>2, <2>3
<1>13. ListsDone'
  <2> SUFFICES ASSUME NEW i \in 1..Len(lists'), lists'[i].about \in Ids
               PROVE  Reflects(server[lists'[i].about], lists'[i].op,
                               lists'[i].about, lists'[i].cause)
    BY <1>2 DEF ListsDone, Reflects
  <2>1. CASE i \in 1..Len(lists)
    BY <1>2, <1>5, <2>1 DEF Consistent, ListsDone
  <2>2. CASE i \in Len(lists) + 1 .. Len(lists) + k
    BY <1>4, <1>5, <2>2
  <2> QED
    BY <1>6, <2>1, <2>2
<1>14. PagesDone'
  <2> SUFFICES ASSUME NEW q \in replies, q.op = "page", lists'[q.from].about \in Ids
               PROVE  Reflects(q.rows[lists'[q.from].about], lists'[q.from].op,
                               lists'[q.from].about, lists'[q.from].cause)
    BY <1>2 DEF PagesDone, Reflects
  <2>1. q.from \in 1..Len(lists)
    BY DEF IInv, TypeOK
  <2> QED
    BY <1>2, <1>5, <2>1 DEF Consistent, PagesDone
<1>15. ReadYourWrites'
  <2> SUFFICES ASSUME NEW i \in 1..Len(lists'), lists'[i].loaded, lists'[i].about \in Ids
               PROVE  Reflects(lists'[i].rows[lists'[i].about], lists'[i].op,
                               lists'[i].about, lists'[i].cause)
    BY <1>2 DEF ReadYourWrites, Reflects
  <2>1. i \in 1..Len(lists)
    BY <1>5, <1>6
  <2> QED
    BY <1>2, <1>5, <2>1 DEF Consistent, ReadYourWrites
<1>16. Once' /\ OneTaskPerSave'
  <2>1. OneTaskPerSave' /\ sent' >= 1
    BY <1>1, <1>2 DEF Consistent, Once, OneTaskPerSave
  <2>2. \A r \in requests : /\ r.n \in Nat /\ r.n <= sent /\ r.n > 1
                            /\ \A id \in Ids : server[id] # r.n
                            /\ \A s \in requests : s.n = r.n => s = r
    BY <1>2, Types DEF IInv, Consistent, Once, Numbered, InFlight
  <2>3. \A r \in added : r.n > sent /\ r.n > 1 /\ \A id \in Ids : server[id] # r.n
    BY <1>1, <1>2, <1>3, Types DEF IInv, Consistent, Once, Numbered
  <2>4. \A r \in requests', s \in requests' : s.n = r.n => s = r
    BY <1>2, <1>3, <2>2, <2>3
  <2> QED
    BY <1>2, <2>1, <2>2, <2>3, <2>4 DEF Once
<1> QED
  BY <1>7, <1>8, <1>9, <1>10, <1>11, <1>12, <1>13, <1>14, <1>15, <1>16 DEF Consistent

-----------------------------------------------------------------------------
(* The theorems                                                            *)

LEMMA ConsistentStep ==
  ASSUME IInv, [Next]_vars
  PROVE  Consistent'
<1>1. /\ Consistent /\ editor \in Editor /\ overlapped \subseteq Ids
      /\ deletes \subseteq Ids /\ lists # <<>> /\ Len(lists) \in 1..Len(lists)
  BY Types DEF IInv, TypeOK
<1>2. ASSUME OpenEditor PROVE Consistent'
  <2>1. \A id \in free : editor'.id # id
    BY <1>1, <1>2, IdsAssumption DEF OpenEditor, Consistent, FreeUnheard, IInv, TypeOK
  <2> QED
    BY <1>2, <2>1, QuietStep DEF OpenEditor, net, history
<1>3. ASSUME SavePressed PROVE Consistent'
  <2>1. PICK op \in {"create", "update"} :
          op = (IF editor.id = NoId THEN "create" ELSE "update")
    OBVIOUS
  <2>2. /\ Send(op, editor.id)
        /\ op # "create" => editor.id \in Ids
        /\ overlapped \subseteq overlapped' /\ deletes \subseteq deletes'
        /\ UnderWay(editor.id) => editor.id \in overlapped'
    BY <1>1, <1>3, <2>1 DEF SavePressed, Editor
  <2> QED
    BY <2>2, PressStep
<1>4. ASSUME DeletePressed PROVE Consistent'
  BY <1>1, <1>4, PressStep DEF DeletePressed, Editor
<1>5. ASSUME BackPressed PROVE Consistent'
  BY <1>1, <1>5, IdsAssumption, QuietStep
     DEF BackPressed, net, history, NoEditor, IInv, TypeOK
<1>6. ASSUME NEW r \in requests, Serve(r) PROVE Consistent'
  BY <1>6, ServesConsistent
<1>7. ASSUME NEW p \in replies, DeliverPage(p) PROVE Consistent'
  BY <1>7, PageStep
<1>8. ASSUME NEW p \in replies, DeliverSuccess(p) PROVE Consistent'
  BY <1>8, SuccessStep
<1>9. ASSUME NEW p \in replies, DeliverNothing(p) PROVE Consistent'
  BY <1>1, <1>9, QuietStep DEF DeliverNothing, history, Consistent, FreeUnheard
<1>10. ASSUME NEW r \in requests \cup replies, Lose(r) PROVE Consistent'
  BY <1>1, <1>10, QuietStep DEF Lose, Consistent, FreeUnheard
<1>11. ASSUME UNCHANGED vars PROVE Consistent'
  BY <1>1, <1>11, QuietStep DEF vars, net, history, Consistent, FreeUnheard
<1> QED
  BY <1>2, <1>3, <1>4, <1>5, <1>6, <1>7, <1>8, <1>9, <1>10, <1>11 DEF Next, Deliver

(* The invariant holds in every state: TypeOK and the facts above about    *)
(* what is in flight, what the server holds and what the lists show.       *)
THEOREM Invariance == Spec => []IInv
<1>1. Init => IInv
  <2> SUFFICES ASSUME Init PROVE IInv
    OBVIOUS
  <2> USE IdsAssumption
  <2> DEFINE first == [loaded |-> TRUE, rows |-> server, cause |-> 0, op |-> "page", about |-> NoId]
  <2>1. server \in Tasks /\ NoTasks \in Tasks
    BY DEF Init, Tasks, NoTasks
  <2>2. first \in List
    BY <2>1 DEF List, Op
  <2>3. /\ lists = <<first>> /\ Len(lists) = 1 /\ lists[1] = first
        /\ first.about = NoId /\ first.rows = server
    BY DEF Init
  <2>4. lists \in Seq(List) /\ lists # <<>>
    <3> HIDE DEF first
    <3> QED
      BY <2>2, <2>3
  <2> HIDE DEF first
  <2>5. TypeOK
    BY <2>1, <2>4 DEF Init, TypeOK, Editor, NoEditor
  <2>6. /\ \A id \in Ids : server[id] <= 1 /\ server[id] \in Nat /\ acked[id] = 0
        /\ \A id \in free : server[id] = 0 /\ id \in Ids
        /\ sent = 1 /\ requests = {} /\ replies = {} /\ editor.id = NoId
    BY DEF Init, NoTasks, NoEditor
  <2>7. \A i \in 1..Len(lists) : lists[i].about = NoId /\ lists[i].rows = server
    BY <2>3
  <2>8. Numbered /\ Named /\ OneSave /\ AnswersDone /\ PagesDone
    BY <2>6 DEF Numbered, Named, OneSave, AnswersDone, PagesDone, InFlight
  <2>9. FreeUnheard
    BY <2>6, <2>7 DEF FreeUnheard, InFlight
  <2>10. SavesStick
    BY <2>6 DEF SavesStick
  <2>11. ListsDone /\ ReadYourWrites
    BY <2>7 DEF ListsDone, ReadYourWrites
  <2>12. Once /\ OneTaskPerSave
    BY <2>6 DEF Once, OneTaskPerSave
  <2> QED
    BY <2>5, <2>8, <2>9, <2>10, <2>11, <2>12 DEF IInv, Consistent
<1>2. IInv /\ [Next]_vars => IInv'
  BY TypeStep, ConsistentStep DEF IInv, Consistent
<1> QED
  BY <1>1, <1>2, PTL DEF Spec

(* Whatever is pressed, served, lost or answered, the state is well typed: *)
(* in particular every page on its way belongs to a list that is there.    *)
THEOREM TypeCorrect == Spec => []TypeOK
<1>1. IInv => TypeOK
  BY DEF IInv
<1> QED
  BY <1>1, Invariance, PTL

(* A save the user was told of is not undone by an older one, for any      *)
(* number of tasks, saves, deletes, screens and losses, unless it was      *)
(* pressed while the older one was on its way.                             *)
THEOREM SavesCorrect == Spec => []SavesStick
<1>1. IInv => SavesStick
  BY DEF IInv, Consistent
<1> QED
  BY <1>1, Invariance, PTL

(* A list that the answer to a save or a delete opened shows it, whatever  *)
(* other saves and deletes are under way: the saved task as it was saved   *)
(* or later, no task where one was deleted.                                *)
THEOREM ReadsCorrect == Spec => []ReadYourWrites
<1>1. IInv => ReadYourWrites
  BY DEF IInv, Consistent
<1> QED
  BY <1>1, Invariance, PTL

(* No save leaves two tasks on the server, however many requests and       *)
(* answers are lost.                                                       *)
THEOREM OneTaskCorrect == Spec => []OneTaskPerSave
<1>1. IInv => OneTaskPerSave
  BY DEF IInv, Consistent
<1> QED
  BY <1>1, Invariance, PTL

-----------------------------------------------------------------------------
(* The store that the tasks are                                            *)

(* What an order and its report are, of a request and of its answer.       *)
Essence(r) == [n |-> r.n, op |-> r.op, id |-> r.id]

(* No two answers have the same number, and none has that of a request.    *)
AnsweredOnce ==
  /\ \A p \in replies, r \in requests : r.n # p.n
  /\ \A p, q \in replies : p.n = q.n => p = q

LEMMA AnsweredOnceStep ==
  ASSUME IInv, AnsweredOnce, [Next]_vars
  PROVE  AnsweredOnce'
<1>1. /\ \A r \in requests : r.n \in Nat /\ r.n <= sent
      /\ \A p \in replies : p.n \in Nat /\ p.n <= sent
      /\ sent \in Nat
      /\ \A r, s \in requests : r.n = s.n => r = s
  BY Types DEF IInv, TypeOK, Consistent, Numbered, Once, InFlight
<1>2. CASE requests' \subseteq requests /\ replies' \subseteq replies
  BY <1>2 DEF AnsweredOnce
<1>3. ASSUME NEW op, NEW id, Send(op, id) PROVE AnsweredOnce'
  <2>1. /\ replies' = replies
        /\ \A r \in requests' : r \in requests \/ r.n = sent + 1
    BY <1>3 DEF Send
  <2> QED
    BY <1>1, <2>1 DEF AnsweredOnce
<1>4. ASSUME NEW r \in requests, NEW id, NEW body, Answer(r, id, body) PROVE AnsweredOnce'
  <2>1. /\ requests' = requests \ {r}
        /\ \A p \in replies' : p \in replies \/ p.n = r.n
        /\ \A p, q \in replies' : p.n = r.n /\ q.n = r.n => p = q
    BY <1>4 DEF Answer, AnsweredOnce
  <2> QED
    BY <1>1, <2>1 DEF AnsweredOnce
<1>5. ASSUME NEW r \in requests, Serve(r) PROVE AnsweredOnce'
  <2>1. \E id, body : Answer(r, id, body)
    BY <1>5 DEF Serve, ServePage, ServeCreate, ServeUpdate, ServeDelete
  <2> QED
    BY <1>4, <2>1
<1>6. ASSUME NEW p \in replies, DeliverSuccess(p) PROVE AnsweredOnce'
  <2>1. /\ replies' \subseteq replies
        /\ \A r \in requests' : r \in requests \/ r.n > sent
    BY <1>1, <1>6, CallsType DEF DeliverSuccess, OpenLists
  <2> QED
    BY <1>1, <2>1 DEF AnsweredOnce
<1> QED
  BY <1>2, <1>3, <1>5, <1>6
     DEF Next, OpenEditor, SavePressed, DeletePressed, BackPressed, Deliver, DeliverPage,
         DeliverNothing, Lose, vars, net

(* How the orders change with the requests ...                             *)
LEMMA OrderGiven ==
  ASSUME NEW r, requests' = requests \cup {r}, r.op # "page"
  PROVE  Orders' = Orders \cup {Essence(r)}
BY DEF Orders, Essence

LEMMA OrderTaken ==
  ASSUME IInv, NEW r \in requests, requests' = requests \ {r}, r.op # "page"
  PROVE  Essence(r) \in Orders /\ Orders' = Orders \ {Essence(r)}
<1>1. \A q \in requests : Essence(q) = Essence(r) => q = r
  BY DEF IInv, Consistent, Once, Essence
<1> QED
  BY <1>1 DEF Orders, Essence

LEMMA PagesAreNoOrders ==
  ASSUME NEW pages, \A r \in pages : r.op = "page", requests' = requests \cup pages
  PROVE  Orders' = Orders
BY DEF Orders

(* ... and the reports with the answers.                                   *)
LEMMA ReportGiven ==
  ASSUME NEW p, replies' = replies \cup {p}, p.op # "page", p.body # "message"
  PROVE  Reports' = Reports \cup {Essence(p)}
BY DEF Reports, Essence

LEMMA ReportTaken ==
  ASSUME AnsweredOnce, NEW p \in replies, replies' = replies \ {p},
         p.op # "page", p.body # "message"
  PROVE  Essence(p) \in Reports /\ Reports' = Reports \ {Essence(p)}
<1>1. \A q \in replies : Essence(q) = Essence(p) => q = p
  BY DEF AnsweredOnce, Essence
<1> QED
  BY <1>1 DEF Reports, Essence

LEMMA OthersAreNoReports ==
  ASSUME NEW p, p.op = "page" \/ p.body = "message",
         replies' = replies \cup {p} \/ replies' = replies \ {p}
  PROVE  Reports' = Reports
BY DEF Reports

LEMMA InitStore == Init => Store!Init
BY DEF Init, Store!Init, Orders, Reports, NoTasks

(* A press is an order about a task that is known.                         *)
LEMMA PressOrders ==
  ASSUME IInv, NEW op \in {"create", "update", "delete"}, Send(op, editor.id),
         op = "create" => editor.id = NoId, op # "create" => editor.id \in Ids
  PROVE  Store!Next
<1> DEFINE r == [n |-> sent + 1, op |-> op, id |-> editor.id, from |-> editor.screen]
<1>1. /\ requests' = requests \cup {r} /\ sent' = sent + 1 /\ sent \in Nat
      /\ UNCHANGED <<server, free, replies, acked>>
  BY DEF Send, IInv, TypeOK
<1>2. r.op # "page" /\ Essence(r) = [n |-> sent', op |-> op, id |-> editor.id]
  BY <1>1 DEF Essence
<1> HIDE DEF r
<1>3. Orders' = Orders \cup {[n |-> sent', op |-> op, id |-> editor.id]}
  BY <1>1, <1>2, OrderGiven
<1>4. Reports' = Reports
  BY <1>1 DEF Reports
<1>5. editor.id \notin free
  BY DEF IInv, Consistent, FreeUnheard
<1>6. Store!Order(op, editor.id)
  BY <1>1, <1>3, <1>4, <1>5 DEF Store!Order
<1>7. editor.id \in Ids \cup {NoId}
  OBVIOUS
<1> QED
  BY <1>6, <1>7 DEF Store!Next

(* An answer that is not a message, to anything but a request for a page,  *)
(* is a report of the order.                                               *)
LEMMA AnswerReports ==
  ASSUME IInv, AnsweredOnce, NEW r \in requests, r.op # "page", NEW id, NEW body,
         Answer(r, id, body)
  PROVE  /\ Essence(r) \in Orders /\ Orders' = Orders \ {Essence(r)}
         /\ Reports' = IF body = "message" THEN Reports
                       ELSE Reports \cup {[Essence(r) EXCEPT !.id = id]}
         /\ UNCHANGED <<acked, sent>>
<1> DEFINE p == [n |-> r.n, op |-> r.op, id |-> id, from |-> r.from,
                 body |-> body, rows |-> server]
<1>1. /\ requests' = requests \ {r} /\ replies' = replies \cup {p}
      /\ UNCHANGED <<acked, sent>>
  BY DEF Answer, history
<1>2. /\ p.op = r.op /\ p.body = body
      /\ Essence(p) = [Essence(r) EXCEPT !.id = id]
  BY DEF Essence
<1> HIDE DEF p
<1>3. Essence(r) \in Orders /\ Orders' = Orders \ {Essence(r)}
  BY <1>1, OrderTaken
<1>4. CASE body = "message"
  BY <1>1, <1>2, <1>3, <1>4, OthersAreNoReports
<1>5. CASE body # "message"
  BY <1>1, <1>2, <1>3, <1>5, ReportGiven
<1> QED
  BY <1>4, <1>5

(* What the server does with a request is what the store does with an      *)
(* order; of a page it does not know.                                      *)
LEMMA ServeStore ==
  ASSUME IInv, AnsweredOnce, NEW r \in requests, Serve(r)
  PROVE  [Store!Next]_Store!vars
<1> DEFINE o == Essence(r)
<1>0. o.n = r.n /\ o.op = r.op /\ o.id = r.id
  BY DEF Essence
<1>1. CASE ServePage(r)
  <2>1. /\ r.op = "page" /\ requests' = requests \ {r}
        /\ UNCHANGED <<server, free, acked, sent>>
    BY <1>1 DEF ServePage, Answer, history
  <2>2. PICK p : p.op = "page" /\ replies' = replies \cup {p}
    BY <1>1, <2>1 DEF ServePage, Answer
  <2>3. Orders' = Orders /\ Reports' = Reports
    BY <2>1, <2>2, OthersAreNoReports DEF Orders
  <2> QED
    BY <2>1, <2>3 DEF Store!vars
<1>2. CASE ServeCreate(r)
  <2>1. PICK id \in free : /\ server' = [server EXCEPT ![id] = r.n]
                           /\ free' = free \ {id} /\ Answer(r, id, "result")
    BY <1>2 DEF ServeCreate
  <2>2. r.op = "create"
    BY <1>2 DEF ServeCreate
  <2>3. /\ o \in Orders /\ Orders' = Orders \ {o}
        /\ Reports' = Reports \cup {[o EXCEPT !.id = id]} /\ UNCHANGED <<acked, sent>>
    BY <2>1, <2>2, AnswerReports
  <2> HIDE DEF o
  <2>4. Store!Write(o, id, o.n)
    BY <1>0, <2>1, <2>3 DEF Store!Write
  <2>5. Store!Create(o)
    BY <1>0, <2>1, <2>2, <2>4 DEF Store!Create
  <2> QED
    BY <2>3, <2>5 DEF Store!Next
<1>3. CASE ServeUpdate(r) \/ ServeDelete(r)
  <2>1. r.op \in {"update", "delete"} /\ r.op # "page" /\ free' = free
    BY <1>3 DEF ServeUpdate, ServeDelete
  <2>2. CASE server[r.id] = 0
    <3>1. Answer(r, r.id, "message") /\ UNCHANGED server
      BY <1>3, <2>2 DEF ServeUpdate, ServeDelete
    <3>2. /\ o \in Orders /\ Orders' = Orders \ {o} /\ Reports' = Reports
          /\ UNCHANGED <<acked, sent>>
      BY <2>1, <3>1, AnswerReports
    <3> HIDE DEF o
    <3>3. Store!Drop(o)
      BY <2>1, <3>1, <3>2 DEF Store!Drop
    <3> QED
      BY <3>2, <3>3 DEF Store!Next
  <2>3. CASE server[r.id] # 0
    <3>1. PICK body \in {"result", "{}", "[]"} : Answer(r, r.id, body)
      BY <1>3, <2>3 DEF ServeUpdate, ServeDelete
    <3>2. server' = [server EXCEPT ![r.id] = IF r.op = "update" THEN r.n ELSE 0]
      BY <1>3, <2>3 DEF ServeUpdate, ServeDelete
    <3>3. /\ o \in Orders /\ Orders' = Orders \ {o}
          /\ Reports' = Reports \cup {[o EXCEPT !.id = o.id]}
          /\ UNCHANGED <<acked, sent>>
      BY <1>0, <2>1, <3>1, AnswerReports
    <3> HIDE DEF o
    <3>4. Store!Update(o) \/ Store!Delete(o)
      BY <1>0, <2>1, <2>3, <3>2, <3>3 DEF Store!Update, Store!Delete, Store!Write
    <3> QED
      BY <3>3, <3>4 DEF Store!Next
  <2> QED
    BY <2>2, <2>3
<1> QED
  BY <1>1, <1>2, <1>3 DEF Serve

(* An answer heard is a report told, one that was left alone a report      *)
(* forgotten, unless it is about nothing the store knows of.               *)
LEMMA DeliverStore ==
  ASSUME IInv, AnsweredOnce, NEW p \in replies, Deliver(p)
  PROVE  [Store!Next]_Store!vars
<1> DEFINE o == Essence(p)
<1>0. o.n = p.n /\ o.op = p.op /\ o.id = p.id
  BY DEF Essence
<1>1. CASE DeliverSuccess(p)
  <2> DEFINE k == Len(Calls(p))
             added == {[n |-> sent + i, op |-> "page", id |-> NoId,
                        from |-> Len(lists) + i] : i \in 1..k}
  <2>1. /\ p.op # "page" /\ p.body # "message" /\ p.op \in Op /\ k \in Nat
        /\ requests' = requests \cup added /\ replies' = replies \ {p}
        /\ sent \in Nat /\ sent' = sent + k /\ UNCHANGED <<server, free>>
    BY <1>1, CallsType, Types DEF DeliverSuccess, OpenLists, Succeeds, IInv, TypeOK
  <2>2. Orders' = Orders
    <3>1. \A r \in added : r.op = "page"
      OBVIOUS
    <3> HIDE DEF added
    <3> QED
      BY <2>1, <3>1, PagesAreNoOrders
  <2>3. o \in Reports /\ Reports' = Reports \ {o}
    BY <2>1, ReportTaken
  <2>4. acked' = IF p.op # "delete" /\ p.n > acked[p.id]
                 THEN [acked EXCEPT ![p.id] = p.n] ELSE acked
    BY <1>1, <2>1 DEF DeliverSuccess, Acknowledge, Op
  <2> HIDE DEF k, o
  <2>5. Store!Tell(o)
    BY <1>0, <2>1, <2>2, <2>3, <2>4 DEF Store!Tell
  <2> QED
    BY <2>3, <2>5 DEF Store!Next
<1>2. CASE DeliverPage(p) \/ DeliverNothing(p)
  <2>1. replies' = replies \ {p} /\ UNCHANGED <<server, free, requests, sent, acked>>
    BY <1>2 DEF DeliverPage, DeliverNothing, history
  <2>2. Orders' = Orders
    BY <2>1 DEF Orders
  <2>3. CASE p.op = "page" \/ p.body = "message"
    <3>1. Reports' = Reports
      BY <2>1, <2>3, OthersAreNoReports
    <3> QED
      BY <2>1, <2>2, <3>1 DEF Store!vars
  <2>4. CASE p.op # "page" /\ p.body # "message"
    <3>1. o \in Reports /\ Reports' = Reports \ {o}
      BY <2>1, <2>4, ReportTaken
    <3> HIDE DEF o
    <3>2. Store!Forget(o)
      BY <2>1, <2>2, <3>1 DEF Store!Forget
    <3> QED
      BY <3>1, <3>2 DEF Store!Next
  <2> QED
    BY <2>3, <2>4
<1> QED
  BY <1>1, <1>2 DEF Deliver

LEMMA LoseStore ==
  ASSUME IInv, AnsweredOnce, NEW r \in requests \cup replies, Lose(r)
  PROVE  [Store!Next]_Store!vars
<1> DEFINE o == Essence(r)
<1>1. /\ requests' = requests \ {r} /\ replies' = replies \ {r}
      /\ UNCHANGED <<server, free, sent, acked>>
  BY DEF Lose
<1>2. CASE r \in requests
  <2>1. r \notin replies
    BY <1>2 DEF AnsweredOnce
  <2>2. Reports' = Reports
    BY <1>1, <2>1 DEF Reports
  <2>3. CASE r.op = "page"
    BY <1>1, <2>2, <2>3 DEF Store!vars, Orders
  <2>4. CASE r.op # "page"
    <3>1. o \in Orders /\ Orders' = Orders \ {o}
      BY <1>1, <1>2, <2>4, OrderTaken
    <3> HIDE DEF o
    <3>2. Store!Drop(o)
      BY <1>1, <2>2, <3>1 DEF Store!Drop
    <3> QED
      BY <3>1, <3>2 DEF Store!Next
  <2> QED
    BY <2>3, <2>4
<1>3. CASE r \in replies
  <2>1. r \notin requests
    BY <1>3 DEF AnsweredOnce
  <2>2. Orders' = Orders
    BY <1>1, <2>1 DEF Orders
  <2>3. CASE r.op = "page" \/ r.body = "message"
    BY <1>1, <2>2, <2>3, OthersAreNoReports DEF Store!vars
  <2>4. CASE r.op # "page" /\ r.body # "message"
    <3>1. o \in Reports /\ Reports' = Reports \ {o}
      BY <1>1, <1>3, <2>4, ReportTaken
    <3> HIDE DEF o
    <3>2. Store!Forget(o)
      BY <1>1, <2>2, <3>1 DEF Store!Forget
    <3> QED
      BY <3>1, <3>2 DEF Store!Next
  <2> QED
    BY <2>3, <2>4
<1> QED
  BY <1>2, <1>3

LEMMA StoreStep ==
  ASSUME IInv, AnsweredOnce, [Next]_vars
  PROVE  [Store!Next]_Store!vars
<1>1. editor.id \in Ids \cup {NoId}
  BY DEF IInv, TypeOK, Editor
<1>2. CASE OpenEditor \/ BackPressed \/ UNCHANGED vars
  BY <1>2 DEF OpenEditor, BackPressed, vars, net, history, Store!vars, Orders, Reports
<1>3. CASE SavePressed
  <2>1. CASE editor.id = NoId
    BY <1>3, <2>1, PressOrders DEF SavePressed
  <2>2. CASE editor.id # NoId
    BY <1>1, <1>3, <2>2, PressOrders DEF SavePressed
  <2> QED
    BY <2>1, <2>2
<1>4. CASE DeletePressed
  BY <1>1, <1>4, PressOrders DEF DeletePressed
<1> QED
  BY <1>2, <1>3, <1>4, ServeStore, DeliverStore, LoseStore DEF Next

(* To the tasks all of this is a store that carries out every save and     *)
(* delete once at most and reports only what it did, for any number of     *)
(* tasks, screens, presses and losses.                                     *)
THEOREM Refinement == Spec => StorePromise
<1>1. Init => AnsweredOnce
  BY DEF Init, AnsweredOnce
<1>2. IInv /\ AnsweredOnce /\ [Next]_vars => AnsweredOnce' /\ [Store!Next]_Store!vars
  BY AnsweredOnceStep, StoreStep
<1> QED
  BY Invariance, <1>1, <1>2, InitStore, PTL DEF Spec, StorePromise, Store!Spec

-----------------------------------------------------------------------------
(* What a save needs in order to be shown                                  *)

(* The server answers a save with the task or an empty object; only the    *)
(* save of a task that was deleted is refused.                             *)
AnswersFit ==
  \A p \in replies :
    /\ p.op = "create" => p.body = "result"
    /\ p.op = "update" => p.body \in {"result", "{}"} \/ p.id \in deletes

GoneDeleted == \A id \in Ids \ free : server[id] = 0 => id \in deletes

(* A list without its first page has the request or the answer under way.  *)
ListsAsked ==
  lost = 0 =>
    \A i \in 1..Len(lists) :
      lists[i].loaded \/ \E r \in InFlight : r.op = "page" /\ r.from = i

ShowInv == AnswersFit /\ GoneDeleted /\ ListsAsked

(* A request stays under way, as its answer at last, until a list reports  *)
(* it, unless it is lost, its screen was left or its task deleted.         *)
Followed(r) ==
  \/ \E s \in InFlight' : s.n = r.n /\ s.op = r.op /\ s.from = r.from
  \/ \E i \in 1..Len(lists') : lists'[i].cause = r.n
  \/ lost' > lost
  \/ r.from \in left
  \/ r.id \in deletes

SaveFollowed ==
  [][\A r \in InFlight : r.op \in {"create", "update"} => Followed(r)]_vars

LEMMA InitShow == Init => ShowInv
<1> SUFFICES ASSUME Init PROVE ShowInv
  OBVIOUS
<1>1. AnswersFit /\ GoneDeleted
  BY IdsAssumption DEF Init, AnswersFit, GoneDeleted
<1>2. ListsAsked
  BY DEF Init, ListsAsked
<1> QED
  BY <1>1, <1>2 DEF ShowInv

(* The answer that makes lists: they are new, and each has its request.    *)
LEMMA SuccessMakesLists ==
  ASSUME IInv, NEW p \in replies, DeliverSuccess(p)
  PROVE  /\ \A i \in 1..Len(lists) : i \in 1..Len(lists') /\ lists'[i] = lists[i]
         /\ \A i \in 1..Len(lists') :
              i \notin 1..Len(lists) =>
                \E r \in requests' : r.op = "page" /\ r.from = i
         /\ Len(Calls(p)) > 0 =>
              \E i \in 1..Len(lists') : lists'[i].cause = p.n
         /\ requests \subseteq requests'
<1> DEFINE k == Len(Calls(p))
           new == [i \in 1..k |-> [loaded |-> FALSE, rows |-> NoTasks,
                                   cause |-> p.n, op |-> p.op, about |-> p.id]]
           asked == {[n |-> sent + i, op |-> "page", id |-> NoId,
                      from |-> Len(lists) + i] : i \in 1..k}
<1>1. /\ lists' = lists \o new /\ requests' = requests \cup asked
      /\ lists \in Seq(List) /\ Len(lists) \in Nat /\ k \in Nat
  BY Types, CallsType DEF IInv, TypeOK, DeliverSuccess, OpenLists
<1>2. new \in Seq(List) /\ Len(new) = k
  <2>1. new \in [1..k -> List]
    <3>1. p.n \in Nat /\ p.op \in Op /\ p.id \in Ids /\ NoTasks \in Tasks
      BY Types DEF IInv, Consistent, Named, DeliverSuccess,
                   Succeeds, NoTasks, Tasks
    <3> QED
      BY <3>1 DEF List
  <2> HIDE DEF new, k
  <2> QED
    BY <1>1, <2>1, FunctionIsSeq
<1>3. \A i \in 1..k : new[i].cause = p.n
  OBVIOUS
<1>4. \A i \in 1..k : \E r \in asked : r.op = "page" /\ r.from = Len(lists) + i
  <2> SUFFICES ASSUME NEW i \in 1..k
               PROVE  \E r \in asked : r.op = "page" /\ r.from = Len(lists) + i
    OBVIOUS
  <2> DEFINE q == [n |-> sent + i, op |-> "page", id |-> NoId, from |-> Len(lists) + i]
  <2>1. q \in asked /\ q.op = "page" /\ q.from = Len(lists) + i
    OBVIOUS
  <2> QED
    BY <2>1
<1> HIDE DEF new, k, asked
<1>5. /\ Len(lists') = Len(lists) + k
      /\ \A i \in 1..Len(lists) : i \in 1..Len(lists') /\ lists'[i] = lists[i]
      /\ \A i \in 1..k : lists'[Len(lists) + i] = new[i]
  <2>1. /\ Len(lists') = Len(lists) + k
        /\ \A i \in 1..Len(lists) + k :
             lists'[i] = IF i <= Len(lists) THEN lists[i] ELSE new[i - Len(lists)]
    BY <1>1, <1>2, ConcatProperties
  <2>2. \A i \in 1..k : /\ Len(lists) + i \in 1..Len(lists) + k
                        /\ ~(Len(lists) + i <= Len(lists))
                        /\ Len(lists) + i - Len(lists) = i
    BY <1>1
  <2>3. \A i \in 1..Len(lists) : i \in 1..Len(lists) + k /\ i <= Len(lists)
    BY <1>1
  <2> QED
    BY <2>1, <2>2, <2>3
<1>6. \A i \in 1..Len(lists') :
        i \notin 1..Len(lists) => \E r \in requests' : r.op = "page" /\ r.from = i
  <2> SUFFICES ASSUME NEW i \in 1..Len(lists'), i \notin 1..Len(lists)
               PROVE  \E r \in requests' : r.op = "page" /\ r.from = i
    OBVIOUS
  <2>1. i - Len(lists) \in 1..k /\ Len(lists) + (i - Len(lists)) = i
    BY <1>1, <1>5
  <2> QED
    BY <1>1, <1>4, <2>1
<1>7. k > 0 => \E i \in 1..Len(lists') : lists'[i].cause = p.n
  <2> SUFFICES ASSUME k > 0
               PROVE  \E i \in 1..Len(lists') : lists'[i].cause = p.n
    OBVIOUS
  <2>1. 1 \in 1..k /\ Len(lists) + 1 \in 1..Len(lists')
    BY <1>1, <1>5
  <2> QED
    BY <1>3, <1>5, <2>1
<1> QED
  BY <1>1, <1>5, <1>6, <1>7 DEF k

LEMMA FitStep ==
  ASSUME IInv, AnswersFit, GoneDeleted, [Next]_vars
  PROVE  AnswersFit' /\ GoneDeleted'
<1>1. CASE OpenEditor \/ BackPressed \/ UNCHANGED vars
  BY <1>1 DEF OpenEditor, BackPressed, vars, net, history, AnswersFit, GoneDeleted
<1>2. CASE SavePressed \/ DeletePressed
  <2>1. UNCHANGED <<replies, server, free>> /\ deletes \subseteq deletes'
    BY <1>2 DEF SavePressed, DeletePressed, Send
  <2> QED
    BY <2>1 DEF AnswersFit, GoneDeleted
<1>3. ASSUME NEW p \in replies, Deliver(p) PROVE AnswersFit' /\ GoneDeleted'
  <2>1. replies' \subseteq replies /\ UNCHANGED <<server, free, deletes>>
    BY <1>3 DEF Deliver, DeliverPage, DeliverSuccess, DeliverNothing, history
  <2> QED
    BY <2>1 DEF AnswersFit, GoneDeleted
<1>4. ASSUME NEW r \in requests \cup replies, Lose(r) PROVE AnswersFit' /\ GoneDeleted'
  BY <1>4 DEF Lose, AnswersFit, GoneDeleted
<1>5. ASSUME NEW r \in requests, Serve(r) PROVE AnswersFit' /\ GoneDeleted'
  <2>0. /\ server \in Tasks /\ r.n \in Nat /\ r.n > 1 /\ free \subseteq Ids
        /\ r.op \in {"update", "delete"} => r.id \in Ids
        /\ r.op = "delete" => r.id \in deletes
        /\ r.id \notin free
    BY Types DEF IInv, TypeOK, Consistent, Once, Named, FreeUnheard, InFlight
  <2>1. ASSUME NEW id, NEW body, Answer(r, id, body),
               r.op = "create" => body = "result",
               r.op = "update" => body \in {"result", "{}"} \/ id \in deletes
        PROVE  AnswersFit'
    <3> DEFINE answer == [n |-> r.n, op |-> r.op, id |-> id, from |-> r.from,
                          body |-> body, rows |-> server]
    <3>1. replies' = replies \cup {answer} /\ deletes' = deletes
      BY <2>1 DEF Answer, history
    <3>2. answer.op = r.op /\ answer.body = body /\ answer.id = id
      OBVIOUS
    <3> HIDE DEF answer
    <3> QED
      BY <2>1, <3>1, <3>2 DEF AnswersFit
  <2>2. CASE ServePage(r)
    <3>1. Answer(r, NoId, "result") /\ r.op = "page" /\ UNCHANGED <<server, free, deletes>>
      BY <2>2 DEF ServePage, Answer, history
    <3> QED
      BY <2>1, <3>1 DEF GoneDeleted
  <2>3. CASE ServeCreate(r)
    <3>1. PICK id \in free : /\ server' = [server EXCEPT ![id] = r.n]
                             /\ free' = free \ {id} /\ Answer(r, id, "result")
      BY <2>3 DEF ServeCreate
    <3>2. GoneDeleted'
      BY <2>0, <3>1 DEF GoneDeleted, Tasks, Answer, history
    <3>3. r.op = "create"
      BY <2>3 DEF ServeCreate
    <3> QED
      BY <2>1, <3>1, <3>2, <3>3
  <2>4. CASE ServeUpdate(r)
    <3>0. r.op = "update" /\ free' = free /\ r.id \in Ids
      BY <2>0, <2>4 DEF ServeUpdate
    <3>1. CASE server[r.id] = 0
      <4>1. Answer(r, r.id, "message") /\ server' = server /\ deletes' = deletes
        BY <2>4, <3>1 DEF ServeUpdate, Answer, history
      <4>2. r.id \in deletes
        BY <2>0, <3>0, <3>1 DEF GoneDeleted
      <4> QED
        BY <2>1, <3>0, <4>1, <4>2 DEF GoneDeleted
    <3>2. CASE server[r.id] # 0
      <4>1. server' = [server EXCEPT ![r.id] = r.n] /\ deletes' = deletes
        BY <2>4, <3>2 DEF ServeUpdate, Answer, history
      <4>2. GoneDeleted'
        BY <2>0, <3>0, <4>1 DEF GoneDeleted, Tasks
      <4>3. PICK body \in {"result", "{}"} : Answer(r, r.id, body)
        BY <2>4, <3>2 DEF ServeUpdate
      <4> QED
        BY <2>1, <3>0, <4>2, <4>3
    <3> QED
      BY <3>1, <3>2
  <2>5. CASE ServeDelete(r)
    <3>0. r.op = "delete" /\ free' = free /\ r.id \in Ids /\ r.id \in deletes
      BY <2>0, <2>5 DEF ServeDelete
    <3>1. PICK body : Answer(r, r.id, body)
      BY <2>5 DEF ServeDelete
    <3>2. /\ server' = server \/ server' = [server EXCEPT ![r.id] = 0]
          /\ deletes' = deletes
      BY <2>5, <3>1 DEF ServeDelete, Answer, history
    <3>3. GoneDeleted'
      BY <2>0, <3>0, <3>2 DEF GoneDeleted, Tasks
    <3> QED
      BY <2>1, <3>0, <3>1, <3>3
  <2> QED
    BY <1>5, <2>2, <2>3, <2>4, <2>5 DEF Serve
<1> QED
  BY <1>1, <1>2, <1>3, <1>4, <1>5 DEF Next

(* A request that is answered stays in flight, as its answer.              *)
LEMMA AnswerFollows ==
  ASSUME NEW r \in requests, Serve(r)
  PROVE  /\ UNCHANGED <<lists, lost>>
         /\ \A q \in InFlight :
              \E s \in InFlight' : s.n = q.n /\ s.op = q.op /\ s.from = q.from
<1>1. PICK id, body : Answer(r, id, body)
  BY DEF Serve, ServePage, ServeCreate, ServeUpdate, ServeDelete
<1> DEFINE answer == [n |-> r.n, op |-> r.op, id |-> id, from |-> r.from,
                      body |-> body, rows |-> server]
<1>2. /\ UNCHANGED <<lists, lost>> /\ requests' = requests \ {r}
      /\ replies' = replies \cup {answer}
  BY <1>1 DEF Answer, history
<1>3. answer.n = r.n /\ answer.op = r.op /\ answer.from = r.from
  OBVIOUS
<1> HIDE DEF answer
<1> QED
  BY <1>2, <1>3 DEF InFlight

LEMMA AskedStep ==
  ASSUME IInv, ListsAsked, [Next]_vars
  PROVE  ListsAsked'
<1>0. lost \in Nat /\ Len(lists) \in Nat /\ lists \in Seq(List)
  BY Types DEF IInv, TypeOK
<1>1. ASSUME UNCHANGED <<lists, lost, replies>>, requests \subseteq requests'
      PROVE  ListsAsked'
  BY <1>1 DEF ListsAsked, InFlight
<1>2. CASE OpenEditor \/ SavePressed \/ DeletePressed \/ BackPressed \/ UNCHANGED vars
  <2>1. UNCHANGED <<lists, lost, replies>> /\ requests \subseteq requests'
    BY <1>2 DEF OpenEditor, SavePressed, DeletePressed, BackPressed, Send, vars, net, history
  <2> QED
    BY <1>1, <2>1
<1>3. ASSUME NEW r \in requests, Serve(r) PROVE ListsAsked'
  BY <1>3, AnswerFollows DEF ListsAsked
<1>4. ASSUME NEW r \in requests \cup replies, Lose(r) PROVE ListsAsked'
  <2>1. lost' # 0
    BY <1>0, <1>4 DEF Lose
  <2> QED
    BY <2>1 DEF ListsAsked
<1>5. ASSUME NEW p \in replies, DeliverPage(p) PROVE ListsAsked'
  <2>1. /\ p.from \in 1..Len(lists) /\ lists[p.from] \in List
        /\ lists' = [lists EXCEPT ![p.from] =
                       [lists[p.from] EXCEPT !.loaded = TRUE, !.rows = p.rows]]
        /\ requests' = requests /\ replies' = replies \ {p} /\ lost' = lost
    BY <1>0, <1>5, ElementOfSeq DEF IInv, TypeOK, DeliverPage, history
  <2>2. /\ Len(lists') = Len(lists) /\ lists'[p.from].loaded
        /\ \A i \in 1..Len(lists) : i # p.from => lists'[i] = lists[i]
    BY <1>0, <2>1 DEF List
  <2> QED
    BY <2>1, <2>2 DEF ListsAsked, InFlight
<1>6. ASSUME NEW p \in replies, DeliverSuccess(p) PROVE ListsAsked'
  <2>1. /\ replies' = replies \ {p} /\ lost' = lost /\ p.op # "page"
        /\ requests \subseteq requests'
    BY <1>6, SuccessMakesLists DEF DeliverSuccess, Succeeds
  <2>2. /\ \A i \in 1..Len(lists) : lists'[i] = lists[i]
        /\ \A i \in 1..Len(lists') :
             i \notin 1..Len(lists) => \E r \in requests' : r.op = "page" /\ r.from = i
    BY <1>6, SuccessMakesLists
  <2> QED
    BY <2>1, <2>2 DEF ListsAsked, InFlight
<1>7. ASSUME NEW p \in replies, DeliverNothing(p) PROVE ListsAsked'
  <2>1. /\ replies' = replies \ {p} /\ UNCHANGED <<lists, lost, requests>> /\ p.op # "page"
    BY <1>7 DEF DeliverNothing, history
  <2> QED
    BY <2>1 DEF ListsAsked, InFlight
<1> QED
  BY <1>2, <1>3, <1>4, <1>5, <1>6, <1>7 DEF Next, Deliver

LEMMA FollowedStep ==
  ASSUME IInv, AnswersFit, [Next]_vars, NEW r \in InFlight, r.op \in {"create", "update"}
  PROVE  Followed(r)
<1>1. CASE OpenEditor \/ SavePressed \/ DeletePressed \/ BackPressed \/ UNCHANGED vars
  <2>1. requests \subseteq requests' /\ replies' = replies
    BY <1>1 DEF OpenEditor, SavePressed, DeletePressed, BackPressed, Send, vars, net, history
  <2> QED
    BY <2>1 DEF InFlight, Followed
<1>2. CASE \E q \in requests : Serve(q)
  BY <1>2, AnswerFollows DEF Followed
<1>3. CASE \E q \in requests \cup replies : Lose(q)
  <2>1. lost \in Nat /\ lost' = lost + 1
    BY <1>3 DEF Lose, IInv, TypeOK
  <2> QED
    BY <2>1 DEF Followed
<1>4. ASSUME NEW p \in replies, Deliver(p), r # p
      PROVE  \E s \in InFlight' : s.n = r.n /\ s.op = r.op /\ s.from = r.from
  <2>1. requests \subseteq requests' /\ replies' = replies \ {p}
    BY <1>4, SuccessMakesLists
    DEF Deliver, DeliverPage, DeliverSuccess, DeliverNothing
  <2> QED
    BY <1>4, <2>1 DEF InFlight
<1>5. ASSUME r \in replies, Deliver(r)
      PROVE  \/ \E i \in 1..Len(lists') : lists'[i].cause = r.n
             \/ r.from \in left
             \/ r.id \in deletes
  <2>1. CASE \/ r.op = "create" /\ r.body = "result"
             \/ r.op = "update" /\ r.body \in {"result", "{}"}
    <3>0. Calls(r) = IF r.op = "create" THEN CreateTask(r.body) ELSE UpdateTask(r.body)
      BY <2>1 DEF Calls
    <3>1. Calls(r) = <<"success">>
      BY <2>1, <3>0 DEF CreateTask, UpdateTask, TwoBytes, Decodes
    <3>2. Succeeds(r) /\ Len(Calls(r)) > 0
      <4>1. Calls(r)[1] = "success" /\ Len(Calls(r)) = 1
        BY <3>1
      <4>2. r.op # "page"
        BY <2>1
      <4> QED
        BY <4>1, <4>2 DEF Succeeds
    <3>3. CASE DeliverSuccess(r)
      BY <1>5, <3>2, <3>3, SuccessMakesLists
    <3>4. CASE DeliverPage(r) \/ DeliverNothing(r)
      BY <2>1, <3>2, <3>4 DEF DeliverPage, DeliverNothing
    <3> QED
      BY <1>5, <3>3, <3>4 DEF Deliver
  <2>2. CASE r.id \in deletes
    BY <2>2
  <2> QED
    BY <1>5, <2>1, <2>2 DEF AnswersFit
<1> QED
  BY <1>1, <1>2, <1>3, <1>4, <1>5 DEF Next, Followed

LEMMA ShowInvariance == Spec => []ShowInv
<1>1. IInv /\ ShowInv /\ [Next]_vars => ShowInv'
  BY FitStep, AskedStep DEF ShowInv
<1> QED
  BY Invariance, InitShow, <1>1, PTL DEF Spec

(* While nothing was lost, every list without its first page has the       *)
(* request or the answer of viewDidLoad under way, however many lists the  *)
(* answers to repeated saves have opened.                                  *)
THEOREM ListsWillLoad == Spec => []ListsAsked
<1>1. ShowInv => ListsAsked
  BY DEF ShowInv
<1> QED
  BY ShowInvariance, <1>1, PTL

(* A save under way stays so until a list reports it: no step of the user  *)
(* or of another answer drops it, and the server never refuses it, unless  *)
(* it is lost, its screen is left or its task deleted.                     *)
THEOREM SavesAreFollowed == Spec => SaveFollowed
<1>1. IInv /\ ShowInv /\ [Next]_vars =>
        [\A r \in InFlight : r.op \in {"create", "update"} => Followed(r)]_vars
  BY FollowedStep DEF ShowInv
<1> QED
  BY Invariance, ShowInvariance, <1>1, PTL DEF Spec, SaveFollowed
=============================================================================
