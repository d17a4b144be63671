------------------------------ MODULE TaskEditing ------------------------------
(***************************************************************************)
(* What saves and deletes do to the tasks on the server, and what the user *)
(* is shown of it.                                                         *)
(*                                                                         *)
(* An edit screen sends its task whenever save is pressed, as often as it  *)
(* is pressed, and stays until an answer opens a task list over it.  So    *)
(* several requests about one task may be under way, the server takes them *)
(* in any order, and each may be lost before or after it was carried out.  *)
(*                                                                         *)
(* Every save sends dueBy = now: what a task holds is reduced to the       *)
(* number of the save that wrote it.  A detail and the edit screen over it *)
(* are one screen here: they hold the same data and offer the same delete, *)
(* and going back to the detail is leaving the screen and opening it again *)
(* with the same row.                                                      *)
(***************************************************************************)
EXTENDS Naturals, FiniteSets, Sequences, Requester

CONSTANTS
  Ids,         \* ids the server may give to tasks
  Existing,    \* ids of the tasks that are there in the beginning
  NoId,        \* the id of a screen that has no task yet, -1 in the code
  MaxPressed,  \* bound: saves and deletes pressed
  MaxScreens,  \* bound: detail and edit screens opened
  MaxLost      \* bound: requests and answers lost

ASSUME IdsAssumption == Existing \subseteq Ids /\ NoId \notin Ids

VARIABLES
  server,      \* for every id the save that wrote its task, 0 if it has none
  free,        \* ids that were never given to a task
  lists,       \* the task lists opened so far, the last one on top
  editor,      \* the screen over the last list
  screens,     \* screens opened so far, which numbers them
  left,        \* screens the user went back from
  requests,    \* requests the server has not carried out
  replies,     \* answers on their way back
  sent,        \* requests sent so far, which numbers them
  pressed,     \* history: saves and deletes pressed
  lost,        \* history: requests and answers lost
  deletes,     \* history: ids a delete was pressed for
  overlapped,  \* history: ids a save was pressed for while one was under way
  acked        \* history: for every id the last save the user was told of

net == <<requests, replies, sent>>
history == <<pressed, lost, deletes, overlapped, acked>>
vars == <<server, free, lists, editor, screens, left, net, history>>

Op == {"page", "create", "update", "delete"}

(* The server's tasks, or those a list shows: id, and what was written.    *)
Tasks == [Ids -> Nat]
NoTasks == [id \in Ids |-> 0]

(* A task list; cause, op and about (history) say which request it         *)
(* answers; the first list answers none.                                   *)
List == [loaded : BOOLEAN, rows : Tasks,
         cause : Nat, op : Op, about : Ids \cup {NoId}]

(* The screen over the last list: number 0 if there is none.               *)
Editor == [screen : Nat, id : Ids \cup {NoId}]

(* from is a screen, or for a page a list.                                 *)
Request == [n : Nat, op : Op, id : Ids \cup {NoId}, from : Nat]

(* An answer: the body, the id the request was about or was given, and for *)
(* a page its rows.                                                        *)
Reply == [n : Nat, op : Op, id : Ids \cup {NoId}, from : Nat, body : Body, rows : Tasks]

NoEditor == [screen |-> 0, id |-> NoId]

-----------------------------------------------------------------------------
(* What the user does                                                      *)

(* "add" in the list, or the info button of a row (and then "edit"): the   *)
(* screen gets the task as the row has it.                                 *)
OpenEditor ==
  /\ editor = NoEditor
  /\ screens < MaxScreens
  /\ screens' = screens + 1
  /\ \E id \in {NoId} \cup {i \in Ids : lists[Len(lists)].rows[i] # 0} :
       editor' = [screen |-> screens + 1, id |-> id]
  /\ UNCHANGED <<server, free, lists, left, net, history>>

Send(op, id) ==
  /\ editor # NoEditor
  /\ pressed < MaxPressed
  /\ pressed' = pressed + 1
  /\ sent' = sent + 1
  /\ requests' = requests \cup
       {[n |-> sent + 1, op |-> op, id |-> id, from |-> editor.screen]}
  /\ UNCHANGED <<server, free, lists, editor, screens, left, replies, lost, acked>>

(* A save of the task id is on its way to the server.                      *)
UnderWay(id) == \E r \in requests : r.op = "update" /\ r.id = id

(* saveEventPressed, with a title: a task without an id is created, others *)
(* are updated.                                                            *)
SavePressed ==
  /\ Send(IF editor.id = NoId THEN "create" ELSE "update", editor.id)
  /\ overlapped' = IF UnderWay(editor.id) THEN overlapped \cup {editor.id}
                   ELSE overlapped
  /\ UNCHANGED deletes

(* deleteEventPressed; without a task there is nothing but an alert.       *)
DeletePressed ==
  /\ editor.id # NoId
  /\ Send("delete", editor.id)
  /\ deletes' = deletes \cup {editor.id}
  /\ UNCHANGED overlapped

(* A mutant of BackPressed: the list can be left as well.                  *)
BackPressedAnywhere ==
  /\ editor' = NoEditor
  /\ left' = left \cup {editor.screen}
  /\ UNCHANGED <<server, free, lists, screens, net, history>>

(* .back of an edit and .backPressed of a detail screen                    *)
BackPressed ==
  /\ editor # NoEditor
  /\ editor' = NoEditor
  /\ left' = left \cup {editor.screen}
  /\ UNCHANGED <<server, free, lists, screens, net, history>>

-----------------------------------------------------------------------------
(* The server, and what happens on the way                                 *)

Answer(r, id, body) ==
  /\ requests' = requests \ {r}
  /\ replies' = replies \cup
       {[n |-> r.n, op |-> r.op, id |-> id, from |-> r.from,
         body |-> body, rows |-> server]}
  /\ UNCHANGED <<lists, editor, screens, left, sent, history>>

(* GET /tasks: the tasks of now.                                           *)
ServePage(r) ==
  /\ r.op = "page"
  /\ Answer(r, NoId, "result")
  /\ UNCHANGED <<server, free>>

(* POST /tasks: a new id.                                                  *)
ServeCreate(r) ==
  /\ r.op = "create"
  /\ \E id \in free :
       /\ server' = [server EXCEPT ![id] = r.n]
       /\ free' = free \ {id}
       /\ Answer(r, id, "result")

(* PUT /tasks/id: refused with a message if the task is gone.              *)
ServeUpdate(r) ==
  /\ r.op = "update"
  /\ IF server[r.id] = 0
     THEN Answer(r, r.id, "message") /\ UNCHANGED server
     ELSE /\ server' = [server EXCEPT ![r.id] = r.n]
          /\ \E body \in {"result", "{}"} : Answer(r, r.id, body)
  /\ UNCHANGED free

(* DELETE /tasks/id: an empty object or array, or a message.               *)
ServeDelete(r) ==
  /\ r.op = "delete"
  /\ IF server[r.id] = 0
     THEN Answer(r, r.id, "message") /\ UNCHANGED server
     ELSE /\ server' = [server EXCEPT ![r.id] = 0]
          /\ \E body \in {"{}", "[]"} : Answer(r, r.id, body)
  /\ UNCHANGED free

Serve(r) == ServePage(r) \/ ServeCreate(r) \/ ServeUpdate(r) \/ ServeDelete(r)

(* A mutant of Lose: a request whose answer was lost is sent again.        *)
LoseRetries(r) ==
  /\ lost < MaxLost
  /\ lost' = lost + 1
  /\ requests' = (requests \ {r}) \cup
       (IF r \in replies
        THEN {[n |-> r.n, op |-> r.op, id |-> r.id, from |-> r.from]} ELSE {})
  /\ replies' = replies \ {r}
  /\ UNCHANGED <<server, free, lists, editor, screens, left, sent, pressed,
                 deletes, overlapped, acked>>

(* A request never reaches the server, or its answer never the client.     *)
Lose(r) ==
  /\ lost < MaxLost
  /\ lost' = lost + 1
  /\ requests' = requests \ {r}
  /\ replies' = replies \ {r}
  /\ UNCHANGED <<server, free, lists, editor, screens, left, sent, pressed,
                 deletes, overlapped, acked>>

-----------------------------------------------------------------------------
(* The answers                                                             *)

(* The first page of a list                                                *)
DeliverPage(p) ==
  /\ p.op = "page"
  /\ lists' = [lists EXCEPT ![p.from].loaded = TRUE, ![p.from].rows = p.rows]
  /\ replies' = replies \ {p}
  /\ UNCHANGED <<server, free, editor, screens, left, requests, sent, history>>

(* The closures that the answer to a save or a delete calls                *)
Calls(p) ==
  CASE p.op = "create" -> CreateTask(p.body)
    [] p.op = "update" -> UpdateTask(p.body)
    [] OTHER           -> DeleteTask(p.body)

(* A mutant of OpenLists: the new list starts with the rows of the last.   *)
OpenListsKeepRows(p) ==
  LET k == Len(Calls(p)) IN
  /\ lists' = lists \o
       [i \in 1..k |-> [loaded |-> TRUE, rows |-> lists[Len(lists)].rows,
                        cause |-> p.n, op |-> p.op, about |-> p.id]]
  /\ requests' = requests \cup
       {[n |-> sent + i, op |-> "page", id |-> NoId, from |-> Len(lists) + i] :
          i \in 1..k}
  /\ sent' = sent + k
  /\ editor' = NoEditor

(* The success closures open that many lists over the screen, and each     *)
(* asks for its first page.                                                *)
OpenLists(p) ==
  LET k == Len(Calls(p)) IN
  /\ lists' = lists \o
       [i \in 1..k |-> [loaded |-> FALSE, rows |-> NoTasks,
                        cause |-> p.n, op |-> p.op, about |-> p.id]]
  /\ requests' = requests \cup
       {[n |-> sent + i, op |-> "page", id |-> NoId, from |-> Len(lists) + i] :
          i \in 1..k}
  /\ sent' = sent + k
  /\ editor' = NoEditor

(* History: the user learns from the new list that the save was made.      *)
Acknowledge(p) ==
  acked' = IF p.op \in {"create", "update"} /\ p.n > acked[p.id]
           THEN [acked EXCEPT ![p.id] = p.n] ELSE acked

Succeeds(p) == p.op # "page" /\ Calls(p)[1] = "success"

DeliverSuccess(p) ==
  /\ Succeeds(p)
  /\ OpenLists(p)
  /\ Acknowledge(p)
  /\ replies' = replies \ {p}
  /\ UNCHANGED <<server, free, screens, left, pressed, lost, deletes, overlapped>>

(* A mutant of DeliverNothing: only the screen on top heeds its answer.    *)
DeliverNothingBelow(p) ==
  /\ p.op # "page"
  /\ ~Succeeds(p) \/ p.from # editor.screen
  /\ replies' = replies \ {p}
  /\ UNCHANGED <<server, free, lists, editor, screens, left, requests, sent, history>>

(* An error shows an alert; a screen that was left and is released by now  *)
(* does nothing.                                                           *)
DeliverNothing(p) ==
  /\ p.op # "page"
  /\ ~Succeeds(p) \/ p.from \in left
  /\ replies' = replies \ {p}
  /\ UNCHANGED <<server, free, lists, editor, screens, left, requests, sent, history>>

Deliver(p) == DeliverPage(p) \/ DeliverSuccess(p) \/ DeliverNothing(p)

-----------------------------------------------------------------------------
(* One list with the tasks there are, nothing under way.                   *)
Init ==
  /\ server = [id \in Ids |-> IF id \in Existing THEN 1 ELSE 0]
  /\ free = Ids \ Existing
  /\ lists = <<[loaded |-> TRUE, rows |-> server,
                cause |-> 0, op |-> "page", about |-> NoId]>>
  /\ editor = NoEditor
  /\ screens = 0
  /\ left = {}
  /\ requests = {}
  /\ replies = {}
  /\ sent = 1
  /\ pressed = 0
  /\ lost = 0
  /\ deletes = {}
  /\ overlapped = {}
  /\ acked = NoTasks

Next ==
  \/ OpenEditor
  \/ SavePressed
  \/ DeletePressed
  \/ BackPressed
  \/ \E r \in requests : Serve(r)
  \/ \E p \in replies : Deliver(p)
  \/ \E r \in requests \cup replies : Lose(r)

Spec == Init /\ [][Next]_vars

-----------------------------------------------------------------------------
(* Properties                                                              *)

TypeOK ==
  /\ server \in Tasks
  /\ free \subseteq Ids
  /\ lists \in Seq(List) /\ lists # <<>>
  /\ editor \in Editor
  /\ editor = NoEditor \/ editor.screen \in 1..screens
  /\ screens \in Nat
  /\ left \subseteq 1..screens
  /\ requests \subseteq Request
  /\ replies \subseteq Reply
  /\ \A r \in requests \cup replies :
       r.op = "page" => r.from \in 1..Len(lists)
  /\ sent \in Nat
  /\ pressed \in Nat
  /\ lost \in Nat
  /\ deletes \subseteq Ids
  /\ overlapped \subseteq Ids
  /\ acked \in Tasks

(* A save the user was told of is not undone by an older one, unless it    *)
(* was pressed while that one was still on its way to the server: only the *)
(* second press in that short time, which nothing in TaskEditMainView      *)
(* prevents, lets an older save win.                                       *)
SavesStick ==
  \A id \in Ids \ (overlapped \cup deletes) : server[id] >= acked[id]

(* What a row of the task id, read once the answer to the save or delete n *)
(* of it had come, has to be: 0 after a delete, which no update brings     *)
(* back, and what the save wrote or something later after a save, unless a *)
(* second save was pressed too early or a delete took the task away.       *)
Reflects(row, op, id, n) ==
  IF op = "delete" THEN row = 0
  ELSE row >= n \/ id \in overlapped \/ (id \in deletes /\ row = 0)

(* The list that reports a save or a delete shows it: its first page is    *)
(* asked for in viewDidLoad, after the answer, and has the saved task, or  *)
(* lacks the deleted one, whatever else is under way.                      *)
ReadYourWrites ==
  \A i \in 1..Len(lists) :
    LET l == lists[i] IN
    l.loaded /\ l.about \in Ids => Reflects(l.rows[l.about], l.op, l.about, l.cause)

(* A save leaves one task at most, whatever is lost: RequesterURL never    *)
(* repeats a request, so only pressing again makes a copy.                 *)
OneTaskPerSave ==
  \A i, j \in Ids : i # j /\ server[i] = server[j] => server[i] <= 1

(* The saves and deletes on their way to the server, and those carried out *)
(* whose answer is on its way back.                                        *)
Orders ==
  {[n |-> r.n, op |-> r.op, id |-> r.id] : r \in {q \in requests : q.op # "page"}}

Reports ==
  {[n |-> p.n, op |-> p.op, id |-> p.id] :
     p \in {q \in replies : q.op # "page" /\ q.body # "message"}}

(* To the tasks, all of this is a store that carries out every save and    *)
(* delete once at most and reports only what it did: lists, screens, pages *)
(* and the closures called twice or never do not show in it.               *)
Store == INSTANCE TaskStore
  WITH tasks <- server, unused <- free, orders <- Orders,
       reports <- Reports, told <- acked, last <- sent

StorePromise == Store!Spec

(* The server answers, and URLSession delivers each answer.                *)
FairSpec ==
  /\ Spec
  /\ WF_vars(\E r \in requests : Serve(r))
  /\ WF_vars(\E p \in replies : Deliver(p))

SaveUnderWay(n) ==
  \E r \in requests : r.n = n /\ r.op \in {"create", "update"}

Shown(n) == \E i \in 1..Len(lists) : lists[i].cause = n /\ lists[i].loaded

(* If nothing is lost, every save ends in a list that shows it, unless the *)
(* user goes back from a screen or deletes tasks.                          *)
SaveIsShown ==
  \A n \in 1..4 * MaxPressed :
    SaveUnderWay(n) ~> (Shown(n) \/ left # {} \/ deletes # {})
=============================================================================
