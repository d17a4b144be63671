------------------------------- MODULE TaskStore -------------------------------
(***************************************************************************)
(* What saving and deleting promise, without screens, lists, answers and   *)
(* closures: a store of tasks that is given numbered orders.  Each order   *)
(* is carried out once at most, in any order, and may be refused or lost;  *)
(* what was carried out is reported once at most, and nothing else is.     *)
(***************************************************************************)
EXTENDS Naturals

CONSTANTS
  Ids,        \* ids the store may give to tasks
  Existing,   \* ids of the tasks that are there in the beginning
  NoId        \* the id in an order to create a task

VARIABLES
  tasks,      \* for every id the order that wrote its task, 0 if it has none
  unused,     \* ids that were never given to a task
  orders,     \* orders not carried out yet
  reports,    \* orders carried out and not reported yet
  told,       \* for every id the newest order that was reported
  last        \* the last number given out

vars == <<tasks, unused, orders, reports, told, last>>

Init ==
  /\ tasks = [id \in Ids |-> IF id \in Existing THEN 1 ELSE 0]
  /\ unused = Ids \ Existing
  /\ orders = {}
  /\ reports = {}
  /\ told = [id \in Ids |-> 0]
  /\ last = 1

(* An order is newer than all before it, and about a known task if any.    *)
Order(op, id) ==
  /\ IF op = "create" THEN id = NoId ELSE id \in Ids \ unused
  /\ last' > last
  /\ orders' = orders \cup {[n |-> last', op |-> op, id |-> id]}
  /\ UNCHANGED <<tasks, unused, reports, told>>

(* Order o has written n to the task id.                                   *)
Write(o, id, n) ==
  /\ tasks' = [tasks EXCEPT ![id] = n]
  /\ orders' = orders \ {o}
  /\ reports' = reports \cup {[o EXCEPT !.id = id]}
  /\ UNCHANGED <<told, last>>

Create(o) ==
  /\ o.op = "create"
  /\ \E id \in unused : Write(o, id, o.n) /\ unused' = unused \ {id}

(* A task that is gone is neither written nor removed.                     *)
Update(o) ==
  /\ o.op = "update"
  /\ tasks[o.id] # 0
  /\ Write(o, o.id, o.n)
  /\ UNCHANGED unused

Delete(o) ==
  /\ o.op = "delete"
  /\ tasks[o.id] # 0
  /\ Write(o, o.id, 0)
  /\ UNCHANGED unused

(* An order is refused or lost: it is never carried out.                   *)
Drop(o) ==
  /\ orders' = orders \ {o}
  /\ UNCHANGED <<tasks, unused, reports, told, last>>

(* A report arrives; what is shown with it may use up numbers.             *)
Tell(p) ==
  /\ reports' = reports \ {p}
  /\ told' = IF p.op # "delete" /\ p.n > told[p.id]
             THEN [told EXCEPT ![p.id] = p.n] ELSE told
  /\ last' >= last
  /\ UNCHANGED <<tasks, unused, orders>>

(* A report is lost, or the screen it is for is gone.                      *)
Forget(p) ==
  /\ reports' = reports \ {p}
  /\ UNCHANGED <<tasks, unused, orders, told, last>>

Next ==
  \/ \E op \in {"create", "update", "delete"}, id \in Ids \cup {NoId} : Order(op, id)
  \/ \E o \in orders : Create(o) \/ Update(o) \/ Delete(o) \/ Drop(o)
  \/ \E p \in reports : Tell(p) \/ Forget(p)

Spec == Init /\ [][Next]_vars
=============================================================================
