---------------------------- MODULE TaskListModel ----------------------------
(***************************************************************************)
(* The paging of one task list: TaskListModel, the table callbacks of      *)
(* TaskListViewController that drive it, and its requests to the server.   *)
(*                                                                         *)
(* Displaying the row Lookahead places before the end asks for the next    *)
(* page.  Nothing remembers that a page was asked for already: the row is  *)
(* displayed again whenever the user scrolls back to it, so several        *)
(* requests for one page can be in flight, and their answers come in any   *)
(* order, late ones after those of later pages.                            *)
(***************************************************************************)
EXTENDS Naturals, FiniteSets, Sequences

CONSTANTS
  Listing,       \* the server's tasks, sorted, when the list is opened
  Created,       \* tasks other devices may add to the listing
  ServerLimit,   \* rows the server puts on a page (meta.limit)
  Lookahead,     \* 10: willDisplay's distance from the end
  MaxOverlap,    \* bound: requests sent while another is in flight
  MaxChurn,      \* bound: changes of the listing by other devices
  MaxLost        \* bound: answers that never arrive or cannot be used

ASSUME ListingAssumption ==
  /\ Listing \in Seq({Listing[i] : i \in DOMAIN Listing})
  /\ \A i, j \in 1..Len(Listing) : Listing[i] = Listing[j] => i = j
ASSUME ServerLimitAssumption == ServerLimit \in Nat \ {0}
ASSUME LookaheadAssumption == Lookahead \in Nat \ {0}

VARIABLES
  data,          \* model.data
  page,          \* model.page
  totalCounts,   \* model.totalCounts
  limit,         \* model.limit
  loaded,        \* viewDidLoad has run
  requests,      \* pages asked for and not yet answered by the server
  replies,       \* answers on their way back
  listing,       \* what the server would list now
  sent,          \* history: requests sent, which numbers them
  reached,       \* history: the highest page delivered
  overlaps,      \* history: requests sent while another was in flight
  churned,       \* history: changes of the listing
  lost           \* history: requests and answers lost

model == <<data, page, totalCounts, limit, loaded>>
net == <<requests, replies, sent>>
history == <<reached, overlaps, churned, lost>>
vars == <<model, net, listing, history>>

Listed == {Listing[i] : i \in 1..Len(Listing)}
Task == Listed \cup Created

Request == [id : Nat, page : Nat \ {0}]

Reply == [id : Nat, page : Nat \ {0}, tasks : Seq(Task), count : Nat]

(* The place in a list of the last row of page p.                          *)
LastRow(list, p) ==
  IF p * ServerLimit <= Len(list) THEN p * ServerLimit ELSE Len(list)

(* The rows of page p, and those of the pages up to p.                     *)
PageOf(list, p) == SubSeq(list, (p - 1) * ServerLimit + 1, LastRow(list, p))
PagesTo(list, p) == SubSeq(list, 1, LastRow(list, p))

InFlight == requests \cup replies

-----------------------------------------------------------------------------
(* The model                                                               *)

(* A mutant of Send: getNextTask asks for self.page, not self.page + 1.    *)
SendCurrentPage(p) ==
  /\ InFlight # {} => overlaps < MaxOverlap
  /\ requests' = requests \cup {[id |-> sent, page |-> p - 1]}
  /\ sent' = sent + 1
  /\ overlaps' = IF InFlight = {} THEN overlaps ELSE overlaps + 1

(* getTaskList(p): an overlap is a request sent while another is pending.  *)
Send(p) ==
  /\ InFlight # {} => overlaps < MaxOverlap
  /\ requests' = requests \cup {[id |-> sent, page |-> p]}
  /\ sent' = sent + 1
  /\ overlaps' = IF InFlight = {} THEN overlaps ELSE overlaps + 1

(* A mutant of MayHaveMore: the last page counts as loaded.                *)
MayHaveMoreOffByOne == page = 0 \/ (page + 1) * limit < totalCounts

(* The guard of getNextTask                                                *)
MayHaveMore == page = 0 \/ page * limit < totalCounts

(* A mutant of ViewDidLoad: the rows the list was created with stay.       *)
ViewDidLoadKeepsData ==
  /\ ~loaded
  /\ loaded' = TRUE
  /\ page' = 0
  /\ Send(1)
  /\ UNCHANGED <<data, totalCounts, limit, replies, listing, reached, churned, lost>>

(* viewDidLoad calls getFirstTasks: the page is reset, the rows the list   *)
(* was created with are thrown away, and with page 0 the guard of          *)
(* getNextTask holds: page 1 is asked for.                                 *)
ViewDidLoad ==
  /\ ~loaded
  /\ loaded' = TRUE
  /\ page' = 0
  /\ data' = <<>>
  /\ Send(1)
  /\ UNCHANGED <<totalCounts, limit, replies, listing, reached, churned, lost>>

(* A mutant of WillDisplay: the page counts as loaded once asked for.      *)
WillDisplayOptimistic ==
  /\ loaded
  /\ \E row \in 0..Len(data) - 1 : Len(data) - row = Lookahead
  /\ MayHaveMore
  /\ Send(page + 1)
  /\ page' = page + 1
  /\ UNCHANGED <<data, totalCounts, limit, loaded, replies, listing,
                 reached, churned, lost>>

(* willDisplay of the row that triggers getNextTask; other rows do nothing.*)
WillDisplay ==
  /\ loaded
  /\ \E row \in 0..Len(data) - 1 : Len(data) - row = Lookahead
  /\ MayHaveMore
  /\ Send(page + 1)
  /\ UNCHANGED <<model, replies, listing, reached, churned, lost>>

(* A mutant of Deliver: the rows of the answer replace those before.       *)
DeliverReplaces(r) ==
  /\ replies' = replies \ {r}
  /\ page' = r.page
  /\ totalCounts' = r.count
  /\ limit' = ServerLimit
  /\ data' = r.tasks
  /\ reached' = IF r.page > reached THEN r.page ELSE reached
  /\ UNCHANGED <<loaded, requests, sent, listing, overlaps, churned, lost>>

(* A mutant of Deliver: the page is not taken over from the answer.        *)
DeliverKeepsPage(r) ==
  /\ replies' = replies \ {r}
  /\ totalCounts' = r.count
  /\ limit' = ServerLimit
  /\ data' = data \o r.tasks
  /\ reached' = IF r.page > reached THEN r.page ELSE reached
  /\ UNCHANGED <<page, loaded, requests, sent, listing, overlaps, churned, lost>>

(* successAll: the cursor, the total and the limit are the answer's, and   *)
(* its rows go to the end, whatever was delivered before.                  *)
Deliver(r) ==
  /\ replies' = replies \ {r}
  /\ page' = r.page
  /\ totalCounts' = r.count
  /\ limit' = ServerLimit
  /\ data' = data \o r.tasks
  /\ reached' = IF r.page > reached THEN r.page ELSE reached
  /\ UNCHANGED <<loaded, requests, sent, listing, overlaps, churned, lost>>

-----------------------------------------------------------------------------
(* The server, and what happens on the way                                 *)

(* The server answers a request with its page of the listing of now.       *)
Serve(q) ==
  /\ requests' = requests \ {q}
  /\ replies' = replies \cup
       {[id |-> q.id, page |-> q.page, tasks |-> PageOf(listing, q.page),
         count |-> Len(listing)]}
  /\ UNCHANGED <<model, sent, listing, history>>

(* A request or its answer is lost, or the answer is an error or cannot be *)
(* decoded: in all these cases no row and no cursor changes.               *)
Lose(r) ==
  /\ lost < MaxLost
  /\ lost' = lost + 1
  /\ requests' = requests \ {r}
  /\ replies' = replies \ {r}
  /\ UNCHANGED <<model, sent, listing, reached, overlaps, churned>>

(* Another device of the user deletes a task, or adds one, which the sort  *)
(* may put anywhere.                                                       *)
Churn ==
  /\ churned < MaxChurn
  /\ churned' = churned + 1
  /\ \/ \E i \in 1..Len(listing) :
          listing' = SubSeq(listing, 1, i - 1) \o
                     SubSeq(listing, i + 1, Len(listing))
     \/ \E i \in 0..Len(listing), t \in Created :
          /\ \A j \in 1..Len(listing) : listing[j] # t
          /\ listing' = SubSeq(listing, 1, i) \o <<t>> \o
                        SubSeq(listing, i + 1, Len(listing))
  /\ UNCHANGED <<model, net, reached, overlaps, lost>>

-----------------------------------------------------------------------------
(* makeTaskList creates the model with the rows of the list it was given,  *)
(* those of page 1 after a login and none after a save or a delete, and    *)
(* sets the page to 1; viewDidLoad follows.                                *)
Init ==
  /\ data \in {<<>>, PageOf(Listing, 1)}
  /\ page = 1
  /\ totalCounts = 0
  /\ limit = 15
  /\ loaded = FALSE
  /\ requests = {}
  /\ replies = {}
  /\ listing = Listing
  /\ sent = 0
  /\ reached = 0
  /\ overlaps = 0
  /\ churned = 0
  /\ lost = 0

Next ==
  \/ ViewDidLoad
  \/ WillDisplay
  \/ \E q \in requests : Serve(q)
  \/ \E r \in replies : Deliver(r)
  \/ \E r \in InFlight : Lose(r)
  \/ Churn

Spec == Init /\ [][Next]_vars

-----------------------------------------------------------------------------
(* Properties                                                              *)

TypeOK ==
  /\ data \in Seq(Task)
  /\ page \in Nat
  /\ totalCounts \in Nat
  /\ limit \in Nat
  /\ loaded \in BOOLEAN
  /\ requests \subseteq Request
  /\ replies \subseteq Reply
  /\ listing \in Seq(Task)
  /\ sent \in Nat
  /\ reached \in Nat
  /\ overlaps \in Nat
  /\ churned \in Nat
  /\ lost \in Nat

Rows == {data[i] : i \in 1..Len(data)}

(* The cursor may go back, when a late answer of an earlier page arrives   *)
(* (TaskListModel.successAll), but never ahead: no page is asked for       *)
(* before the one in front of it was delivered.                            *)
NoPageSkipped ==
  /\ loaded => page <= reached
  /\ \A r \in InFlight : r.page <= reached + 1

(* As long as the listing stays the same, no task of the pages up to the   *)
(* highest one delivered is missing, in whatever order the answers came.   *)
NothingMissing ==
  churned = 0 =>
    \A i \in 1..LastRow(listing, reached) : listing[i] \in Rows

(* Without overlapping requests the table is exact: the pages in order,    *)
(* every row once.  getFirstTasks has to drop the rows the list was        *)
(* created with for this.                                                  *)
CalmMeansExact ==
  loaded /\ overlaps = 0 /\ churned = 0 => data = PagesTo(listing, reached)

(* A task has more than one row only if requests overlapped or the listing *)
(* changed.  A late answer takes the cursor back over many pages, which    *)
(* are then all asked for again, yet an overlap costs a task at most one   *)
(* more row (and each change of the listing as many again).                *)
DuplicatesAccounted ==
  loaded =>
    \A t \in Task :
      Cardinality({i \in 1..Len(data) : data[i] = t})
        <= (1 + overlaps) * (1 + churned)

(* The table refines the promise of PagedList while no other device        *)
(* changes the listing; before viewDidLoad no row can be seen.             *)
Promise == INSTANCE PagedList
  WITH Limit <- ServerLimit, visible <- IF loaded THEN Rows ELSE {}

PromiseKept == Promise!Spec

(* The user goes on scrolling: with nothing in flight the trigger row is   *)
(* displayed sooner or later.  The server answers, and URLSession delivers *)
(* each answer.                                                            *)
Scroll == InFlight = {} /\ WillDisplay

FairSpec ==
  /\ Spec
  /\ WF_vars(ViewDidLoad)
  /\ WF_vars(Scroll)
  /\ WF_vars(\E q \in requests : Serve(q))
  /\ WF_vars(\E r \in replies : Deliver(r))

(* Once the first page is there, scrolling brings every task: lost answers *)
(* are asked for again, and a cursor that went back catches up.            *)
ScrollingShowsAll == reached > 0 ~> Listed \subseteq Rows
=============================================================================
