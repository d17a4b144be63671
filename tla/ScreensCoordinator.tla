-------------------------- MODULE ScreensCoordinator --------------------------
(***************************************************************************)
(* The navigation of the application: ScreensCoordinator, the four view    *)
(* controllers it creates, the closures through which they talk to it, and *)
(* the requests that are in flight.                                        *)
(*                                                                         *)
(* Everything runs on the main thread, so an action is one event handler   *)
(* run to its end: a tap, or the completion handler of one answer.  What   *)
(* interleaves is the handlers.  An answer arrives when it likes: after    *)
(* the user went back, opened another screen or pressed the button again.  *)
(*                                                                         *)
(* A controller is a number, an index in the heap vc; the heap only grows, *)
(* alive tells which controllers have not been released.                   *)
(***************************************************************************)
EXTENDS Naturals, FiniteSets, Requester

CONSTANTS
  Tasks,           \* the tasks the server may list
  NoTask,          \* nil, where an InternalTaskData? is expected
  Bodies,          \* the bodies an answer may have
  MaxControllers,  \* bound: taps that could create more controllers are cut off
  MaxSubmitted     \* bound: screens the submissions from one screen may open

ASSUME TasksAssumption == NoTask \notin Tasks
ASSUME BodiesAssumption == Bodies \subseteq Body

VARIABLES
  stack,              \* navigationController.viewControllers, bottom first
  navigationScreens,  \* ScreensCoordinator.navigationScreens
  vc,                 \* every view controller ever created
  alive,              \* those that are not deallocated
  inFlight,           \* requests whose completion handler has not run
  alert               \* the controller presenting an alert, or NoAlert

vars == <<stack, navigationScreens, vc, alive, inFlight, alert>>

Kind == {"login", "taskList", "taskDetail", "taskEdit"}

(* The requests: loginUser by a login controller, getTaskList by the       *)
(* coordinator once a login succeeded ("list") and by a task list for its  *)
(* first page ("page"), deleteTask by a detail or edit controller, and     *)
(* createTask or updateTask by an edit controller ("save").                *)
Op == {"login", "list", "page", "delete", "save"}

NoAlert == 0

(* AvailableScreens: a screen and the task it was given.                   *)
Screen == [kind : Kind, data : Tasks \cup {NoTask}]

(* A view controller: model is model.data, shown the data of its view, and *)
(* rows the tasks of its table.  Two fields are history: opener is the     *)
(* controller whose event created it, and submitted the number of screens  *)
(* the user's submissions from it account for.                             *)
Controller ==
  [kind : Kind, model : Tasks \cup {NoTask}, shown : Tasks \cup {NoTask},
   rows : SUBSET Tasks, opener : Nat, submitted : Nat]

(* Equal requests of one controller are told apart by a copy number.       *)
Request == [op : Op, from : Nat, copy : Nat \ {0}]

Top == stack[Len(stack)]

-----------------------------------------------------------------------------
(* Creating screens                                                        *)

(* startVC: the controller comes from its storyboard, its view not loaded. *)
StartVC(kind, opener) ==
  [kind |-> kind, model |-> NoTask, shown |-> NoTask, rows |-> {},
   opener |-> opener, submitted |-> 0]

(* contr.model.data = data                                                 *)
SetModel(contr, data) == [contr EXCEPT !.model = data]

(* contr.eventHandler = ...: its didSet asks for the view, which loads it  *)
(* and runs viewDidLoad, and that copies the model into the view.          *)
SetEventHandler(contr) == [contr EXCEPT !.shown = contr.model]

(* A mutant of MakeScreen: the handler is set before the model.            *)
MakeScreenHandlerFirst(kind, data, opener) ==
  SetModel(SetEventHandler(StartVC(kind, opener)), data)

(* The controller that makeLogin, makeTaskDetail and makeTaskEdit build,   *)
(* and makeTaskList up to the request of its first page.                   *)
MakeScreen(kind, data, opener) ==
  SetEventHandler(SetModel(StartVC(kind, opener), data))

(* jumpToScreen, n times: each make... appends to navigationScreens and    *)
(* pushes the controller.                                                  *)
JumpToScreen(kind, data, opener, n) ==
  /\ stack' = stack \o [i \in 1..n |-> Len(vc) + i]
  /\ navigationScreens' =
       navigationScreens \o [i \in 1..n |-> [kind |-> kind, data |-> data]]
  /\ vc' = vc \o [i \in 1..n |-> MakeScreen(kind, data, opener)]
  /\ alive' = alive \cup (Len(vc) + 1 .. Len(vc) + n)

(* A mutant of PopScreen: the coordinator forgets its own list.            *)
PopControllerOnly ==
  /\ stack' = SubSeq(stack, 1, Len(stack) - 1)
  /\ UNCHANGED navigationScreens

(* The back buttons: both lists lose their last element, whoever it is.    *)
PopScreen ==
  /\ stack' = SubSeq(stack, 1, Len(stack) - 1)
  /\ navigationScreens' =
       SubSeq(navigationScreens, 1, Len(navigationScreens) - 1)

(* present(alert): UIKit drops it when the controller's view is not on     *)
(* display or an alert is up already.                                      *)
Present(c) ==
  alert' = IF c \in alive /\ c = Top /\ alert = NoAlert THEN c ELSE alert

-----------------------------------------------------------------------------
(* Requests                                                                *)

Copies(op, c) == {r \in inFlight : r.op = op /\ r.from = c}

NewRequest(op, c) ==
  [op |-> op, from |-> c, copy |-> Cardinality(Copies(op, c)) + 1]

(* The first-page requests that n new task lists send in viewDidLoad.      *)
PageRequests(n) ==
  {[op |-> "page", from |-> Len(vc) + i, copy |-> 1] : i \in 1..n}

(* The request is answered; of equal ones the one with the last number.    *)
Answered(r, op) ==
  /\ r \in inFlight
  /\ r.op = op
  /\ \A s \in Copies(op, r.from) : s.copy <= r.copy

(* How many closures of one kind the completion handler calls.             *)
Count(calls, closure) == Cardinality({i \in DOMAIN calls : calls[i] = closure})

(* Bound: screens the requests in flight may still push.                   *)
Promised ==
  Cardinality({r \in inFlight : r.op # "page"}) +
  Cardinality({r \in inFlight : r.op = "delete"})

CanCreate(n) == Len(vc) + Promised + n <= MaxControllers

-----------------------------------------------------------------------------
(* What the user does.  Only the top screen is on display, and an alert is *)
(* modal: while it is up no other control can be reached.                  *)

On(kind) == alert = NoAlert /\ vc[Top].kind = kind

DismissAlert ==
  /\ alert # NoAlert
  /\ alert' = NoAlert
  /\ UNCHANGED <<stack, navigationScreens, vc, alive, inFlight>>

(* A tap that sends a request; weight is the number of screens the closure *)
(* for its success may push.                                               *)
Submit(op, weight) ==
  /\ CanCreate(weight)
  /\ vc[Top].submitted + weight <= MaxSubmitted
  /\ inFlight' = inFlight \cup {NewRequest(op, Top)}
  /\ vc' = [vc EXCEPT ![Top].submitted = @ + weight]
  /\ UNCHANGED <<stack, navigationScreens, alive, alert>>

(* LoginViewController.LogInPressed                                        *)
LogInPressed == On("login") /\ Submit("login", 1)

(* A cell's info button, handled by makeTaskList's .cellInfo.              *)
InfoPressed ==
  /\ On("taskList")
  /\ CanCreate(1)
  /\ \E task \in vc[Top].rows : JumpToScreen("taskDetail", task, Top, 1)
  /\ UNCHANGED <<inFlight, alert>>

(* makeTaskList's .sortPressed: the sort button opens a login screen.      *)
SortPressed ==
  /\ On("taskList")
  /\ CanCreate(1)
  /\ JumpToScreen("login", NoTask, Top, 1)
  /\ UNCHANGED <<inFlight, alert>>

(* makeTaskList's .addTask                                                 *)
AddTaskPressed ==
  /\ On("taskList")
  /\ CanCreate(1)
  /\ JumpToScreen("taskEdit", NoTask, Top, 1)
  /\ UNCHANGED <<inFlight, alert>>

(* makeTaskDetail's .editPressed carries the data of the view.             *)
EditPressed ==
  /\ On("taskDetail")
  /\ CanCreate(1)
  /\ JumpToScreen("taskEdit", vc[Top].shown, Top, 1)
  /\ UNCHANGED <<inFlight, alert>>

(* A mutant of BackPressed: every screen has a back button.                *)
BackPressedAnywhere ==
  /\ alert = NoAlert
  /\ PopScreen
  /\ UNCHANGED <<vc, alive, inFlight, alert>>

(* .backPressed of a detail, .back of an edit screen                       *)
BackPressed ==
  /\ On("taskDetail") \/ On("taskEdit")
  /\ PopScreen
  /\ UNCHANGED <<vc, alive, inFlight, alert>>

(* The delete buttons.  With no task in the view deleteTask calls          *)
(* toDoIfError at once; a success may push two task lists.                 *)
DeletePressed ==
  /\ On("taskDetail") \/ On("taskEdit")
  /\ IF vc[Top].shown = NoTask
     THEN /\ Present(Top)
          /\ UNCHANGED <<stack, navigationScreens, vc, alive, inFlight>>
     ELSE Submit("delete", 2)

(* saveEventPressed, with a title typed                                    *)
SavePressed == On("taskEdit") /\ Submit("save", 1)

-----------------------------------------------------------------------------
(* What the completion handlers do.  The closures of a controller hold it  *)
(* weakly: once it is released they do nothing.  The coordinator lives as  *)
(* long as the application.                                                *)

(* A mutant of PushTaskLists: the lists go above the screen that asked.    *)
PushTaskListsAboveSender(r, n) ==
  LET places == {i \in 1..Len(stack) : stack[i] = r.from}
      place == IF places = {} THEN Len(stack) ELSE CHOOSE i \in places : TRUE
      insert(old, new) ==
        SubSeq(old, 1, place) \o new \o SubSeq(old, place + 1, Len(old)) IN
  /\ stack' = insert(stack, [i \in 1..n |-> Len(vc) + i])
  /\ navigationScreens' =
       insert(navigationScreens,
              [i \in 1..n |-> [kind |-> "taskList", data |-> NoTask]])
  /\ vc' = vc \o [i \in 1..n |-> MakeScreen("taskList", NoTask, r.from)]
  /\ alive' = alive \cup (Len(vc) + 1 .. Len(vc) + n)
  /\ inFlight' = (inFlight \ {r}) \cup PageRequests(n)

(* An answer of r that pushes n task lists, each of which asks for its     *)
(* first page.                                                             *)
PushTaskLists(r, n) ==
  /\ JumpToScreen("taskList", NoTask, r.from, n)
  /\ inFlight' = (inFlight \ {r}) \cup PageRequests(n)

Silent(r) ==
  /\ inFlight' = inFlight \ {r}
  /\ UNCHANGED <<stack, navigationScreens, vc, alive>>

(* A mutant of LoginAnswered: an answer that comes when its screen is no   *)
(* longer on display is dropped.                                           *)
LoginAnsweredOnTop(r, body) ==
  /\ Answered(r, "login")
  /\ IF Count(LoginUser(body), "success") = 1 /\ r.from = Top
     THEN /\ inFlight' = (inFlight \ {r}) \cup {NewRequest("list", r.from)}
          /\ UNCHANGED <<stack, navigationScreens, vc, alive>>
     ELSE Silent(r)
  /\ UNCHANGED alert

(* loginUser's answer: on success the coordinator asks for the list.       *)
LoginAnswered(r, body) ==
  LET calls == LoginUser(body) IN
  /\ Answered(r, "login")
  /\ IF Count(calls, "success") = 1 /\ r.from \in alive
     THEN /\ inFlight' = (inFlight \ {r}) \cup {NewRequest("list", r.from)}
          /\ UNCHANGED <<stack, navigationScreens, vc, alive>>
     ELSE Silent(r)
  /\ IF Count(calls, "error") = 1 THEN Present(r.from) ELSE UNCHANGED alert

(* getTaskList's answer to the coordinator, whose toDoIfError is nil.      *)
ListAnswered(r, body) ==
  /\ Answered(r, "list")
  /\ PushTaskLists(r, Count(GetTaskList(body), "success"))
  /\ UNCHANGED alert

(* getTaskList's answer to a task list's first page.                       *)
PageAnswered(r, body) ==
  LET calls == GetTaskList(body) IN
  /\ Answered(r, "page")
  /\ inFlight' = inFlight \ {r}
  /\ IF Count(calls, "success") = 1 /\ r.from \in alive
     THEN \E tasks \in SUBSET Tasks :
            vc' = [vc EXCEPT ![r.from].rows = tasks]
     ELSE UNCHANGED vc
  /\ IF Count(calls, "error") = 1 THEN Present(r.from) ELSE UNCHANGED alert
  /\ UNCHANGED <<stack, navigationScreens, alive>>

(* deleteTask's answer to a detail or an edit screen.                      *)
DeleteAnswered(r, body) ==
  LET calls == DeleteTask(body) IN
  /\ Answered(r, "delete")
  /\ IF r.from \in alive THEN PushTaskLists(r, Count(calls, "success"))
     ELSE Silent(r)
  /\ IF Count(calls, "error") = 1 THEN Present(r.from) ELSE UNCHANGED alert

(* A mutant of SaveAnswered: the closures hold the controller strongly.    *)
SaveAnsweredStrong(r, body) ==
  LET calls == IF vc[r.from].shown = NoTask
               THEN CreateTask(body) ELSE UpdateTask(body) IN
  /\ Answered(r, "save")
  /\ PushTaskLists(r, Count(calls, "success"))
  /\ IF Count(calls, "error") = 1 THEN Present(r.from) ELSE UNCHANGED alert

(* createTask's or updateTask's answer to an edit screen; the screen picks *)
(* createTask when its data has no id.                                     *)
SaveAnswered(r, body) ==
  LET calls == IF vc[r.from].shown = NoTask
               THEN CreateTask(body) ELSE UpdateTask(body) IN
  /\ Answered(r, "save")
  /\ IF r.from \in alive THEN PushTaskLists(r, Count(calls, "success"))
     ELSE Silent(r)
  /\ IF Count(calls, "error") = 1 THEN Present(r.from) ELSE UNCHANGED alert

(* UIKit releases a popped controller, some time after the pop: until the  *)
(* animation has ended the navigation controller holds it.                 *)
Deallocate(c) ==
  /\ c \in alive
  /\ \A i \in 1..Len(stack) : stack[i] # c
  /\ alive' = alive \ {c}
  /\ UNCHANGED <<stack, navigationScreens, vc, inFlight, alert>>

-----------------------------------------------------------------------------
(* ScreensCoordinator.start: a login screen on an empty stack.             *)
Init ==
  /\ vc = <<MakeScreen("login", NoTask, 0)>>
  /\ stack = <<1>>
  /\ navigationScreens = <<[kind |-> "login", data |-> NoTask]>>
  /\ alive = {1}
  /\ inFlight = {}
  /\ alert = NoAlert

UserNext ==
  \/ DismissAlert
  \/ LogInPressed
  \/ InfoPressed
  \/ SortPressed
  \/ AddTaskPressed
  \/ EditPressed
  \/ BackPressed
  \/ DeletePressed
  \/ SavePressed

AnswerNext ==
  \E r \in inFlight, body \in Bodies :
    \/ LoginAnswered(r, body)
    \/ ListAnswered(r, body)
    \/ PageAnswered(r, body)
    \/ DeleteAnswered(r, body)
    \/ SaveAnswered(r, body)

Next == UserNext \/ AnswerNext \/ \E c \in alive : Deallocate(c)

Spec == Init /\ [][Next]_vars

-----------------------------------------------------------------------------
(* Properties                                                              *)

TypeOK ==
  /\ vc \in Seq(Controller)
  /\ stack \in Seq(1..Len(vc))
  /\ stack # <<>>
  /\ navigationScreens \in Seq(Screen)
  /\ alive \subseteq 1..Len(vc)
  /\ inFlight \subseteq Request
  /\ \A r \in inFlight : r.from \in 1..Len(vc)
  /\ alert \in 0..Len(vc)

(* The coordinator's own list of screens says what the navigation          *)
(* controller shows: same length, and at every place the kind and the task *)
(* of the controller there, whatever answers pushed in between.            *)
ScreensMirrorStack ==
  /\ Len(navigationScreens) = Len(stack)
  /\ \A i \in 1..Len(stack) :
       /\ navigationScreens[i].kind = vc[stack[i]].kind
       /\ navigationScreens[i].data = vc[stack[i]].model

(* Back leads where the user came from: a detail or edit screen lies       *)
(* directly on the screen whose event opened it, which is a task list or,  *)
(* for an edit screen, a detail.  Answers that push task lists at any      *)
(* moment (ScreensCoordinator.makeTaskDetail, makeTaskEdit) never get in   *)
(* between.                                                                *)
BackReturnsToOpener ==
  \A i \in 1..Len(stack) :
    vc[stack[i]].kind \in {"taskDetail", "taskEdit"} =>
      /\ i > 1
      /\ stack[i - 1] = vc[stack[i]].opener
      /\ vc[stack[i - 1]].kind \in
           IF vc[stack[i]].kind = "taskDetail"
           THEN {"taskList"} ELSE {"taskList", "taskDetail"}

(* The task a screen would delete or save is the one the user picked: a    *)
(* detail's view holds a task, an edit screen opened from a detail holds   *)
(* the detail's, and one opened by "add" holds none.  The views are filled *)
(* in viewDidLoad, which setting eventHandler triggers, so this depends on *)
(* the order of the assignments in makeTaskDetail and makeTaskEdit.        *)
ScreensAgreeOnTask ==
  \A c \in 1..Len(vc) :
    LET opener == vc[c].opener IN
    /\ vc[c].kind = "taskDetail" => vc[c].shown \in Tasks
    /\ vc[c].kind = "taskEdit" =>
         vc[c].shown = IF vc[opener].kind = "taskDetail"
                       THEN vc[opener].shown ELSE NoTask

(* The places of logins and task lists on the stack.                       *)
Roots == {i \in 1..Len(stack) : vc[stack[i]].kind \in {"login", "taskList"}}

(* No way back past a task list: what lies at or below the topmost login   *)
(* or task list is never shown again, since only details and edit screens  *)
(* have a back button.  Every answer that pushes a list buries the screens *)
(* under it for the life of the application (they are never released).     *)
RootsStay ==
  [][\A r \in Roots : \A i \in 1..r : i <= Len(stack') /\ stack'[i] = stack[i]]_vars

(* The task lists opened on behalf of controller c.                        *)
ListsOf(c) ==
  Cardinality({l \in 1..Len(vc) :
                 vc[l].kind = "taskList" /\ vc[l].opener = c})

(* Task lists do not appear from nowhere: the lists opened on behalf of a  *)
(* controller, and those its requests in flight may still open, are at     *)
(* most one for every login and every save the user pressed there and two  *)
(* for every delete (deleteTask calls its success closure twice for "{}"). *)
ListsAccounted ==
  \A c \in 1..Len(vc) :
    ListsOf(c) +
    Cardinality({r \in inFlight : r.from = c /\ r.op # "page"}) +
    Cardinality({r \in inFlight : r.from = c /\ r.op = "delete"})
      <= vc[c].submitted

(* A screen the user has left does nothing once it is released: every new  *)
(* screen is opened on behalf of a controller that is alive ([weak self]   *)
(* in the closures of the view controllers).                               *)
ReleasedStaySilent ==
  [][\A c \in Len(vc) + 1 .. Len(vc') : vc'[c].opener \in alive]_vars

(* Only answers are certain to come: URLSession ends every request, with a *)
(* body or without.  Nobody has to tap.                                    *)
FairSpec == Spec /\ WF_vars(AnswerNext)

(* With a server that grants every request, n logins pressed on a screen   *)
(* end in n task lists, each through two requests, whatever the user does  *)
(* and whichever answers come first (LogInPressed, makeLogin).             *)
LoginOpensList ==
  \A c \in 1..MaxControllers, n \in 1..MaxSubmitted :
    (c <= Len(vc) /\ vc[c].kind = "login" /\ vc[c].submitted >= n) ~>
      (ListsOf(c) >= n)
=============================================================================
