----------------------- MODULE ScreensCoordinatorProofs -----------------------
(***************************************************************************)
(* Proofs about ScreensCoordinator, for any set of tasks, any set of       *)
(* bodies and any bounds.                                                  *)
(*                                                                         *)
(* Every step of the navigation has one of three shapes: it leaves the     *)
(* screens alone (Quiet), it pushes new screens (Opens), or it takes a     *)
(* detail or an edit screen off the stack (Closes).  StepShape proves that *)
(* once, by cases on the actions; the invariants about the screens then    *)
(* need three cases each.                                                  *)
(***************************************************************************)
EXTENDS ScreensCoordinator, SequenceTheorems, FiniteSetTheorems, TLAPS

-----------------------------------------------------------------------------
(* The shapes of a step                                                    *)

(* Nothing a screen is recognised by changes: the rows of a task list, the *)
(* counters, the requests and the alert may.                               *)
Quiet ==
  /\ UNCHANGED <<stack, navigationScreens>>
  /\ vc' \in Seq(Controller)
  /\ Len(vc') = Len(vc)
  /\ \A c \in 1..Len(vc) :
       /\ vc'[c].kind = vc[c].kind
       /\ vc'[c].model = vc[c].model
       /\ vc'[c].shown = vc[c].shown
       /\ vc'[c].opener = vc[c].opener

(* What jumpToScreen may be asked for.  A detail or an edit screen is      *)
(* opened from the screen on display, and with its task.                   *)
MayOpen(kind, data, opener, n) ==
  /\ kind \in Kind
  /\ data \in Tasks \cup {NoTask}
  /\ opener \in 1..Len(vc)
  /\ n \in Nat
  /\ kind = "taskDetail" =>
       n = 1 /\ opener = Top /\ vc[Top].kind = "taskList" /\ data \in Tasks
  /\ kind = "taskEdit" =>
       /\ n = 1
       /\ opener = Top
       /\ vc[Top].kind \in {"taskList", "taskDetail"}
       /\ data = IF vc[Top].kind = "taskDetail" THEN vc[Top].shown ELSE NoTask

Opens ==
  \E kind, data, opener, n :
    MayOpen(kind, data, opener, n) /\ JumpToScreen(kind, data, opener, n)

Closes ==
  /\ vc[Top].kind \in {"taskDetail", "taskEdit"}
  /\ PopScreen
  /\ UNCHANGED <<vc, alive>>

-----------------------------------------------------------------------------
(* Facts about the operators                                               *)

(* The handlers of RequesterURL call a closure a natural number of times.  *)
LEMMA CountNat ==
  ASSUME NEW calls \in Seq({"success", "error"}), NEW closure
  PROVE  Count(calls, closure) \in Nat
<1> DEFINE hits == {i \in DOMAIN calls : calls[i] = closure}
<1>1. DOMAIN calls = 1..Len(calls) /\ Len(calls) \in Nat
  BY LenProperties
<1>2. IsFiniteSet(1..Len(calls))
  BY <1>1, FS_Interval
<1>3. IsFiniteSet(hits)
  BY <1>1, <1>2, FS_Subset
<1> QED
  BY <1>3, FS_CardinalityType DEF Count

(* Each answer is turned into a sequence of closures.                      *)
LEMMA CallsType ==
  ASSUME NEW body
  PROVE  /\ GetTaskList(body) \in Seq({"success", "error"})
         /\ DeleteTask(body) \in Seq({"success", "error"})
         /\ UpdateTask(body) \in Seq({"success", "error"})
         /\ CreateTask(body) \in Seq({"success", "error"})
<1> DEFINE Calls == Seq({"success", "error"})
<1>1. <<>> \in Calls /\ <<"success">> \in Calls /\ <<"error">> \in Calls
  OBVIOUS
<1>2. GetTaskList(body) \in Calls
  BY <1>1 DEF GetTaskList
<1>3. UpdateTask(body) \in Calls /\ CreateTask(body) \in Calls
  BY <1>1 DEF UpdateTask, CreateTask
<1>4. DeleteTask(body) \in Calls
  <2> DEFINE first == IF TwoBytes(body) THEN <<"success">> ELSE <<>>
             second == IF ~Decodes(body) THEN <<>>
                       ELSE IF body = "message" THEN <<"error">>
                       ELSE <<"success">>
  <2>1. first \in Calls /\ second \in Calls
    BY <1>1
  <2>2. first \o second \in Calls
    BY <2>1, ConcatProperties
  <2> QED
    BY <2>2 DEF DeleteTask
<1> QED
  BY <1>2, <1>3, <1>4

(* What jumpToScreen does to the heap, the stack and the coordinator's     *)
(* list: the old entries stay, the new ones are as asked.                  *)
JumpEffect(kind, data, opener, n) ==
  /\ vc' \in Seq(Controller)
  /\ Len(vc') = Len(vc) + n
  /\ \A c \in 1..Len(vc) : vc'[c] = vc[c]
  /\ \A c \in Len(vc) + 1 .. Len(vc) + n :
       vc'[c] = MakeScreen(kind, data, opener)
  /\ stack' \in Seq(1..Len(vc'))
  /\ Len(stack') = Len(stack) + n
  /\ \A i \in 1..Len(stack) : stack'[i] = stack[i]
  /\ \A i \in Len(stack) + 1 .. Len(stack) + n :
       stack'[i] = Len(vc) + (i - Len(stack))
  /\ navigationScreens' \in Seq(Screen)
  /\ Len(navigationScreens') = Len(navigationScreens) + n
  /\ \A i \in 1..Len(stack) :
       navigationScreens'[i] = navigationScreens[i]
  /\ \A i \in Len(stack) + 1 .. Len(stack) + n :
       navigationScreens'[i] = [kind |-> kind, data |-> data]

(* jumpToScreen has this effect.                                           *)
LEMMA JumpExtends ==
  ASSUME TypeOK, ScreensMirrorStack,
         NEW kind \in Kind, NEW data \in Tasks \cup {NoTask},
         NEW opener \in Nat, NEW n \in Nat,
         JumpToScreen(kind, data, opener, n)
  PROVE  JumpEffect(kind, data, opener, n)
<1> DEFINE places == [i \in 1..n |-> Len(vc) + i]
           screens == [i \in 1..n |-> [kind |-> kind, data |-> data]]
           made == [i \in 1..n |-> MakeScreen(kind, data, opener)]
<1>1. Len(vc) \in Nat /\ Len(stack) \in Nat /\ Len(navigationScreens) = Len(stack)
  BY LenProperties DEF TypeOK, ScreensMirrorStack
<1>2. MakeScreen(kind, data, opener) \in Controller
  BY DEF MakeScreen, SetEventHandler, SetModel, StartVC, Controller
<1>3. made \in Seq(Controller) /\ Len(made) = n
  <2>1. made \in [1..n -> Controller]
    BY <1>2
  <2> QED
    BY <2>1, SeqDef, LenProperties
<1>4. screens \in Seq(Screen) /\ Len(screens) = n
  <2>1. screens \in [1..n -> Screen]
    BY DEF Screen
  <2> QED
    BY <2>1, SeqDef, LenProperties
<1>5. places \in Seq(1..Len(vc) + n) /\ Len(places) = n
  <2>1. places \in [1..n -> 1..Len(vc) + n]
    BY <1>1
  <2> QED
    BY <2>1, SeqDef, LenProperties
<1>6. stack \in Seq(1..Len(vc) + n)
  BY <1>1, SeqMonotonic DEF TypeOK
<1> HIDE DEF places, screens, made
<1>7. /\ vc' \in Seq(Controller)
      /\ Len(vc') = Len(vc) + n
      /\ \A c \in 1..Len(vc) : vc'[c] = vc[c]
      /\ \A c \in Len(vc) + 1 .. Len(vc) + n :
              vc'[c] = MakeScreen(kind, data, opener)
  <2>1. vc' = vc \o made
    BY DEF JumpToScreen, made
  <2>2. vc \in Seq(Controller)
    BY DEF TypeOK
  <2>3. /\ vc' \in Seq(Controller)
        /\ Len(vc') = Len(vc) + n
        /\ \A c \in 1..Len(vc) + n :
             vc'[c] = IF c <= Len(vc) THEN vc[c] ELSE made[c - Len(vc)]
    BY <2>1, <2>2, <1>3, ConcatProperties
  <2>4. \A i \in 1..n : made[i] = MakeScreen(kind, data, opener)
    BY DEF made
  <2> QED
    BY <2>3, <2>4, <1>1
<1>8. /\ stack' \in Seq(1..Len(vc) + n)
      /\ Len(stack') = Len(stack) + n
      /\ \A i \in 1..Len(stack) : stack'[i] = stack[i]
      /\ \A i \in Len(stack) + 1 .. Len(stack) + n :
              stack'[i] = Len(vc) + (i - Len(stack))
  <2>1. stack' = stack \o places
    BY DEF JumpToScreen, places
  <2>2. /\ stack' \in Seq(1..Len(vc) + n)
        /\ Len(stack') = Len(stack) + n
        /\ \A i \in 1..Len(stack) + n :
             stack'[i] = IF i <= Len(stack) THEN stack[i]
                         ELSE places[i - Len(stack)]
    BY <2>1, <1>5, <1>6, ConcatProperties
  <2>3. \A i \in 1..n : places[i] = Len(vc) + i
    BY DEF places
  <2>4. \A i \in Len(stack) + 1 .. Len(stack) + n :
          i - Len(stack) \in 1..n /\ i \in 1..Len(stack) + n /\ ~(i <= Len(stack))
    BY <1>1
  <2>5. \A i \in 1..Len(stack) : i \in 1..Len(stack) + n /\ i <= Len(stack)
    BY <1>1
  <2> QED
    BY <2>2, <2>3, <2>4, <2>5
<1>9. /\ navigationScreens' \in Seq(Screen)
      /\ Len(navigationScreens') = Len(navigationScreens) + n
      /\ \A i \in 1..Len(stack) : navigationScreens'[i] = navigationScreens[i]
      /\ \A i \in Len(stack) + 1 .. Len(stack) + n :
              navigationScreens'[i] = [kind |-> kind, data |-> data]
  <2>1. navigationScreens' = navigationScreens \o screens
    BY DEF JumpToScreen, screens
  <2>2. navigationScreens \in Seq(Screen)
    BY DEF TypeOK
  <2>10. /\ navigationScreens' \in Seq(Screen)
         /\ Len(navigationScreens') = Len(navigationScreens) + Len(screens)
         /\ \A i \in 1..Len(navigationScreens) + Len(screens) :
              navigationScreens'[i] =
                IF i <= Len(navigationScreens) THEN navigationScreens[i]
                ELSE screens[i - Len(navigationScreens)]
    BY <2>1, <2>2, <1>4, ConcatProperties
  <2>3. /\ navigationScreens' \in Seq(Screen)
        /\ Len(navigationScreens') = Len(navigationScreens) + n
        /\ \A i \in 1..Len(stack) + n :
             navigationScreens'[i] = IF i <= Len(stack) THEN navigationScreens[i]
                                     ELSE screens[i - Len(stack)]
    BY <2>10, <1>1, <1>4
  <2>4. \A i \in 1..n : screens[i] = [kind |-> kind, data |-> data]
    BY DEF screens
  <2>5. \A i \in Len(stack) + 1 .. Len(stack) + n :
          i - Len(stack) \in 1..n /\ i \in 1..Len(stack) + n /\ ~(i <= Len(stack))
    BY <1>1
  <2>6. \A i \in 1..Len(stack) : i \in 1..Len(stack) + n /\ i <= Len(stack)
    BY <1>1
  <2>7. \A i \in 1..Len(stack) : navigationScreens'[i] = navigationScreens[i]
    BY <2>3, <2>6
  <2>8. \A i \in Len(stack) + 1 .. Len(stack) + n :
          navigationScreens'[i] = screens[i - Len(stack)]
    BY <2>3, <2>5
  <2>9. \A i \in Len(stack) + 1 .. Len(stack) + n :
          screens[i - Len(stack)] = [kind |-> kind, data |-> data]
    BY <2>4, <2>5, Zenon
  <2> QED
    BY <2>3, <2>7, <2>8, <2>9, Zenon
<1> QED
  BY <1>7, <1>8, <1>9 DEF JumpEffect

-----------------------------------------------------------------------------
(* The inductive invariant                                                 *)

(* Copy numbers count the requests in flight, so there are finitely many.  *)
FiniteRequests == IsFiniteSet(inFlight)

(* A detail or an edit screen was opened by a controller in the heap.      *)
OpenersExist ==
  \A c \in 1..Len(vc) :
    vc[c].kind \in {"taskDetail", "taskEdit"} => vc[c].opener \in 1..Len(vc)

IInv ==
  /\ TypeOK
  /\ FiniteRequests
  /\ ScreensMirrorStack
  /\ BackReturnsToOpener
  /\ ScreensAgreeOnTask
  /\ OpenersExist

(* The parts of TypeOK and FiniteRequests the shape of a step says nothing *)
(* about.                                                                  *)
RestOK ==
  /\ alive \subseteq 1..Len(vc)
  /\ inFlight \subseteq Request
  /\ \A r \in inFlight : r.from \in 1..Len(vc)
  /\ FiniteRequests
  /\ alert \in 0..Len(vc)

LEMMA TopType ==
  ASSUME TypeOK
  PROVE  /\ Len(vc) \in Nat
         /\ Len(stack) \in Nat \ {0}
         /\ Top \in 1..Len(vc)
         /\ vc[Top] \in Controller
<1>1. Len(vc) \in Nat /\ Len(stack) \in Nat \ {0}
  BY LenProperties, EmptySeq DEF TypeOK
<1>2. Top \in 1..Len(vc)
  BY <1>1, ElementOfSeq DEF TypeOK, Top
<1> QED
  BY <1>1, <1>2, ElementOfSeq DEF TypeOK

LEMMA NewRequestType ==
  ASSUME IInv, NEW op \in Op, NEW c \in 1..Len(vc)
  PROVE  NewRequest(op, c) \in Request /\ NewRequest(op, c).from = c
<1>1. Len(vc) \in Nat
  BY TopType DEF IInv
<1>2. Cardinality(Copies(op, c)) \in Nat
  BY FS_Subset, FS_CardinalityType DEF Copies, IInv, FiniteRequests
<1>3. Cardinality(Copies(op, c)) + 1 \in Nat \ {0}
  BY <1>2
<1> QED
  BY <1>1, <1>3 DEF NewRequest, Request

(* The first-page requests of n new task lists come from these lists.      *)
LEMMA PageRequestsType ==
  ASSUME TypeOK, NEW n \in Nat
  PROVE  /\ PageRequests(n) \subseteq Request
         /\ \A r \in PageRequests(n) : r.from \in 1..Len(vc) + n
         /\ IsFiniteSet(PageRequests(n))
<1>1. Len(vc) \in Nat
  BY TopType
<1>2. \A i \in 1..n : [op |-> "page", from |-> Len(vc) + i, copy |-> 1] \in Request
  BY <1>1 DEF Request, Op
<1>3. PageRequests(n) \subseteq Request
  BY <1>2 DEF PageRequests
<1>4. \A r \in PageRequests(n) : r.from \in 1..Len(vc) + n
  BY <1>1 DEF PageRequests
<1>5. IsFiniteSet(PageRequests(n))
  <2> DEFINE f == [i \in 1..n |-> [op |-> "page", from |-> Len(vc) + i, copy |-> 1]]
  <2>1. f \in Surjection(1..n, PageRequests(n))
    BY DEF Surjection, PageRequests
  <2>2. IsFiniteSet(1..n)
    BY FS_Interval
  <2> QED
    BY <2>1, <2>2, FS_Surjection
<1> QED
  BY <1>3, <1>4, <1>5

LEMMA PresentType ==
  ASSUME TypeOK, NEW c \in 1..Len(vc), Present(c)
  PROVE  alert' \in 0..Len(vc)
BY TopType DEF Present, TypeOK

(* An answer that pushes task lists opens screens, and leaves requests in  *)
(* flight that exist.                                                      *)
LEMMA PushShape ==
  ASSUME IInv, NEW r \in inFlight, NEW n \in Nat, PushTaskLists(r, n)
  PROVE  /\ Opens
         /\ Len(vc') = Len(vc) + n
         /\ alive' \subseteq 1..Len(vc')
         /\ inFlight' \subseteq Request
         /\ \A q \in inFlight' : q.from \in 1..Len(vc')
         /\ FiniteRequests'
<1>1. JumpToScreen("taskList", NoTask, r.from, n)
  BY DEF PushTaskLists
<1>2. r.from \in 1..Len(vc) /\ Len(vc) \in Nat
  BY TopType DEF IInv, TypeOK
<1>3. MayOpen("taskList", NoTask, r.from, n)
  BY <1>2 DEF MayOpen, Kind
<1>4. Len(vc') = Len(vc) + n
  <2>1. /\ TypeOK
        /\ ScreensMirrorStack
        /\ "taskList" \in Kind
        /\ NoTask \in Tasks \cup {NoTask}
        /\ r.from \in Nat
    BY <1>2 DEF IInv, Kind
  <2> QED
    BY <2>1, <1>1, JumpExtends DEF JumpEffect
<1>5. alive' \subseteq 1..Len(vc')
  <2>1. alive' = alive \cup (Len(vc) + 1 .. Len(vc) + n)
    BY <1>1 DEF JumpToScreen
  <2>2. alive \subseteq 1..Len(vc)
    BY DEF IInv, TypeOK
  <2>3. 1..Len(vc) \subseteq 1..Len(vc) + n
    BY <1>2
  <2>4. Len(vc) + 1 .. Len(vc) + n \subseteq 1..Len(vc) + n
    BY <1>2
  <2> QED
    BY <2>1, <2>2, <2>3, <2>4, <1>4
<1>6. inFlight' = (inFlight \ {r}) \cup PageRequests(n)
  BY DEF PushTaskLists
<1>7. /\ PageRequests(n) \subseteq Request
       /\ \A q \in PageRequests(n) : q.from \in 1..Len(vc) + n
       /\ IsFiniteSet(PageRequests(n))
  BY PageRequestsType DEF IInv
<1>8. /\ inFlight \subseteq Request
       /\ \A q \in inFlight : q.from \in 1..Len(vc)
       /\ IsFiniteSet(inFlight)
  BY DEF IInv, TypeOK, FiniteRequests
<1>9. inFlight' \subseteq Request /\ \A q \in inFlight' : q.from \in 1..Len(vc')
  BY <1>2, <1>4, <1>6, <1>7, <1>8
<1>10. FiniteRequests'
  <2>1. IsFiniteSet(inFlight \ {r})
    BY <1>8, FS_RemoveElement
  <2>2. IsFiniteSet((inFlight \ {r}) \cup PageRequests(n))
    BY <2>1, <1>7, FS_Union
  <2> QED
    BY <2>2, <1>6 DEF FiniteRequests
<1>11. Opens
  BY <1>1, <1>3 DEF Opens
<1> QED
  BY <1>4, <1>5, <1>9, <1>10, <1>11

-----------------------------------------------------------------------------
(* The actions have the shapes                                             *)

(* A step that changes one controller, and there neither kind, model,      *)
(* shown nor opener, is quiet.                                             *)
LEMMA ExceptQuiet ==
  ASSUME TypeOK, NEW c \in 1..Len(vc), NEW e \in Controller,
         e.kind = vc[c].kind, e.model = vc[c].model,
         e.shown = vc[c].shown, e.opener = vc[c].opener,
         vc' = [vc EXCEPT ![c] = e],
         UNCHANGED <<stack, navigationScreens>>
  PROVE  Quiet
<1>1. /\ vc' \in Seq(Controller)
      /\ Len(vc') = Len(vc)
      /\ \A j \in 1..Len(vc) : vc'[j] = IF j = c THEN e ELSE vc[j]
  BY ExceptSeq DEF TypeOK
<1> QED
  BY <1>1 DEF Quiet

LEMMA UnchangedQuiet ==
  ASSUME TypeOK, UNCHANGED <<stack, navigationScreens, vc>>
  PROVE  Quiet
BY DEF Quiet, TypeOK

LEMMA SubmitShape ==
  ASSUME IInv, NEW op \in Op, NEW weight \in Nat, Submit(op, weight)
  PROVE  Quiet /\ RestOK'
<1> DEFINE e == [vc[Top] EXCEPT !.submitted = @ + weight]
<1>1. TypeOK /\ Top \in 1..Len(vc) /\ vc[Top] \in Controller
  BY TopType DEF IInv
<1>2. /\ e \in Controller
      /\ e.kind = vc[Top].kind /\ e.model = vc[Top].model
      /\ e.shown = vc[Top].shown /\ e.opener = vc[Top].opener
  BY <1>1 DEF Controller
<1>3. vc' = [vc EXCEPT ![Top] = e] /\ UNCHANGED <<stack, navigationScreens>>
  BY DEF Submit
<1>4. Quiet
  <2> HIDE DEF e
  <2> QED
    BY <1>1, <1>2, <1>3, ExceptQuiet
<1>5. NewRequest(op, Top) \in Request /\ NewRequest(op, Top).from = Top
  BY <1>1, NewRequestType
<1>6. inFlight' = inFlight \cup {NewRequest(op, Top)}
  BY DEF Submit
<1>7. FiniteRequests'
  BY <1>6, FS_AddElement DEF IInv, FiniteRequests
<1>8. inFlight' \subseteq Request /\ \A r \in inFlight' : r.from \in 1..Len(vc')
  BY <1>1, <1>4, <1>5, <1>6 DEF Quiet, TypeOK
<1>9. alive' \subseteq 1..Len(vc') /\ alert' \in 0..Len(vc')
  BY <1>1, <1>4 DEF Quiet, TypeOK, Submit
<1> QED
  BY <1>4, <1>7, <1>8, <1>9 DEF RestOK

(* A tap that opens one screen from the screen on display.                 *)
LEMMA OpenShape ==
  ASSUME IInv, NEW kind, NEW data, NEW top, MayOpen(kind, data, top, 1),
         JumpToScreen(kind, data, top, 1), UNCHANGED <<inFlight, alert>>
  PROVE  Opens /\ RestOK'
<1>1. TypeOK /\ Len(vc) \in Nat /\ ScreensMirrorStack
  BY TopType DEF IInv
<1>2. kind \in Kind /\ data \in Tasks \cup {NoTask} /\ top \in Nat
  BY <1>1 DEF MayOpen
<1>3. Len(vc') = Len(vc) + 1
  <2>1. PICK n \in Nat : n = 1
    OBVIOUS
  <2>2. JumpToScreen(kind, data, top, n)
    BY <2>1
  <2>3. Len(vc') = Len(vc) + n
    BY <1>1, <1>2, <2>2, JumpExtends DEF JumpEffect
  <2> QED
    BY <2>1, <2>3
<1>4. Opens
  BY DEF Opens
<1>5. alive' \subseteq 1..Len(vc')
  <2>1. alive' = alive \cup (Len(vc) + 1 .. Len(vc) + 1)
    BY DEF JumpToScreen
  <2>2. alive \subseteq 1..Len(vc)
    BY <1>1 DEF TypeOK
  <2>3. 1..Len(vc) \subseteq 1..Len(vc) + 1
    BY <1>1
  <2>4. Len(vc) + 1 .. Len(vc) + 1 \subseteq 1..Len(vc) + 1
    BY <1>1
  <2> QED
    BY <2>1, <2>2, <2>3, <2>4, <1>3
<1>6. inFlight' \subseteq Request /\ \A r \in inFlight' : r.from \in 1..Len(vc')
  BY <1>1, <1>3 DEF TypeOK
<1>7. FiniteRequests' /\ alert' \in 0..Len(vc')
  BY <1>1, <1>3 DEF TypeOK, IInv, FiniteRequests
<1> QED
  BY <1>4, <1>5, <1>6, <1>7 DEF RestOK

(* An answer whose closures do nothing to the screens.                     *)
LEMMA SilentShape ==
  ASSUME IInv, NEW r \in inFlight, Silent(r)
  PROVE  /\ Quiet
         /\ Len(vc') = Len(vc)
         /\ alive' \subseteq 1..Len(vc')
         /\ inFlight' \subseteq Request
         /\ \A q \in inFlight' : q.from \in 1..Len(vc')
         /\ FiniteRequests'
<1>1. Quiet /\ Len(vc') = Len(vc)
  BY UnchangedQuiet DEF IInv, Silent
<1>2. FiniteRequests'
  BY FS_RemoveElement DEF IInv, Silent, FiniteRequests
<1> QED
  BY <1>1, <1>2 DEF IInv, TypeOK, Silent

(* An answer pushes lists or does nothing to the screens, and may show an  *)
(* alert.                                                                  *)
LEMMA AnswerShape ==
  ASSUME IInv, NEW r \in inFlight, NEW n \in Nat,
         PushTaskLists(r, n) \/ Silent(r),
         Present(r.from) \/ UNCHANGED alert
  PROVE  (Quiet \/ Opens) /\ RestOK'
<1>1. r.from \in 1..Len(vc) /\ TypeOK /\ Len(vc) \in Nat
  BY TopType DEF IInv, TypeOK
<1>2. alert' \in 0..Len(vc)
  BY <1>1, PresentType DEF TypeOK
<1>3. CASE PushTaskLists(r, n)
  <2>1. alert' \in 0..Len(vc')
    BY <1>1, <1>2, <1>3, PushShape
  <2> QED
    BY <1>3, <2>1, PushShape DEF RestOK
<1>4. CASE Silent(r)
  BY <1>4, <1>2, SilentShape DEF RestOK
<1> QED
  BY <1>3, <1>4

(* Every step has one of the three shapes.                                 *)
LEMMA StepShape ==
  ASSUME IInv, Next
  PROVE  (Quiet \/ Opens \/ Closes) /\ RestOK'
<1>1. /\ TypeOK /\ ScreensAgreeOnTask /\ FiniteRequests
      /\ Top \in 1..Len(vc) /\ Len(vc) \in Nat /\ vc[Top] \in Controller
  BY TopType DEF IInv
<1>2. CASE DismissAlert
  BY <1>1, <1>2, UnchangedQuiet
     DEF DismissAlert, NoAlert, RestOK, TypeOK, FiniteRequests
<1>3. CASE LogInPressed
  BY <1>3, SubmitShape DEF LogInPressed, Op
<1>4. CASE InfoPressed
  <2>1. PICK task \in vc[Top].rows : JumpToScreen("taskDetail", task, Top, 1)
    BY <1>4 DEF InfoPressed
  <2>2. PICK top : top = Top
    OBVIOUS
  <2>3. task \in Tasks
    BY <1>1 DEF Controller
  <2>4. MayOpen("taskDetail", task, top, 1)
    BY <1>1, <1>4, <2>2, <2>3 DEF MayOpen, InfoPressed, On, Kind
  <2>5. JumpToScreen("taskDetail", task, top, 1) /\ UNCHANGED <<inFlight, alert>>
    BY <1>4, <2>1, <2>2 DEF InfoPressed
  <2> QED
    BY <2>4, <2>5, OpenShape
<1>5. CASE SortPressed
  <2>1. PICK top : top = Top
    OBVIOUS
  <2>2. MayOpen("login", NoTask, top, 1)
    BY <1>1, <2>1 DEF MayOpen, Kind
  <2>3. JumpToScreen("login", NoTask, top, 1) /\ UNCHANGED <<inFlight, alert>>
    BY <1>5, <2>1 DEF SortPressed
  <2> QED
    BY <2>2, <2>3, OpenShape
<1>6. CASE AddTaskPressed
  <2>1. PICK top : top = Top
    OBVIOUS
  <2>2. MayOpen("taskEdit", NoTask, top, 1)
    BY <1>1, <1>6, <2>1 DEF MayOpen, AddTaskPressed, On, Kind
  <2>3. JumpToScreen("taskEdit", NoTask, top, 1) /\ UNCHANGED <<inFlight, alert>>
    BY <1>6, <2>1 DEF AddTaskPressed
  <2> QED
    BY <2>2, <2>3, OpenShape
<1>7. CASE EditPressed
  <2>1. PICK top : top = Top
    OBVIOUS
  <2>2. PICK data : data = vc[Top].shown
    OBVIOUS
  <2>3. data \in Tasks \cup {NoTask}
    BY <1>1, <2>2 DEF Controller
  <2>4. MayOpen("taskEdit", data, top, 1)
    BY <1>1, <1>7, <2>1, <2>2, <2>3 DEF MayOpen, EditPressed, On, Kind
  <2>5. JumpToScreen("taskEdit", data, top, 1) /\ UNCHANGED <<inFlight, alert>>
    BY <1>7, <2>1, <2>2 DEF EditPressed
  <2> QED
    BY <2>4, <2>5, OpenShape
<1>8. CASE BackPressed
  <2>1. Closes
    BY <1>8 DEF BackPressed, Closes, On
  <2> QED
    BY <1>1, <1>8, <2>1 DEF BackPressed, RestOK, TypeOK, FiniteRequests
<1>9. CASE DeletePressed
  <2>1. CASE vc[Top].shown = NoTask
    <3>1. Present(Top) /\ UNCHANGED <<stack, navigationScreens, vc, alive, inFlight>>
      BY <1>9, <2>1 DEF DeletePressed
    <3>2. PICK top \in 1..Len(vc) : top = Top
      BY <1>1
    <3>3. alert' \in 0..Len(vc)
      BY <1>1, <3>1, <3>2, PresentType
    <3> QED
      BY <1>1, <3>1, <3>3, UnchangedQuiet DEF RestOK, TypeOK, FiniteRequests
  <2>2. CASE vc[Top].shown # NoTask
    BY <1>9, <2>2, SubmitShape DEF DeletePressed, Op
  <2> QED
    BY <2>1, <2>2
<1>10. CASE SavePressed
  BY <1>10, SubmitShape DEF SavePressed, Op
<1>11. CASE AnswerNext
  <2>1. PICK r \in inFlight, body \in Bodies :
          \/ LoginAnswered(r, body)
          \/ ListAnswered(r, body)
          \/ PageAnswered(r, body)
          \/ DeleteAnswered(r, body)
          \/ SaveAnswered(r, body)
    BY <1>11 DEF AnswerNext
  <2>2. r.from \in 1..Len(vc) /\ vc[r.from] \in Controller
    BY <1>1, ElementOfSeq DEF TypeOK
  <2>3. CASE LoginAnswered(r, body)
    <3>1. (Present(r.from) \/ UNCHANGED alert)
      BY <2>3 DEF LoginAnswered
    <3>2. CASE Silent(r)
      BY <3>1, <3>2, AnswerShape
    <3>3. CASE ~Silent(r)
      <4>1. /\ inFlight' = (inFlight \ {r}) \cup {NewRequest("list", r.from)}
            /\ UNCHANGED <<stack, navigationScreens, vc, alive>>
        BY <2>3, <3>3 DEF LoginAnswered
      <4>2. /\ NewRequest("list", r.from) \in Request
            /\ NewRequest("list", r.from).from = r.from
        BY <2>2, NewRequestType DEF Op
      <4>3. alert' \in 0..Len(vc)
        BY <1>1, <2>2, <3>1, PresentType DEF TypeOK
      <4>4. FiniteRequests'
        BY <1>1, <4>1, FS_RemoveElement, FS_AddElement DEF FiniteRequests
      <4>5. Quiet
        BY <1>1, <4>1, UnchangedQuiet
      <4> QED
        BY <1>1, <2>2, <4>1, <4>2, <4>3, <4>4, <4>5 DEF RestOK, TypeOK
    <3> QED
      BY <3>2, <3>3
  <2>4. CASE ListAnswered(r, body)
    <3>1. Count(GetTaskList(body), "success") \in Nat
      BY CallsType, CountNat
    <3> QED
      BY <2>4, <3>1, AnswerShape DEF ListAnswered
  <2>5. CASE PageAnswered(r, body)
    <3>1. /\ inFlight' = inFlight \ {r}
          /\ UNCHANGED <<stack, navigationScreens, alive>>
      BY <2>5 DEF PageAnswered
    <3>2. Quiet
      <4>1. CASE UNCHANGED vc
        BY <1>1, <3>1, <4>1, UnchangedQuiet
      <4>2. CASE ~UNCHANGED vc
        <5>1. PICK tasks \in SUBSET Tasks : vc' = [vc EXCEPT ![r.from].rows = tasks]
          BY <2>5, <4>2 DEF PageAnswered
        <5> DEFINE e == [vc[r.from] EXCEPT !.rows = tasks]
        <5>2. /\ e \in Controller
              /\ e.kind = vc[r.from].kind /\ e.model = vc[r.from].model
              /\ e.shown = vc[r.from].shown /\ e.opener = vc[r.from].opener
          BY <2>2 DEF Controller
        <5>3. vc' = [vc EXCEPT ![r.from] = e]
          BY <5>1
        <5> HIDE DEF e
        <5> QED
          BY <1>1, <2>2, <3>1, <5>2, <5>3, ExceptQuiet
      <4> QED
        BY <4>1, <4>2
    <3>3. alert' \in 0..Len(vc)
      BY <1>1, <2>2, <2>5, PresentType DEF PageAnswered, TypeOK
    <3>4. FiniteRequests'
      BY <1>1, <3>1, FS_RemoveElement DEF FiniteRequests
    <3> QED
      BY <1>1, <3>1, <3>2, <3>3, <3>4 DEF RestOK, TypeOK, Quiet
  <2>6. CASE DeleteAnswered(r, body)
    <3>1. Count(DeleteTask(body), "success") \in Nat
      BY CallsType, CountNat
    <3> QED
      BY <2>6, <3>1, AnswerShape DEF DeleteAnswered
  <2>7. CASE SaveAnswered(r, body)
    <3> DEFINE calls == IF vc[r.from].shown = NoTask
                        THEN CreateTask(body) ELSE UpdateTask(body)
    <3>1. PICK n : n = Count(calls, "success")
      OBVIOUS
    <3>2. n \in Nat
      BY <3>1, CallsType, CountNat
    <3>3. PushTaskLists(r, n) \/ Silent(r)
      BY <2>7, <3>1 DEF SaveAnswered
    <3>4. Present(r.from) \/ UNCHANGED alert
      BY <2>7 DEF SaveAnswered
    <3> QED
      BY <3>2, <3>3, <3>4, AnswerShape
  <2> QED
    BY <2>1, <2>3, <2>4, <2>5, <2>6, <2>7
<1>12. CASE \E c \in alive : Deallocate(c)
  <2>1. /\ alive' \subseteq alive
        /\ UNCHANGED <<stack, navigationScreens, vc, inFlight, alert>>
    BY <1>12 DEF Deallocate
  <2> QED
    BY <1>1, <2>1, UnchangedQuiet DEF RestOK, TypeOK, FiniteRequests
<1> QED
  BY <1>2, <1>3, <1>4, <1>5, <1>6, <1>7, <1>8, <1>9, <1>10, <1>11, <1>12
     DEF Next, UserNext

-----------------------------------------------------------------------------
(* The shapes preserve the invariant                                       *)

LEMMA MadeScreen ==
  ASSUME NEW kind, NEW data, NEW opener
  PROVE  /\ MakeScreen(kind, data, opener).kind = kind
         /\ MakeScreen(kind, data, opener).model = data
         /\ MakeScreen(kind, data, opener).shown = data
         /\ MakeScreen(kind, data, opener).opener = opener
BY DEF MakeScreen, SetEventHandler, SetModel, StartVC

(* A back button leaves both lists as they were, one entry shorter and     *)
(* never empty.                                                            *)
LEMMA PopShortens ==
  ASSUME IInv, Closes
  PROVE  /\ stack' \in Seq(1..Len(vc))
         /\ stack' # <<>>
         /\ Len(stack') = Len(stack) - 1
         /\ \A i \in 1..Len(stack') : stack'[i] = stack[i]
         /\ navigationScreens' \in Seq(Screen)
         /\ Len(navigationScreens') = Len(stack) - 1
         /\ \A i \in 1..Len(stack') : navigationScreens'[i] = navigationScreens[i]
         /\ \A i \in 1..Len(stack') : i \in 1..Len(stack)
<1>1. /\ Len(stack) \in Nat \ {0} /\ Len(navigationScreens) = Len(stack)
      /\ stack \in Seq(1..Len(vc)) /\ navigationScreens \in Seq(Screen)
  BY TopType DEF IInv, TypeOK, ScreensMirrorStack
<1>2. Len(stack) > 1
  BY <1>1 DEF IInv, BackReturnsToOpener, Closes, Top
<1>3. /\ \A i \in 1..Len(stack) - 1 : stack[i] \in 1..Len(vc)
      /\ \A i \in 1..Len(stack) - 1 : navigationScreens[i] \in Screen
  BY <1>1, ElementOfSeq
<1>4. /\ stack' = SubSeq(stack, 1, Len(stack) - 1)
      /\ navigationScreens' = SubSeq(navigationScreens, 1, Len(stack) - 1)
  BY <1>1 DEF Closes, PopScreen
<1>5. /\ stack' \in Seq(1..Len(vc))
      /\ Len(stack') = Len(stack) - 1
      /\ \A i \in 1..Len(stack') : stack'[i] = stack[i]
  BY <1>1, <1>2, <1>3, <1>4, SubSeqProperties
<1>6. /\ navigationScreens' \in Seq(Screen)
      /\ Len(navigationScreens') = Len(stack) - 1
      /\ \A i \in 1..Len(stack) - 1 : navigationScreens'[i] = navigationScreens[i]
  BY <1>1, <1>2, <1>3, <1>4, SubSeqProperties
<1>7. stack' # <<>>
  BY <1>1, <1>2, <1>5
<1> QED
  BY <1>1, <1>5, <1>6, <1>7

LEMMA InitIInv == Init => IInv
<1> SUFFICES ASSUME Init PROVE IInv
  OBVIOUS
<1>1. MakeScreen("login", NoTask, 0) \in Controller
  BY DEF MakeScreen, SetEventHandler, SetModel, StartVC, Controller, Kind
<1>2. vc = <<MakeScreen("login", NoTask, 0)>> /\ stack = <<1>>
  BY DEF Init
<1>3. Len(vc) = 1 /\ Len(stack) = 1 /\ vc[1] = MakeScreen("login", NoTask, 0) /\ stack[1] = 1
  BY <1>2
<1>4. vc[1].kind = "login" /\ vc[1].model = NoTask
  BY <1>3, MadeScreen
<1>5. vc \in Seq(Controller) /\ stack \in Seq(1..Len(vc)) /\ stack # <<>>
  BY <1>1, <1>2, <1>3
<1>6. navigationScreens \in Seq(Screen)
  BY DEF Init, Screen, Kind
<1>7. TypeOK
  BY <1>3, <1>5, <1>6 DEF TypeOK, Init, NoAlert
<1>8. FiniteRequests
  BY FS_EmptySet DEF Init, FiniteRequests
<1>9. ScreensMirrorStack
  <2>1. /\ Len(navigationScreens) = 1 /\ navigationScreens[1].kind = "login"
        /\ navigationScreens[1].data = NoTask
    BY DEF Init
  <2> QED
    BY <2>1, <1>3, <1>4 DEF ScreensMirrorStack
<1>10. BackReturnsToOpener
  BY <1>3, <1>4 DEF BackReturnsToOpener
<1>11. ScreensAgreeOnTask /\ OpenersExist
  BY <1>3, <1>4 DEF ScreensAgreeOnTask, OpenersExist
<1> QED
  BY <1>7, <1>8, <1>9, <1>10, <1>11 DEF IInv

LEMMA QuietIInv ==
  ASSUME IInv, Quiet, RestOK'
  PROVE  IInv'
<1>1. TypeOK' /\ FiniteRequests'
  BY DEF IInv, Quiet, RestOK, TypeOK
<1>2. \A i \in 1..Len(stack) : stack[i] \in 1..Len(vc)
  BY ElementOfSeq DEF IInv, TypeOK
<1>3. ScreensMirrorStack'
  BY <1>2 DEF IInv, Quiet, ScreensMirrorStack
<1>4. BackReturnsToOpener'
  <2>1. \A i \in 1..Len(stack) : i > 1 => i - 1 \in 1..Len(stack)
    BY TopType DEF IInv
  <2> QED
    BY <1>2, <2>1, SMTT(30) DEF IInv, Quiet, BackReturnsToOpener
<1>5. OpenersExist'
  BY DEF IInv, Quiet, OpenersExist
<1>6. ScreensAgreeOnTask'
  BY DEF IInv, Quiet, ScreensAgreeOnTask, OpenersExist
<1> QED
  BY <1>1, <1>3, <1>4, <1>5, <1>6 DEF IInv

LEMMA ClosesIInv ==
  ASSUME IInv, Closes, RestOK'
  PROVE  IInv'
<1>1. vc' = vc
  BY DEF Closes
<1>2. TypeOK' /\ FiniteRequests'
  BY <1>1, PopShortens DEF IInv, RestOK, TypeOK
<1>3. ScreensMirrorStack'
  BY <1>1, PopShortens DEF IInv, ScreensMirrorStack
<1>4. BackReturnsToOpener'
  <2>1. Len(stack) \in Nat
    BY TopType DEF IInv
  <2>2. \A i \in 1..Len(stack') : i > 1 => i - 1 \in 1..Len(stack')
    BY <2>1, PopShortens
  <2> QED
    BY <1>1, <2>2, PopShortens DEF IInv, BackReturnsToOpener
<1>5. OpenersExist' /\ ScreensAgreeOnTask'
  BY <1>1 DEF IInv, OpenersExist, ScreensAgreeOnTask
<1> QED
  BY <1>2, <1>3, <1>4, <1>5 DEF IInv

LEMMA OpensIInv ==
  ASSUME IInv, Opens, RestOK'
  PROVE  IInv'
<1>1. PICK kind, data, opener, n :
        MayOpen(kind, data, opener, n) /\ JumpToScreen(kind, data, opener, n)
  BY DEF Opens
<1>2. /\ Len(vc) \in Nat /\ Len(stack) \in Nat \ {0} /\ n \in Nat
      /\ kind \in Kind /\ data \in Tasks \cup {NoTask}
      /\ opener \in 1..Len(vc) /\ opener \in Nat
      /\ TypeOK /\ ScreensMirrorStack
  BY <1>1, TopType DEF MayOpen, IInv
<1> DEFINE new == MakeScreen(kind, data, opener)
<1>3. new.kind = kind /\ new.model = data /\ new.shown = data /\ new.opener = opener
  BY MadeScreen
<1> HIDE DEF new
<1>16. JumpEffect(kind, data, opener, n)
  BY <1>1, <1>2, JumpExtends
<1>4. /\ vc' \in Seq(Controller)
      /\ Len(vc') = Len(vc) + n
      /\ \A c \in 1..Len(vc) : vc'[c] = vc[c]
      /\ \A c \in Len(vc) + 1 .. Len(vc) + n : vc'[c] = new
  BY <1>16 DEF new, JumpEffect
<1>5. /\ stack' \in Seq(1..Len(vc'))
      /\ Len(stack') = Len(stack) + n
      /\ \A i \in 1..Len(stack) : stack'[i] = stack[i]
      /\ \A i \in Len(stack) + 1 .. Len(stack) + n :
           stack'[i] = Len(vc) + (i - Len(stack))
  BY <1>16 DEF JumpEffect
<1>6. /\ navigationScreens' \in Seq(Screen)
      /\ Len(navigationScreens') = Len(stack) + n
      /\ \A i \in 1..Len(stack) : navigationScreens'[i] = navigationScreens[i]
      /\ \A i \in Len(stack) + 1 .. Len(stack) + n :
           navigationScreens'[i] = [kind |-> kind, data |-> data]
  BY <1>2, <1>16 DEF JumpEffect, ScreensMirrorStack
<1>7. \A i \in 1..Len(stack) : stack[i] \in 1..Len(vc) /\ vc'[stack'[i]] = vc[stack[i]]
  BY <1>2, <1>4, <1>5, ElementOfSeq DEF TypeOK
<1>8. \A i \in Len(stack) + 1 .. Len(stack) + n : vc'[stack'[i]] = new
  <2>1. \A i \in Len(stack) + 1 .. Len(stack) + n :
          Len(vc) + (i - Len(stack)) \in Len(vc) + 1 .. Len(vc) + n
    BY <1>2
  <2> QED
    BY <2>1, <1>4, <1>5
<1>9. \A i \in 1..Len(stack) + n :
        i \in 1..Len(stack) \/ i \in Len(stack) + 1 .. Len(stack) + n
  BY <1>2
<1>10. \A c \in 1..Len(vc) + n :
         c \in 1..Len(vc) \/ c \in Len(vc) + 1 .. Len(vc) + n
  BY <1>2
<1>11. TypeOK' /\ FiniteRequests'
  <2>1. stack' # <<>>
    BY <1>2, <1>5, EmptySeq
  <2> QED
    BY <2>1, <1>4, <1>5, <1>6 DEF TypeOK, RestOK
<1>12. ScreensMirrorStack'
  <2>1. ASSUME NEW i \in 1..Len(stack')
        PROVE  /\ navigationScreens'[i].kind = vc'[stack'[i]].kind
               /\ navigationScreens'[i].data = vc'[stack'[i]].model
    <3>1. CASE i \in 1..Len(stack)
      BY <3>1, <1>2, <1>6, <1>7 DEF ScreensMirrorStack
    <3>2. CASE i \in Len(stack) + 1 .. Len(stack) + n
      BY <3>2, <1>3, <1>6, <1>8
    <3> QED
      BY <3>1, <3>2, <1>5, <1>9
  <2>2. Len(navigationScreens') = Len(stack')
    BY <1>5, <1>6
  <2> QED
    BY <2>1, <2>2 DEF ScreensMirrorStack
<1>13. BackReturnsToOpener'
  <2> SUFFICES ASSUME NEW i \in 1..Len(stack'),
                      vc'[stack'[i]].kind \in {"taskDetail", "taskEdit"}
               PROVE  /\ i > 1
                      /\ stack'[i - 1] = vc'[stack'[i]].opener
                      /\ vc'[stack'[i - 1]].kind \in
                           IF vc'[stack'[i]].kind = "taskDetail"
                           THEN {"taskList"} ELSE {"taskList", "taskDetail"}
    BY DEF BackReturnsToOpener
  <2>1. CASE i \in 1..Len(stack)
    <3>1. /\ i > 1
          /\ stack[i - 1] = vc[stack[i]].opener
          /\ vc[stack[i - 1]].kind \in
               IF vc[stack[i]].kind = "taskDetail"
               THEN {"taskList"} ELSE {"taskList", "taskDetail"}
      BY <2>1, <1>7 DEF IInv, BackReturnsToOpener
    <3>2. i - 1 \in 1..Len(stack)
      BY <2>1, <3>1, <1>2
    <3> QED
      BY <2>1, <3>1, <3>2, <1>5, <1>7
  <2>2. CASE i \in Len(stack) + 1 .. Len(stack) + n
    <3>1. kind \in {"taskDetail", "taskEdit"}
      BY <2>2, <1>3, <1>8
    <3>2. n = 1 /\ opener = Top
      BY <3>1, <1>1 DEF MayOpen
    <3>3. i = Len(stack) + 1
      BY <2>2, <3>2, <1>2
    <3>4. stack'[i - 1] = Top /\ i - 1 \in 1..Len(stack)
      BY <3>3, <1>2, <1>5 DEF Top
    <3>5. vc'[stack'[i - 1]] = vc[Top]
      BY <3>3, <3>4, <1>2, <1>7 DEF Top
    <3>6. vc[Top].kind \in IF kind = "taskDetail"
                           THEN {"taskList"} ELSE {"taskList", "taskDetail"}
      BY <3>1, <1>1 DEF MayOpen
    <3> QED
      BY <2>2, <3>2, <3>3, <3>4, <3>5, <3>6, <1>2, <1>3, <1>8
  <2> QED
    BY <2>1, <2>2, <1>5, <1>9
<1>14. OpenersExist'
  <2> SUFFICES ASSUME NEW c \in 1..Len(vc'),
                      vc'[c].kind \in {"taskDetail", "taskEdit"}
               PROVE  vc'[c].opener \in 1..Len(vc')
    BY DEF OpenersExist
  <2>1. CASE c \in 1..Len(vc)
    <3>1. vc[c].opener \in 1..Len(vc) /\ vc'[c] = vc[c]
      BY <2>1, <1>4 DEF IInv, OpenersExist
    <3> QED
      BY <3>1, <1>2, <1>4
  <2>2. CASE c \in Len(vc) + 1 .. Len(vc) + n
    BY <2>2, <1>2, <1>3, <1>4
  <2> QED
    BY <2>1, <2>2, <1>4, <1>10
<1>15. ScreensAgreeOnTask'
  <2> SUFFICES ASSUME NEW c \in 1..Len(vc')
               PROVE  /\ vc'[c].kind = "taskDetail" => vc'[c].shown \in Tasks
                      /\ vc'[c].kind = "taskEdit" =>
                           vc'[c].shown =
                             IF vc'[vc'[c].opener].kind = "taskDetail"
                             THEN vc'[vc'[c].opener].shown ELSE NoTask
    BY DEF ScreensAgreeOnTask
  <2>1. CASE c \in 1..Len(vc)
    <3>1. vc'[c] = vc[c]
      BY <2>1, <1>4
    <3>2. vc[c].kind = "taskEdit" => vc'[vc[c].opener] = vc[vc[c].opener]
      BY <2>1, <1>4 DEF IInv, OpenersExist
    <3> QED
      BY <2>1, <3>1, <3>2 DEF IInv, ScreensAgreeOnTask
  <2>2. CASE c \in Len(vc) + 1 .. Len(vc) + n
    <3>1. vc'[c] = new /\ vc'[opener] = vc[opener]
      BY <2>2, <1>2, <1>4
    <3> QED
      BY <3>1, <1>1, <1>3 DEF MayOpen
  <2> QED
    BY <2>1, <2>2, <1>4, <1>10
<1> QED
  BY <1>11, <1>12, <1>13, <1>14, <1>15 DEF IInv

-----------------------------------------------------------------------------
(* The theorems                                                            *)

LEMMA UnchangedIInv ==
  ASSUME IInv, UNCHANGED vars
  PROVE  IInv'
BY DEF vars, IInv, TypeOK, FiniteRequests, ScreensMirrorStack,
       BackReturnsToOpener, ScreensAgreeOnTask, OpenersExist

(* The invariant holds in every reachable state.                           *)
THEOREM Invariance == Spec => []IInv
<1>1. IInv /\ [Next]_vars => IInv'
  <2> SUFFICES ASSUME IInv, [Next]_vars PROVE IInv'
    OBVIOUS
  <2>1. CASE Next
    BY <2>1, StepShape, QuietIInv, OpensIInv, ClosesIInv
  <2>2. CASE UNCHANGED vars
    BY <2>2, UnchangedIInv
  <2> QED
    BY <2>1, <2>2
<1> QED
  BY <1>1, InitIInv, PTL DEF Spec

(* Type correctness: in particular the stack is never empty, so the        *)
(* coordinator never pops its last screen.                                 *)
THEOREM TypeCorrect == Spec => []TypeOK
<1>1. IInv => TypeOK
  BY DEF IInv
<1> QED
  BY <1>1, Invariance, PTL

(* The coordinator's list of screens and the navigation controller never   *)
(* disagree, however many screens and answers there are.                   *)
THEOREM MirrorCorrect == Spec => []ScreensMirrorStack
<1>1. IInv => ScreensMirrorStack
  BY DEF IInv
<1> QED
  BY <1>1, Invariance, PTL

(* The back button of a detail or an edit screen leads to the screen whose *)
(* event opened it.                                                        *)
THEOREM BackCorrect == Spec => []BackReturnsToOpener
<1>1. IInv => BackReturnsToOpener
  BY DEF IInv
<1> QED
  BY <1>1, Invariance, PTL

(* A detail shows a task, and an edit screen the task of the detail it was *)
(* opened from, or none.                                                   *)
THEOREM TaskCorrect == Spec => []ScreensAgreeOnTask
<1>1. IInv => ScreensAgreeOnTask
  BY DEF IInv
<1> QED
  BY <1>1, Invariance, PTL

(* No step moves or removes a screen at or below a login or a task list:   *)
(* the screens an answer has buried stay buried.                           *)
THEOREM RootsCorrect == Spec => RootsStay
<1> DEFINE Stays(i) == i <= Len(stack') /\ stack'[i] = stack[i]
<1>1. IInv /\ [Next]_vars => [\A r \in Roots : \A i \in 1..r : Stays(i)]_vars
  <2> SUFFICES ASSUME IInv, Next, NEW r \in Roots, NEW i \in 1..r
               PROVE  Stays(i)
    OBVIOUS
  <2>1. /\ r \in 1..Len(stack) /\ i \in 1..Len(stack)
        /\ Len(stack) \in Nat
        /\ vc[stack[r]].kind \in {"login", "taskList"}
    BY TopType DEF Roots, IInv
  <2>2. CASE Quiet
    BY <2>1, <2>2 DEF Quiet
  <2>3. CASE Opens
    <3>1. PICK kind, data, opener, n :
            MayOpen(kind, data, opener, n) /\ JumpToScreen(kind, data, opener, n)
      BY <2>3 DEF Opens
    <3> DEFINE places == [k \in 1..n |-> Len(vc) + k]
    <3>2. stack \in Seq(Nat) /\ Len(vc) \in Nat /\ n \in Nat
      BY <3>1, TopType, SeqMonotonic DEF IInv, TypeOK, MayOpen
    <3>3. places \in Seq(Nat) /\ Len(places) = n
      <4>1. places \in [1..n -> Nat]
        BY <3>2
      <4> QED
        BY <3>2, <4>1, SeqDef
    <3>4. stack' = stack \o places
      BY <3>1 DEF JumpToScreen
    <3> HIDE DEF places
    <3> QED
      BY <2>1, <3>2, <3>3, <3>4
  <2>4. CASE Closes
    <3>1. r # Len(stack)
      BY <2>1, <2>4 DEF Closes, Top
    <3>2. stack' = SubSeq(stack, 1, Len(stack) - 1)
      BY <2>4 DEF Closes, PopScreen
    <3>3. stack \in Seq(1..Len(vc))
      BY DEF IInv, TypeOK
    <3>4. i \in 1..Len(stack) - 1
      BY <2>1, <3>1
    <3> QED
      BY <2>1, <3>2, <3>3, <3>4
  <2> QED
    BY <2>2, <2>3, <2>4, StepShape
<1> QED
  BY <1>1, Invariance, PTL DEF Spec, RootsStay

-----------------------------------------------------------------------------
(* Who opens screens                                                       *)

(* Every screen on the stack is alive; no login screen ever leaves the     *)
(* stack; and the requests whose answers are handled by the coordinator    *)
(* alone, which does not ask whether their controller lives, are those of  *)
(* login screens.                                                          *)
StackAlive == \A i \in 1..Len(stack) : stack[i] \in alive

LoginsStay ==
  \A c \in 1..Len(vc) :
    vc[c].kind = "login" => \E i \in 1..Len(stack) : stack[i] = c

LoginsAsk ==
  \A r \in inFlight : r.op \in {"login", "list"} => vc[r.from].kind = "login"

OwnersInv == IInv /\ StackAlive /\ LoginsStay /\ LoginsAsk

(* On whose behalf a screen may be opened: the screen on display, a        *)
(* controller that is alive, or one that asked for the list.               *)
MayAsk(c) ==
  c = Top \/ c \in alive \/ \E r \in inFlight : r.op = "list" /\ r.from = c

(* A step opens no screen, or opens them on behalf of a controller that    *)
(* may ask.                                                                *)
LEMMA OpenedFor ==
  ASSUME IInv, Next
  PROVE  \/ Len(vc') = Len(vc)
         \/ \E kind, data, opener, n :
              /\ MayOpen(kind, data, opener, n)
              /\ JumpToScreen(kind, data, opener, n)
              /\ MayAsk(opener)
<1> DEFINE Opened == \E kind, data, opener, n :
                       /\ MayOpen(kind, data, opener, n)
                       /\ JumpToScreen(kind, data, opener, n)
                       /\ MayAsk(opener)
<1>1. /\ TypeOK /\ Top \in 1..Len(vc) /\ Len(vc) \in Nat /\ vc[Top] \in Controller
  BY TopType DEF IInv
<1>2. CASE DismissAlert \/ BackPressed
  BY <1>2 DEF DismissAlert, BackPressed
<1>3. ASSUME NEW c \in 1..Len(vc), NEW e, vc' = [vc EXCEPT ![c] = e]
      PROVE  Len(vc') = Len(vc)
  BY <1>1, <1>3 DEF TypeOK
<1>4. ASSUME NEW op, NEW weight, Submit(op, weight)
      PROVE  Len(vc') = Len(vc)
  BY <1>1, <1>3, <1>4 DEF Submit
<1>5. CASE LogInPressed \/ SavePressed \/ DeletePressed
  BY <1>4, <1>5 DEF LogInPressed, SavePressed, DeletePressed
<1>6. CASE InfoPressed
  <2>1. PICK task \in vc[Top].rows : JumpToScreen("taskDetail", task, Top, 1)
    BY <1>6 DEF InfoPressed
  <2>2. task \in Tasks
    BY <1>1 DEF Controller
  <2>3. MayOpen("taskDetail", task, Top, 1) /\ MayAsk(Top)
    BY <1>1, <1>6, <2>2 DEF MayOpen, MayAsk, InfoPressed, On, Kind
  <2> QED
    BY <2>1, <2>3
<1>7. CASE SortPressed
  <2>1. MayOpen("login", NoTask, Top, 1) /\ MayAsk(Top)
    BY <1>1 DEF MayOpen, MayAsk, Kind
  <2> QED
    BY <1>7, <2>1 DEF SortPressed
<1>8. CASE AddTaskPressed
  <2>1. MayOpen("taskEdit", NoTask, Top, 1) /\ MayAsk(Top)
    BY <1>1, <1>8 DEF MayOpen, MayAsk, AddTaskPressed, On, Kind
  <2> QED
    BY <1>8, <2>1 DEF AddTaskPressed
<1>9. CASE EditPressed
  <2>1. vc[Top].shown \in Tasks \cup {NoTask}
    BY <1>1 DEF Controller
  <2>2. MayOpen("taskEdit", vc[Top].shown, Top, 1) /\ MayAsk(Top)
    BY <1>1, <1>9, <2>1 DEF MayOpen, MayAsk, EditPressed, On, Kind
  <2> QED
    BY <1>9, <2>2 DEF EditPressed
<1>10. ASSUME NEW r \in inFlight, NEW n \in Nat, PushTaskLists(r, n),
              r.from \in alive \/ r.op = "list"
       PROVE  Opened
  <2>1. r.from \in 1..Len(vc)
    BY <1>1 DEF TypeOK
  <2>2. MayOpen("taskList", NoTask, r.from, n) /\ MayAsk(r.from)
    BY <2>1, <1>10 DEF MayOpen, MayAsk, Kind
  <2> QED
    BY <1>10, <2>2 DEF PushTaskLists
<1>11. CASE AnswerNext
  <2>1. PICK r \in inFlight, body \in Bodies :
          \/ LoginAnswered(r, body)
          \/ ListAnswered(r, body)
          \/ PageAnswered(r, body)
          \/ DeleteAnswered(r, body)
          \/ SaveAnswered(r, body)
    BY <1>11 DEF AnswerNext
  <2>2. CASE LoginAnswered(r, body)
    BY <2>2 DEF LoginAnswered, Silent
  <2>3. CASE ListAnswered(r, body)
    <3>1. Count(GetTaskList(body), "success") \in Nat
      BY CallsType, CountNat
    <3>2. r.op = "list" /\ PushTaskLists(r, Count(GetTaskList(body), "success"))
      BY <2>3 DEF ListAnswered, Answered
    <3> QED
      BY <3>1, <3>2, <1>10
  <2>4. CASE PageAnswered(r, body)
    <3>1. r.from \in 1..Len(vc)
      BY <1>1 DEF TypeOK
    <3> QED
      BY <2>4, <3>1, <1>3 DEF PageAnswered
  <2>5. CASE DeleteAnswered(r, body)
    <3>1. Count(DeleteTask(body), "success") \in Nat
      BY CallsType, CountNat
    <3> QED
      BY <2>5, <3>1, <1>10 DEF DeleteAnswered, Silent
  <2>6. CASE SaveAnswered(r, body)
    <3>1. PICK calls \in Seq({"success", "error"}) :
            /\ calls = IF vc[r.from].shown = NoTask
                       THEN CreateTask(body) ELSE UpdateTask(body)
      BY CallsType
    <3>2. Count(calls, "success") \in Nat
      BY <3>1, CountNat
    <3> QED
      BY <2>6, <3>1, <3>2, <1>10 DEF SaveAnswered, Silent
  <2> QED
    BY <2>1, <2>2, <2>3, <2>4, <2>5, <2>6
<1>12. CASE \E c \in alive : Deallocate(c)
  BY <1>12 DEF Deallocate
<1> QED
  BY <1>2, <1>5, <1>6, <1>7, <1>8, <1>9, <1>11, <1>12 DEF Next, UserNext

(* A controller is released only while it is off the stack, by a step that *)
(* touches nothing else.                                                   *)
LEMMA Released ==
  ASSUME IInv, Next
  PROVE  \A c \in alive : \/ c \in alive'
                          \/ /\ UNCHANGED <<stack, vc>>
                             /\ \A i \in 1..Len(stack) : stack[i] # c
<1>1. ASSUME NEW r, NEW n, PushTaskLists(r, n)
      PROVE  alive \subseteq alive'
  BY <1>1 DEF PushTaskLists, JumpToScreen
<1>2. CASE UserNext
  <2>1. ASSUME NEW op, NEW weight, Submit(op, weight)
        PROVE  alive \subseteq alive'
    BY <2>1 DEF Submit
  <2> QED
    BY <1>2, <2>1
       DEF UserNext, DismissAlert, LogInPressed, InfoPressed, SortPressed,
           AddTaskPressed, EditPressed, BackPressed, DeletePressed, SavePressed,
           JumpToScreen
<1>3. CASE AnswerNext
  BY <1>3, <1>1 DEF AnswerNext, LoginAnswered, ListAnswered, PageAnswered,
                    DeleteAnswered, SaveAnswered, Silent
<1>4. CASE \E c \in alive : Deallocate(c)
  BY <1>4 DEF Deallocate
<1> QED
  BY <1>2, <1>3, <1>4 DEF Next

(* A login is asked for by a login screen, and a list by the answer to one.*)
LEMMA AskedBy ==
  ASSUME IInv, Next, NEW r \in inFlight', r.op \in {"login", "list"}
  PROVE  \/ r \in inFlight
         \/ r.from = Top /\ vc[Top].kind = "login"
         \/ \E q \in inFlight : q.op = "login" /\ q.from = r.from
<1>1. ASSUME NEW q, NEW n, PushTaskLists(q, n)
      PROVE  r \in inFlight
  BY <1>1 DEF PushTaskLists, PageRequests
<1>2. ASSUME NEW q, Silent(q)
      PROVE  r \in inFlight
  BY <1>2 DEF Silent
<1>3. ASSUME NEW op, NEW weight, Submit(op, weight), r \notin inFlight
      PROVE  r.op = op /\ r.from = Top
  BY <1>3 DEF Submit, NewRequest
<1>4. CASE LogInPressed
  BY <1>3, <1>4 DEF LogInPressed, On
<1>5. CASE DeletePressed \/ SavePressed
  BY <1>3, <1>5 DEF DeletePressed, SavePressed
<1>6. CASE DismissAlert \/ InfoPressed \/ SortPressed \/ AddTaskPressed
             \/ EditPressed \/ BackPressed
  BY <1>6 DEF DismissAlert, InfoPressed, SortPressed, AddTaskPressed,
              EditPressed, BackPressed
<1>7. CASE AnswerNext
  <2>1. PICK q \in inFlight, body \in Bodies :
          \/ LoginAnswered(q, body)
          \/ ListAnswered(q, body)
          \/ PageAnswered(q, body)
          \/ DeleteAnswered(q, body)
          \/ SaveAnswered(q, body)
    BY <1>7 DEF AnswerNext
  <2>2. CASE LoginAnswered(q, body)
    <3>1. CASE inFlight' = (inFlight \ {q}) \cup {NewRequest("list", q.from)}
      BY <2>2, <3>1 DEF LoginAnswered, Answered, NewRequest
    <3> QED
      BY <2>2, <3>1, <1>2 DEF LoginAnswered
  <2>3. CASE ListAnswered(q, body) \/ DeleteAnswered(q, body) \/ SaveAnswered(q, body)
    BY <2>3, <1>1, <1>2 DEF ListAnswered, DeleteAnswered, SaveAnswered
  <2>4. CASE PageAnswered(q, body)
    BY <2>4 DEF PageAnswered
  <2> QED
    BY <2>1, <2>2, <2>3, <2>4
<1>8. CASE \E c \in alive : Deallocate(c)
  BY <1>8 DEF Deallocate
<1> QED
  BY <1>4, <1>5, <1>6, <1>7, <1>8 DEF Next, UserNext

LEMMA OwnersInit == Init => OwnersInv
<1> SUFFICES ASSUME Init PROVE OwnersInv
  OBVIOUS
<1>1. Len(vc) = 1 /\ Len(stack) = 1 /\ stack[1] = 1 /\ alive = {1} /\ inFlight = {}
  BY DEF Init
<1> QED
  BY <1>1, InitIInv DEF OwnersInv, StackAlive, LoginsStay, LoginsAsk

LEMMA OwnersStep ==
  ASSUME OwnersInv, [Next]_vars
  PROVE  OwnersInv'
<1>1. CASE UNCHANGED vars
  <2>1. IInv'
    BY <1>1, UnchangedIInv DEF OwnersInv
  <2> QED
    BY <1>1, <2>1 DEF OwnersInv, StackAlive, LoginsStay, LoginsAsk, vars
<1>2. CASE Next
  <2>1. IInv /\ StackAlive /\ LoginsStay /\ LoginsAsk
    BY DEF OwnersInv
  <2>2. (Quiet \/ Opens \/ Closes) /\ RestOK'
    BY <1>2, <2>1, StepShape
  <2>3. IInv'
    BY <2>1, <2>2, QuietIInv, OpensIInv, ClosesIInv
  <2>4. /\ Len(vc) \in Nat /\ Len(stack) \in Nat \ {0}
        /\ \A i \in 1..Len(stack) : stack[i] \in 1..Len(vc)
        /\ Top \in 1..Len(vc)
        /\ \A r \in inFlight : r.from \in 1..Len(vc)
    BY <2>1, TopType, ElementOfSeq DEF IInv, TypeOK
  <2>5. CASE Quiet
    <3>1. StackAlive'
      BY <1>2, <2>1, <2>5, Released DEF Quiet, StackAlive
    <3>2. LoginsStay'
      BY <2>1, <2>5 DEF Quiet, LoginsStay
    <3>3. LoginsAsk'
      <4> SUFFICES ASSUME NEW r \in inFlight', r.op \in {"login", "list"}
                   PROVE  vc'[r.from].kind = "login"
        BY DEF LoginsAsk
      <4>1. r.from \in 1..Len(vc) /\ vc[r.from].kind = "login"
        BY <1>2, <2>1, <2>4, AskedBy DEF LoginsAsk
      <4> QED
        BY <2>5, <4>1 DEF Quiet
    <3> QED
      BY <2>3, <3>1, <3>2, <3>3 DEF OwnersInv
  <2>6. CASE Opens
    <3>1. PICK kind, data, opener, n :
            MayOpen(kind, data, opener, n) /\ JumpToScreen(kind, data, opener, n)
      BY <2>6 DEF Opens
    <3>2. /\ kind \in Kind /\ data \in Tasks \cup {NoTask}
          /\ opener \in Nat /\ n \in Nat
      BY <2>4, <3>1 DEF MayOpen
    <3>3. JumpEffect(kind, data, opener, n)
      BY <2>1, <3>1, <3>2, JumpExtends DEF IInv
    <3>4. \A c \in Len(vc) + 1 .. Len(vc) + n : c \in alive'
      BY <3>1 DEF JumpToScreen
    <3>5. alive \subseteq alive'
      BY <3>1 DEF JumpToScreen
    <3>6. \A i \in 1..Len(stack) + n :
            \/ i \in 1..Len(stack)
            \/ /\ i \in Len(stack) + 1 .. Len(stack) + n
               /\ Len(vc) + (i - Len(stack)) \in Len(vc) + 1 .. Len(vc) + n
      BY <2>4, <3>2
    <3>7. StackAlive'
      <4> SUFFICES ASSUME NEW i \in 1..Len(stack')
                   PROVE  stack'[i] \in alive'
        BY DEF StackAlive
      <4>1. i \in 1..Len(stack) + n
        BY <3>3 DEF JumpEffect
      <4>2. CASE i \in 1..Len(stack)
        BY <2>1, <3>3, <3>5, <4>2 DEF StackAlive, JumpEffect
      <4>3. CASE i \notin 1..Len(stack)
        <5>1. stack'[i] = Len(vc) + (i - Len(stack))
          BY <3>3, <3>6, <4>1, <4>3 DEF JumpEffect
        <5> QED
          BY <3>4, <3>6, <4>1, <4>3, <5>1
      <4> QED
        BY <4>2, <4>3
    <3>8. LoginsStay'
      <4> SUFFICES ASSUME NEW c \in 1..Len(vc'), vc'[c].kind = "login"
                   PROVE  \E i \in 1..Len(stack') : stack'[i] = c
        BY DEF LoginsStay
      <4>1. CASE c \in 1..Len(vc)
        <5>1. PICK i \in 1..Len(stack) : stack[i] = c
          BY <2>1, <3>3, <4>1 DEF LoginsStay, JumpEffect
        <5>2. i \in 1..Len(stack')
          BY <2>4, <3>2, <3>3, <5>1 DEF JumpEffect
        <5> QED
          BY <3>3, <5>1, <5>2 DEF JumpEffect
      <4>2. CASE c \notin 1..Len(vc)
        <5> DEFINE i == Len(stack) + (c - Len(vc))
        <5>1. /\ i \in Len(stack) + 1 .. Len(stack) + n
              /\ Len(vc) + (i - Len(stack)) = c
          BY <2>4, <3>2, <3>3, <4>2 DEF JumpEffect
        <5>2. i \in 1..Len(stack')
          BY <2>4, <3>2, <3>3, <5>1 DEF JumpEffect
        <5> HIDE DEF i
        <5> QED
          BY <3>3, <5>1, <5>2 DEF JumpEffect
      <4> QED
        BY <4>1, <4>2
    <3>9. LoginsAsk'
      <4> SUFFICES ASSUME NEW r \in inFlight', r.op \in {"login", "list"}
                   PROVE  vc'[r.from].kind = "login"
        BY DEF LoginsAsk
      <4>1. r.from \in 1..Len(vc) /\ vc[r.from].kind = "login"
        BY <1>2, <2>1, <2>4, AskedBy DEF LoginsAsk
      <4> QED
        BY <3>3, <4>1 DEF JumpEffect
    <3> QED
      BY <2>3, <3>7, <3>8, <3>9 DEF OwnersInv
  <2>7. CASE Closes
    <3>1. /\ Len(stack') = Len(stack) - 1
          /\ \A i \in 1..Len(stack') : stack'[i] = stack[i] /\ i \in 1..Len(stack)
      BY <2>1, <2>7, PopShortens
    <3>2. UNCHANGED <<vc, alive>>
      BY <2>7 DEF Closes
    <3>3. StackAlive'
      BY <2>1, <3>1, <3>2 DEF StackAlive
    <3>4. LoginsStay'
      <4> SUFFICES ASSUME NEW c \in 1..Len(vc), vc[c].kind = "login"
                   PROVE  \E i \in 1..Len(stack') : stack'[i] = c
        BY <3>2 DEF LoginsStay
      <4>1. PICK i \in 1..Len(stack) : stack[i] = c
        BY <2>1 DEF LoginsStay
      <4>2. i # Len(stack)
        BY <2>7, <4>1 DEF Closes, Top
      <4>3. i \in 1..Len(stack')
        BY <2>4, <3>1, <4>2
      <4> QED
        BY <3>1, <4>1, <4>3
    <3>5. LoginsAsk'
      BY <1>2, <2>1, <2>4, <3>2, AskedBy DEF LoginsAsk
    <3> QED
      BY <2>3, <3>3, <3>4, <3>5 DEF OwnersInv
  <2> QED
    BY <2>2, <2>5, <2>6, <2>7
<1> QED
  BY <1>1, <1>2

(* A released screen does nothing any more: whatever is opened is opened   *)
(* on behalf of a controller that is alive.                                *)
THEOREM SilentCorrect == Spec => ReleasedStaySilent
<1> DEFINE Silence == \A c \in Len(vc) + 1 .. Len(vc') : vc'[c].opener \in alive
<1>1. OwnersInv /\ [Next]_vars => [Silence]_vars
  <2> SUFFICES ASSUME OwnersInv, Next PROVE Silence
    OBVIOUS
  <2>1. /\ IInv /\ StackAlive /\ LoginsStay /\ LoginsAsk
        /\ Len(vc) \in Nat /\ Len(stack) \in Nat \ {0}
        /\ \A r \in inFlight : r.from \in 1..Len(vc)
    BY TopType DEF OwnersInv, IInv, TypeOK
  <2>2. CASE Len(vc') = Len(vc)
    BY <2>1, <2>2
  <2>3. CASE Len(vc') # Len(vc)
    <3>1. PICK kind, data, opener, n :
            /\ MayOpen(kind, data, opener, n)
            /\ JumpToScreen(kind, data, opener, n)
            /\ MayAsk(opener)
      BY <2>1, <2>3, OpenedFor
    <3>2. opener \in alive
      <4>1. Top \in alive
        BY <2>1 DEF StackAlive, Top
      <4>2. ASSUME NEW r \in inFlight, r.op = "list"
            PROVE  r.from \in alive
        BY <2>1, <4>2 DEF LoginsAsk, LoginsStay, StackAlive
      <4> QED
        BY <3>1, <4>1, <4>2 DEF MayAsk
    <3>3. /\ kind \in Kind /\ data \in Tasks \cup {NoTask}
          /\ opener \in Nat /\ n \in Nat
      BY <2>1, <3>1 DEF MayOpen
    <3>4. JumpEffect(kind, data, opener, n)
      BY <2>1, <3>1, <3>3, JumpExtends DEF IInv
    <3>5. MakeScreen(kind, data, opener).opener = opener
      BY MadeScreen
    <3> QED
      BY <3>2, <3>4, <3>5 DEF JumpEffect
  <2> QED
    BY <2>2, <2>3
<1>2. Spec => []OwnersInv
  BY OwnersInit, OwnersStep, PTL DEF Spec
<1> QED
  BY <1>1, <1>2, PTL DEF Spec, ReleasedStaySilent

-----------------------------------------------------------------------------
(* How many task lists there may be                                        *)

(* The two sets of requests that ListsAccounted counts for a controller,   *)
(* and the set of its lists.                                               *)
Lists(c) ==
  {l \in 1..Len(vc) : vc[l].kind = "taskList" /\ vc[l].opener = c}
Asked(c) == {r \in inFlight : r.from = c /\ r.op # "page"}
AskedToDelete(c) == {r \in inFlight : r.from = c /\ r.op = "delete"}

Account(c) ==
  Cardinality(Lists(c)) + Cardinality(Asked(c)) + Cardinality(AskedToDelete(c))

(* Nobody was opened by a controller that does not exist yet.              *)
OpenersKnown == \A c \in 1..Len(vc) : vc[c].opener \in 0..Len(vc)

AccountInv == IInv /\ OpenersKnown /\ ListsAccounted

LEMMA AccountDef == ListsAccounted <=> \A c \in 1..Len(vc) : Account(c) <= vc[c].submitted
BY DEF ListsAccounted, ListsOf, Account, Lists, Asked, AskedToDelete

LEMMA AccountBound ==
  ASSUME AccountInv, NEW c \in 1..Len(vc)
  PROVE  Account(c) <= vc[c].submitted /\ vc[c].submitted \in Nat
<1>1. vc[c] \in Controller
  BY ElementOfSeq DEF AccountInv, IInv, TypeOK
<1>2. vc[c].submitted \in Nat
  BY <1>1 DEF Controller
<1> QED
  BY <1>2, AccountDef DEF AccountInv

LEMMA AccountType ==
  ASSUME IInv, NEW c
  PROVE  /\ IsFiniteSet(Lists(c)) /\ Cardinality(Lists(c)) \in Nat
         /\ IsFiniteSet(Asked(c)) /\ Cardinality(Asked(c)) \in Nat
         /\ IsFiniteSet(AskedToDelete(c)) /\ Cardinality(AskedToDelete(c)) \in Nat
<1>1. IsFiniteSet(Lists(c))
  <2>1. IsFiniteSet(1..Len(vc))
    BY TopType, FS_Interval DEF IInv
  <2> QED
    BY <2>1, FS_Subset DEF Lists
<1>2. IsFiniteSet(Asked(c)) /\ IsFiniteSet(AskedToDelete(c))
  <2>1. IsFiniteSet(inFlight) /\ Asked(c) \subseteq inFlight /\ AskedToDelete(c) \subseteq inFlight
    BY DEF IInv, FiniteRequests, Asked, AskedToDelete
  <2> QED
    BY <2>1, FS_Subset
<1> QED
  BY <1>1, <1>2, FS_CardinalityType

(* A handler calls a closure at most once for each call it makes, so at    *)
(* most once for a list or a save and twice for a delete.                  *)
LEMMA CountBound ==
  ASSUME NEW calls \in Seq({"success", "error"}), NEW closure
  PROVE  Count(calls, closure) <= Len(calls)
<1> DEFINE hits == {i \in DOMAIN calls : calls[i] = closure}
<1>1. hits \subseteq 1..Len(calls) /\ Len(calls) \in Nat
  BY LenProperties
<1>2. IsFiniteSet(1..Len(calls)) /\ Cardinality(1..Len(calls)) = Len(calls)
  BY <1>1, FS_Interval
<1>3. Cardinality(hits) <= Cardinality(1..Len(calls))
  BY <1>1, <1>2, FS_Subset
<1> QED
  BY <1>2, <1>3 DEF Count

LEMMA CallsLen ==
  ASSUME NEW body
  PROVE  /\ Len(GetTaskList(body)) <= 1
         /\ Len(CreateTask(body)) <= 1
         /\ Len(UpdateTask(body)) <= 1
         /\ Len(DeleteTask(body)) <= 2
<1>1. Len(<<>>) = 0 /\ Len(<<"success">>) = 1 /\ Len(<<"error">>) = 1
  OBVIOUS
<1>2. Len(GetTaskList(body)) <= 1 /\ Len(CreateTask(body)) <= 1 /\ Len(UpdateTask(body)) <= 1
  BY <1>1 DEF GetTaskList, CreateTask, UpdateTask
<1>3. Len(DeleteTask(body)) <= 2
  <2> DEFINE first == IF TwoBytes(body) THEN <<"success">> ELSE <<>>
             second == IF ~Decodes(body) THEN <<>>
                       ELSE IF body = "message" THEN <<"error">>
                       ELSE <<"success">>
  <2>1. /\ first \in Seq({"success", "error"}) /\ second \in Seq({"success", "error"})
        /\ Len(first) \in 0..1 /\ Len(second) \in 0..1
    <3>1. first = <<"success">> \/ first = <<>>
      OBVIOUS
    <3>2. second = <<"success">> \/ second = <<"error">> \/ second = <<>>
      OBVIOUS
    <3> HIDE DEF first, second
    <3>3. /\ <<>> \in Seq({"success", "error"})
          /\ <<"success">> \in Seq({"success", "error"})
          /\ <<"error">> \in Seq({"success", "error"})
          /\ 0 \in 0..1 /\ 1 \in 0..1
      OBVIOUS
    <3>4. first \in Seq({"success", "error"}) /\ Len(first) \in 0..1
      BY <1>1, <3>1, <3>3, Zenon
    <3>5. second \in Seq({"success", "error"}) /\ Len(second) \in 0..1
      BY <1>1, <3>2, <3>3, Zenon
    <3> QED
      BY <3>4, <3>5
  <2> HIDE DEF first, second
  <2>2. Len(first \o second) = Len(first) + Len(second)
    BY <2>1, ConcatProperties
  <2>3. Len(first \o second) <= 2
    <3>1. PICK m \in 0..1, n \in 0..1 : Len(first) = m /\ Len(second) = n
      BY <2>1
    <3>2. m + n <= 2
      OBVIOUS
    <3> QED
      BY <2>2, <3>1, <3>2, Zenon
  <2> QED
    BY <2>3 DEF DeleteTask, first, second
<1> QED
  BY <1>2, <1>3

(* With the same screens and no new request a controller's account stays.  *)
LEMMA AccountKept ==
  ASSUME AccountInv, Quiet, IInv',
         \A c \in 1..Len(vc) : vc'[c].submitted = vc[c].submitted,
         \A r \in inFlight' : r.op # "page" => r \in inFlight
  PROVE  AccountInv'
<1>1. ASSUME NEW c \in 1..Len(vc)
      PROVE  Account(c)' <= vc'[c].submitted
  <2>1. Lists(c)' = Lists(c)
    BY DEF Quiet, Lists
  <2>2. Asked(c)' \subseteq Asked(c) /\ AskedToDelete(c)' \subseteq AskedToDelete(c)
    BY DEF Asked, AskedToDelete
  <2>3. IsFiniteSet(Asked(c)) /\ IsFiniteSet(AskedToDelete(c))
    BY AccountType DEF AccountInv
  <2>4. /\ Cardinality(Asked(c)') <= Cardinality(Asked(c))
        /\ Cardinality(AskedToDelete(c)') <= Cardinality(AskedToDelete(c))
        /\ IsFiniteSet(Asked(c)') /\ IsFiniteSet(AskedToDelete(c)')
    BY <2>2, <2>3, FS_Subset
  <2>5. /\ Cardinality(Lists(c)) \in Nat
        /\ Cardinality(Asked(c)) \in Nat /\ Cardinality(Asked(c)') \in Nat
        /\ Cardinality(AskedToDelete(c)) \in Nat
        /\ Cardinality(AskedToDelete(c)') \in Nat
    BY <2>4, AccountType, FS_CardinalityType DEF AccountInv
  <2>6. Account(c) <= vc[c].submitted /\ vc[c].submitted \in Nat
    BY AccountBound
  <2>7. Account(c)' = Cardinality(Lists(c)) + Cardinality(Asked(c)')
                        + Cardinality(AskedToDelete(c)')
    BY <2>1 DEF Account
  <2>8. vc'[c].submitted = vc[c].submitted
    OBVIOUS
  <2> QED
    BY <2>4, <2>5, <2>6, <2>7, <2>8 DEF Account
<1>2. ListsAccounted'
  <2>1. \A c \in 1..Len(vc') : (Account(c)') <= vc'[c].submitted
    BY <1>1 DEF Quiet
  <2> QED
    BY <2>1 DEF ListsAccounted, ListsOf, Account, Lists, Asked, AskedToDelete
<1>3. OpenersKnown'
  BY DEF AccountInv, Quiet, OpenersKnown
<1> QED
  BY <1>2, <1>3 DEF AccountInv

(* A submission is counted when its request is sent.                       *)
LEMMA AccountSubmit ==
  ASSUME AccountInv, NEW op \in Op, NEW weight \in Nat, Submit(op, weight), IInv',
         op # "page", weight = IF op = "delete" THEN 2 ELSE 1
  PROVE  AccountInv'
<1>1. IInv /\ TypeOK /\ Top \in 1..Len(vc) /\ vc[Top] \in Controller
  BY TopType DEF AccountInv, IInv
<1>2. Quiet
  BY <1>1, SubmitShape
<1>3. \A c \in 1..Len(vc) :
        vc'[c].submitted = IF c = Top THEN vc[c].submitted + weight
                           ELSE vc[c].submitted
  <2> DEFINE e == [vc[Top] EXCEPT !.submitted = @ + weight]
  <2>1. e \in Controller /\ e.submitted = vc[Top].submitted + weight
    BY <1>1 DEF Controller
  <2>2. vc' = [vc EXCEPT ![Top] = e] /\ vc \in Seq(Controller)
    BY <1>1 DEF Submit, TypeOK
  <2> HIDE DEF e
  <2>3. \A c \in 1..Len(vc) : vc'[c] = IF c = Top THEN e ELSE vc[c]
    BY <1>1, <2>1, <2>2, ExceptSeq
  <2> QED
    BY <2>1, <2>3
<1> DEFINE q == NewRequest(op, Top)
<1>4. q.op = op /\ q.from = Top /\ inFlight' = inFlight \cup {q}
  BY DEF NewRequest, Submit
<1> HIDE DEF q
<1>5. ASSUME NEW c \in 1..Len(vc)
      PROVE  Account(c)' <= vc'[c].submitted
  <2>1. Lists(c)' = Lists(c)
    BY <1>2 DEF Quiet, Lists
  <2>2. /\ IsFiniteSet(Asked(c)) /\ IsFiniteSet(AskedToDelete(c))
        /\ Cardinality(Lists(c)) \in Nat /\ Cardinality(Asked(c)) \in Nat
        /\ Cardinality(AskedToDelete(c)) \in Nat
    BY <1>1, AccountType
  <2>3. Account(c) <= vc[c].submitted /\ vc[c].submitted \in Nat
    BY AccountBound
  <2>4. Account(c)' = Cardinality(Lists(c)) + Cardinality(Asked(c)')
                        + Cardinality(AskedToDelete(c)')
    BY <2>1 DEF Account
  <2>5. CASE c # Top
    <3>1. Asked(c)' = Asked(c) /\ AskedToDelete(c)' = AskedToDelete(c)
      BY <1>4, <2>5 DEF Asked, AskedToDelete
    <3> QED
      BY <1>3, <2>3, <2>4, <2>5, <3>1 DEF Account
  <2>6. CASE c = Top
    <3>1. Asked(c)' = Asked(c) \cup {q}
      BY <1>4, <2>6 DEF Asked
    <3>2. Cardinality(Asked(c)') <= Cardinality(Asked(c)) + 1 /\ Cardinality(Asked(c)') \in Nat
      <4>1. Cardinality(Asked(c)') = IF q \in Asked(c) THEN Cardinality(Asked(c))
                                    ELSE Cardinality(Asked(c)) + 1
        BY <2>2, <3>1, FS_AddElement
      <4> QED
        BY <2>2, <4>1
    <3>3. vc'[c].submitted = vc[c].submitted + weight
      BY <1>3, <2>6
    <3>4. CASE op = "delete"
      <4>1. AskedToDelete(c)' = AskedToDelete(c) \cup {q}
        BY <1>4, <2>6, <3>4 DEF AskedToDelete
      <4>2. /\ Cardinality(AskedToDelete(c)') <= Cardinality(AskedToDelete(c)) + 1
            /\ Cardinality(AskedToDelete(c)') \in Nat
        <5>1. Cardinality(AskedToDelete(c)') =
                IF q \in AskedToDelete(c) THEN Cardinality(AskedToDelete(c))
                ELSE Cardinality(AskedToDelete(c)) + 1
          BY <2>2, <4>1, FS_AddElement
        <5> QED
          BY <2>2, <5>1
      <4> QED
        BY <2>2, <2>3, <2>4, <3>2, <3>3, <3>4, <4>2, SMTT(30) DEF Account
    <3>5. CASE op # "delete"
      <4>1. AskedToDelete(c)' = AskedToDelete(c)
        BY <1>4, <3>5 DEF AskedToDelete
      <4> QED
        BY <2>2, <2>3, <2>4, <3>2, <3>3, <3>5, <4>1 DEF Account
    <3> QED
      BY <3>4, <3>5
  <2> QED
    BY <2>5, <2>6
<1>6. ListsAccounted'
  <2>1. \A c \in 1..Len(vc') : (Account(c)') <= vc'[c].submitted
    BY <1>2, <1>5 DEF Quiet
  <2> QED
    BY <2>1 DEF ListsAccounted, ListsOf, Account, Lists, Asked, AskedToDelete
<1>7. OpenersKnown'
  BY <1>2 DEF AccountInv, Quiet, OpenersKnown
<1> QED
  BY <1>6, <1>7 DEF AccountInv

(* New screens are lists of their opener only, and have none themselves.   *)
LEMMA JumpLists ==
  ASSUME IInv, OpenersKnown, NEW kind, NEW data, NEW opener, NEW n,
         MayOpen(kind, data, opener, n), JumpToScreen(kind, data, opener, n)
  PROVE  /\ OpenersKnown'
         /\ Len(vc') = Len(vc) + n
         /\ \A c \in 1..Len(vc) :
              /\ Cardinality(Lists(c)') <= Cardinality(Lists(c)) + n
              /\ Cardinality(Lists(c)') \in Nat
              /\ kind # "taskList" \/ c # opener => Lists(c)' = Lists(c)
         /\ \A c \in Len(vc) + 1 .. Len(vc) + n : Lists(c)' = {}
         /\ \A c \in 1..Len(vc) : vc'[c].submitted = vc[c].submitted
         /\ \A c \in Len(vc) + 1 .. Len(vc) + n : vc'[c].submitted = 0
<1>1. /\ Len(vc) \in Nat /\ n \in Nat /\ opener \in 1..Len(vc)
      /\ kind \in Kind /\ data \in Tasks \cup {NoTask} /\ opener \in Nat
  BY TopType DEF IInv, MayOpen
<1>2. JumpEffect(kind, data, opener, n)
  BY <1>1, JumpExtends DEF IInv
<1> DEFINE new == MakeScreen(kind, data, opener)
<1>3. new.kind = kind /\ new.opener = opener /\ new.submitted = 0
  BY DEF MakeScreen, SetEventHandler, SetModel, StartVC
<1> HIDE DEF new
<1>4. /\ Len(vc') = Len(vc) + n
      /\ \A c \in 1..Len(vc) : vc'[c] = vc[c]
      /\ \A c \in Len(vc) + 1 .. Len(vc) + n : vc'[c] = new
  BY <1>2 DEF JumpEffect, new
<1>5. \A c \in 1..Len(vc) + n :
        c \in 1..Len(vc) \/ c \in Len(vc) + 1 .. Len(vc) + n
  BY <1>1
<1>6. OpenersKnown'
  <2> SUFFICES ASSUME NEW c \in 1..Len(vc')
               PROVE  vc'[c].opener \in 0..Len(vc')
    BY DEF OpenersKnown
  <2>1. CASE c \in 1..Len(vc)
    BY <1>1, <1>4, <2>1 DEF OpenersKnown
  <2>2. CASE c \in Len(vc) + 1 .. Len(vc) + n
    BY <1>1, <1>3, <1>4, <2>2
  <2> QED
    BY <1>4, <1>5, <2>1, <2>2
<1>7. ASSUME NEW c \in 1..Len(vc)
      PROVE  /\ Cardinality(Lists(c)') <= Cardinality(Lists(c)) + n
             /\ Cardinality(Lists(c)') \in Nat
             /\ kind # "taskList" \/ c # opener => Lists(c)' = Lists(c)
  <2> DEFINE added == Len(vc) + 1 .. Len(vc) + n
  <2>1. \A l \in 1..Len(vc) : l \in Lists(c)' <=> l \in Lists(c)
    BY <1>1, <1>4 DEF Lists
  <2>2. \A l \in added : l \in Lists(c)' => kind = "taskList" /\ c = opener
    BY <1>3, <1>4 DEF Lists
  <2>3. Lists(c) \subseteq 1..Len(vc) /\ Lists(c)' \subseteq 1..Len(vc) + n
    BY <1>4 DEF Lists
  <2>4. Lists(c)' \subseteq Lists(c) \cup added
    BY <1>5, <2>1, <2>3
  <2>5. IsFiniteSet(added) /\ Cardinality(added) = n
    <3>1. Len(vc) + 1 \in Int /\ Len(vc) + n \in Int
      BY <1>1
    <3>2. /\ IsFiniteSet(added)
          /\ Cardinality(added) = IF Len(vc) + 1 > Len(vc) + n THEN 0
                                  ELSE (Len(vc) + n) - (Len(vc) + 1) + 1
      BY <3>1, FS_Interval
    <3> QED
      BY <1>1, <3>2
  <2>6. IsFiniteSet(Lists(c)) /\ Cardinality(Lists(c)) \in Nat
    BY AccountType
  <2> HIDE DEF added
  <2>7. /\ IsFiniteSet(Lists(c) \cup added)
        /\ Cardinality(Lists(c) \cup added) =
             Cardinality(Lists(c)) + Cardinality(added) - Cardinality(Lists(c) \cap added)
    BY <2>5, <2>6, FS_Union
  <2>8. Cardinality(Lists(c) \cap added) \in Nat
    <3>1. IsFiniteSet(Lists(c) \cap added)
      BY <2>6, FS_Subset
    <3> QED
      BY <3>1, FS_CardinalityType
  <2>9. /\ Cardinality(Lists(c)') <= Cardinality(Lists(c) \cup added)
        /\ Cardinality(Lists(c)') \in Nat
    BY <2>4, <2>7, FS_Subset, FS_CardinalityType
  <2>10. kind # "taskList" \/ c # opener => Lists(c)' = Lists(c)
    <3>1. ASSUME kind # "taskList" \/ c # opener
          PROVE  Lists(c)' \subseteq Lists(c)
      BY <2>2, <2>4, <3>1
    <3>2. 1..Len(vc) \subseteq 1..Len(vc) + n
      BY <1>1
    <3>3. Lists(c) \subseteq Lists(c)'
      BY <2>1, <2>3
    <3> QED
      BY <3>1, <3>3
  <2>11. Cardinality(Lists(c)') <= Cardinality(Lists(c)) + n
    BY <1>1, <2>5, <2>6, <2>7, <2>8, <2>9
  <2> QED
    BY <2>9, <2>10, <2>11
<1>8. ASSUME NEW c \in Len(vc) + 1 .. Len(vc) + n
      PROVE  Lists(c)' = {}
  <2>1. ASSUME NEW l \in 1..Len(vc)
        PROVE  vc'[l].opener # c
    BY <1>1, <1>4 DEF OpenersKnown
  <2>2. ASSUME NEW l \in Len(vc) + 1 .. Len(vc) + n
        PROVE  vc'[l].opener # c
    BY <1>1, <1>3, <1>4
  <2> QED
    BY <1>4, <1>5, <2>1, <2>2 DEF Lists
<1> QED
  BY <1>3, <1>4, <1>6, <1>7, <1>8

(* Pushing n lists for a request that is over keeps the accounts, if the   *)
(* request was counted n times.                                            *)
LEMMA AccountPush ==
  ASSUME AccountInv, IInv', NEW r \in inFlight, NEW n \in Nat,
         r.op # "page", n <= IF r.op = "delete" THEN 2 ELSE 1,
         PushTaskLists(r, n)
  PROVE  AccountInv'
<1>1. IInv /\ OpenersKnown /\ r.from \in 1..Len(vc) /\ Len(vc) \in Nat
  BY TopType DEF AccountInv, IInv, TypeOK
<1>2. /\ MayOpen("taskList", NoTask, r.from, n)
      /\ JumpToScreen("taskList", NoTask, r.from, n)
  BY <1>1 DEF MayOpen, Kind, PushTaskLists
<1>3. /\ OpenersKnown'
      /\ Len(vc') = Len(vc) + n
      /\ \A c \in 1..Len(vc) :
           /\ Cardinality(Lists(c)') <= Cardinality(Lists(c)) + n
           /\ Cardinality(Lists(c)') \in Nat
           /\ c # r.from => Lists(c)' = Lists(c)
      /\ \A c \in Len(vc) + 1 .. Len(vc) + n : Lists(c)' = {}
      /\ \A c \in 1..Len(vc) : vc'[c].submitted = vc[c].submitted
      /\ \A c \in Len(vc) + 1 .. Len(vc) + n : vc'[c].submitted = 0
  BY <1>1, <1>2, JumpLists
<1>4. inFlight' = (inFlight \ {r}) \cup PageRequests(n)
  BY DEF PushTaskLists
<1>5. \A q \in PageRequests(n) : q.op = "page"
  BY DEF PageRequests
<1>6. \A c : /\ Asked(c)' = Asked(c) \ {r}
             /\ AskedToDelete(c)' = AskedToDelete(c) \ {r}
  BY <1>4, <1>5 DEF Asked, AskedToDelete
<1>7. ASSUME NEW c \in 1..Len(vc)
      PROVE  Account(c)' <= vc'[c].submitted
  <2>1. /\ IsFiniteSet(Asked(c)) /\ IsFiniteSet(AskedToDelete(c))
        /\ Cardinality(Lists(c)) \in Nat /\ Cardinality(Asked(c)) \in Nat
        /\ Cardinality(AskedToDelete(c)) \in Nat
    BY <1>1, AccountType
  <2>2. /\ Account(c) <= vc[c].submitted /\ vc[c].submitted \in Nat
        /\ vc'[c].submitted = vc[c].submitted
    BY <1>3, AccountBound
  <2>3. /\ Cardinality(Asked(c)') =
             IF r \in Asked(c) THEN Cardinality(Asked(c)) - 1 ELSE Cardinality(Asked(c))
        /\ Cardinality(AskedToDelete(c)') =
             IF r \in AskedToDelete(c) THEN Cardinality(AskedToDelete(c)) - 1
             ELSE Cardinality(AskedToDelete(c))
    BY <1>6, <2>1, FS_RemoveElement
  <2>4. CASE c # r.from
    <3>1. r \notin Asked(c) /\ r \notin AskedToDelete(c) /\ Lists(c)' = Lists(c)
      BY <1>3, <2>4 DEF Asked, AskedToDelete
    <3> QED
      BY <2>2, <2>3, <3>1 DEF Account
  <2>5. CASE c = r.from
    <3>1. r \in Asked(c) /\ (r \in AskedToDelete(c) <=> r.op = "delete")
      BY <2>5 DEF Asked, AskedToDelete
    <3>2. Cardinality(Lists(c)') <= Cardinality(Lists(c)) + n /\ Cardinality(Lists(c)') \in Nat
      BY <1>3
    <3> QED
      BY <2>1, <2>2, <2>3, <3>1, <3>2, SMTT(30) DEF Account
  <2> QED
    BY <2>4, <2>5
<1>8. ASSUME NEW c \in Len(vc) + 1 .. Len(vc) + n
      PROVE  Account(c)' <= vc'[c].submitted
  <2>1. \A q \in inFlight : q.from \in 1..Len(vc)
    BY <1>1 DEF IInv, TypeOK
  <2>2. Asked(c) = {} /\ AskedToDelete(c) = {}
    BY <1>1, <2>1 DEF Asked, AskedToDelete
  <2>3. Asked(c)' = {} /\ AskedToDelete(c)' = {} /\ Lists(c)' = {}
    BY <1>3, <1>6, <2>2
  <2>4. Account(c)' = 0
    BY <2>3, FS_EmptySet DEF Account
  <2> QED
    BY <1>3, <2>4
<1>9. \A c \in 1..Len(vc) + n :
        c \in 1..Len(vc) \/ c \in Len(vc) + 1 .. Len(vc) + n
  BY <1>1
<1>10. ListsAccounted'
  <2>1. \A c \in 1..Len(vc') : (Account(c)') <= vc'[c].submitted
    BY <1>3, <1>7, <1>8, <1>9
  <2> QED
    BY <2>1 DEF ListsAccounted, ListsOf, Account, Lists, Asked, AskedToDelete
<1> QED
  BY <1>3, <1>10 DEF AccountInv

(* A tap that opens another kind of screen touches no account.             *)
LEMMA AccountOpen ==
  ASSUME AccountInv, IInv', NEW kind, NEW data, NEW opener,
         MayOpen(kind, data, opener, 1), kind # "taskList",
         JumpToScreen(kind, data, opener, 1), UNCHANGED inFlight
  PROVE  AccountInv'
<1>1. IInv /\ OpenersKnown /\ Len(vc) \in Nat
  BY TopType DEF AccountInv, IInv
<1>2. PICK n \in Nat : n = 1
  OBVIOUS
<1>3. MayOpen(kind, data, opener, n) /\ JumpToScreen(kind, data, opener, n)
  BY <1>2
<1>4. /\ OpenersKnown'
      /\ Len(vc') = Len(vc) + n
      /\ \A c \in 1..Len(vc) : Lists(c)' = Lists(c)
      /\ \A c \in Len(vc) + 1 .. Len(vc) + n : Lists(c)' = {}
      /\ \A c \in 1..Len(vc) : vc'[c].submitted = vc[c].submitted
      /\ \A c \in Len(vc) + 1 .. Len(vc) + n : vc'[c].submitted = 0
  BY <1>1, <1>3, JumpLists
<1>5. \A c : Asked(c)' = Asked(c) /\ AskedToDelete(c)' = AskedToDelete(c)
  BY DEF Asked, AskedToDelete
<1>6. ASSUME NEW c \in 1..Len(vc)
      PROVE  Account(c)' <= vc'[c].submitted
  <2>1. Account(c) <= vc[c].submitted
    BY AccountDef DEF AccountInv
  <2> QED
    BY <1>4, <1>5, <2>1 DEF Account
<1>7. ASSUME NEW c \in Len(vc) + 1 .. Len(vc) + n
      PROVE  Account(c)' <= vc'[c].submitted
  <2>1. \A q \in inFlight : q.from \in 1..Len(vc)
    BY <1>1 DEF IInv, TypeOK
  <2>2. Asked(c) = {} /\ AskedToDelete(c) = {}
    BY <1>1, <2>1 DEF Asked, AskedToDelete
  <2>3. Asked(c)' = {} /\ AskedToDelete(c)' = {} /\ Lists(c)' = {}
    BY <1>4, <1>5, <2>2
  <2>4. Account(c)' = 0
    BY <2>3, FS_EmptySet DEF Account
  <2> QED
    BY <1>4, <2>4
<1>8. \A c \in 1..Len(vc) + n :
        c \in 1..Len(vc) \/ c \in Len(vc) + 1 .. Len(vc) + n
  BY <1>1
<1>9. ListsAccounted'
  <2>1. \A c \in 1..Len(vc') : (Account(c)') <= vc'[c].submitted
    BY <1>4, <1>6, <1>7, <1>8
  <2> QED
    BY <2>1 DEF ListsAccounted, ListsOf, Account, Lists, Asked, AskedToDelete
<1> QED
  BY <1>4, <1>9 DEF AccountInv

(* A login that succeeds hands its count over to the request for the list. *)
LEMMA AccountHandOver ==
  ASSUME AccountInv, IInv', NEW r \in inFlight, r.op = "login",
         inFlight' = (inFlight \ {r}) \cup {NewRequest("list", r.from)},
         UNCHANGED <<stack, navigationScreens, vc>>
  PROVE  AccountInv'
<1> DEFINE q == NewRequest("list", r.from)
<1>1. q.op = "list" /\ q.from = r.from /\ inFlight' = (inFlight \ {r}) \cup {q}
  BY DEF NewRequest
<1> HIDE DEF q
<1>2. ASSUME NEW c \in 1..Len(vc)
      PROVE  Account(c)' <= vc[c].submitted
  <2>1. /\ IsFiniteSet(Asked(c)) /\ Cardinality(Asked(c)) \in Nat
        /\ Cardinality(Lists(c)) \in Nat /\ Cardinality(AskedToDelete(c)) \in Nat
        /\ Account(c) <= vc[c].submitted /\ vc[c].submitted \in Nat
    BY AccountType, AccountBound DEF AccountInv
  <2>2. AskedToDelete(c)' = AskedToDelete(c) /\ Lists(c)' = Lists(c)
    BY <1>1 DEF AskedToDelete, Lists
  <2>3. CASE c # r.from
    <3>1. Asked(c)' = Asked(c)
      BY <1>1, <2>3 DEF Asked
    <3> QED
      BY <2>1, <2>2, <3>1 DEF Account
  <2>4. CASE c = r.from
    <3> DEFINE rest == Asked(c) \ {r}
    <3>1. Asked(c)' = rest \cup {q} /\ r \in Asked(c)
      BY <1>1, <2>4 DEF Asked
    <3>2. IsFiniteSet(rest) /\ Cardinality(rest) = Cardinality(Asked(c)) - 1
      BY <2>1, <3>1, FS_RemoveElement
    <3> HIDE DEF rest
    <3>3. Cardinality(Asked(c)') = IF q \in rest THEN Cardinality(rest)
                                   ELSE Cardinality(rest) + 1
      BY <3>1, <3>2, FS_AddElement
    <3>4. Cardinality(Asked(c)') <= Cardinality(Asked(c)) /\ Cardinality(Asked(c)') \in Int
      BY <2>1, <3>2, <3>3
    <3>5. Account(c)' = Cardinality(Lists(c)) + Cardinality(Asked(c)')
                          + Cardinality(AskedToDelete(c))
      BY <2>2 DEF Account
    <3> QED
      BY <2>1, <3>4, <3>5 DEF Account
  <2> QED
    BY <2>3, <2>4
<1>3. ListsAccounted'
  <2>1. \A c \in 1..Len(vc') : (Account(c)') <= vc'[c].submitted
    BY <1>2
  <2> QED
    BY <2>1 DEF ListsAccounted, ListsOf, Account, Lists, Asked, AskedToDelete
<1> QED
  BY <1>3 DEF AccountInv, OpenersKnown

LEMMA AccountInit == Init => AccountInv
<1> SUFFICES ASSUME Init PROVE AccountInv
  OBVIOUS
<1>1. IInv
  BY InitIInv
<1>2. /\ Len(vc) = 1 /\ vc[1] = MakeScreen("login", NoTask, 0) /\ inFlight = {}
  BY DEF Init
<1>3. vc[1].kind = "login" /\ vc[1].opener = 0 /\ vc[1].submitted = 0
  BY <1>2 DEF MakeScreen, SetEventHandler, SetModel, StartVC
<1>4. Account(1) = 0
  <2>1. Lists(1) = {} /\ Asked(1) = {} /\ AskedToDelete(1) = {}
    BY <1>2, <1>3 DEF Lists, Asked, AskedToDelete
  <2> QED
    BY <2>1, FS_EmptySet DEF Account
<1>5. ListsAccounted
  BY <1>2, <1>3, <1>4, AccountDef
<1>6. OpenersKnown
  BY <1>2, <1>3 DEF OpenersKnown
<1> QED
  BY <1>1, <1>5, <1>6 DEF AccountInv

(* An answer to a save, a delete or the coordinator's request for a list.  *)
LEMMA AccountAnswer ==
  ASSUME AccountInv, IInv', NEW r \in inFlight, r.op # "page",
         NEW calls \in Seq({"success", "error"}),
         Len(calls) <= IF r.op = "delete" THEN 2 ELSE 1,
         PushTaskLists(r, Count(calls, "success")) \/ Silent(r)
  PROVE  AccountInv'
<1>1. PICK n : n = Count(calls, "success")
  OBVIOUS
<1>2. n \in Nat /\ n <= Len(calls) /\ Len(calls) \in Nat
  BY <1>1, CountNat, CountBound, LenProperties
<1>3. n <= IF r.op = "delete" THEN 2 ELSE 1
  BY <1>2
<1>4. CASE PushTaskLists(r, n)
  BY <1>2, <1>3, <1>4, AccountPush
<1>5. CASE Silent(r)
  <2>1. Quiet
    BY <1>5, UnchangedQuiet DEF AccountInv, IInv, Silent
  <2> QED
    BY <1>5, <2>1, AccountKept DEF Silent
<1> QED
  BY <1>1, <1>4, <1>5

LEMMA AccountStep ==
  ASSUME AccountInv, Next, IInv'
  PROVE  AccountInv'
<1>1. /\ IInv /\ TypeOK /\ Top \in 1..Len(vc) /\ Len(vc) \in Nat /\ vc[Top] \in Controller
      /\ Top # 0
  BY TopType DEF AccountInv, IInv
<1>2. ASSUME UNCHANGED <<stack, navigationScreens, vc>>, inFlight' \subseteq inFlight
      PROVE  AccountInv'
  <2>1. Quiet
    BY <1>1, <1>2, UnchangedQuiet
  <2> QED
    BY <1>2, <2>1, AccountKept
<1>3. CASE DismissAlert
  BY <1>2, <1>3 DEF DismissAlert
<1>4. CASE LogInPressed
  BY <1>4, AccountSubmit DEF LogInPressed, Op
<1>5. CASE InfoPressed
  <2>1. PICK task \in vc[Top].rows : JumpToScreen("taskDetail", task, Top, 1)
    BY <1>5 DEF InfoPressed
  <2>2. task \in Tasks
    BY <1>1 DEF Controller
  <2>3. PICK top : top = Top
    OBVIOUS
  <2>4. MayOpen("taskDetail", task, top, 1)
    BY <1>1, <1>5, <2>2, <2>3 DEF MayOpen, InfoPressed, On, Kind
  <2>5. JumpToScreen("taskDetail", task, top, 1) /\ UNCHANGED inFlight
    BY <1>5, <2>1, <2>3 DEF InfoPressed
  <2> QED
    BY <2>4, <2>5, AccountOpen
<1>6. CASE SortPressed
  <2>1. PICK top : top = Top
    OBVIOUS
  <2>2. MayOpen("login", NoTask, top, 1)
    BY <1>1, <2>1 DEF MayOpen, Kind
  <2>3. JumpToScreen("login", NoTask, top, 1) /\ UNCHANGED inFlight
    BY <1>6, <2>1 DEF SortPressed
  <2> QED
    BY <2>2, <2>3, AccountOpen
<1>7. CASE AddTaskPressed
  <2>1. PICK top : top = Top
    OBVIOUS
  <2>2. MayOpen("taskEdit", NoTask, top, 1)
    BY <1>1, <1>7, <2>1 DEF MayOpen, AddTaskPressed, On, Kind
  <2>3. JumpToScreen("taskEdit", NoTask, top, 1) /\ UNCHANGED inFlight
    BY <1>7, <2>1 DEF AddTaskPressed
  <2> QED
    BY <2>2, <2>3, AccountOpen
<1>8. CASE EditPressed
  <2>1. PICK top : top = Top
    OBVIOUS
  <2>2. PICK data : data = vc[Top].shown
    OBVIOUS
  <2>3. data \in Tasks \cup {NoTask}
    BY <1>1, <2>2 DEF Controller
  <2>4. MayOpen("taskEdit", data, top, 1)
    BY <1>1, <1>8, <2>1, <2>2, <2>3 DEF MayOpen, EditPressed, On, Kind
  <2>5. JumpToScreen("taskEdit", data, top, 1) /\ UNCHANGED inFlight
    BY <1>8, <2>1, <2>2 DEF EditPressed
  <2> QED
    BY <2>4, <2>5, AccountOpen
<1>9. CASE BackPressed
  <2>1. UNCHANGED <<vc, inFlight>>
    BY <1>9 DEF BackPressed
  <2>2. ListsAccounted' /\ OpenersKnown'
    BY <2>1 DEF AccountInv, ListsAccounted, ListsOf, OpenersKnown
  <2> QED
    BY <2>2 DEF AccountInv
<1>10. CASE DeletePressed
  <2>1. CASE vc[Top].shown = NoTask
    BY <1>2, <1>10, <2>1 DEF DeletePressed
  <2>2. CASE vc[Top].shown # NoTask
    BY <1>10, <2>2, AccountSubmit DEF DeletePressed, Op
  <2> QED
    BY <2>1, <2>2
<1>11. CASE SavePressed
  BY <1>11, AccountSubmit DEF SavePressed, Op
<1>12. CASE AnswerNext
  <2>1. PICK r \in inFlight, body \in Bodies :
          \/ LoginAnswered(r, body)
          \/ ListAnswered(r, body)
          \/ PageAnswered(r, body)
          \/ DeleteAnswered(r, body)
          \/ SaveAnswered(r, body)
    BY <1>12 DEF AnswerNext
  <2>2. CASE LoginAnswered(r, body)
    <3>1. CASE Silent(r)
      BY <1>2, <3>1 DEF Silent
    <3>2. CASE ~Silent(r)
      <4>1. /\ r.op = "login"
            /\ inFlight' = (inFlight \ {r}) \cup {NewRequest("list", r.from)}
            /\ UNCHANGED <<stack, navigationScreens, vc>>
        BY <2>2, <3>2 DEF LoginAnswered, Answered
      <4> QED
        BY <4>1, AccountHandOver
    <3> QED
      BY <3>1, <3>2
  <2>3. CASE ListAnswered(r, body)
    <3>1. /\ r.op = "list"
          /\ PushTaskLists(r, Count(GetTaskList(body), "success"))
      BY <2>3 DEF ListAnswered, Answered
    <3>2. /\ GetTaskList(body) \in Seq({"success", "error"})
          /\ Len(GetTaskList(body)) <= 1
      BY CallsType, CallsLen
    <3> QED
      BY <3>1, <3>2, AccountAnswer
  <2>4. CASE PageAnswered(r, body)
    <3>1. /\ inFlight' = inFlight \ {r}
          /\ UNCHANGED <<stack, navigationScreens>>
      BY <2>4 DEF PageAnswered
    <3>2. CASE UNCHANGED vc
      BY <1>2, <3>1, <3>2
    <3>3. CASE ~UNCHANGED vc
      <4>1. PICK tasks \in SUBSET Tasks : vc' = [vc EXCEPT ![r.from].rows = tasks]
        BY <2>4, <3>3 DEF PageAnswered
      <4>2. r.from \in 1..Len(vc) /\ vc[r.from] \in Controller
        BY <1>1, ElementOfSeq DEF TypeOK
      <4> DEFINE e == [vc[r.from] EXCEPT !.rows = tasks]
      <4>3. /\ e \in Controller
            /\ e.kind = vc[r.from].kind /\ e.model = vc[r.from].model
            /\ e.shown = vc[r.from].shown /\ e.opener = vc[r.from].opener
            /\ e.submitted = vc[r.from].submitted
        BY <4>2 DEF Controller
      <4>4. vc' = [vc EXCEPT ![r.from] = e]
        BY <4>1
      <4> HIDE DEF e
      <4>5. Quiet
        BY <1>1, <3>1, <4>2, <4>3, <4>4, ExceptQuiet
      <4>6. \A c \in 1..Len(vc) : vc'[c] = IF c = r.from THEN e ELSE vc[c]
        BY <1>1, <4>2, <4>3, <4>4, ExceptSeq DEF TypeOK
      <4>7. \A c \in 1..Len(vc) : vc'[c].submitted = vc[c].submitted
        BY <4>3, <4>6
      <4> QED
        BY <3>1, <4>5, <4>7, AccountKept
    <3> QED
      BY <3>2, <3>3
  <2>5. CASE DeleteAnswered(r, body)
    <3>1. /\ r.op = "delete"
          /\ PushTaskLists(r, Count(DeleteTask(body), "success")) \/ Silent(r)
      BY <2>5 DEF DeleteAnswered, Answered
    <3>2. /\ DeleteTask(body) \in Seq({"success", "error"})
          /\ Len(DeleteTask(body)) <= 2
      BY CallsType, CallsLen
    <3> QED
      BY <3>1, <3>2, AccountAnswer
  <2>6. CASE SaveAnswered(r, body)
    <3>1. PICK calls \in Seq({"success", "error"}) :
            /\ calls = IF vc[r.from].shown = NoTask
                       THEN CreateTask(body) ELSE UpdateTask(body)
            /\ Len(calls) <= 1
      BY CallsType, CallsLen
    <3>2. /\ r.op = "save"
          /\ PushTaskLists(r, Count(calls, "success")) \/ Silent(r)
      BY <2>6, <3>1 DEF SaveAnswered, Answered
    <3> QED
      BY <3>1, <3>2, AccountAnswer
  <2> QED
    BY <2>1, <2>2, <2>3, <2>4, <2>5, <2>6
<1>13. CASE \E c \in alive : Deallocate(c)
  BY <1>2, <1>13 DEF Deallocate
<1> QED
  BY <1>3, <1>4, <1>5, <1>6, <1>7, <1>8, <1>9, <1>10, <1>11, <1>12, <1>13
     DEF Next, UserNext

(* Task lists do not appear from nowhere: for every controller there are   *)
(* at most as many lists as the user's submissions there account for.      *)
THEOREM ListsCorrect == Spec => []ListsAccounted
<1>1. AccountInv /\ [Next]_vars => AccountInv'
  <2> SUFFICES ASSUME AccountInv, [Next]_vars PROVE AccountInv'
    OBVIOUS
  <2>1. IInv
    BY DEF AccountInv
  <2>2. CASE Next
    <3>1. IInv'
      BY <2>1, <2>2, StepShape, QuietIInv, OpensIInv, ClosesIInv
    <3> QED
      BY <2>2, <3>1, AccountStep
  <2>3. CASE UNCHANGED vars
    BY <2>1, <2>3, UnchangedIInv
       DEF AccountInv, OpenersKnown, ListsAccounted, ListsOf, vars
  <2> QED
    BY <2>2, <2>3
<1>2. AccountInv => ListsAccounted
  BY DEF AccountInv
<1> QED
  BY <1>1, <1>2, AccountInit, PTL DEF Spec
-----------------------------------------------------------------------------
(* No login is forgotten                                                   *)

(* The requests of a set that differ from one in their copy number only.   *)
Alike(S, r) == {q \in S : q.op = r.op /\ q.from = r.from}

(* The copies of a request are numbered from one, without a gap; so a new  *)
(* request is none of those in flight.                                     *)
Counted(S) == \A r \in S : r.copy <= Cardinality(Alike(S, r))

(* The requests that are to end in a task list opened from a login screen. *)
Owed(c) == {r \in inFlight : r.from = c /\ r.op \in {"login", "list"}}

(* Every login pressed on a screen ended in a list or is under way.        *)
LoginsOwed ==
  \A c \in 1..Len(vc) :
    vc[c].kind = "login" =>
      vc[c].submitted <= Cardinality(Lists(c)) + Cardinality(Owed(c))

DeliverInv == Counted(inFlight) /\ LoginsOwed

(* Taking away the last copy leaves the others numbered.                   *)
LEMMA CountedTake ==
  ASSUME NEW S, IsFiniteSet(S), S \subseteq Request, Counted(S),
         NEW r \in S, \A s \in Alike(S, r) : s.copy <= r.copy
  PROVE  Counted(S \ {r})
<1> SUFFICES ASSUME NEW s \in S \ {r}
             PROVE  s.copy <= Cardinality(Alike(S \ {r}, s))
  BY DEF Counted
<1>1. /\ r.copy \in Nat /\ s.copy \in Nat
      /\ s.copy <= Cardinality(Alike(S, s)) /\ r.copy <= Cardinality(Alike(S, r))
  BY DEF Request, Counted
<1>2. CASE s \in Alike(S, r)
  <2>1. Alike(S \ {r}, s) = Alike(S, r) \ {r} /\ r \in Alike(S, r)
    BY <1>2 DEF Alike
  <2>2. IsFiniteSet(Alike(S, r)) /\ Cardinality(Alike(S, r)) \in Nat
    BY FS_Subset, FS_CardinalityType DEF Alike
  <2>3. Cardinality(Alike(S, r) \ {r}) = Cardinality(Alike(S, r)) - 1
    BY <2>1, <2>2, FS_RemoveElement
  <2>4. s.copy # r.copy
    BY <1>2 DEF Alike, Request
  <2>5. s.copy <= r.copy - 1
    <3>1. s.copy <= r.copy
      BY <1>2
    <3> QED
      BY <1>1, <2>4, <3>1
  <2>6. Cardinality(Alike(S \ {r}, s)) = Cardinality(Alike(S, r)) - 1
    BY <2>1, <2>3, Zenon
  <2> QED
    BY <1>1, <2>2, <2>5, <2>6
<1>3. CASE s \notin Alike(S, r)
  <2>1. Alike(S \ {r}, s) = Alike(S, s)
    BY <1>3 DEF Alike
  <2> QED
    BY <1>1, <2>1
<1> QED
  BY <1>2, <1>3

(* The next copy of a request is a new one and keeps them numbered.        *)
LEMMA CountedGive ==
  ASSUME NEW S, IsFiniteSet(S), S \subseteq Request, Counted(S),
         NEW q, q.copy = Cardinality(Alike(S, q)) + 1
  PROVE  q \notin S /\ Counted(S \cup {q})
<1>1. ASSUME NEW s
      PROVE  IsFiniteSet(Alike(S, s)) /\ Cardinality(Alike(S, s)) \in Nat
  BY FS_Subset, FS_CardinalityType DEF Alike
<1>2. q \notin S
  <2>1. ~(Cardinality(Alike(S, q)) + 1 <= Cardinality(Alike(S, q)))
    BY <1>1
  <2> QED
    BY <2>1 DEF Counted
<1>3. ASSUME NEW s \in S \cup {q}
      PROVE  s.copy <= Cardinality(Alike(S \cup {q}, s))
  <2>1. CASE s.op = q.op /\ s.from = q.from
    <3>1. Alike(S \cup {q}, s) = Alike(S, q) \cup {q} /\ q \notin Alike(S, q)
      BY <1>2, <2>1 DEF Alike
    <3>2. Cardinality(Alike(S \cup {q}, s)) = Cardinality(Alike(S, q)) + 1
      BY <1>1, <3>1, FS_AddElement
    <3>3. s \in S => s.copy \in Nat /\ s.copy <= Cardinality(Alike(S, q))
      <4>1. Alike(S, s) = Alike(S, q)
        BY <2>1 DEF Alike
      <4> QED
        BY <4>1 DEF Counted, Request
    <3> QED
      BY <1>1, <3>2, <3>3
  <2>2. CASE ~(s.op = q.op /\ s.from = q.from)
    <3>1. Alike(S \cup {q}, s) = Alike(S, s) /\ s \in S
      BY <2>2 DEF Alike
    <3> QED
      BY <3>1 DEF Counted
  <2> QED
    BY <2>1, <2>2
<1> QED
  BY <1>2, <1>3 DEF Counted

(* So do first copies of other requests.                                   *)
LEMMA CountedPages ==
  ASSUME NEW S, IsFiniteSet(S), S \subseteq Request, Counted(S),
         NEW P, IsFiniteSet(P), \A p \in P : p.copy = 1
  PROVE  Counted(S \cup P)
<1> SUFFICES ASSUME NEW s \in S \cup P
             PROVE  s.copy <= Cardinality(Alike(S \cup P, s))
  BY DEF Counted
<1>1. IsFiniteSet(S \cup P)
  BY FS_Union
<1>2. IsFiniteSet(Alike(S \cup P, s)) /\ Cardinality(Alike(S \cup P, s)) \in Nat
  BY <1>1, FS_Subset, FS_CardinalityType DEF Alike
<1>3. CASE s \in S
  <2>1. Alike(S, s) \subseteq Alike(S \cup P, s)
    BY DEF Alike
  <2>2. /\ Cardinality(Alike(S, s)) <= Cardinality(Alike(S \cup P, s))
        /\ IsFiniteSet(Alike(S, s))
    BY <1>2, <2>1, FS_Subset
  <2>3. Cardinality(Alike(S, s)) \in Nat
    BY <2>2, FS_CardinalityType
  <2>4. s.copy \in Nat /\ s.copy <= Cardinality(Alike(S, s))
    BY <1>3 DEF Counted, Request
  <2> QED
    BY <1>2, <2>2, <2>3, <2>4
<1>4. CASE s \in P
  <2>1. Alike(S \cup P, s) # {}
    BY DEF Alike
  <2>2. Cardinality(Alike(S \cup P, s)) # 0
    BY <1>2, <2>1, FS_EmptySet
  <2> QED
    BY <1>2, <1>4, <2>2
<1> QED
  BY <1>3, <1>4

LEMMA OwedType ==
  ASSUME IInv, NEW c
  PROVE  /\ IsFiniteSet(Owed(c)) /\ Cardinality(Owed(c)) \in Nat
         /\ IsFiniteSet(Lists(c)) /\ Cardinality(Lists(c)) \in Nat
<1>1. IsFiniteSet(inFlight) /\ Owed(c) \subseteq inFlight
  BY DEF IInv, FiniteRequests, Owed
<1> QED
  BY <1>1, AccountType, FS_Subset, FS_CardinalityType

(* What NewRequest sends is new.                                           *)
LEMMA NewIsNew ==
  ASSUME IInv, Counted(inFlight), NEW op, NEW c
  PROVE  /\ NewRequest(op, c) \notin inFlight
         /\ Counted(inFlight \cup {NewRequest(op, c)})
<1> DEFINE q == NewRequest(op, c)
<1>1. q.op = op /\ q.from = c /\ q.copy = Cardinality(Copies(op, c)) + 1
  BY DEF NewRequest
<1> HIDE DEF q
<1>2. Copies(op, c) = Alike(inFlight, q)
  BY <1>1 DEF Copies, Alike
<1>3. q \notin inFlight /\ Counted(inFlight \cup {q})
  BY <1>1, <1>2, CountedGive DEF IInv, FiniteRequests, TypeOK
<1> QED
  BY <1>3 DEF q

(* The answer to the last copy of a request leaves the others numbered.    *)
LEMMA AnsweredCounted ==
  ASSUME IInv, Counted(inFlight), NEW r \in inFlight, NEW op, Answered(r, op)
  PROVE  Counted(inFlight \ {r})
<1>1. Alike(inFlight, r) = Copies(op, r.from)
  BY DEF Answered, Alike, Copies
<1> QED
  BY <1>1, CountedTake DEF Answered, IInv, FiniteRequests, TypeOK

(* With no new screen and no change to a login's requests nothing changes. *)
LEMMA OwedKept ==
  ASSUME LoginsOwed, Len(vc') = Len(vc),
         \A c \in 1..Len(vc) :
           /\ vc'[c].kind = vc[c].kind /\ vc'[c].opener = vc[c].opener
           /\ vc'[c].submitted = vc[c].submitted,
         \A r : r \in inFlight' /\ r.op \in {"login", "list"} <=>
                r \in inFlight /\ r.op \in {"login", "list"}
  PROVE  LoginsOwed'
<1> SUFFICES ASSUME NEW c \in 1..Len(vc), vc[c].kind = "login"
             PROVE  vc'[c].submitted <= Cardinality(Lists(c)') + Cardinality(Owed(c)')
  BY DEF LoginsOwed
<1>1. Lists(c)' = Lists(c) /\ Owed(c)' = Owed(c)
  BY DEF Lists, Owed
<1> QED
  BY <1>1 DEF LoginsOwed

(* A login pressed is a new request, and so counts.                        *)
LEMMA OwedSubmit ==
  ASSUME IInv, DeliverInv, NEW op, NEW weight \in Nat, Submit(op, weight),
         vc[Top].kind = "login" => op = "login" /\ weight = 1
  PROVE  DeliverInv'
<1>1. TypeOK /\ Top \in 1..Len(vc) /\ vc[Top] \in Controller
  BY TopType DEF IInv
<1> DEFINE e == [vc[Top] EXCEPT !.submitted = @ + weight]
<1>2. /\ e \in Controller /\ e.submitted = vc[Top].submitted + weight
      /\ e.kind = vc[Top].kind /\ e.opener = vc[Top].opener
  <2>1. e \in Controller /\ e.submitted = vc[Top].submitted + weight
    BY <1>1 DEF Controller
  <2>2. e.kind = vc[Top].kind /\ e.opener = vc[Top].opener
    BY <1>1 DEF Controller
  <2> QED
    BY <2>1, <2>2
<1>3. vc' = [vc EXCEPT ![Top] = e]
  BY DEF Submit
<1> HIDE DEF e
<1>4. Len(vc') = Len(vc) /\ \A c \in 1..Len(vc) : vc'[c] = IF c = Top THEN e ELSE vc[c]
  BY <1>1, <1>2, <1>3, ExceptSeq DEF TypeOK
<1> DEFINE q == NewRequest(op, Top)
<1>5. q.op = op /\ q.from = Top
  BY DEF NewRequest
<1>6. q \notin inFlight /\ Counted(inFlight \cup {q}) /\ inFlight' = inFlight \cup {q}
  BY NewIsNew DEF DeliverInv, Submit
<1> HIDE DEF q
<1>7. ASSUME NEW c \in 1..Len(vc'), vc'[c].kind = "login"
      PROVE  vc'[c].submitted <= Cardinality(Lists(c)') + Cardinality(Owed(c)')
  <2>1. c \in 1..Len(vc) /\ vc[c].kind = "login"
    BY <1>2, <1>4, <1>7
  <2>2. Lists(c)' = Lists(c)
    BY <1>2, <1>4 DEF Lists
  <2>3. /\ IsFiniteSet(Owed(c)) /\ Cardinality(Owed(c)) \in Nat
        /\ Cardinality(Lists(c)) \in Nat
    BY OwedType
  <2>4. vc[c].submitted <= Cardinality(Lists(c)) + Cardinality(Owed(c))
    BY <2>1 DEF DeliverInv, LoginsOwed
  <2>5. vc[c] \in Controller
    BY <1>1, <2>1, ElementOfSeq DEF TypeOK
  <2>6. vc[c].submitted \in Nat
    BY <2>5 DEF Controller
  <2>7. CASE c = Top
    <3>1. Owed(c)' = Owed(c) \cup {q} /\ q \notin Owed(c)
      BY <1>5, <1>6, <2>1, <2>7 DEF Owed
    <3>2. Cardinality(Owed(c)') = Cardinality(Owed(c)) + 1
      BY <2>3, <3>1, FS_AddElement
    <3>3. vc'[c].submitted = vc[c].submitted + 1
      BY <1>2, <1>4, <2>1, <2>7
    <3> QED
      BY <2>2, <2>3, <2>4, <2>6, <3>2, <3>3
  <2>8. CASE c # Top
    <3>1. Owed(c)' = Owed(c)
      BY <1>5, <1>6, <2>8 DEF Owed
    <3> QED
      BY <1>4, <2>1, <2>2, <2>4, <2>8, <3>1
  <2> QED
    BY <2>7, <2>8
<1> QED
  BY <1>6, <1>7 DEF DeliverInv, LoginsOwed

(* A login granted is followed by the request for the list.                *)
LEMMA OwedHandOver ==
  ASSUME IInv, DeliverInv, NEW r \in inFlight, Answered(r, "login"),
         inFlight' = (inFlight \ {r}) \cup {NewRequest("list", r.from)},
         UNCHANGED vc
  PROVE  DeliverInv'
<1> DEFINE q == NewRequest("list", r.from)
           rest == inFlight \ {r}
<1>1. q.op = "list" /\ q.from = r.from /\ q.copy = Cardinality(Copies("list", r.from)) + 1
  BY DEF NewRequest
<1>2. q \notin inFlight
  BY NewIsNew DEF DeliverInv
<1> HIDE DEF q
<1>3. r.op = "login"
  BY DEF Answered
<1>4. Counted(rest)
  BY AnsweredCounted DEF DeliverInv
<1>5. Copies("list", r.from) = Alike(rest, q)
  BY <1>1, <1>3 DEF Copies, Alike
<1>6. IsFiniteSet(rest) /\ rest \subseteq Request
  BY FS_Subset DEF IInv, FiniteRequests, TypeOK
<1> HIDE DEF rest
<1>7. Counted(rest \cup {q})
  BY <1>1, <1>4, <1>5, <1>6, CountedGive
<1>8. inFlight' = rest \cup {q}
  BY DEF q, rest
<1>9. ASSUME NEW c \in 1..Len(vc), vc[c].kind = "login"
      PROVE  vc[c].submitted <= Cardinality(Lists(c)') + Cardinality(Owed(c)')
  <2>1. Lists(c)' = Lists(c)
    BY DEF Lists
  <2>2. IsFiniteSet(Owed(c)) /\ Cardinality(Owed(c)) \in Nat
    BY OwedType
  <2>3. vc[c].submitted <= Cardinality(Lists(c)) + Cardinality(Owed(c))
    BY <1>9 DEF DeliverInv, LoginsOwed
  <2>4. CASE c = r.from
    <3> DEFINE others == Owed(c) \ {r}
    <3>1. Owed(c)' = others \cup {q} /\ r \in Owed(c) /\ q \notin others
      BY <1>1, <1>2, <1>3, <1>8, <2>4 DEF Owed, rest
    <3>2. IsFiniteSet(others) /\ Cardinality(others) = Cardinality(Owed(c)) - 1
      BY <2>2, <3>1, FS_RemoveElement
    <3> HIDE DEF others
    <3>3. Cardinality(Owed(c)') = Cardinality(others) + 1
      BY <3>1, <3>2, FS_AddElement
    <3>4. Cardinality(Owed(c)') = Cardinality(Owed(c))
      BY <2>2, <3>2, <3>3
    <3> QED
      BY <2>1, <2>3, <3>4
  <2>5. CASE c # r.from
    <3>1. Owed(c)' = Owed(c)
      BY <1>1, <1>8, <2>5 DEF Owed, rest
    <3> QED
      BY <2>1, <2>3, <3>1
  <2> QED
    BY <2>4, <2>5
<1> QED
  BY <1>7, <1>8, <1>9 DEF DeliverInv, LoginsOwed

(* New screens have submitted nothing, and the old ones keep their lists.  *)
LEMMA ListsGrow ==
  ASSUME IInv, NEW kind, NEW data, NEW opener, NEW n,
         MayOpen(kind, data, opener, n), JumpToScreen(kind, data, opener, n)
  PROVE  /\ Len(vc') = Len(vc) + n
         /\ \A c \in 1..Len(vc) : vc'[c] = vc[c]
         /\ \A c \in 1..Len(vc') : c \in 1..Len(vc) \/ vc'[c].submitted = 0
         /\ \A c \in 1..Len(vc) :
              /\ Cardinality(Lists(c)') \in Nat
              /\ Cardinality(Lists(c)') >= Cardinality(Lists(c))
              /\ kind = "taskList" /\ c = opener /\ n > 0 =>
                   Cardinality(Lists(c)') >= Cardinality(Lists(c)) + 1
<1>1. /\ Len(vc) \in Nat /\ n \in Nat
      /\ kind \in Kind /\ data \in Tasks \cup {NoTask} /\ opener \in Nat
  BY TopType DEF IInv, MayOpen
<1>2. JumpEffect(kind, data, opener, n)
  BY <1>1, JumpExtends DEF IInv
<1> DEFINE new == MakeScreen(kind, data, opener)
<1>3. new.kind = kind /\ new.opener = opener /\ new.submitted = 0
  BY DEF MakeScreen, SetEventHandler, SetModel, StartVC
<1> HIDE DEF new
<1>4. /\ Len(vc') = Len(vc) + n
      /\ \A c \in 1..Len(vc) : vc'[c] = vc[c]
      /\ \A c \in Len(vc) + 1 .. Len(vc) + n : vc'[c] = new
  BY <1>2 DEF JumpEffect, new
<1>5. \A c \in 1..Len(vc') : c \in 1..Len(vc) \/ c \in Len(vc) + 1 .. Len(vc) + n
  BY <1>1, <1>4
<1>6. ASSUME NEW c \in 1..Len(vc)
      PROVE  /\ Cardinality(Lists(c)') \in Nat
             /\ Cardinality(Lists(c)') >= Cardinality(Lists(c))
             /\ kind = "taskList" /\ c = opener /\ n > 0 =>
                  Cardinality(Lists(c)') >= Cardinality(Lists(c)) + 1
  <2>1. 1..Len(vc) \subseteq 1..Len(vc')
    BY <1>1, <1>4
  <2>2. Lists(c) \subseteq Lists(c)'
    BY <1>4, <2>1 DEF Lists
  <2>3. IsFiniteSet(Lists(c)')
    <3>1. IsFiniteSet(1..Len(vc'))
      BY <1>1, <1>4, FS_Interval
    <3> QED
      BY <3>1, FS_Subset DEF Lists
  <2>4. /\ Cardinality(Lists(c)) <= Cardinality(Lists(c)')
        /\ Cardinality(Lists(c)) \in Nat /\ Cardinality(Lists(c)') \in Nat
        /\ IsFiniteSet(Lists(c))
    BY <2>2, <2>3, FS_Subset, FS_CardinalityType
  <2>5. ASSUME kind = "taskList", c = opener, n > 0
        PROVE  Cardinality(Lists(c)') >= Cardinality(Lists(c)) + 1
    <3> DEFINE l == Len(vc) + 1
    <3>1. l \in Len(vc) + 1 .. Len(vc) + n /\ l \in 1..Len(vc') /\ l \notin 1..Len(vc)
      BY <1>1, <1>4, <2>5
    <3> HIDE DEF l
    <3>2. l \in Lists(c)' /\ l \notin Lists(c)
      BY <1>3, <1>4, <2>5, <3>1 DEF Lists
    <3>3. Cardinality(Lists(c) \cup {l}) = Cardinality(Lists(c)) + 1
      BY <2>4, <3>2, FS_AddElement
    <3>4. Lists(c) \cup {l} \subseteq Lists(c)'
      BY <2>2, <3>2
    <3>5. Cardinality(Lists(c) \cup {l}) <= Cardinality(Lists(c)')
      BY <2>3, <3>4, FS_Subset
    <3> QED
      BY <2>4, <3>3, <3>5
  <2> QED
    BY <2>4, <2>5
<1>7. \A c \in 1..Len(vc') : c \in 1..Len(vc) \/ vc'[c].submitted = 0
  BY <1>3, <1>4, <1>5
<1> QED
  BY <1>4, <1>6, <1>7

(* A screen opened by a tap changes no account.                            *)
LEMMA OwedOpen ==
  ASSUME IInv, LoginsOwed, NEW kind, NEW data, NEW opener, NEW n,
         MayOpen(kind, data, opener, n), JumpToScreen(kind, data, opener, n),
         UNCHANGED inFlight
  PROVE  LoginsOwed'
<1> SUFFICES ASSUME NEW c \in 1..Len(vc'), vc'[c].kind = "login"
             PROVE  vc'[c].submitted <= Cardinality(Lists(c)') + Cardinality(Owed(c)')
  BY DEF LoginsOwed
<1>1. Owed(c)' = Owed(c) /\ Cardinality(Owed(c)) \in Nat /\ Cardinality(Lists(c)) \in Nat
  BY OwedType DEF Owed
<1>2. CASE c \in 1..Len(vc)
  <2>1. /\ vc'[c] = vc[c] /\ Cardinality(Lists(c)') \in Nat
        /\ Cardinality(Lists(c)') >= Cardinality(Lists(c))
    BY <1>2, ListsGrow
  <2>2. vc[c].submitted <= Cardinality(Lists(c)) + Cardinality(Owed(c))
    BY <1>2, <2>1 DEF LoginsOwed
  <2>3. vc[c].submitted \in Nat
    <3>1. vc[c] \in Controller
      BY <1>2, ElementOfSeq DEF IInv, TypeOK
    <3> QED
      BY <3>1 DEF Controller
  <2> QED
    BY <1>1, <2>1, <2>2, <2>3
<1>3. CASE c \notin 1..Len(vc)
  <2>1. vc'[c].submitted = 0
    BY <1>3, ListsGrow
  <2>2. Len(vc') = Len(vc) + n /\ Len(vc) \in Nat /\ n \in Nat
    BY ListsGrow, TopType DEF IInv, MayOpen
  <2>3. IsFiniteSet(Lists(c)')
    <3>1. IsFiniteSet(1..Len(vc'))
      BY <2>2, FS_Interval
    <3> QED
      BY <3>1, FS_Subset DEF Lists
  <2>4. Cardinality(Lists(c)') \in Nat
    BY <2>3, FS_CardinalityType
  <2> QED
    BY <1>1, <2>1, <2>4
<1> QED
  BY <1>2, <1>3

(* The list granted to a login opens one; other answers may open more.     *)
LEMMA OwedPush ==
  ASSUME IInv, DeliverInv, NEW r \in inFlight, NEW op, Answered(r, op), op # "login",
         NEW n \in Nat, op = "list" => n > 0, PushTaskLists(r, n)
  PROVE  DeliverInv'
<1>1. /\ r.from \in 1..Len(vc) /\ Len(vc) \in Nat /\ r.op = op
      /\ inFlight \subseteq Request
  BY TopType DEF IInv, TypeOK, Answered
<1>2. /\ MayOpen("taskList", NoTask, r.from, n)
      /\ JumpToScreen("taskList", NoTask, r.from, n)
  BY <1>1 DEF MayOpen, Kind, PushTaskLists
<1>3. inFlight' = (inFlight \ {r}) \cup PageRequests(n)
  BY DEF PushTaskLists
<1>4. Counted(inFlight')
  <2> DEFINE rest == inFlight \ {r}
  <2>1. Counted(rest)
    BY AnsweredCounted DEF DeliverInv
  <2>2. IsFiniteSet(rest) /\ rest \subseteq Request
    BY <1>1, FS_Subset DEF IInv, FiniteRequests
  <2>3. IsFiniteSet(PageRequests(n)) /\ \A p \in PageRequests(n) : p.copy = 1
    <3>1. IsFiniteSet(PageRequests(n))
      BY PageRequestsType DEF IInv
    <3>2. \A p \in PageRequests(n) : p.copy = 1
      BY DEF PageRequests
    <3> QED
      BY <3>1, <3>2
  <2> HIDE DEF rest
  <2>4. Counted(rest \cup PageRequests(n))
    BY <2>1, <2>2, <2>3, CountedPages
  <2> QED
    BY <1>3, <2>4 DEF rest
<1>5. ASSUME NEW c PROVE Owed(c)' = Owed(c) \ {r}
  BY <1>3 DEF Owed, PageRequests
<1>6. ASSUME NEW c \in 1..Len(vc'), vc'[c].kind = "login"
      PROVE  vc'[c].submitted <= Cardinality(Lists(c)') + Cardinality(Owed(c)')
  <2>1. /\ IsFiniteSet(Owed(c)) /\ Cardinality(Owed(c)) \in Nat
        /\ Cardinality(Lists(c)) \in Nat
    BY OwedType
  <2>2. Cardinality(Owed(c)') = IF r \in Owed(c) THEN Cardinality(Owed(c)) - 1
                                ELSE Cardinality(Owed(c))
    <3>1. Owed(c)' = Owed(c) \ {r}
      BY <1>5
    <3> QED
      BY <2>1, <3>1, FS_RemoveElement
  <2>3. r \in Owed(c) <=> c = r.from /\ op = "list"
    BY <1>1 DEF Owed
  <2>4. CASE c \in 1..Len(vc)
    <3>1. /\ vc'[c] = vc[c] /\ Cardinality(Lists(c)') \in Nat
          /\ Cardinality(Lists(c)') >= Cardinality(Lists(c))
          /\ c = r.from /\ n > 0 =>
               Cardinality(Lists(c)') >= Cardinality(Lists(c)) + 1
      BY <1>2, <2>4, ListsGrow
    <3>2. vc[c].submitted <= Cardinality(Lists(c)) + Cardinality(Owed(c))
      BY <1>6, <2>4, <3>1 DEF DeliverInv, LoginsOwed
    <3>3. vc[c].submitted \in Nat
      <4>1. vc[c] \in Controller
        BY <2>4, ElementOfSeq DEF IInv, TypeOK
      <4> QED
        BY <4>1 DEF Controller
    <3> QED
      BY <2>1, <2>2, <2>3, <3>1, <3>2, <3>3
  <2>5. CASE c \notin 1..Len(vc)
    <3>1. vc'[c].submitted = 0
      BY <1>2, <2>5, ListsGrow
    <3>2. Cardinality(Owed(c)') \in Nat
      <4>1. r \notin Owed(c)
        BY <1>1, <2>3, <2>5
      <4> QED
        BY <2>1, <2>2, <4>1
    <3>3. Cardinality(Lists(c)') \in Nat
      <4>1. Len(vc') = Len(vc) + n
        BY <1>2, ListsGrow
      <4>2. IsFiniteSet(1..Len(vc'))
        BY <1>1, <4>1, FS_Interval
      <4>3. IsFiniteSet(Lists(c)')
        BY <4>2, FS_Subset DEF Lists
      <4> QED
        BY <4>3, FS_CardinalityType
    <3> QED
      BY <3>1, <3>2, <3>3
  <2> QED
    BY <2>4, <2>5
<1> QED
  BY <1>4, <1>6 DEF DeliverInv, LoginsOwed

(* A granted request calls its closure for success once.                   *)
LEMMA Granted ==
  /\ Count(LoginUser("result"), "success") = 1
  /\ Count(LoginUser("result"), "error") = 0
  /\ Count(GetTaskList("result"), "success") = 1
<1>1. Decodes("result")
  BY Zenon DEF Decodes
<1>2. LoginUser("result") = <<"success">> /\ GetTaskList("result") = <<"success">>
  BY <1>1, Zenon DEF LoginUser, GetTaskList
<1> DEFINE calls == <<"success">>
<1>3. DOMAIN calls = {1} /\ calls[1] = "success"
  OBVIOUS
<1>4. /\ {i \in DOMAIN calls : calls[i] = "success"} = {1}
      /\ {i \in DOMAIN calls : calls[i] = "error"} = {}
  BY <1>3
<1> HIDE DEF calls
<1>5. Count(calls, "success") = 1 /\ Count(calls, "error") = 0
  BY <1>4, FS_Singleton, FS_EmptySet DEF Count
<1> QED
  BY <1>2, <1>5, Zenon DEF calls

(* The screens of logins are alive, so the answer to one is heard.         *)
LEMMA LoginHeard ==
  ASSUME OwnersInv, NEW r \in inFlight, LoginAnswered(r, "result")
  PROVE  /\ Answered(r, "login")
         /\ inFlight' = (inFlight \ {r}) \cup {NewRequest("list", r.from)}
         /\ UNCHANGED vc
<1>1. Answered(r, "login") /\ r.op = "login"
  BY DEF LoginAnswered, Answered
<1>2. r.from \in 1..Len(vc) /\ vc[r.from].kind = "login"
  BY <1>1 DEF OwnersInv, IInv, TypeOK, LoginsAsk
<1>3. r.from \in alive
  BY <1>2 DEF OwnersInv, LoginsStay, StackAlive
<1> QED
  BY <1>1, <1>3, Granted DEF LoginAnswered

LEMMA DeliverStep ==
  ASSUME Bodies \subseteq {"result"}, OwnersInv, DeliverInv, [Next]_vars
  PROVE  DeliverInv'
<1>1. /\ IInv /\ TypeOK /\ Top \in 1..Len(vc) /\ Len(vc) \in Nat
      /\ vc[Top] \in Controller
  BY TopType DEF OwnersInv, IInv
<1>2. ASSUME UNCHANGED <<vc, inFlight>>
      PROVE  DeliverInv'
  BY <1>2 DEF DeliverInv, LoginsOwed, Lists, Owed
<1>3. CASE DismissAlert \/ BackPressed \/ (\E c \in alive : Deallocate(c)) \/ UNCHANGED vars
  <2>1. UNCHANGED <<vc, inFlight>>
    BY <1>3 DEF DismissAlert, BackPressed, Deallocate, vars
  <2> QED
    BY <1>2, <2>1
<1>4. CASE LogInPressed
  BY <1>1, <1>4, OwedSubmit DEF LogInPressed
<1>5. CASE DeletePressed \/ SavePressed
  <2>1. vc[Top].kind # "login"
    BY <1>5 DEF DeletePressed, SavePressed, On
  <2>2. CASE SavePressed
    BY <1>1, <2>1, <2>2, OwedSubmit DEF SavePressed
  <2>3. CASE DeletePressed
    <3>1. CASE Submit("delete", 2)
      BY <1>1, <2>1, <3>1, OwedSubmit
    <3>2. CASE ~Submit("delete", 2)
      BY <1>2, <2>3, <3>2 DEF DeletePressed
    <3> QED
      BY <3>1, <3>2
  <2> QED
    BY <1>5, <2>2, <2>3
<1>6. ASSUME NEW kind \in Kind, NEW data \in Tasks \cup {NoTask},
             kind = "login" \/ MayOpen(kind, data, Top, 1),
             JumpToScreen(kind, data, Top, 1), UNCHANGED inFlight
      PROVE  DeliverInv'
  <2>1. PICK top, n : top = Top /\ n = 1
    OBVIOUS
  <2>2. MayOpen(kind, data, top, n) /\ JumpToScreen(kind, data, top, n)
    BY <1>1, <1>6, <2>1 DEF MayOpen
  <2>3. LoginsOwed'
    BY <1>1, <1>6, <2>2, OwedOpen DEF DeliverInv
  <2> QED
    BY <1>6, <2>3 DEF DeliverInv
<1>7. CASE InfoPressed
  <2>1. PICK task \in vc[Top].rows : JumpToScreen("taskDetail", task, Top, 1)
    BY <1>7 DEF InfoPressed
  <2>2. task \in Tasks
    BY <1>1 DEF Controller
  <2>3. MayOpen("taskDetail", task, Top, 1)
    BY <1>1, <1>7, <2>2 DEF MayOpen, InfoPressed, On, Kind
  <2>4. "taskDetail" \in Kind /\ UNCHANGED inFlight
    BY <1>7 DEF InfoPressed, Kind
  <2> QED
    BY <1>6, <2>1, <2>2, <2>3, <2>4
<1>8. CASE SortPressed
  BY <1>6, <1>8 DEF SortPressed, Kind
<1>9. CASE AddTaskPressed
  <2>1. MayOpen("taskEdit", NoTask, Top, 1) /\ "taskEdit" \in Kind
    BY <1>1, <1>9 DEF MayOpen, AddTaskPressed, On, Kind
  <2> QED
    BY <1>6, <1>9, <2>1 DEF AddTaskPressed
<1>10. CASE EditPressed
  <2>1. vc[Top].shown \in Tasks \cup {NoTask}
    BY <1>1 DEF Controller
  <2>2. MayOpen("taskEdit", vc[Top].shown, Top, 1) /\ "taskEdit" \in Kind
    BY <1>1, <1>10, <2>1 DEF MayOpen, EditPressed, On, Kind
  <2> QED
    BY <1>6, <1>10, <2>1, <2>2 DEF EditPressed
<1>11. ASSUME NEW r \in inFlight, NEW op, Answered(r, op), op \notin {"login", "list"},
              Silent(r)
       PROVE  DeliverInv'
  <2>1. Counted(inFlight')
    BY <1>1, <1>11, AnsweredCounted DEF DeliverInv, Silent
  <2>2. \A q : q \in inFlight' /\ q.op \in {"login", "list"} <=>
               q \in inFlight /\ q.op \in {"login", "list"}
    BY <1>11 DEF Silent, Answered
  <2>3. LoginsOwed'
    BY <1>11, <2>2, OwedKept DEF DeliverInv, Silent
  <2> QED
    BY <2>1, <2>3 DEF DeliverInv
<1>12. CASE AnswerNext
  <2>1. PICK r \in inFlight :
          \/ LoginAnswered(r, "result")
          \/ ListAnswered(r, "result")
          \/ PageAnswered(r, "result")
          \/ DeleteAnswered(r, "result")
          \/ SaveAnswered(r, "result")
    BY <1>12 DEF AnswerNext
  <2>2. CASE LoginAnswered(r, "result")
    BY <1>1, <2>2, LoginHeard, OwedHandOver
  <2>3. CASE ListAnswered(r, "result")
    <3>1. PICK n : n = Count(GetTaskList("result"), "success")
      OBVIOUS
    <3>2. n \in Nat /\ n > 0
      BY <3>1, Granted
    <3>3. Answered(r, "list") /\ PushTaskLists(r, n)
      BY <2>3, <3>1 DEF ListAnswered
    <3> QED
      BY <1>1, <3>2, <3>3, OwedPush
  <2>4. CASE PageAnswered(r, "result")
    <3>1. Answered(r, "page") /\ inFlight' = inFlight \ {r} /\ r.op = "page"
      BY <2>4 DEF PageAnswered, Answered
    <3>2. Counted(inFlight')
      BY <1>1, <3>1, AnsweredCounted DEF DeliverInv
    <3>3. /\ Len(vc') = Len(vc)
          /\ \A c \in 1..Len(vc) :
               /\ vc'[c].kind = vc[c].kind /\ vc'[c].opener = vc[c].opener
               /\ vc'[c].submitted = vc[c].submitted
      <4>1. CASE UNCHANGED vc
        BY <4>1
      <4>2. CASE ~UNCHANGED vc
        <5>1. PICK tasks \in SUBSET Tasks : vc' = [vc EXCEPT ![r.from].rows = tasks]
          BY <2>4, <4>2 DEF PageAnswered
        <5>2. r.from \in 1..Len(vc) /\ vc[r.from] \in Controller
          BY <1>1, ElementOfSeq DEF TypeOK
        <5> DEFINE e == [vc[r.from] EXCEPT !.rows = tasks]
        <5>3. /\ e \in Controller /\ e.kind = vc[r.from].kind
              /\ e.opener = vc[r.from].opener
              /\ e.submitted = vc[r.from].submitted
          BY <5>2 DEF Controller
        <5>4. vc' = [vc EXCEPT ![r.from] = e]
          BY <5>1
        <5> HIDE DEF e
        <5>5. /\ Len(vc') = Len(vc)
              /\ \A c \in 1..Len(vc) : vc'[c] = IF c = r.from THEN e ELSE vc[c]
          BY <1>1, <5>2, <5>3, <5>4, ExceptSeq DEF TypeOK
        <5> QED
          BY <5>3, <5>5
      <4> QED
        BY <4>1, <4>2
    <3>4. \A q : q \in inFlight' /\ q.op \in {"login", "list"} <=>
                 q \in inFlight /\ q.op \in {"login", "list"}
      BY <3>1
    <3>5. LoginsOwed'
      BY <3>3, <3>4, OwedKept DEF DeliverInv
    <3> QED
      BY <3>2, <3>5 DEF DeliverInv
  <2>5. ASSUME NEW op \in {"delete", "save"}, Answered(r, op),
               NEW calls \in Seq({"success", "error"}),
               PushTaskLists(r, Count(calls, "success")) \/ Silent(r)
        PROVE  DeliverInv'
    <3>1. CASE Silent(r)
      BY <1>11, <2>5, <3>1
    <3>2. CASE PushTaskLists(r, Count(calls, "success"))
      <4>1. PICK n \in Nat : n = Count(calls, "success")
        BY CountNat
      <4>2. PushTaskLists(r, n)
        BY <3>2, <4>1
      <4> QED
        BY <1>1, <2>5, <4>2, OwedPush
    <3> QED
      BY <2>5, <3>1, <3>2
  <2>6. CASE DeleteAnswered(r, "result")
    <3>1. /\ Answered(r, "delete")
          /\ PushTaskLists(r, Count(DeleteTask("result"), "success")) \/ Silent(r)
      BY <2>6 DEF DeleteAnswered
    <3> QED
      BY <2>5, <3>1, CallsType
  <2>7. CASE SaveAnswered(r, "result")
    <3>1. PICK calls \in Seq({"success", "error"}) :
            calls = IF vc[r.from].shown = NoTask
                    THEN CreateTask("result") ELSE UpdateTask("result")
      BY CallsType
    <3>2. /\ Answered(r, "save")
          /\ PushTaskLists(r, Count(calls, "success")) \/ Silent(r)
      BY <2>7, <3>1 DEF SaveAnswered
    <3> QED
      BY <2>5, <3>2
  <2> QED
    BY <2>1, <2>2, <2>3, <2>4, <2>6, <2>7
<1> QED
  BY <1>3, <1>4, <1>5, <1>7, <1>8, <1>9, <1>10, <1>12 DEF Next, UserNext

(* With a server that grants every request, every login pressed on a       *)
(* screen has ended in a task list, or its request or the one for the list *)
(* is under way, whatever the user does and however the answers are        *)
(* ordered (LogInPressed, makeLogin): no answer of a login is dropped, and *)
(* no request is taken for another.                                        *)
THEOREM LoginsDeliver ==
  ASSUME Bodies \subseteq {"result"}
  PROVE  Spec => []LoginsOwed
<1>1. Init => DeliverInv
  <2> SUFFICES ASSUME Init PROVE DeliverInv
    OBVIOUS
  <2>1. /\ Len(vc) = 1 /\ vc[1].submitted = 0 /\ inFlight = {}
    BY DEF Init, MakeScreen, SetEventHandler, SetModel, StartVC
  <2>2. IInv
    BY InitIInv
  <2>3. Cardinality(Lists(1)) \in Nat /\ Cardinality(Owed(1)) \in Nat
    BY <2>2, OwedType
  <2> QED
    BY <2>1, <2>3 DEF DeliverInv, Counted, LoginsOwed
<1>2. OwnersInv /\ DeliverInv /\ [Next]_vars => OwnersInv' /\ DeliverInv'
  BY OwnersStep, DeliverStep
<1>3. DeliverInv => LoginsOwed
  BY DEF DeliverInv
<1> QED
  BY <1>1, <1>2, <1>3, OwnersInit, PTL DEF Spec

=============================================================================
