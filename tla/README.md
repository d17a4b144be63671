# TimeManager: specifications

TimeManager is an iOS client of a small REST service that stores a user's
tasks. The repository holds two bodies of code. The application proper is 28
Swift files under `src/TimeManager/TimeManager`. Beside it
`src/TimeManager/Pods` carries the sources of the libraries it links, the
largest of which is Realm with its C++ object store.

The application never imports Realm. Its sources are part of the repository all
the same, and the object store is where threads, locks and callbacks meet, so
after the application's own parts its three most concurrent ones are modelled
here: the sync session, the registries of sessions and users, and the
notifications about changed collections.

This directory holds TLA+ modules for those parts, configurations that
model-check them on small instances, and proofs of their invariants for every
instance.

The application has no documents, tests or comments that state what it should
do, so its properties are those a maintainer relies on when changing the code.
The object store has comments and assertions; where a property states one of
them, it is named. One assertion fails in the model: see "Disagreements".

## The system

### How the application runs

There is one thread to think about. Taps and table callbacks run on the main
thread, and Alamofire calls every completion handler on the main queue. A
handler is never interrupted. What interleaves is whole handlers: an answer may
arrive after any number of taps, and answers arrive in any order. Buttons are
never disabled and no request is ever cancelled.

Four screens hang on a `UINavigationController`, whose bar is hidden, so the
swipe to go back is off as well and only the screens' own buttons lead back.

### Components

**RequesterURL** (`Managers/RequesterURL.swift`). A singleton with one piece of
state, the token in `UserDefaults`. Operations: `loginUser`, `getTaskList`,
`deleteTask`, `updateTask`, `createTask`. Each sends one HTTP request and turns
the answer into calls of two closures, `toDoIfSuccess` and `toDoIfError`, or of
neither when the answer is empty or cannot be decoded. All operations read the
token when they build the request. `loginUser` writes it when the answer
arrives: a token in the answer is saved, any other object removes the one saved
before. Correct when a request goes out in the name of the user on whose behalf
it is sent, and when one answer has one consequence.

**ScreensCoordinator** (`Coordinator/ScreensCoordinator.swift`). State: the
stack of the navigation controller and, beside it, a list `navigationScreens`
of what it believes to be on that stack. Operations: `start`, `jumpToScreen`
with its four `make...` functions, and the closures those hand to the
controllers as `eventHandler`. Correct when both lists agree, when "back" leads
to where the user came from, and when a screen is about the task its opener
handed over.

**Login, detail and edit screens** (`Screens/Login`, `Screens/TaskDetail`,
`Screens/TaskEdit`). Each controller has a model that is little more than one
optional value, a view that copies it in `viewDidLoad`, and closures that pass
the view's events on, to the coordinator or to `RequesterURL`. Assigning
`eventHandler` asks for the view and thereby runs `viewDidLoad`; the coordinator
has to assign the model before that. Correct when a delete or a save concerns
the task on display, and when an answer for a screen that is gone does nothing.

**Task list** (`Screens/TaskList`). `TaskListModel` keeps the rows, the number
of the last page, the page size and the total the server reported.
`getFirstTasks` starts from nothing, `getNextTask` asks for the page behind the
current one, and the table calls it whenever the tenth row from the end comes on
display. Correct when the table ends up with every task, in spite of requests
that overlap, come back in the wrong order or are lost.

**Application start** (`AppDelegate`, `SceneDelegate`, `AppConfigurator`). Makes
the window, the navigation controller and the coordinator, and calls `start`.

**The server** is external. It is modelled from what the client makes of its
answers.

**Sync session** (`Pods/Realm/Realm/ObjectStore/src/sync/sync_session.cpp`). One
`SyncSession` ties a Realm file to the sync client. State: one of
waiting for a token, active, dying, inactive; the underlying `sync::Session`;
the lists of completion callbacks; a count of deaths and one of client resyncs;
a deferred close and a deferred commit notification; a weak pointer to the
external reference whose destructor closes the session. Operations:
`refresh_access_token`, `wait_for_upload_completion`, `log_out`,
`revive_if_needed`, `external_reference` and the end of one, `handle_error`,
`nonsync_transact_notify`, `update_configuration`. Correct when no callback is
lost or called twice, when a session told to die after its uploads does so, and
when one that was revived does not.

**Sync manager and users** (`sync_manager.cpp`, `sync_user.cpp`). The manager
owns the session of every path; a user has a map of its sessions and, logged
out, of those that wait for the next log in. Correct when two threads never have
different sessions of one path, and when a log in or log out reaches every
session of the user.

**Collection notifiers** (`impl/collection_notifier.cpp`,
`impl/realm_coordinator.cpp`, `impl/results_notifier.cpp`, `shared_realm.cpp`).
A worker thread computes what changed between versions of the file and hands it
over; the Realm's own thread packages it, advances and calls the callbacks.
State: the callbacks with the changes gathered for each, the position of the loop
that calls them, the worker's versions, the version to be skipped. Operations:
adding and removing callbacks, suppressing the next notification, `notify`,
`refresh`, `begin_transaction`, `commit_write`, `cancel_transaction`, the worker's
run and hand over. Correct when every callback is told of every change once.

### Interactions

| from | to | by |
|---|---|---|
| view | its controller, then the coordinator | `eventHandler` closures |
| controller or model | `RequesterURL` | a call with two closures |
| `RequesterURL` | controller (held weakly) or coordinator | the closures, later |
| coordinator | controller | `startVC`, `model`, `eventHandler`, push, pop |
| login's answer | every later request | the token in `UserDefaults` |
| application's threads | sync session | calls, each one or more critical sections of `m_state_mutex` |
| sync client's event loop | sync session | errors, completion handlers, connection states |
| sync manager, sync user | sync session | a call under `m_session_mutex` or the user's lock |
| sync session | sync manager | `unregister_session`, with none of its own locks |
| Realm's thread | worker | a commit or a first callback wakes it up |
| worker | Realm's thread | prepared changes under a lock, then `Realm::notify` on its run loop |

### What is hard here

In the application most of it is about answers that arrive late. The user may have gone back,
opened another screen, logged in again or pressed the same button twice. A
closure whose controller was released does nothing, but a popped controller
lives on until UIKit lets go of it, and the coordinator's closure for a login
never dies. Paging has no record of what it has asked for. The token is one
value shared by everything in flight.

In the object store it is what happens between two critical sections of one
call. A session decides to go inactive under one lock and does so under the next;
handlers of an earlier life of the session are called in a later one; the last
reference is gone before its destructor has run; a weak pointer in a map may
outlive what it points to. Callbacks are added and removed while the list of them
is being called, and the worker reads whether there are any while the first one is
being added.

`PROJECT.json` lists each hazard at its line, with the properties that watch it.

## The modules

| module | models | proofs |
|---|---|---|
| `Requester` | what each operation of `RequesterURL` makes of an answer | |
| `ScreensCoordinator` | navigation, controllers, requests in flight | `ScreensCoordinatorProofs` |
| `PagedList` | abstract: what a task list promises | |
| `TaskListModel` | paging of one task list against the server | `TaskListModelProofs`, `TaskListCopiesProofs` |
| `Session` | token, concurrent logins, relaunch | `SessionProofs` |
| `TaskStore` | abstract: what saving and deleting promise | |
| `TaskEditing` | saves and deletes, and the tasks on the server | `TaskEditingProofs` |
| `SyncSession` | one sync session, its threads and the event loop | `SyncSessionProofs` |
| `SyncRegistry` | who owns, finds and forgets the session of a path | `SyncRegistryProofs` |
| `CollectionNotifier` | callbacks about a collection, the Realm's thread, the worker | `CollectionNotifierProofs` |

`MCScreensCoordinator`, `MCTaskListModel`, `MCTaskEditing` and `MCSyncSession`
only give the constants their values or say what is symmetric; the other modules
need no such module. `ScreensCoordinator` and `TaskEditing` both use `Requester` for what an
answer leads to.

### Requester

A pure module. An answer is reduced to the six bodies the handlers can tell
apart (`Body`), and for every operation a function gives the sequence of
closures called. The differences between the five are the point: `loginUser`
and `getTaskList` want certain fields, `createTask` has no case for two bytes,
`updateTask` has one and returns, `deleteTask` has one and does not return, so
that the body `{}` calls `toDoIfSuccess` twice.

### ScreensCoordinator

`vc` is a heap of all controllers ever made, `stack` holds indices into it,
`alive` says which ones have not been released, `inFlight` is a set of
requests. One action per tap (`LogInPressed`, `InfoPressed`, `SortPressed`,
`AddTaskPressed`, `EditPressed`, `BackPressed`, `DeletePressed`, `SavePressed`,
`DismissAlert`), one per kind of answer (`LoginAnswered`, `ListAnswered`,
`PageAnswered`, `DeleteAnswered`, `SaveAnswered`), and `Deallocate` for the
moment UIKit lets go of a popped controller. Answers use the functions of
`Requester` for every member of `Bodies`. `MakeScreen` follows the order of
the assignments in the code: model first, then `eventHandler`, whose `didSet`
fills the view. A task list's rows are any set of tasks here; which ones is the
subject of `TaskListModel`, and its later pages open no screen and show no
alert, so they are left to that module.

Two fields of a controller are history: `opener`, the controller on whose
behalf it was made, and `submitted`, how many screens the taps on it account
for.

### TaskListModel and PagedList

`data`, `page`, `totalCounts` and `limit` are the fields of the Swift class.
`requests` are on the way to the server and `replies` on the way back; both are
sets, so any order of delivery is possible. `ViewDidLoad` is `getFirstTasks`,
`WillDisplay` the trigger row, `Deliver` the closure `successAll`, `Lose` every
way in which an answer ends without touching the model (no data, cannot be
decoded, refused). `Serve` and `Churn` are the server and the user's other
devices. Sorting is fixed to the title by the coordinator, hence a listing is
just a sequence. The ten rows of `willDisplay` are the constant `Lookahead`.

`PagedList` is the promise: the tasks that can be seen are those of the first
pages and grow by one page at a time. `PromiseKept` states that the table
implements it, with the set of tasks in `data` as `visible`.

### Session

A token is the number of the login that granted it. The module keeps the token,
the logins, list requests and page requests in flight, and for every list the
set of sessions its rows come from. The screens are reduced to what is in front,
a login screen (0) or a list. `SaveAnswered` stands for the answers that open a
list at any moment. `Relaunch` keeps the token and forgets everything else.

### TaskEditing

Where `ScreensCoordinator` follows the screens, this module follows the data.
`server` gives for every id the save that wrote its task, `lists` are the task
lists opened so far with the rows of their first page, `editor` is the screen
over the last of them. `OpenEditor` is the info button of a row or "add",
`SavePressed` and `DeletePressed` send a request with the screen's id, in any
number. `ServeCreate`, `ServeUpdate` and `ServeDelete` carry requests out in any
order; `Lose` drops a request before that or its answer after it.
`DeliverSuccess` is the chain from the completion handler through the
controller's success closure to `jumpToScreen(.taskList(nil))` and the first
request of the new list, once or twice as `Requester` says; `DeliverNothing` is
an error, or an answer for a screen that was left and has been released.

Three simplifications, each of which allows more than the program does. A
detail and the edit screen over it are one screen, as both have the same data
and the same delete. Any screen the user has left may, but need not, have been
released when its answer comes. The alert that reports an error does not keep
the user from pressing buttons. A save without a title sends nothing and is no
action; the texts are told apart only by the save that sent them. Later pages of
a list are the subject of `TaskListModel`, so a list here is its first page and
holds every task.

`overlapped`, `deletes` and `acked` are history: ids saved again too early, ids
deleted, and the last save of each task the user was told of.

`TaskStore` is what remains of this for the tasks: orders that are carried out once
at most, or never, and reported once at most. `Store` in `TaskEditing` takes the
saves and deletes under way for its orders and the answers that are no message for
its reports.

### SyncSession

A step is one critical section of `m_state_mutex`. The `enter_state` functions of
the four state classes are `EnterInactive`, `EnterWaiting`, `EnterActive` and
`EnterDying`, their `revive_if_needed` and `close` are `ReviveSection` and
`CloseSection`, and the calls are made of those. A call that releases the lock
half-way is two actions with a place in `pc` between them: `get_session` finds
and revives, then `ExternalReference`; the destructor of the last reference, then
`DidDropExternalReference`; `UpdateConfiguration`, which goes inactive as often as
somebody revives the session in between, then `ReviveReconfigured`; a commit, the
reading of its version, and `NonsyncTransactNotify`. `handle_error` is up to four
sections: the state's own, the second by the kind of error, and for a client
resync the restoring of the callbacks and the revival.

`handlers` are the completion handlers registered with `sync::Session` objects
and not yet called. Each has the mark it captured: the resync counter for a wait,
the death count for the watch of a death. The sync client is external: it calls a
handler once the uploads it waits for are done, or cancelled once its session has
been destroyed. `outcome` records how each callback was called; "stale" is a
cancellation that a handler of a destroyed session passed to callbacks of the
session after it, "early" a success reported before the commits announced at the
time of the wait were uploaded. `revived` and `wanted` are history, `failed` is a
`REALM_ASSERT` that stops the program.

### SyncRegistry

Here a lock that is held across calls is a variable, `managerLock` for
`m_session_mutex` and `userLock` for `SyncUser::m_mutex`, and a step ends where
the next lock is taken. `GetSession`, `RegisterSession`, `BindRegistered` and
`TakeReference` are one call of `get_session`. `UnregisterSession` and
`ReleaseProbe` are `unregister_session`, which finds out whether a session is
referenced by taking a reference, and lets go of it again under the lock.
`LogOutUser`, then that call, then `MoveToWaiting` is `SyncUser::log_out`, which
holds the user's lock all along. Of a session's own state only "inactive",
"alive" and "dying" is kept, the latter also for one that closes as soon as its
token is there. A weak pointer is a number, and `Exists` says whether it can
still be locked: the manager lists the session, a thread refers to it or a call
is at work on it.

### CollectionNotifier

Every commit changes the collection, and a set of changes is the set of the
versions it covers; how rows move is the subject of the change set's own code and
not of this module. Three parties take steps. User code on the Realm's thread adds
and removes callbacks, begins and ends writes, refreshes. The run loop of that
thread delivers (`Notify`), with one action for each way through
`advance_to_ready` and `process_available_async`; `StartWaiting` and `Waited` are
the two halves of `package_and_wait`, between which begin_transaction holds the
write lock. A round of calls is `CallOne` as often as a callback is due and
`FinishRound`; user code runs in between. The worker is `WorkerStarts`, then
`AddRequiredChangeInfo`, `RunQuery` or `SkipQuery`, and `PrepareHandover`; the last
three come twice if there is a version to be skipped, since that change is then
handed over by itself.

The worker reads `m_have_callbacks` without the lock of the callbacks, and more than
once. `AddRequiredChangeInfo` is the first time (`results_notifier.cpp:93`): without
callbacks the changes on the way are not written down (`worker.asked` stays false).
`RunQuery` reads it again after the advance (`:120`), and when a callback has come in
between it compares the rows without those changes. Which of them the comparison then
shows depends on the data: `found` is any part of them. The same holds when the rows
are older than the version the worker sets out from, because `need_to_run` returned
early before (`:104`): so the changes are complete only if they were `Collected`.
Versions passed without that, or without a callback, are collected in `unwatched`.

Npos, the largest number in the code, is 0 here and positions count from 1, so
`++m_callback_index` does what it does there. `m_callback_count` is an integer: it
is unsigned in the code, and one below zero acts as larger than any index.

`Habits` names what a program may or may not do: add callbacks while callbacks
are being called, remove in the same round one that it added in it, let the run
loop turn in the middle of a write, or stop reading the collection. The checked
instance has all but the second (see "Disagreements"). `seen`, `unwanted`,
`packed` and `unwatched` are history.

## What is model-checked

| run | configuration | distinct states | time |
|---|---|---|---|
| `navigation` | `ScreensCoordinator_safety.cfg` | 1.8 million | 90 s |
| `login_opens_list` | `ScreensCoordinator_liveness.cfg` | 4 thousand | 3 s |
| `paging` | `TaskListModel_paging.cfg` | 18 thousand | 3 s |
| `churn` | `TaskListModel_churn.cfg` | 4.0 million | 40 s |
| `session` | `Session.cfg` | 440 thousand | 5 s |
| `saving` | `TaskEditing_safety.cfg` | 1.3 million | 35 s |
| `save_is_shown` | `TaskEditing_liveness.cfg` | 11 thousand | 4 s |
| `sync_session` | `SyncSession_safety.cfg` | 1.5 million | 52 s |
| `session_progress` | `SyncSession_liveness.cfg` | 1.1 million | 115 s |
| `log_out_and_error` | `SyncSession_assertion.cfg` | violated | 2 s |
| `registries` | `SyncRegistry.cfg` | 656 thousand | 28 s |
| `notifications` | `CollectionNotifier.cfg` | 731 thousand | 45 s |

### navigation

Two tasks, all six bodies, at most six controllers and three screens on account
of one controller. Six controllers are enough for a login, its list, a detail,
an edit screen, and a delete or two saves from there whose lists come on top
while other answers are pending.

- `ScreensMirrorStack`: the coordinator's list and the real stack agree in
  length, kind and task.
- `BackReturnsToOpener`: a detail or an edit screen lies directly on the screen
  that opened it. Lists pushed by late answers never slip in between, because
  they go to the top, where no button leads back.
- `ScreensAgreeOnTask`: a detail's view holds a task; an edit screen holds the
  detail's task or, opened by "add", none. This depends on the order of two
  assignments in each `make...` function.
- `ListsAccounted`: what opened a task list was one login, one save, or half a
  delete. The factor two for deletes is the double success for `{}`; with
  fewer, TLC finds a counterexample.
- `RootsStay`: the stack at and below a login or a list never changes.
  Put plainly, nothing is ever popped there: the application gets back to no
  earlier list and releases none of the buried screens.
- `ReleasedStaySilent`: no screen opens on behalf of a controller that was
  released before.

The tasks are exchangeable (`TaskSymmetry`), no action compares them. Deadlock
is not checked: `MaxControllers` disables every tap in the end, with all
requests answered.

### login_opens_list

`LoginOpensList`: with a server that grants everything, pressing "log in" n
times on a screen ends in n lists. This is the double tap seen from the other
side: none of the logins is forgotten, however their answers and those of their
list requests interleave and wherever the user has gone. The only fairness is
weak fairness of the answers. `URLSession` ends every request, with data or
with an error, and Alamofire then calls the completion handler. No tap is fair.
One task is enough, since the property is about logins.

### paging

Nine tasks in pages of two: five pages, the last one short, so the boundary in
the guard of `getNextTask` is met from both sides. Four overlapping requests,
one lost.

- `NothingMissing`: as long as the listing stays the same, every task of the
  pages up to the highest delivered has a row.
- `CalmMeansExact`: without overlaps the table is the pages in order, each row
  once, which needs the rows given by `makeTaskList` to be dropped.
- `PromiseKept`: the table implements `PagedList`.
- `ScrollingShowsAll`: once the first page has arrived, all tasks get a row.

Fairness for the last one: the view loads, the server answers, answers are
delivered, and the user keeps scrolling, stated as `Scroll`, a `WillDisplay`
with nothing in flight. A user who stops scrolling is not shown the rest, so
this assumption is a part of the statement. The first page is a premise because
nothing asks for it a second time. Pages in the run hold at least `Lookahead`
rows; with fewer, the trigger row does not exist after the first page and the
property fails.

### churn

Five pages of one task, two changes of the listing, each a deletion or an
insertion anywhere, three overlaps, one loss.

- `NoPageSkipped`: the cursor may go back but never ahead of what was
  delivered, and no request is more than one page ahead.
- `DuplicatesAccounted`: a task has at most (1 + overlaps) * (1 + changes)
  rows. The cursor can be set back by several pages by one late answer, after
  which each of them is loaded a second time, so it is not obvious that one
  overlap costs any single task only one further row.

### session

Three logins, three lists, one relaunch.

- `TokensOfThisRun`: the token outlives the process, yet nothing is ever sent
  with the token of an earlier run, because `start` shows a login screen and
  `loginUser` saves the token before it builds the request for the list.
- `SessionsAccounted`: rows of two sessions meet in one list only if a login was
  answered while that list was in front, once for each session too many. So a
  list may continue with another user's tasks, and this is the only way.

### saving

One task and two ids for new ones, three presses of save or delete, two screens,
one loss. That is enough for a save pressed twice with a third one from the next
list, a new task saved again after its answer was lost, and a delete between two
saves. There are as many free ids as creations that matter; a third creation
stays unanswered.

- `SavesStick`: what the user was told is saved is not overwritten by an older
  save, except for a task saved a second time while the first save was still on
  its way to the server. So the missing lock on the button costs exactly that:
  once a list has reported the save, nothing older about that task is under way.
- `ReadYourWrites`: the list that reports a delete lacks the task, without any
  exception: a save still on its way is refused by the server and brings nothing
  back. The list that reports a save has the task as it was saved or later, with the
  same exception as above, or lacks it because it was deleted.
- `StorePromise`: `TaskEditing` implements `TaskStore`. No save is carried out
  twice, so none leaves two tasks (`OneTaskPerSave`, a theorem), and the user is
  told of nothing that was not done. A lost answer followed by another press does
  create a copy, but that is a second save; a request repeated below the user's
  hands would break the property, and `SavesStick` with it.

Ids are not symmetric, since one of them exists from the beginning.

### save_is_shown

`SaveIsShown`: if nothing is lost, every save ends in a list that has been
loaded, unless the user goes back or deletes. The answers to a save pressed
twice come for a screen below a list, and are heard there. Fairness is that of
the network: the server carries out requests (`Serve`) and answers are delivered
(`Deliver`), both weakly fair. Going back and deleting are premises, since an
answer for a released screen opens nothing and an update of a deleted task is
refused.

### sync_session

Two threads, one callback, two `sync::Session` objects, two deaths and one error,
with client resync off. Two of each are what the properties are about: a session
that is destroyed and one after it, a death the session was saved from and one
that is to end it.

- `CallbacksAccounted`: the callbacks not yet called are exactly those in the
  list or moved aside by a client resync.
- `WaitersWatched`: while the session is active or dying and callbacks are queued, a
  wait for them is outstanding with the `sync::Session` in use. Only the first
  callback of a list registers one, so every way into active has to register
  again and no handler may end without emptying the list.
- `DyingWatched`: a dying session has a death watch of its own, with the session
  in use and the current count.
- `OldWatchHarmless`: the watch of a death the session was saved from does not end
  the session, even if it is dying once more.

### session_progress

One thread, a token that may run out, one client resync, one commit, and a server
that acknowledges what it is sent.

- `CommitsAnnounced`: an active session knows of the latest commit, unless the
  notification was dropped because the session was dying or inactive. A commit made
  while the session waits for its token is deferred and must not be forgotten.
  The premise says that no commit is between being made and being announced. The
  property is for one committing thread: of two, the one with the older version
  may be the last to have it deferred.
- `CalledAtMostOnce`: what became of a callback is settled in one step. A client
  resync moves the callbacks aside before the session goes inactive, which calls
  those it finds, so the ones it brings back have not been called.
- `DyingEnds`: a dying session ends or is revived.
- `WaitersAnswered`: a callback queued on a session that stays connected is called,
  unless a client resync is just putting back the callbacks it moved aside.

Fairness, all of it weak: a thread finishes the call it is in (`Continue`), the
event loop handles its errors and calls handlers that are due, and the server
acknowledges commits. No call of the application is fair. That handlers are
called or cancelled is the promise of `client.hpp`; a server that never answers
would keep a dying session dying, so the acknowledgement is a part of the
statement.

### registries

Three threads, one of them the event loop, two sessions of one path, policy
"after changes uploaded". Three threads are enough for a log out of the user, an
end of the session on the event loop and a `get_session` to overlap.

- `ReferencedIsListed`: the session a thread refers to is the one the manager hands
  out for the path. `unregister_session` goes by path and comes late, which is
  why it has to look for references.
- `LogInAndOutReachIt`: a session somebody refers to is in the map that the next log
  in or log out of its user goes through, unless it was opened while the user was
  invalid ("A registered session will be bound at the earliest opportunity",
  `sync_user.hpp`). Registration, revival and reference are three steps under two
  locks.

- `StandstillsKnown`: the code can deadlock, in two ways. `LogOutUser` holds the
  user's lock when `unregister_session` asks for the manager's, `get_session` holds
  the manager's when it registers with the user (`LocksCrossed`); and the reference
  `unregister_session` looks with may be the last one when it is dropped, under the
  manager's lock, which the destructor then asks for (`LockTakenTwice`). The model
  reaches both, and the property says there is no third: as long as calls are under
  way and neither has happened, one of them has the lock it needs.

TLC's own deadlock check is off for that reason; the other properties cover the
runs up to a standstill.

### notifications

Three commits, two callbacks, a writer on the Realm's thread and one elsewhere. A
skipped write with a commit of somebody else before and after it needs three
commits; a callback removed while another one is called needs two callbacks.

- `RoundIsPackaged`: during a round the first `m_callback_count` callbacks are those
  of the package that are still registered, and the loop's index is on one of them.
- `ToldExactly`: each call tells a callback of exactly what changed between the
  version it was last called at and the one the Realm shows: nothing twice,
  nothing not yet visible, nothing left out but what it asked to be spared and
  what is `unwatched`: passed by the worker while there was no callback at one of
  the times it looked, or compared with rows of a time when there was none. Such a
  version may also come again, since the rows may be older than the callback.
- `EveryChangeTold`: a callback that has had its initial call is, while it is
  registered, again and again at the point where it has been told of all there is,
  with the same two exceptions; commits are bounded, so in the end it stays there.
  Suppressed by nobody and with callbacks all along, it is told of every change.

Fairness is weak: the worker and the run loop get their turns, a callback returns,
and a program that has begun a write ends it. The coordinator's thread and a run
loop with a queued notification run on their own; ending a write is the program's
part and belongs to the statement, since nothing is delivered in the middle of
one.

### Why the bounds suffice

In the application's modules every history counter (`submitted`, `overlaps`, `churned`, `lost`, `pressed`,
`relaunches`, `screens`) is only there to bound the state space or to state a property.
No guard of the code reads one. In the object store's the bounds are on objects
made, commits, errors and deaths: the code has no limit on any of these and
treats each one like the one before. Each bound is large enough for the situation its
properties are about to occur several times over, and for every property
there is a plausible slip in the code, kept in the modules as "A mutant of
...", that TLC detects within the same bounds. The theorems remove the bounds
for most of the properties.

## What is proved

All theorems hold for every value of the constants that satisfies the named
assumptions: `TasksAssumption` (nil is no task) and `BodiesAssumption`,
`ListingAssumption` (the server lists no task twice), `ServerLimitAssumption`
and `LookaheadAssumption` (positive numbers), `BoundsAssumption` (the bounds are
numbers), `IdsAssumption` (-1 is no task's id), `ThreadsAssumption` (the event loop
is a thread, "nobody" is none), `PolicyAssumption` and `ResyncAssumption` (the
values of the two enumerations), `HabitsAssumption`. Three theorems add one of their
own: `Refinement` of the paging speaks of `MaxChurn = 0`, `ScrollingGoesOn` of
`Lookahead <= ServerLimit`, as in the code, and `LoginsDeliver` of
`Bodies \subseteq {"result"}`, a server that grants everything. `RestCorrect` and `ToldCorrect` assume
`Orderly`, described below.

**ScreensCoordinatorProofs**: `TypeCorrect`, `MirrorCorrect`, `BackCorrect`,
`TaskCorrect`, `RootsCorrect`, `SilentCorrect`, `ListsCorrect` and `LoginsDeliver`. The
inductive invariant `IInv` is the type
invariant with the three navigation invariants and two facts they lack:
`FiniteRequests`, without which the number given to the copy of a request says
nothing, and `OpenersExist`, which ties the `opener` of every controller to an
older one. Fourteen actions change the stack in only three ways, so the proof
first sorts them (`StepShape`): a step is quiet, opens n screens of one kind on
top, or closes the top. Three lemmas then show that each shape keeps `IInv`.
`SilentCorrect` is about the answers handled without a `[weak self]`, which do not
ask whether their controller lives: `OwnersInv` adds that they are those of login
screens (`LoginsAsk`), that no login screen ever leaves the stack (`LoginsStay`) and
that the screens of the stack are alive (`StackAlive`). `ListsCorrect` weighs for
every controller the lists it opened and the requests that may open one; each answer
takes at least as much off the second as it adds to the first. `LoginsDeliver` is
the other half for logins, and what `LoginOpensList` rests on besides fairness: with
a server that grants every request, a login pressed has ended in a list or is under
way. No answer of a login is dropped, since login screens are alive (`OwnersInv`),
and a request that is sent is none of those in flight (`Counted`: the copies of a
request are numbered from one without a gap, so the next number is free).

**TaskListModelProofs**: `TypeCorrect`, `CursorCorrect`, `ContentCorrect`,
`CalmCorrect`, `Refinement` and `ScrollingGoesOn`. `IInv` adds what is known of the messages on
their way and of the rows: `AnswersMatch` (while the listing stays the same, a
reply carries its page of it), `OneAtATime` (without overlaps there is one
request at most, for page `reached + 1`), `RowsOnPages` (every row comes from a
delivered page) and `Fresh` (nothing is in flight before the view is loaded).
`Refinement` shows that a delivery of page `reached + 1` is a
`Grow` of `PagedList` and that every other step leaves `visible` alone, under
the assumption `MaxChurn = 0`.

`ScrollingGoesOn` is what `ScrollingShowsAll` rests on besides fairness: while the
listing is as the list found it, the table holds every task, or the row that
triggers the next request is in the table and the guard of `getNextTask` holds.
It needs an assumption of its own, `Lookahead <= ServerLimit`: `willDisplay` looks
ten rows ahead and the server's pages have fifteen. With shorter pages it fails,
as TLC shows (`Lookahead = 3`, `ServerLimit = 2`): the first page is shorter than
the rows looked ahead, and no row is the trigger. The invariant is that the table
is at least as long as the pages delivered to it (`LongEnough`) and that the total
and the limit it keeps are the server's (`TotalsMatch`).

**TaskListCopiesProofs**: `CopiesCorrect`, that `DuplicatesAccounted` always holds.
The table does not remember which page a row came from, so the invariant looks
ahead. `RequestsPaid`: the requests in flight for a page, with the one that may
still be sent without an overlap (an answer on its way may take the cursor back),
are at most one more than the overlaps. `RowsPaid`: the rows of a task, the answers
that carry it and the requests that would bring it once more are paid for by
overlaps and changes; a change of the listing can move the task to another page,
whose requests are then at most `1 + overlaps` by `RequestsPaid`. Both were
checked by TLC on the churn instance before they were proved.

**SessionProofs**: `TypeCorrect`, `OwnNameCorrect` (the list a login opens is asked
for with that login's own token), `TokensCorrect`,
`SessionsCorrect`. The last one needs a set larger than the sessions on
display: `Reach(i)`, the sessions whose rows list i shows, will show once its
requests are answered, or would ask for now because it is in front. A login
answered in front of a list adds one element to it and one to the count of
changes; a delivered page moves an element within it; nothing else adds any.

**TaskEditingProofs**: `TypeCorrect`, `SavesCorrect`, `ReadsCorrect`,
`OneTaskCorrect`, `Refinement`, `ListsWillLoad` and `SavesAreFollowed`. The first three properties follow a save through the system, and
`IInv` has one fact for every place it can be: on its way it is newer than what
the server holds and the only update of its task (`OneSave`), answered it is on
the server (`AnswersDone`), reported it still is (`ListsDone`), and the rows on
their way to the reporting list were read after that (`PagesDone`). `Numbered`
makes a save pressed now the newest of all, `FreeUnheard` that an id the server
gives to a new task has appeared nowhere before, `Named` that every delete on
its way was pressed, and `Once` that a request is carried out once. What a row has
to be after an answer is `Reflects`, the same for the server, for rows on their way
and for those of a list. It stays true of the server because of how a request
changes one id (`Advances`): to a newer save of a task that is there, to none only
for an id in `deletes`, and never back from none, which makes the half about deletes
hold for every id. Only ids saved twice at a time (`overlapped`) are free to change
in any way in between; that set grows only, and `Steady`, the ids without deletes
besides, only shrinks, so the exceptions can be as narrow as they are.

`Refinement` maps a step of `TaskEditing` to one of `TaskStore`: a press is an
order, what the server does with it creates, updates, deletes or drops, an answer
heard is told, one for a screen that was left is forgotten, and pages and screens do
not show. The orders are the requests without their senders, so taking one request
away has to take one order away: that needs `Once`, and for the answers
`AnsweredOnce`, an invariant of its own.

`ListsWillLoad` and `SavesAreFollowed` are what `SaveIsShown` rests on besides
fairness. A list without its first page has the request or the answer under way as
long as nothing was lost. And a save is followed from the press to the list: at
every step the message that carries it on is there, unless it was lost, its screen
was left or its task deleted. The second needs to know that the server
refuses no save but that of a deleted task (`AnswersFit`), and that the tasks it
misses were deleted (`GoneDeleted`).

**SyncSessionProofs**: for any policy and resync mode `TypeCorrect`,
`SessionAlwaysPresent` (a `sync::Session` is there whenever the code dereferences
the pointer to it), `DyingAlwaysWatched`, `OldWatchesHarmless`, `CalledOnce`,
`HandlersAnswerable` and `DyingCanAlwaysEnd`; until the first client resync
`SafeUntilResync` and `WaitersCanAlwaysBeCalled`, from which `NoCallbackLost` and
`WaitersAlwaysWatched` follow for the mode that never resyncs; and `CommitsKnown` for
one committing thread. The first group rests on an invariant
that adds two facts to the properties: `SessionPresent`, and `DeathsCounted` (the
death under way is later than the last one the session was saved from). Every
critical section is one of six ways to enter a state, so the proof has one lemma for
each of those, and one for a call is then a choice among them. After a resync
`CallbacksAccounted` and `WaitersWatched` do not hold, because of the way callbacks
are put back; the theorems say "until" by the resync counter, which
`ResyncsCounted` shows to be raised by nothing else. `CalledOnce` holds all the
same: `OnceInv` says that
the list and the callbacks aside are disjoint, and that none are aside but between
the two halves of a resync. A callback put back over the list may displace others,
but it has not been called itself.

`HandlersAnswerable` is what makes `DyingEnds` and `WaitersAnswered` plausible
beyond the instances TLC sees: every handler outstanding belongs to a destroyed
`sync::Session` or waits for a commit that the one in use has been told of.
Numbers only grow on their way from the file to the server (`CommitsOrdered`), and a
session that is destroyed takes its handlers along (`Destroyed`). Together with the
watches, the session can always go on: once the server has acknowledged all it was
sent, a dying session has a watch for this death that is due
(`DyingCanAlwaysEnd`), and the callbacks of a connected one have a wait that is due
and not outdated (`WaitersCanAlwaysBeCalled`). What is left of the two liveness
properties is fairness.

`CommitsKnown` follows the number of the latest
commit (`CommitInv`): it is with the thread that made it, then deferred or known to
the `sync::Session`, and a section of the code either ends without a
`sync::Session`, to which all commits are announced anew, or keeps the one there
was.

**SyncRegistryProofs**: `TypeCorrect`, `OneSessionPerPath`, `LogInAndOutReach` and
`NoOtherStandstill`. The invariant says what each lock protects: a thread between finding a session and
referring to it has the manager's lock and the session stays listed
(`LocksOwned`), a session probed by `unregister_session` is listed
(`ProbedIsListed`), and while its user is being logged out the session on its way
between the maps is the one listed (`Reachable`).
`NoOtherStandstill` follows the locks from who waits to who holds: a waiting
`get_session` holds the manager's lock, so whoever holds the user's can go on unless
it waits for the manager's itself. It adds that the manager's lock is never held
where no call needs it (`ManagerLockUsed`).

**CollectionNotifierProofs**: `TypeCorrect`, `HaveExact`, `RoundCorrect` and
`ToldCorrect`, for any number of versions and callbacks and every program that
does not remove a callback in the round it was added in (`Orderly`). The first
three follow from `RoundInv`: besides the property, tokens are handed out once and
the index stays on the vector. `ToldExactly` needs to know what each callback has
in its hands at any moment. `Covers(S, v, w, ...)` says that the changes in S take a
callback from version v to version w, but for what it is spared. With that
`ToldInv` is: what was packaged takes a callback the round has still to reach to
what the Realm shows, what has been accumulated since takes it on to what the
worker has handed over, and once it has been called the two are one stretch.
`WorkInv` says the same of what the worker is computing; what it did not collect is
`unwatched` from the step on that compares the rows. Two cases do not fit and
need invariants of their own. A package that is discarded because the Realm is
ahead of it may hold nothing but what the callback is spared (`WriteInv`), which
is so because the Realm gets ahead only by its own writes, at whose beginning every
callback is up to date, and the worker stops at every one of them. And what a hand
over drops for a callback that skips is what that callback asked not to be told
of (`SkipInv`).

`RestCorrect` is what `EveryChangeTold` rests on besides fairness: once no round is
under way, no notification is queued and the worker sleeps with nobody to wake it,
every callback called before has been told of all there is but what it is spared. A wake-up is not lost
(`WakeInv`: the worker is at the newest version, on its way there, or will be
woken), and neither is a notification: one that is used up without a call found
every callback with all the worker had handed over (`Heard`).

Only model-checked: `ScrollingShowsAll`, `LoginOpensList`, `SaveIsShown`,
`DyingEnds`, `WaitersAnswered` and `EveryChangeTold`, since liveness is beyond the
prover. What can be said of them without fairness, that what they wait for is always
under way or can still be done, is proved: `ScrollingGoesOn`, `LoginsDeliver`,
`ListsWillLoad` with `SavesAreFollowed`, `DyingCanAlwaysEnd`,
`WaitersCanAlwaysBeCalled` and `RestCorrect`. The definitions of `Requester` are checked through the modules that use it.

## Disagreements

- `log_out_and_error` violates `NoAssertionFails`. `advance_state` asserts that the
  new state differs from the old (`sync_session.cpp:764`). `handle_error` decides
  to deactivate in one critical section and does it in another; a `log_out` in
  between makes the session inactive first. Assertions are kept in release builds
  (`config.h:9`).

The following were met while modelling. They are listed as hazards at their lines,
and the properties are stated so that they are true of the code.

- A callback added after a package and removed before its round ends takes one off
  `m_callback_count`, although it was never counted (`collection_notifier.cpp:214`).
  The last callback then misses its change, or the count drops below zero. With the
  habit "removesLatecomers" TLC breaks `RoundIsPackaged`, which is what the comment at
  `collection_notifier.hpp:240` says of the count.
- A run under way when `skip_next` is set clears the mark with changes that do not
  include the suppressed write (`collection_notifier.cpp:413`), which is then told
  after all. `ToldExactly` therefore lets a suppressed change be told.
- The worker reads `m_have_callbacks` without a lock before it advances
  (`results_notifier.cpp:93`) and while it runs the query (`:104`, `:120`). A first
  callback added after either read has its initial call before the hand over. Added
  after the last, it is never told of the change in between; added after the first,
  the rows are compared without the changes on the way, and modifications are missed;
  the comment at `collection_notifier.hpp:233` expects extra work at worst. When
  `need_to_run` returned early because nobody looked, the rows of the next comparison
  are of that time, and the changes used with them are not. These versions are
  `unwatched`.
- A callback added during a round wakes nobody: its initial call waits for the next
  change. `EveryChangeTold` starts with the initial call for this reason.
- `Realm::notify` that comes in the middle of a write is used up. If the write is then
  cancelled, its changes wait for the next commit or refresh of anybody.
- A handler of a destroyed `sync::Session` is told from one of the session after it
  only by the resync counter, which a log out and log in do not raise, so waiters of
  the new session can be called with the cancellation of the old one.
- A callback queued behind another is answered by the first one's wait, which does
  not cover commits made since.
- `SyncUser::log_out` and `SyncManager::get_session` take the user's and the
  manager's lock in opposite orders, and `unregister_session` may drop the last
  reference to an inactive session under the lock that the destructor then asks
  for.

## What is not modelled

Of the application:

- Layout, storyboards, images, the colours of the priority buttons, date
  formats, and the bell button, which swaps an icon.
- The text of requests: JSON, headers apart from the token, sort parameters.
- On iOS 13 `AppDelegate` builds a second window with a coordinator of its own.
  It is never visible, receives no taps and therefore sends nothing.
- Wrong URLs: `mainURL` is a constant and ids are numbers, so the `guard`s for
  `URL(string:)` do not fail.

Of the object store, next to the modules:

- `SyncSession`: the download direction, which repeats the upload one with a list
  of its own; progress notifiers; the server override, url prefix and multiplex
  identity, which set a field; `close()`, which nothing in the repository calls.
- `SyncRegistry`: more than one path or user, admin users, the management and
  permission sessions, the metadata Realm and its file actions, client settings.
- `CollectionNotifier`: several notifiers of one Realm, which hand over under one
  lock and share their version; unregistering; errors in opening the worker's file
  (`deliver_error`); key-value observers; list and object notifiers; the row
  arithmetic of change sets; and writes begun or ended inside a callback, after
  which, as the source says itself, changes are lost.

Of the libraries as a whole:

- Realm's storage engine is present only as headers
  (`Pods/Realm/include/core`). What they declare is defined in a binary, so there
  are no operations to model; they are most of the C++ in the repository, which is
  why the modules cover a small share of its lines.
- The rest of the object store (schema and migration, results, lists, async open,
  partial sync) and the Objective-C and Swift bindings: mostly translation of calls
  and data on one thread.
- Alamofire and SnapKit: of the first only the contract with its caller is used,
  the second lays out views.

## Plan

1. Done: `Requester`, `ScreensCoordinator`, `TaskListModel` over `PagedList`,
   `Session`, `TaskEditing`, `SyncSession`, `SyncRegistry`, `CollectionNotifier`,
   with proofs.
2. `TimeManagerApp`: the composition of navigation, paging and editing.
   Properties of interest: `ReadYourWrites` for the row the user sees when the
   list has several pages, and whether a row of a list can lead to a detail of a
   task that is gone.
3. Two notifiers of one Realm in `CollectionNotifier`, and a sync session in its
   registries: `SyncRegistry` with the sessions of `SyncSession` in place of its
   three states.
