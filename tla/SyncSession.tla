----------------------------- MODULE SyncSession -----------------------------
(***************************************************************************)
(* One SyncSession of Realm's object store (sync/sync_session.cpp): the    *)
(* object that ties a Realm file to the sync client.  Threads of the       *)
(* application ask it to live, to die, to log out, to report when uploads  *)
(* are done; the one event loop thread of the sync client reports errors   *)
(* and calls the handlers registered with the underlying sync::Session.    *)
(*                                                                         *)
(* Every method takes m_state_mutex and some release it half-way.  A step  *)
(* of this module is one critical section: between two sections of a call  *)
(* any other thread may run, and that is what the properties are about.    *)
(* Callbacks of the application run after the lock is released and change  *)
(* nothing here (a callback that calls the session back is another         *)
(* thread's call), so they are called in the section that takes them out   *)
(* of the list.  One direction of completion waits is modelled, upload:    *)
(* download differs only in the list it uses.                              *)
(***************************************************************************)
EXTENDS Naturals, Sequences

CONSTANTS
    Threads,        \* threads of the application
    Callbacks,      \* completion callbacks, each passed to one wait
    StopPolicy,     \* m_config.stop_policy
    ResyncMode,     \* m_config.client_resync_mode
    MaxSessions,    \* bound: sync::Session objects made
    MaxDeaths,      \* bound: times the session starts dying
    MaxCommits,     \* bound: local commits
    MaxErrors       \* bound: errors the sync client reports

ASSUME PolicyAssumption ==
    StopPolicy \in {"Immediately", "LiveIndefinitely", "AfterChangesUploaded"}

ASSUME ResyncAssumption ==
    ResyncMode \in {"Recover", "DiscardLocal", "Manual"}

ASSUME BoundsAssumption ==
    /\ MaxSessions \in Nat /\ MaxDeaths \in Nat
    /\ MaxCommits \in Nat /\ MaxErrors \in Nat

VARIABLES
    state,              \* m_state
    deferredClose,      \* m_deferred_close
    deathCount,         \* m_death_count
    session,            \* m_session: which sync::Session, 0 for nullptr
    made,               \* sync::Session objects made so far
    terminating,        \* those destroyed whose termination is not complete
    handlers,           \* handlers registered with them and not yet called
    connection,         \* m_connection_state
    resyncCounter,      \* m_client_resync_counter
    waiters,            \* m_upload_completion_callbacks
    aside,              \* upload_handlers of a client resync under way
    outcome,            \* what became of each callback
    wanted,             \* the latest commit announced when each callback was queued
    version,            \* latest local commit
    announced,          \* latest commit the current sync::Session knows of
    uploaded,           \* latest commit the server has acknowledged
    deferredCommit,     \* m_deferred_commit_notification, 0 for none
    ignored,            \* latest commit whose notification was dropped
    refs,               \* threads that own the external reference
    pc,                 \* where each thread is
    note,               \* the version a committing thread is to announce
    client, cause,      \* where the event loop thread is, with which error
    errors,             \* errors reported so far
    revived,            \* deathCount when the session last left dying alive
    failed,             \* a REALM_ASSERT has stopped the program
    gone                \* the manager has dropped the session

machine  == <<state, deferredClose, deathCount, revived>>
link     == <<session, made, terminating, connection>>
waits    == <<handlers, resyncCounter, waiters, aside, outcome, wanted>>
commits  == <<version, announced, uploaded, deferredCommit, ignored, note>>
holders  == <<refs, pc>>
loop     == <<client, cause, errors>>
fate     == <<failed, gone>>
vars     == <<machine, link, waits, commits, holders, loop, fate>>

States      == {"waiting_for_access_token", "active", "dying", "inactive"}
Connections == {"disconnected", "connecting", "connected"}
Outcomes    == {"unused", "waiting", "success", "early", "aborted", "stale"}
Stages      == {"idle", "reported", "handling", "restoring", "reviving"}
PCs         == {"idle", "acquiring", "dropping", "configuring", "reviving",
                "committed", "notifying"}

\* The errors handle_error tells apart: the token ran out; the user's
\* credentials are refused; the Realm is refused and its file is to be deleted;
\* the server lost the file's history; any other error that ends the session.
Errors == {"token_expired", "bad_authentication", "permission_denied",
           "client_reset", "other_fatal"}

IsFatal(error) == error # "token_expired"

Handlers == [kind : {"wait", "death"}, session : Nat, mark : Nat, target : Nat]

TypeOK ==
    /\ state \in States /\ deferredClose \in BOOLEAN /\ deathCount \in Nat
    /\ session \in Nat /\ made \in Nat /\ session <= made
    /\ terminating \subseteq 1..made
    /\ handlers \in Seq(Handlers)
    /\ connection \in Connections /\ resyncCounter \in Nat
    /\ waiters \subseteq Callbacks /\ aside \subseteq Callbacks
    /\ outcome \in [Callbacks -> Outcomes] /\ wanted \in [Callbacks -> Nat]
    /\ version \in Nat /\ announced \in Nat /\ uploaded \in Nat
    /\ deferredCommit \in Nat /\ ignored \in Nat /\ note \in [Threads -> Nat]
    /\ refs \subseteq Threads /\ pc \in [Threads -> PCs]
    /\ client \in Stages /\ cause \in Errors \union {"none"} /\ errors \in Nat
    /\ revived \in Nat /\ failed \in BOOLEAN /\ gone \in BOOLEAN

-----------------------------------------------------------------------------
\* Entering the states (enter_state of each), under the lock.

\* A handler for the sync::Session now in use; the wait is over once every
\* commit announced before it was registered is uploaded.
Handler(kind, of, mark, target) ==
    [kind |-> kind, session |-> of, mark |-> mark, target |-> target]

\* add_completion_callback
WaitHandler == Handler("wait", session, resyncCounter, announced)

(* A mutant of Answered: the callbacks moved out of the list are dropped.   *)
AnsweredNobody(calls, result) == outcome

\* Everyone in calls is called with the given result.
Answered(calls, result) ==
    [c \in Callbacks |-> IF c \in calls THEN result ELSE outcome[c]]

(* A mutant of Deactivated: a session that has none is terminated too.      *)
DeactivatedUnchecked(kept) ==
    /\ state' = "inactive"
    /\ connection' = "disconnected"
    /\ outcome' = Answered(waiters \ kept, "aborted")
    /\ waiters' = {}
    /\ session' = 0
    /\ terminating' = terminating \union {session}
    /\ UNCHANGED <<deferredClose, deathCount, revived, made, wanted>>

(* A mutant of Deactivated: a client resync copies the callbacks, not moves.  *)
DeactivatedCopied(kept) ==
    /\ state' = "inactive"
    /\ connection' = "disconnected"
    /\ outcome' = Answered(waiters, "aborted")
    /\ waiters' = {}
    /\ session' = 0
    /\ terminating' = terminating \union ({session} \ {0})
    /\ UNCHANGED <<deferredClose, deathCount, revived, made, wanted>>

\* Inactive::enter_state: the session is destroyed, the list emptied and, after
\* the lock is released, its callbacks called with operation_aborted.  kept are
\* callbacks a client resync has moved out of the list beforehand.
Deactivated(kept) ==
    /\ state' = "inactive"
    /\ connection' = "disconnected"
    /\ outcome' = Answered(waiters \ kept, "aborted")
    /\ waiters' = {}
    /\ session' = 0
    /\ terminating' = terminating \union ({session} \ {0})
    /\ UNCHANGED <<deferredClose, deathCount, revived, made, wanted>>

EnterInactive(kept) == Deactivated(kept) /\ UNCHANGED handlers

\* WaitingForAccessToken::enter_state
EnterWaiting ==
    /\ state' = "waiting_for_access_token"
    /\ deferredClose' = FALSE
    /\ UNCHANGED <<deathCount, revived, link, handlers, waiters, outcome, wanted>>

(* A mutant of Requeued: no wait is registered for those in the list.       *)
RequeuedUnwatched(of, target) == handlers

\* Active::enter_state: a wait is registered for the callbacks already queued,
\* with sync::Session of.
Requeued(of, target) ==
    IF waiters = {} THEN handlers
    ELSE Append(handlers, Handler("wait", of, resyncCounter, target))

EnterActive ==
    /\ state' = "active"
    /\ handlers' = Requeued(session, announced)
    /\ revived' = IF state = "dying" THEN deathCount ELSE revived
    /\ UNCHANGED <<deferredClose, deathCount, link, waiters, outcome, wanted>>

(* A mutant of EnterDying: the count is captured before it is raised.       *)
EnterDyingOldCount ==
    /\ deathCount < MaxDeaths
    /\ state' = "dying"
    /\ deathCount' = deathCount + 1
    /\ handlers' = Append(handlers, Handler("death", session, deathCount, announced))
    /\ UNCHANGED <<deferredClose, revived, link, waiters, outcome, wanted>>

\* Dying::enter_state: the session dies when its uploads are done.
EnterDying ==
    /\ deathCount < MaxDeaths
    /\ state' = "dying"
    /\ deathCount' = deathCount + 1
    /\ handlers' = Append(handlers, Handler("death", session, deathCount + 1, announced))
    /\ UNCHANGED <<deferredClose, revived, link, waiters, outcome, wanted>>

\* A section that leaves all of the above alone.
Unmoved == UNCHANGED <<machine, link, handlers, waiters, outcome, wanted>>

\* revive_if_needed of each state
ReviveSection ==
    \/ /\ state = "inactive"
       /\ EnterWaiting
    \/ /\ state = "dying"
       /\ EnterActive
    \/ /\ state = "waiting_for_access_token"
       /\ deferredClose' = FALSE
       /\ UNCHANGED <<state, deathCount, revived, link, handlers, waiters, outcome, wanted>>
    \/ /\ state = "active"
       /\ Unmoved

\* close of each state
CloseSection ==
    \/ /\ state \in {"waiting_for_access_token", "active"}
       /\ StopPolicy = "Immediately"
       /\ EnterInactive({})
    \/ /\ state = "waiting_for_access_token"
       /\ StopPolicy # "Immediately"
       /\ deferredClose' = TRUE
       /\ UNCHANGED <<state, deathCount, revived, link, handlers, waiters, outcome, wanted>>
    \/ /\ state = "active"
       /\ StopPolicy = "AfterChangesUploaded"
       /\ EnterDying
    \/ /\ \/ state \in {"dying", "inactive"}
          \/ state = "active" /\ StopPolicy = "LiveIndefinitely"
       /\ Unmoved

-----------------------------------------------------------------------------
\* Calls of the application's threads.

Running == ~failed /\ ~gone

Idle(t) == Running /\ pc[t] = "idle"

Goto(t, from, to) ==
    /\ pc[t] = from
    /\ pc' = [pc EXCEPT ![t] = to]

\* SyncSession::log_out (also RLMSyncSession's suspend)
LogOut(t) ==
    /\ Idle(t)
    /\ state # "inactive"
    /\ EnterInactive({})
    /\ UNCHANGED <<resyncCounter, aside, commits, holders, loop, fate>>

\* SyncSession::revive_if_needed (also RLMSyncSession's resume, and a log in)
Revive(t) ==
    /\ Idle(t)
    /\ ReviveSection
    /\ UNCHANGED <<resyncCounter, aside, commits, holders, loop, fate>>

(* A mutant of Known: the deferred commit is forgotten, not announced.      *)
KnownUndeferred == IF session = 0 THEN version ELSE announced

\* The commits the sync::Session knows of once it has a token: binding a new
\* one announces all there are, to an old one the deferred commit is announced.
Known == IF session = 0 THEN version
         ELSE IF deferredCommit > announced THEN deferredCommit ELSE announced

\* SyncSession::refresh_access_token while waiting for it: the sync::Session is
\* made and bound, or the one kept is given the new token, a deferred commit is
\* announced, the callbacks queued are watched, and a deferred close happens.
\* In active only the token is passed on; dying and inactive ignore it.
RefreshAccessToken(t) ==
    /\ Idle(t)
    /\ state = "waiting_for_access_token"
    /\ session = 0 => made < MaxSessions
    /\ LET new     == IF session = 0 THEN made + 1 ELSE session
           closing == deferredClose /\ StopPolicy = "AfterChangesUploaded"
           active  == Requeued(new, Known)
           dying   == Append(active, Handler("death", new, deathCount + 1, Known))
       IN  /\ closing => deathCount < MaxDeaths
           /\ session' = new
           /\ made' = IF session = 0 THEN new ELSE made
           /\ announced' = Known
           /\ handlers' = IF closing THEN dying ELSE active
           /\ state' = IF closing THEN "dying" ELSE "active"
           /\ deathCount' = IF closing THEN deathCount + 1 ELSE deathCount
    /\ deferredCommit' = 0
    /\ UNCHANGED <<deferredClose, revived, terminating, connection, resyncCounter, waiters,
                   aside, outcome, wanted, version, uploaded, ignored, note, holders, loop, fate>>

\* SyncSession::wait_for_upload_completion: a wait is registered with the
\* sync::Session only for the first callback of the list.
WaitForUploadCompletion(t, c) ==
    /\ Idle(t)
    /\ outcome[c] = "unused"
    /\ outcome' = [outcome EXCEPT ![c] = "waiting"]
    /\ wanted' = [wanted EXCEPT ![c] = announced]
    /\ waiters' = waiters \union {c}
    /\ handlers' = IF waiters = {} /\ state \in {"active", "dying"}
                   THEN Append(handlers, WaitHandler) ELSE handlers
    /\ UNCHANGED <<machine, link, resyncCounter, aside, commits, holders, loop, fate>>

\* SyncManager::get_session finds the session: it is revived and then ...
GetSession(t) ==
    /\ Running
    /\ t \notin refs
    /\ ReviveSection
    /\ Goto(t, "idle", "acquiring")
    /\ UNCHANGED <<resyncCounter, aside, commits, refs, loop, fate>>

\* ... SyncSession::external_reference is called.
ExternalReference(t) ==
    /\ Running
    /\ Goto(t, "acquiring", "idle")
    /\ refs' = refs \union {t}
    /\ Unmoved
    /\ UNCHANGED <<resyncCounter, aside, commits, loop, fate>>

\* A thread lets go of its reference; the last one runs the destructor.
DropReference(t) ==
    /\ Running
    /\ t \in refs
    /\ refs' = refs \ {t}
    /\ Goto(t, "idle", IF refs = {t} THEN "dropping" ELSE "idle")
    /\ Unmoved
    /\ UNCHANGED <<resyncCounter, aside, commits, loop, fate>>

\* SyncSession::did_drop_external_reference
DidDropExternalReference(t) ==
    /\ Running
    /\ Goto(t, "dropping", "idle")
    /\ IF refs # {} THEN Unmoved ELSE CloseSection
    /\ UNCHANGED <<resyncCounter, aside, commits, refs, loop, fate>>

\* SyncSession::update_configuration: switch to inactive until it stays there,
\* replace the configuration, then revive.
UpdateConfiguration(t) ==
    /\ Running
    /\ \/ /\ state # "inactive"
          /\ \E from \in {"idle", "configuring"} : Goto(t, from, "configuring")
          /\ EnterInactive({})
       \/ /\ state = "inactive"
          /\ \E from \in {"idle", "configuring"} : Goto(t, from, "reviving")
          /\ Unmoved
    /\ UNCHANGED <<resyncCounter, aside, commits, refs, loop, fate>>

ReviveReconfigured(t) ==
    /\ Running
    /\ Goto(t, "reviving", "idle")
    /\ ReviveSection
    /\ UNCHANGED <<resyncCounter, aside, commits, refs, loop, fate>>

\* RealmCoordinator::commit_write: the commit, under the write lock ...
Commit(t) ==
    /\ Running
    /\ t \in refs
    /\ version < MaxCommits
    /\ version' = version + 1
    /\ Goto(t, "idle", "committed")
    /\ Unmoved
    /\ UNCHANGED <<resyncCounter, aside, announced, uploaded, deferredCommit, ignored, note,
                   refs, loop, fate>>

\* ... then, without a lock, the latest version is read ...
ReadVersion(t) ==
    /\ Running
    /\ Goto(t, "committed", "notifying")
    /\ note' = [note EXCEPT ![t] = version]
    /\ Unmoved
    /\ UNCHANGED <<resyncCounter, aside, version, announced, uploaded, deferredCommit, ignored,
                   refs, loop, fate>>

\* ... and passed to SyncSession::nonsync_transact_notify.
NonsyncTransactNotify(t) ==
    /\ Running
    /\ Goto(t, "notifying", "idle")
    /\ note' = [note EXCEPT ![t] = 0]
    /\ \/ /\ state = "waiting_for_access_token"
          /\ deferredCommit' = note[t]
          /\ UNCHANGED <<announced, ignored>>
       \/ /\ state = "active"
          /\ announced' = IF note[t] > announced THEN note[t] ELSE announced
          /\ UNCHANGED <<deferredCommit, ignored>>
       \/ /\ state \in {"dying", "inactive"}
          /\ ignored' = note[t]
          /\ UNCHANGED <<announced, deferredCommit>>
    /\ Unmoved
    /\ UNCHANGED <<resyncCounter, aside, version, uploaded, refs, loop, fate>>

-----------------------------------------------------------------------------
\* The sync client's event loop thread.

EventLoopFree == Running /\ client = "idle"

\* The server acknowledges commits of the session in use (external).
Upload ==
    /\ Running
    /\ session # 0
    /\ \E v \in (uploaded + 1)..announced : uploaded' = v
    /\ Unmoved
    /\ UNCHANGED <<resyncCounter, aside, version, announced, deferredCommit, ignored, note,
                   holders, loop, fate>>

Without(hs, i) == SubSeq(hs, 1, i - 1) \o SubSeq(hs, i + 1, Len(hs))

\* A handler is called when its condition holds, or cancelled when its
\* sync::Session has been destroyed (external: client.hpp promises both).
Due(h)       == uploaded >= h.target
Cancelled(h) == h.session \in terminating

(* A mutant of Outdated: the comparison is turned round.                     *)
OutdatedInverted(h) == h.mark = resyncCounter

\* A wait registered before the latest client resync is discarded.
Outdated(h) == h.mark # resyncCounter

\* add_completion_callback's handler: all callbacks of the list are called,
\* unless a client resync has happened since it was registered.
WaitFires(i) ==
    LET h == handlers[i] IN
    /\ EventLoopFree
    /\ h.kind = "wait"
    /\ handlers' = Without(handlers, i)
    /\ IF Outdated(h)
       THEN UNCHANGED <<waiters, outcome>>
       ELSE /\ waiters' = {}
            /\ \/ /\ Due(h)
                  /\ outcome' = [c \in Callbacks |->
                        IF c \notin waiters THEN outcome[c]
                        ELSE IF wanted[c] <= uploaded THEN "success" ELSE "early"]
               \/ /\ Cancelled(h)
                  /\ outcome' = Answered(waiters, IF session = 0 THEN "aborted" ELSE "stale")
    /\ Due(h) \/ Cancelled(h)
    /\ UNCHANGED <<machine, link, resyncCounter, aside, wanted, commits, holders, loop, fate>>

(* A mutant of DeathFires: the count is not compared.                       *)
DeathFiresUncounted(i) ==
    LET h == handlers[i] IN
    /\ EventLoopFree
    /\ h.kind = "death"
    /\ Due(h) \/ Cancelled(h)
    /\ handlers' = Without(handlers, i)
    /\ IF state = "dying" THEN Deactivated({}) ELSE UNCHANGED <<machine, link, waiters, outcome, wanted>>
    /\ UNCHANGED <<resyncCounter, aside, commits, holders, loop, fate>>

\* The handler Dying::enter_state registered: it ends the session if that is
\* still the death it was registered for.
DeathFires(i) ==
    LET h == handlers[i] IN
    /\ EventLoopFree
    /\ h.kind = "death"
    /\ Due(h) \/ Cancelled(h)
    /\ handlers' = Without(handlers, i)
    /\ IF state = "dying" /\ deathCount = h.mark
       THEN Deactivated({})
       ELSE UNCHANGED <<machine, link, waiters, outcome, wanted>>
    /\ UNCHANGED <<resyncCounter, aside, commits, holders, loop, fate>>

\* The termination of a destroyed sync::Session completes: no callback of it
\* runs any more (external).
Terminated(s) ==
    /\ EventLoopFree
    /\ s \in terminating
    /\ \A i \in 1..Len(handlers) : handlers[i].session # s
    /\ terminating' = terminating \ {s}
    /\ UNCHANGED <<machine, session, made, connection, waits, commits, holders, loop, fate>>

\* The connection state listener of a session not yet terminated: the
\* connection comes up ...
ConnectionUp(up) ==
    /\ EventLoopFree
    /\ session # 0 \/ terminating # {}
    /\ connection # up
    /\ connection' = up
    /\ UNCHANGED <<machine, session, made, terminating, waits, commits, holders, loop, fate>>

\* ... or is lost with an error, which goes to handle_error.
ConnectionLost(error) ==
    /\ EventLoopFree
    /\ session # 0 \/ terminating # {}
    /\ errors < MaxErrors
    /\ errors' = errors + 1
    /\ connection' = "disconnected"
    /\ client' = "reported"
    /\ cause' = error
    /\ UNCHANGED <<machine, session, made, terminating, waits, commits, holders, fate>>

\* The event loop thread leaves handle_error.
Handled == client' = "idle" /\ cause' = "none"

\* handle_error, first section: a dying session handles every error itself.
HandleErrorInState ==
    /\ Running
    /\ client = "reported"
    /\ IF state = "dying" /\ IsFatal(cause)
       THEN EnterInactive({})
       ELSE Unmoved
    /\ IF state = "dying" THEN Handled ELSE client' = "handling" /\ UNCHANGED cause
    /\ UNCHANGED <<resyncCounter, aside, commits, holders, errors, fate>>

Resyncs     == cause = "client_reset" /\ ResyncMode # "Manual"
Deactivates == cause = "permission_denied" \/ (cause = "client_reset" /\ ResyncMode = "Manual")

\* advance_state asserts that the session is not already in the new state.
AssertFails(target) ==
    /\ state = target
    /\ failed' = TRUE
    /\ UNCHANGED <<machine, link, waits, commits, holders, loop, gone>>

\* handle_error, second section, by the kind of error.
HandleError ==
    /\ Running
    /\ client = "handling"
    /\ \/ /\ cause = "token_expired"                \* access_token_expired
          /\ IF state = "active" THEN EnterWaiting ELSE Unmoved
          /\ Handled
          /\ UNCHANGED <<resyncCounter, aside, commits, holders, errors, fate>>
       \/ /\ cause \in {"bad_authentication", "other_fatal"} \* cancel_pending_waits
          /\ outcome' = Answered(waiters, "aborted")
          /\ waiters' = {}
          /\ Handled
          /\ UNCHANGED <<machine, link, handlers, wanted, resyncCounter, aside, commits,
                         holders, errors, fate>>
       \/ /\ Deactivates
          /\ state # "inactive"
          /\ EnterInactive({})
          /\ Handled
          /\ UNCHANGED <<resyncCounter, aside, commits, holders, errors, fate>>
       \/ /\ Resyncs
          /\ state # "inactive"
          /\ resyncCounter' = resyncCounter + 1
          /\ aside' = waiters
          /\ EnterInactive(waiters)
          /\ client' = "restoring"
          /\ UNCHANGED <<commits, holders, cause, errors, fate>>
       \/ /\ Deactivates \/ Resyncs
          /\ AssertFails("inactive")

\* The end of a client resync: the callbacks moved aside are moved back over
\* the list, the lock having been released on the way to inactive ...
RestoreHandlers ==
    /\ Running
    /\ client = "restoring"
    /\ waiters' = aside
    /\ aside' = {}
    /\ client' = "reviving"
    /\ UNCHANGED <<machine, link, handlers, resyncCounter, outcome, wanted, commits, holders,
                   cause, errors, fate>>

\* ... and the session is revived.
ReviveResynced ==
    /\ Running
    /\ client = "reviving"
    /\ ReviveSection
    /\ Handled
    /\ UNCHANGED <<resyncCounter, aside, commits, holders, errors, fate>>

\* SyncManager::unregister_session drops an inactive session nobody refers to.
Unregister ==
    /\ Running
    /\ state = "inactive" /\ refs = {}
    /\ \A t \in Threads : pc[t] = "idle"
    /\ client = "idle"
    /\ gone' = TRUE
    /\ UNCHANGED <<machine, link, waits, commits, holders, loop, failed>>

-----------------------------------------------------------------------------
\* The session just created by get_session, for the thread that asked for it.
Init ==
    /\ state = "inactive" /\ deferredClose = FALSE /\ deathCount = 0 /\ revived = 0
    /\ session = 0 /\ made = 0 /\ terminating = {} /\ connection = "disconnected"
    /\ handlers = <<>> /\ resyncCounter = 0 /\ waiters = {} /\ aside = {}
    /\ outcome = [c \in Callbacks |-> "unused"] /\ wanted = [c \in Callbacks |-> 0]
    /\ version = 0 /\ announced = 0 /\ uploaded = 0 /\ deferredCommit = 0 /\ ignored = 0
    /\ note = [t \in Threads |-> 0]
    /\ \E t \in Threads : refs = {t}
    /\ pc = [t \in Threads |-> "idle"]
    /\ client = "idle" /\ cause = "none" /\ errors = 0
    /\ failed = FALSE /\ gone = FALSE

Continue(t) ==
    \/ ExternalReference(t) \/ DidDropExternalReference(t)
    \/ ReviveReconfigured(t) \/ ReadVersion(t) \/ NonsyncTransactNotify(t)

Call(t) ==
    \/ LogOut(t) \/ Revive(t) \/ RefreshAccessToken(t)
    \/ \E c \in Callbacks : WaitForUploadCompletion(t, c)
    \/ GetSession(t) \/ DropReference(t) \/ UpdateConfiguration(t) \/ Commit(t)

HandlerFires == \E i \in 1..Len(handlers) : WaitFires(i) \/ DeathFires(i)

ErrorHandling == HandleErrorInState \/ HandleError \/ RestoreHandlers \/ ReviveResynced

ClientEvent ==
    \/ \E s \in terminating : Terminated(s)
    \/ \E up \in {"connecting", "connected"} : ConnectionUp(up)
    \/ \E error \in Errors : ConnectionLost(error)

Next ==
    \/ \E t \in Threads : Call(t) \/ Continue(t)
    \/ Upload \/ HandlerFires \/ ErrorHandling \/ ClientEvent
    \/ Unregister

\* A thread finishes the call it is in; the event loop handles its errors and
\* calls the handlers that are due; the server acknowledges what it is sent.
Fairness ==
    /\ \A t \in Threads : WF_vars(Continue(t))
    /\ WF_vars(ErrorHandling) /\ WF_vars(HandlerFires) /\ WF_vars(Upload)

Spec == Init /\ [][Next]_vars
FairSpec == Spec /\ Fairness

-----------------------------------------------------------------------------
\* Properties.

\* A handler of the given kind and mark is registered with sync::Session of.
Outstanding(hs, kind, mark, of) ==
    \E i \in 1..Len(hs) : hs[i].kind = kind /\ hs[i].mark = mark /\ hs[i].session = of

\* No callback is lost and none is called twice: those not yet called are
\* exactly the ones in the list or moved aside by a client resync.
CallbacksAccounted ==
    {c \in Callbacks : outcome[c] = "waiting"} = waiters \union aside

\* Somebody will call the queued callbacks: while the session is connected to
\* a sync::Session, a wait of that session which a resync has not outdated is
\* outstanding.  Only the first callback of a list registers one, so every way
\* into active must register again and no handler may end without emptying it.
WaitersWatched ==
    waiters # {} /\ state \in {"active", "dying"} =>
        Outstanding(handlers, "wait", resyncCounter, session)

\* A dying session has a death watch of its own: of the current session and
\* with the current count, so that it does end.
DyingWatched ==
    state = "dying" => Outstanding(handlers, "death", deathCount, session)

\* A revived session is not killed by the watch of the death it was saved
\* from, however late that handler is called and even if it is dying again.
OldWatchHarmless ==
    [][\A i \in 1..Len(handlers) :
        DeathFires(i) /\ state' # state => handlers[i].mark > revived]_vars

\* A dying session ends or is revived.
DyingEnds == state = "dying" ~> (state # "dying" \/ failed)

\* A callback queued on a session that stays connected, with a wait outstanding
\* (WaitersWatched), is called, if no client resync is putting the callbacks it
\* moved aside back over the list.
WaitersAnswered ==
    \A c \in Callbacks :
        c \in waiters /\ state = "active" /\ Outstanding(handlers, "wait", resyncCounter, session)
            ~> \/ outcome[c] # "waiting"
               \/ state \in {"waiting_for_access_token", "inactive"}
               \/ client = "restoring"
               \/ failed

\* A commit made while the session waits for its token is announced when the
\* token is there: an active session knows of the latest commit, unless its
\* notification was dropped or two threads commit at the same time.
CommitsAnnounced ==
    (state = "active" /\ (\A t \in Threads : pc[t] \notin {"committed", "notifying"}))
        => announced = version \/ ignored = version

\* Nobody is called twice: what became of a callback is settled in one step,
\* although a client resync takes the callbacks out of the list before the session
\* goes inactive, which calls those it finds, and puts them back afterwards.
CalledAtMostOnce ==
    [][\A c \in Callbacks : outcome'[c] # outcome[c] =>
            \/ outcome[c] = "unused" /\ outcome'[c] = "waiting"
            \/ outcome[c] = "waiting" /\ outcome'[c] \notin {"unused", "waiting"}]_vars

\* advance_state asserts a change of state, as if the caller had always checked
\* in the same critical section.  handle_error has not.
NoAssertionFails == ~failed
=============================================================================
