----------------------------- MODULE SyncRegistry -----------------------------
(***************************************************************************)
(* The two registries of Realm's sync sessions: SyncManager::m_sessions,   *)
(* which owns the session of each path, and SyncUser's two maps, which say *)
(* what a log in and a log out must reach.  Threads open the Realm at one  *)
(* path, let go of it, suspend and resume its session, log its user in and *)
(* out; the sync client's event loop, one of the threads, ends dying       *)
(* sessions, reports fatal errors and invalidates the user.                *)
(*                                                                         *)
(* A step is one critical section, or the part of one up to the next lock  *)
(* it takes: m_session_mutex and SyncUser::m_mutex are held across others  *)
(* and are variables, a session's own m_state_mutex never is.  Of a        *)
(* session's state only what the registries depend on is kept: SyncSession *)
(* is the module about the rest.  A session that is to close once its      *)
(* token or its uploads are there is "dying".                              *)
(***************************************************************************)
EXTENDS Naturals

CONSTANTS
    Threads,        \* threads of the program
    EventLoop,      \* the sync client's
    Nobody,         \* no thread
    StopPolicy,     \* SyncConfig::stop_policy
    MaxSessions     \* bound: SyncSession objects made

ASSUME ThreadsAssumption == EventLoop \in Threads /\ Nobody \notin Threads

ASSUME PolicyAssumption == StopPolicy \in {"Immediately", "AfterChangesUploaded"}

ASSUME BoundAssumption == MaxSessions \in Nat

VARIABLES
    listed,         \* SyncManager::m_sessions[path], 0 for no entry
    made,           \* SyncSession objects made so far
    state,          \* what each of them is doing
    refs,           \* the session a thread holds an external reference to, or 0
    probe,          \* the one unregister_session holds for a moment, or 0
    pin,            \* the session a call under way works on, or 0
    user,           \* SyncUser::m_state
    active,         \* SyncUser::m_sessions[path], 0 for no entry
    waiting,        \* SyncUser::m_waiting_sessions[path], 0 for no entry
    refused,        \* sessions whose latest registration met an invalid user
    managerLock,    \* who holds m_session_mutex
    userLock,       \* who holds SyncUser::m_mutex
    pc,             \* where each thread is
    failed          \* a REALM_ASSERT has stopped the program

vars == <<listed, made, state, refs, probe, pin, user, active, waiting, refused,
          managerLock, userLock, pc, failed>>

Sessions == 1..MaxSessions
States   == {"inactive", "alive", "dying"}
Users    == {"LoggedOut", "Active", "Error"}
PCs      == {"idle", "registering", "binding", "referencing", "dropping", "unregistering",
             "releasing", "moving", "reviving", "stuck"}

TypeOK ==
    /\ made \in 0..MaxSessions
    /\ listed \in 0..made /\ active \in 0..made /\ waiting \in 0..made
    /\ state \in [Sessions -> States]
    /\ refs \in [Threads -> 0..made] /\ probe \in [Threads -> 0..made]
    /\ pin \in [Threads -> 0..made]
    /\ user \in Users /\ refused \subseteq Sessions
    /\ managerLock \in Threads \union {Nobody} /\ userLock \in Threads \union {Nobody}
    /\ pc \in [Threads -> PCs] /\ failed \in BOOLEAN
    /\ \A t \in Threads : pin[t] = 0 <=> pc[t] = "idle"

\* A session has an external reference, among those held by threads and those
\* unregister_session is looking with.
ReferredIn(held, looking, s) == \E t \in Threads : held[t] = s \/ looking[t] = s

Referenced(s) == ReferredIn(refs, probe, s)

\* A session object still exists: weak pointers to it can be locked.
Exists(s) == s # 0 /\ (listed = s \/ Referenced(s) \/ \E t \in Threads : pin[t] = s)

Idle(t) == ~failed /\ pc[t] = "idle"

\* Thread t goes on from one place of a call to another, working on session s.
Goto(t, from, to, s) ==
    /\ ~failed
    /\ pc[t] = from
    /\ pc' = [pc EXCEPT ![t] = to]
    /\ pin' = [pin EXCEPT ![t] = s]

\* revive_if_needed of a session
Revived(s) == state' = [state EXCEPT ![s] = "alive"]

-----------------------------------------------------------------------------
\* SyncManager::get_session: under m_session_mutex the session is found or made,
\* which gives a new one its reference at once ...
GetSession(t) ==
    /\ managerLock = Nobody
    /\ refs[t] = 0
    /\ \/ /\ listed # 0
          /\ Goto(t, "idle", "registering", listed)
          /\ UNCHANGED <<listed, made, state, refs>>
       \/ /\ listed = 0
          /\ made < MaxSessions
          /\ made' = made + 1
          /\ listed' = made + 1
          /\ state' = [state EXCEPT ![made + 1] = "inactive"]
          /\ refs' = [refs EXCEPT ![t] = made + 1]
          /\ Goto(t, "idle", "registering", made + 1)
    /\ managerLock' = t
    /\ UNCHANGED <<probe, user, active, waiting, refused, userLock, failed>>

\* ... SyncUser::register_session enters it in the map for the user's state ...
RegisterSession(t) ==
    LET s == pin[t] IN
    /\ userLock = Nobody
    /\ \/ /\ user = "Active"
          /\ active' = s
          /\ refused' = refused \ {s}
          /\ Goto(t, "registering", "binding", s)
          /\ UNCHANGED waiting
       \/ /\ user = "LoggedOut"
          /\ waiting' = s
          /\ refused' = refused \ {s}
          /\ Goto(t, "registering", "referencing", s)
          /\ UNCHANGED active
       \/ /\ user = "Error"
          /\ refused' = refused \union {s}
          /\ Goto(t, "registering", "referencing", s)
          /\ UNCHANGED <<active, waiting>>
    /\ UNCHANGED <<listed, made, state, refs, probe, user, managerLock, userLock, failed>>

\* ... and, having released the user's lock, asks it to come online ...
BindRegistered(t) ==
    /\ Goto(t, "binding", "referencing", pin[t])
    /\ Revived(pin[t])
    /\ UNCHANGED <<listed, made, refs, probe, user, active, waiting, refused, managerLock,
                   userLock, failed>>

(* A mutant of TakeReference: the mutex is not released.                    *)
TakeReferenceLocked(t) ==
    /\ Goto(t, "referencing", "idle", 0)
    /\ refs' = [refs EXCEPT ![t] = pin[t]]
    /\ UNCHANGED <<listed, made, state, probe, user, active, waiting, refused, managerLock,
                   userLock, failed>>

\* ... before get_session takes the reference and leaves.
TakeReference(t) ==
    /\ Goto(t, "referencing", "idle", 0)
    /\ refs' = [refs EXCEPT ![t] = pin[t]]
    /\ managerLock' = Nobody
    /\ UNCHANGED <<listed, made, state, probe, user, active, waiting, refused, userLock, failed>>

-----------------------------------------------------------------------------
\* A thread lets go of its reference; the last one runs the destructor.
DropReference(t) ==
    LET s == refs[t] IN
    /\ s # 0
    /\ refs' = [refs EXCEPT ![t] = 0]
    /\ \/ /\ ReferredIn(refs', probe, s)
          /\ Goto(t, "idle", "idle", 0)
       \/ /\ ~ReferredIn(refs', probe, s)
          /\ Goto(t, "idle", "dropping", s)
    /\ UNCHANGED <<listed, made, state, probe, user, active, waiting, refused, managerLock,
                   userLock, failed>>

\* close of the session's state: what it becomes, and whether it unregisters.
Closed(s) ==
    IF state[s] = "alive" /\ StopPolicy = "AfterChangesUploaded" THEN "dying"
    ELSE IF state[s] = "alive" THEN "inactive"
    ELSE state[s]

Unregisters(s) == Closed(s) = "inactive"

\* SyncSession::did_drop_external_reference
DidDropExternalReference(t) ==
    LET s == pin[t] IN
    /\ \/ /\ Referenced(s)
          /\ Goto(t, "dropping", "idle", 0)
          /\ UNCHANGED state
       \/ /\ ~Referenced(s)
          /\ state' = [state EXCEPT ![s] = Closed(s)]
          /\ IF Unregisters(s) THEN Goto(t, "dropping", "unregistering", s)
                               ELSE Goto(t, "dropping", "idle", 0)
    /\ UNCHANGED <<listed, made, refs, probe, user, active, waiting, refused, managerLock,
                   userLock, failed>>

(* A mutant of Back: the call ends and keeps the session.                   *)
BackPinned(t, from) ==
    IF userLock = t THEN Goto(t, from, "moving", pin[t]) ELSE Goto(t, from, "idle", pin[t])

\* A call that went inactive is done: log_out of the user goes on with its list.
Back(t, from) ==
    IF userLock = t THEN Goto(t, from, "moving", pin[t]) ELSE Goto(t, from, "idle", 0)

(* A mutant of UnregisterSession: references are not looked for.            *)
UnregisterSessionBlindly(t) ==
    /\ managerLock = Nobody
    /\ \/ /\ listed = 0
          /\ pc[t] = "unregistering" /\ ~failed
          /\ failed' = TRUE
          /\ UNCHANGED <<listed, probe, pin, managerLock, pc>>
       \/ /\ listed # 0
          /\ listed' = 0
          /\ Back(t, "unregistering")
          /\ UNCHANGED <<probe, managerLock, failed>>
    /\ UNCHANGED <<made, state, refs, user, active, waiting, refused, userLock>>

\* SyncManager::unregister_session, called without a lock of the session: it
\* asserts that the path has an entry, and erases it unless the session there
\* is referenced, which it finds out by taking a reference.
UnregisterSession(t) ==
    /\ managerLock = Nobody
    /\ \/ /\ listed = 0
          /\ pc[t] = "unregistering" /\ ~failed
          /\ failed' = TRUE
          /\ UNCHANGED <<listed, probe, pin, managerLock, pc>>
       \/ /\ listed # 0
          /\ ~Referenced(listed)
          /\ listed' = 0
          /\ Back(t, "unregistering")
          /\ UNCHANGED <<probe, managerLock, failed>>
       \/ /\ listed # 0
          /\ Referenced(listed)
          /\ probe' = [probe EXCEPT ![t] = listed]
          /\ managerLock' = t
          /\ Goto(t, "unregistering", "releasing", pin[t])
          /\ UNCHANGED <<listed, failed>>
    /\ UNCHANGED <<made, state, refs, user, active, waiting, refused, userLock>>

\* The end of unregister_session: its reference is dropped under the lock.  If
\* it has become the last one its destructor closes the session, and a session
\* that unregisters now waits for the lock its own thread holds.
ReleaseProbe(t) ==
    LET s == probe[t] IN
    /\ probe' = [probe EXCEPT ![t] = 0]
    /\ \/ /\ ReferredIn(refs, probe', s)
          /\ Back(t, "releasing")
          /\ managerLock' = Nobody
          /\ UNCHANGED state
       \/ /\ ~ReferredIn(refs, probe', s)
          /\ state' = [state EXCEPT ![s] = Closed(s)]
          /\ IF Unregisters(s)
             THEN Goto(t, "releasing", "stuck", pin[t]) /\ UNCHANGED managerLock
             ELSE Back(t, "releasing") /\ managerLock' = Nobody
    /\ UNCHANGED <<listed, made, refs, user, active, waiting, refused, userLock, failed>>

-----------------------------------------------------------------------------
\* SyncSession::log_out, which bindings call on any session that exists (to
\* suspend it, or because its token was refused), and revive_if_needed.
LogOutSession(t, s) ==
    /\ Exists(s)
    /\ state[s] # "inactive"
    /\ state' = [state EXCEPT ![s] = "inactive"]
    /\ Goto(t, "idle", "unregistering", s)
    /\ UNCHANGED <<listed, made, refs, probe, user, active, waiting, refused, managerLock,
                   userLock, failed>>

ReviveSession(t, s) ==
    /\ Idle(t)
    /\ Exists(s)
    /\ Revived(s)
    /\ UNCHANGED <<listed, made, refs, probe, pin, user, active, waiting, refused, managerLock,
                   userLock, pc, failed>>

\* SyncUser::log_out: the session in the map is logged out under the user's
\* lock, which unregisters it if it was online ...
LogOutUser(t) ==
    /\ userLock = Nobody
    /\ user # "LoggedOut"
    /\ user' = "LoggedOut"
    /\ \/ /\ ~Exists(active)
          /\ active' = 0
          /\ Goto(t, "idle", "idle", 0)
          /\ UNCHANGED <<state, userLock>>
       \/ /\ Exists(active)
          /\ state' = [state EXCEPT ![active] = "inactive"]
          /\ userLock' = t
          /\ Goto(t, "idle", IF state[active] = "inactive" THEN "moving" ELSE "unregistering", active)
          /\ UNCHANGED active
    /\ UNCHANGED <<listed, made, refs, probe, waiting, refused, managerLock, failed>>

(* A mutant of MoveToWaiting: the session is not kept for the next log in.  *)
MoveToWaitingNone(t) ==
    /\ Goto(t, "moving", "idle", 0)
    /\ active' = 0
    /\ userLock' = Nobody
    /\ UNCHANGED <<listed, made, state, refs, probe, user, waiting, refused, managerLock, failed>>

\* ... and moved into the pool of those to be reactivated.
MoveToWaiting(t) ==
    /\ Goto(t, "moving", "idle", 0)
    /\ waiting' = pin[t]
    /\ active' = 0
    /\ userLock' = Nobody
    /\ UNCHANGED <<listed, made, state, refs, probe, user, refused, managerLock, failed>>

\* SyncManager::get_user on an existing user, SyncUser::update_refresh_token: a
\* user logged out is logged in and takes the waiting session back ...
UpdateRefreshToken(t) ==
    /\ userLock = Nobody
    /\ user = "LoggedOut"
    /\ user' = "Active"
    /\ waiting' = 0
    /\ \/ /\ ~Exists(waiting)
          /\ Goto(t, "idle", "idle", 0)
          /\ UNCHANGED active
       \/ /\ Exists(waiting)
          /\ active' = waiting
          /\ Goto(t, "idle", "reviving", waiting)
    /\ UNCHANGED <<listed, made, state, refs, probe, refused, managerLock, userLock, failed>>

\* ... which is revived when the lock has been released.
ReviveWaiting(t) ==
    /\ Goto(t, "reviving", "idle", 0)
    /\ Revived(pin[t])
    /\ UNCHANGED <<listed, made, refs, probe, user, active, waiting, refused, managerLock,
                   userLock, failed>>

\* SyncUser::all_sessions and session_for_on_disk_path clear out an entry whose
\* session no longer exists.
AllSessions(t) ==
    /\ Idle(t)
    /\ userLock = Nobody
    /\ user # "Error"
    /\ active # 0 /\ ~Exists(active)
    /\ active' = 0
    /\ UNCHANGED <<listed, made, state, refs, probe, pin, user, waiting, refused, managerLock,
                   userLock, pc, failed>>

-----------------------------------------------------------------------------
\* The event loop: a dying session has uploaded its changes, or met an error ...
SessionEnds(s) ==
    /\ Exists(s)
    /\ state[s] # "inactive"
    /\ state' = [state EXCEPT ![s] = "inactive"]
    /\ Goto(EventLoop, "idle", "unregistering", s)
    /\ UNCHANGED <<listed, made, refs, probe, user, active, waiting, refused, managerLock,
                   userLock, failed>>

\* ... and bad_authentication: SyncUser::invalidate.
Invalidate ==
    /\ Idle(EventLoop)
    /\ userLock = Nobody
    /\ \E s \in 1..made : Exists(s) /\ state[s] # "inactive"
    /\ user' = "Error"
    /\ UNCHANGED <<listed, made, state, refs, probe, pin, active, waiting, refused, managerLock,
                   userLock, pc, failed>>

-----------------------------------------------------------------------------
Init ==
    /\ listed = 0 /\ made = 0 /\ active = 0 /\ waiting = 0
    /\ state = [s \in Sessions |-> "inactive"]
    /\ refs = [t \in Threads |-> 0] /\ probe = [t \in Threads |-> 0]
    /\ pin = [t \in Threads |-> 0]
    /\ user = "Active" /\ refused = {}
    /\ managerLock = Nobody /\ userLock = Nobody
    /\ pc = [t \in Threads |-> "idle"] /\ failed = FALSE

Next ==
    \/ \E t \in Threads :
        \/ GetSession(t) \/ RegisterSession(t) \/ BindRegistered(t) \/ TakeReference(t)
        \/ DropReference(t) \/ DidDropExternalReference(t)
        \/ UnregisterSession(t) \/ ReleaseProbe(t)
        \/ \E s \in 1..made : LogOutSession(t, s) \/ ReviveSession(t, s)
        \/ LogOutUser(t) \/ MoveToWaiting(t) \/ UpdateRefreshToken(t) \/ ReviveWaiting(t)
        \/ AllSessions(t)
    \/ \E s \in 1..made : SessionEnds(s)
    \/ Invalidate

Spec == Init /\ [][Next]_vars

-----------------------------------------------------------------------------
\* Properties.

\* A session somebody refers to is the one the manager hands out for its path:
\* no two threads ever hold different sessions of one file.
ReferencedIsListed ==
    \A t \in Threads : refs[t] # 0 => refs[t] = listed

\* "A registered session will be bound at the earliest opportunity: either
\* immediately, or upon the user becoming Active": a log in finds every session
\* somebody refers to in the pool of waiting ones, and a log out finds it among
\* the active ones, unless it was opened while the user was invalid.
LogInAndOutReachIt ==
    \A t \in Threads :
        refs[t] # 0 /\ refs[t] \notin refused /\ managerLock = Nobody /\ userLock = Nobody
            => /\ user = "Active"    => active = refs[t]
               /\ user = "LoggedOut" => waiting = refs[t]

\* The next step of a call has the lock it takes.
CanGoOn(t) ==
    /\ ~failed
    /\ pc[t] \notin {"idle", "stuck"}
    /\ pc[t] = "registering" => userLock = Nobody
    /\ pc[t] = "unregistering" => managerLock = Nobody

\* get_session, with the manager's lock, waits for the user's, and log_out of
\* the user, with that one, for the manager's.
LocksCrossed ==
    \E t, u \in Threads :
        /\ managerLock = t /\ pc[t] = "registering"
        /\ userLock = u /\ pc[u] = "unregistering"

\* unregister_session, with the manager's lock, dropped the last reference.
LockTakenTwice == \E t \in Threads : pc[t] = "stuck"

\* The code deadlocks in two ways, and in no other: if the calls in progress all
\* wait for locks, a get_session and a log_out of the user hold each other up,
\* or an unregister_session waits for its own lock.  Whatever else is under way,
\* however many threads there are, somebody gets the lock he waits for.
StandstillsKnown ==
    (\E t \in Threads : pc[t] # "idle") =>
        \/ \E t \in Threads : CanGoOn(t)
        \/ LocksCrossed
        \/ LockTakenTwice
        \/ failed
=============================================================================
