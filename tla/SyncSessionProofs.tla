-------------------------- MODULE SyncSessionProofs --------------------------
(***************************************************************************)
(* What holds of a SyncSession for any number of threads, callbacks,       *)
(* commits and errors, any stop policy and any resync mode: its type, that *)
(* the underlying sync::Session is there when a state uses it, that a      *)
(* dying session is watched and can end, that an old watch does not kill a *)
(* revived one, that every callback is called once at most, and that no    *)
(* handler waits for what cannot happen.  Until the first client resync    *)
(* also that no callback is lost and that somebody will call the queued    *)
(* ones: only a resync lets go of the lock while it moves them.            *)
(***************************************************************************)
EXTENDS SyncSession, SequenceTheorems, TLAPS

USE BoundsAssumption

-----------------------------------------------------------------------------
\* Lemmas about the list of handlers.

\* Registering a handler keeps the outstanding ones and adds itself.
LEMMA AppendOutstanding ==
    ASSUME NEW hs \in Seq(Handlers), NEW h \in Handlers,
           NEW kind, NEW mark, NEW of
    PROVE  /\ Append(hs, h) \in Seq(Handlers)
           /\ Outstanding(hs, kind, mark, of) => Outstanding(Append(hs, h), kind, mark, of)
           /\ Outstanding(Append(hs, h), h.kind, h.mark, h.session)
<1>1. /\ Append(hs, h) \in Seq(Handlers)
      /\ Len(Append(hs, h)) = Len(hs) + 1
      /\ \A i \in 1..Len(hs) : Append(hs, h)[i] = hs[i]
      /\ Append(hs, h)[Len(hs) + 1] = h
  OBVIOUS
<1>2. Len(hs) \in Nat
  OBVIOUS
<1>3. ASSUME Outstanding(hs, kind, mark, of)
      PROVE  Outstanding(Append(hs, h), kind, mark, of)
  <2>1. PICK i \in 1..Len(hs) : hs[i].kind = kind /\ hs[i].mark = mark /\ hs[i].session = of
    BY <1>3 DEF Outstanding
  <2>2. i \in 1..Len(Append(hs, h)) /\ Append(hs, h)[i] = hs[i]
    BY <1>1, <1>2
  <2> QED
    BY <2>1, <2>2 DEF Outstanding
<1>4. Outstanding(Append(hs, h), h.kind, h.mark, h.session)
  <2>1. Len(hs) + 1 \in 1..Len(Append(hs, h))
    BY <1>1, <1>2
  <2> QED
    BY <1>1, <2>1 DEF Outstanding
<1> QED
  BY <1>1, <1>3, <1>4

\* Taking one handler out closes the gap.
LEMMA WithoutElements ==
    ASSUME NEW hs \in Seq(Handlers), NEW i \in 1..Len(hs)
    PROVE  /\ Without(hs, i) \in Seq(Handlers)
           /\ Len(Without(hs, i)) = Len(hs) - 1
           /\ \A j \in 1..(i - 1) : Without(hs, i)[j] = hs[j]
           /\ \A j \in i..(Len(hs) - 1) : Without(hs, i)[j] = hs[j + 1]
<1> DEFINE front == SubSeq(hs, 1, i - 1)
           back  == SubSeq(hs, i + 1, Len(hs))
<1>1. Len(hs) \in Nat /\ i \in Nat /\ 1 <= i /\ i <= Len(hs)
  OBVIOUS
<1>2. /\ front \in Seq(Handlers) /\ Len(front) = i - 1
      /\ \A j \in 1..(i - 1) : front[j] = hs[j]
  <2>1. \A j \in 1..(i - 1) : hs[j] \in Handlers
    BY <1>1
  <2> QED
    BY <1>1, <2>1, SMTT(30)
<1>3. /\ back \in Seq(Handlers) /\ Len(back) = Len(hs) - i
      /\ \A j \in 1..(Len(hs) - i) : back[j] = hs[i + j]
  BY <1>1, SMTT(30)
<1> HIDE DEF front, back
<1>4. /\ front \o back \in Seq(Handlers)
      /\ Len(front \o back) = Len(hs) - 1
      /\ \A j \in 1..(i - 1) : (front \o back)[j] = hs[j]
      /\ \A j \in i..(Len(hs) - 1) : (front \o back)[j] = hs[j + 1]
  <2>1. /\ front \o back \in Seq(Handlers) /\ Len(front \o back) = Len(front) + Len(back)
        /\ \A j \in 1..(Len(front) + Len(back)) :
              (front \o back)[j] = IF j <= Len(front) THEN front[j] ELSE back[j - Len(front)]
    BY <1>2, <1>3, ConcatProperties
  <2>2. \A j \in 1..(i - 1) : (front \o back)[j] = hs[j]
    BY <1>1, <1>2, <1>3, <2>1
  <2>4. ASSUME NEW j \in i..(Len(hs) - 1) PROVE (front \o back)[j] = hs[j + 1]
    <3>1. /\ j \in 1..(Len(front) + Len(back)) /\ ~(j <= Len(front))
          /\ j - Len(front) = j - i + 1
      BY <1>1, <1>2, <1>3
    <3>2. j - i + 1 \in 1..(Len(hs) - i) /\ i + (j - i + 1) = j + 1
      BY <1>1
    <3> QED
      BY <2>1, <1>3, <3>1, <3>2
  <2> QED
    BY <1>1, <1>2, <1>3, <2>1, <2>2, <2>4
<1> QED
  BY <1>4 DEF Without, front, back

\* Every other handler is kept, and there are no new ones.
LEMMA WithoutOutstanding ==
    ASSUME NEW hs \in Seq(Handlers), NEW i \in 1..Len(hs),
           NEW kind, NEW mark, NEW of
    PROVE  /\ Without(hs, i) \in Seq(Handlers)
           /\ \A j \in 1..Len(Without(hs, i)) :
                 \E k \in 1..Len(hs) : Without(hs, i)[j] = hs[k]
           /\ Outstanding(hs, kind, mark, of)
              /\ ~(hs[i].kind = kind /\ hs[i].mark = mark /\ hs[i].session = of)
                 => Outstanding(Without(hs, i), kind, mark, of)
<1>1. Len(hs) \in Nat /\ i \in Nat /\ 1 <= i /\ i <= Len(hs)
  OBVIOUS
<1>2. ASSUME NEW j \in 1..Len(Without(hs, i))
      PROVE  \E k \in 1..Len(hs) : Without(hs, i)[j] = hs[k]
  <2>1. j \in 1..(Len(hs) - 1) /\ j \in 1..Len(hs) /\ j + 1 \in 1..Len(hs)
    BY <1>1, WithoutElements
  <2>2. j \in 1..(i - 1) \/ j \in i..(Len(hs) - 1)
    BY <1>1, <2>1
  <2> QED
    BY <2>1, <2>2, WithoutElements
<1>3. ASSUME Outstanding(hs, kind, mark, of),
             ~(hs[i].kind = kind /\ hs[i].mark = mark /\ hs[i].session = of)
      PROVE  Outstanding(Without(hs, i), kind, mark, of)
  <2>1. PICK k \in 1..Len(hs) : hs[k].kind = kind /\ hs[k].mark = mark /\ hs[k].session = of
    BY <1>3 DEF Outstanding
  <2>2. k # i
    BY <1>3, <2>1
  <2>3. PICK n \in 1..(Len(hs) - 1) : Without(hs, i)[n] = hs[k]
    <3>1. CASE k < i
      <4>1. k \in 1..(i - 1) /\ k \in 1..(Len(hs) - 1)
        BY <3>1, <1>1
      <4> QED
        BY <4>1, WithoutElements
    <3>2. CASE k > i
      <4>1. k - 1 \in i..(Len(hs) - 1) /\ k - 1 \in 1..(Len(hs) - 1) /\ (k - 1) + 1 = k
        BY <3>2, <1>1
      <4> QED
        BY <4>1, WithoutElements
    <3>3. k < i \/ k > i
      BY <2>2, <1>1
    <3> QED
      BY <3>1, <3>2, <3>3
  <2>4. n \in 1..Len(Without(hs, i))
    BY <2>3, WithoutElements
  <2> QED
    BY <2>1, <2>3, <2>4 DEF Outstanding
<1> QED
  BY <1>2, <1>3, WithoutElements

-----------------------------------------------------------------------------
\* The invariant, in the parts the sections of the code disturb.

\* The types of what a section may change, and of the rest.
MovedType ==
    /\ state \in States /\ deferredClose \in BOOLEAN /\ deathCount \in Nat /\ revived \in Nat
    /\ session \in Nat /\ made \in Nat /\ session <= made
    /\ terminating \subseteq 1..made
    /\ handlers \in Seq(Handlers) /\ connection \in Connections
    /\ waiters \subseteq Callbacks /\ outcome \in [Callbacks -> Outcomes]
    /\ wanted \in [Callbacks -> Nat]

RestType ==
    /\ resyncCounter \in Nat /\ aside \subseteq Callbacks
    /\ version \in Nat /\ announced \in Nat /\ uploaded \in Nat
    /\ deferredCommit \in Nat /\ ignored \in Nat /\ note \in [Threads -> Nat]
    /\ refs \subseteq Threads /\ pc \in [Threads -> PCs]
    /\ client \in Stages /\ cause \in Errors \union {"none"} /\ errors \in Nat
    /\ failed \in BOOLEAN /\ gone \in BOOLEAN

\* A death is later than the last one the session was saved from.
DeathsCounted ==
    /\ revived <= deathCount
    /\ state = "dying" => revived < deathCount

\* The underlying sync::Session exists exactly when a state needs it: active
\* and dying use m_session unchecked (wait_for_completion asserts it), and an
\* inactive session has none (update_configuration asserts that).
SessionPresent ==
    /\ state \in {"active", "dying"} => session # 0
    /\ state = "inactive" => session = 0

SectionInv == MovedType /\ SessionPresent /\ DyingWatched /\ DeathsCounted

moved == <<machine, link, handlers, waiters, outcome, wanted>>

LEMMA TypeParts == TypeOK <=> MovedType /\ RestType
BY DEF TypeOK, MovedType, RestType

LEMMA UnmovedKeeps ==
    ASSUME SectionInv, UNCHANGED moved
    PROVE  SectionInv'
BY DEF SectionInv, moved, machine, link, MovedType, SessionPresent, DyingWatched, DeathsCounted,
       Outstanding

\* Entering inactive, whatever becomes of the callbacks.
LEMMA DeactivatedKeeps ==
    ASSUME SectionInv, NEW kept, Deactivated(kept), handlers' \in Seq(Handlers)
    PROVE  SectionInv'
<1>1. MovedType'
  <2>1. Answered(waiters \ kept, "aborted") \in [Callbacks -> Outcomes]
    BY DEF SectionInv, MovedType, Answered, Outcomes
  <2>2. terminating' \subseteq 1..made
    BY DEF SectionInv, MovedType, Deactivated
  <2>3. state' \in States /\ connection' \in Connections
    BY DEF Deactivated, States, Connections
  <2>4. session' \in Nat /\ session' <= made' /\ made' = made /\ made' \in Nat
    BY DEF SectionInv, MovedType, Deactivated
  <2> QED
    BY <2>1, <2>2, <2>3, <2>4 DEF SectionInv, MovedType, Deactivated
<1> QED
  BY <1>1 DEF SectionInv, Deactivated, SessionPresent, DyingWatched, DeathsCounted, MovedType

LEMMA EnterInactiveKeeps ==
    ASSUME SectionInv, NEW kept, EnterInactive(kept)
    PROVE  SectionInv'
BY DeactivatedKeeps DEF EnterInactive, SectionInv, MovedType

LEMMA EnterWaitingKeeps ==
    ASSUME SectionInv, EnterWaiting
    PROVE  SectionInv'
BY DEF SectionInv, EnterWaiting, link, MovedType, States, SessionPresent, DyingWatched,
       DeathsCounted

\* Entering active from a state that has a sync::Session.
LEMMA EnterActiveKeeps ==
    ASSUME SectionInv, RestType, session # 0, EnterActive
    PROVE  SectionInv'
<1>1. WaitHandler \in Handlers
  BY DEF WaitHandler, Handler, Handlers, SectionInv, MovedType, RestType
<1>2. handlers' \in Seq(Handlers)
  BY <1>1, AppendOutstanding DEF EnterActive, Requeued, WaitHandler, SectionInv, MovedType
<1> QED
  BY <1>2 DEF SectionInv, EnterActive, link, MovedType, States, SessionPresent, DyingWatched,
              DeathsCounted

LEMMA EnterDyingKeeps ==
    ASSUME SectionInv, RestType, session # 0, EnterDying
    PROVE  SectionInv'
<1> DEFINE h == Handler("death", session, deathCount + 1, announced)
<1>1. h \in Handlers /\ h.kind = "death" /\ h.mark = deathCount + 1 /\ h.session = session
  BY DEF Handler, Handlers, SectionInv, MovedType, RestType
<1>2. /\ handlers' \in Seq(Handlers)
      /\ Outstanding(handlers', "death", deathCount + 1, session)
  <2> HIDE DEF h
  <2>1. handlers' = Append(handlers, h) /\ handlers \in Seq(Handlers)
    BY DEF EnterDying, SectionInv, MovedType, h
  <2>2. /\ Append(handlers, h) \in Seq(Handlers)
        /\ Outstanding(Append(handlers, h), h.kind, h.mark, h.session)
    BY <1>1, <2>1, AppendOutstanding
  <2> QED
    BY <1>1, <2>1, <2>2
<1>3. MovedType' /\ SessionPresent' /\ DeathsCounted'
  BY <1>2 DEF SectionInv, EnterDying, link, MovedType, States, SessionPresent, DeathsCounted
<1>4. DyingWatched'
  BY <1>2 DEF DyingWatched, EnterDying, link, Outstanding
<1> QED
  BY <1>3, <1>4 DEF SectionInv

\* A deferred close remembered or forgotten.
LEMMA DeferredKeeps ==
    ASSUME SectionInv, deferredClose' \in BOOLEAN,
           UNCHANGED <<state, deathCount, revived, link, handlers, waiters, outcome, wanted>>
    PROVE  SectionInv'
BY DEF SectionInv, link, MovedType, SessionPresent, DyingWatched, DeathsCounted, Outstanding

LEMMA ReviveKeeps ==
    ASSUME SectionInv, RestType, ReviveSection
    PROVE  SectionInv'
<1>1. CASE state = "inactive" /\ EnterWaiting
  BY <1>1, EnterWaitingKeeps
<1>2. CASE state = "dying" /\ EnterActive
  BY <1>2, EnterActiveKeeps DEF SectionInv, SessionPresent
<1>3. CASE /\ state = "waiting_for_access_token" /\ deferredClose' = FALSE
           /\ UNCHANGED <<state, deathCount, revived, link, handlers, waiters, outcome, wanted>>
  BY <1>3, DeferredKeeps
<1>4. CASE state = "active" /\ Unmoved
  BY <1>4, UnmovedKeeps DEF Unmoved, moved
<1> QED
  BY <1>1, <1>2, <1>3, <1>4 DEF ReviveSection

LEMMA CloseKeeps ==
    ASSUME SectionInv, RestType, CloseSection
    PROVE  SectionInv'
<1>1. CASE EnterInactive({})
  BY <1>1, EnterInactiveKeeps
<1>2. CASE /\ deferredClose' = TRUE
           /\ UNCHANGED <<state, deathCount, revived, link, handlers, waiters, outcome, wanted>>
  BY <1>2, DeferredKeeps
<1>3. CASE state = "active" /\ EnterDying
  BY <1>3, EnterDyingKeeps DEF SectionInv, SessionPresent
<1>4. CASE Unmoved
  BY <1>4, UnmovedKeeps DEF Unmoved, moved
<1> QED
  BY <1>1, <1>2, <1>3, <1>4 DEF CloseSection

-----------------------------------------------------------------------------
\* The actions.

\* The token arrives: the one step that makes a sync::Session, and the one that
\* may pass through active into dying.
LEMMA RefreshKeeps ==
    ASSUME SectionInv, RestType, NEW t \in Threads, RefreshAccessToken(t)
    PROVE  SectionInv' /\ RestType'
<1> DEFINE new     == IF session = 0 THEN made + 1 ELSE session
           closing == deferredClose /\ StopPolicy = "AfterChangesUploaded"
           w       == Handler("wait", new, resyncCounter, Known)
           d       == Handler("death", new, deathCount + 1, Known)
           hs      == IF waiters = {} THEN handlers ELSE Append(handlers, w)
<1>1. /\ session' = new /\ made' = (IF session = 0 THEN new ELSE made)
      /\ handlers' = IF closing THEN Append(hs, d) ELSE hs
      /\ state' = IF closing THEN "dying" ELSE "active"
      /\ deathCount' = IF closing THEN deathCount + 1 ELSE deathCount
      /\ announced' = Known /\ deferredCommit' = 0
      /\ UNCHANGED <<deferredClose, revived, terminating, connection, resyncCounter, waiters,
                     aside, outcome, wanted, version, uploaded, ignored, note, holders, loop, fate>>
  BY DEF RefreshAccessToken, Requeued
<1>2. new \in Nat /\ new # 0 /\ Known \in Nat
  BY DEF Known, SectionInv, MovedType, RestType
<1>3. made' \in Nat /\ session' \in Nat /\ session' <= made' /\ terminating' \subseteq 1..made'
  BY <1>1, <1>2 DEF SectionInv, MovedType
<1>4. w \in Handlers /\ d \in Handlers /\ d.kind = "death" /\ d.mark = deathCount + 1
      /\ d.session = new
  BY <1>2 DEF Handler, Handlers, SectionInv, MovedType, RestType
<1> HIDE DEF new, w, d
<1>5. hs \in Seq(Handlers)
  BY <1>4, AppendOutstanding DEF SectionInv, MovedType
<1>6. Append(hs, d) \in Seq(Handlers) /\ Outstanding(Append(hs, d), "death", deathCount + 1, new)
  <2> HIDE DEF hs
  <2>1. Append(hs, d) \in Seq(Handlers) /\ Outstanding(Append(hs, d), d.kind, d.mark, d.session)
    BY <1>4, <1>5, AppendOutstanding
  <2> QED
    BY <1>4, <2>1
<1> HIDE DEF hs
<1>7. MovedType'
  <2>1. handlers' \in Seq(Handlers)
    BY <1>1, <1>5, <1>6
  <2>2. state' \in States /\ deathCount' \in Nat
    BY <1>1 DEF States, SectionInv, MovedType
  <2> QED
    BY <1>1, <1>3, <2>1, <2>2 DEF SectionInv, MovedType
<1>8. SessionPresent' /\ DeathsCounted'
  BY <1>1, <1>2 DEF SectionInv, SessionPresent, DeathsCounted, MovedType, RefreshAccessToken
<1>9. DyingWatched'
  BY <1>1, <1>6 DEF DyingWatched
<1>10. RestType'
  BY <1>1, <1>2 DEF RestType, holders, loop, fate
<1> QED
  BY <1>7, <1>8, <1>9, <1>10 DEF SectionInv

\* Calling a wait's handler removes no death watch.
LEMMA WaitFiresKeeps ==
    ASSUME SectionInv, RestType, NEW i \in 1..Len(handlers), WaitFires(i)
    PROVE  SectionInv' /\ RestType'
<1>1. handlers \in Seq(Handlers)
  BY DEF SectionInv, MovedType
<1>2. handlers' = Without(handlers, i) /\ handlers[i].kind = "wait"
  BY DEF WaitFires, Outdated
<1>3. handlers' \in Seq(Handlers)
  BY <1>1, <1>2, WithoutOutstanding
<1>4. MovedType'
  <2>1. waiters' \subseteq Callbacks
    BY DEF WaitFires, Outdated, SectionInv, MovedType
  <2>2. outcome' \in [Callbacks -> Outcomes]
    BY DEF WaitFires, Outdated, SectionInv, MovedType, Answered, Outcomes
  <2> QED
    BY <1>3, <2>1, <2>2 DEF WaitFires, Outdated, SectionInv, MovedType, machine, link
<1>5. DyingWatched'
  <2>1. Outstanding(handlers, "death", deathCount, session)
            => Outstanding(Without(handlers, i), "death", deathCount, session)
    BY <1>1, <1>2, WithoutOutstanding
  <2> QED
    BY <2>1, <1>2 DEF DyingWatched, SectionInv, WaitFires, machine, link
<1>6. SessionPresent' /\ DeathsCounted' /\ RestType'
  BY DEF WaitFires, Outdated, SectionInv, SessionPresent, DeathsCounted, RestType, machine, link, commits,
         holders, loop, fate
<1> QED
  BY <1>4, <1>5, <1>6 DEF SectionInv

\* Calling a death watch removes that of the current death only if it ends it.
LEMMA DeathFiresKeeps ==
    ASSUME SectionInv, RestType, NEW i \in 1..Len(handlers), DeathFires(i)
    PROVE  SectionInv' /\ RestType'
<1>1. handlers \in Seq(Handlers)
  BY DEF SectionInv, MovedType
<1>2. handlers' = Without(handlers, i)
  BY DEF DeathFires
<1>3. handlers' \in Seq(Handlers)
  BY <1>1, <1>2, WithoutOutstanding
<1>4. RestType'
  BY DEF DeathFires, RestType, commits, holders, loop, fate
<1>5. CASE state = "dying" /\ deathCount = handlers[i].mark
  <2>1. Deactivated({})
    BY <1>5 DEF DeathFires
  <2> QED
    BY <2>1, <1>3, <1>4, DeactivatedKeeps
<1>6. CASE ~(state = "dying" /\ deathCount = handlers[i].mark)
  <2>1. UNCHANGED <<machine, link, waiters, outcome, wanted>>
    BY <1>6 DEF DeathFires
  <2>2. DyingWatched'
    <3>1. Outstanding(handlers, "death", deathCount, session) /\ state = "dying"
              => Outstanding(Without(handlers, i), "death", deathCount, session)
      BY <1>1, <1>6, WithoutOutstanding
    <3> QED
      BY <3>1, <2>1, <1>2 DEF DyingWatched, SectionInv, machine, link
  <2>3. MovedType' /\ SessionPresent' /\ DeathsCounted'
    BY <1>3, <2>1 DEF SectionInv, MovedType, SessionPresent, DeathsCounted, machine, link
  <2> QED
    BY <2>2, <2>3, <1>4 DEF SectionInv
<1> QED
  BY <1>5, <1>6

IInv == RestType /\ SectionInv

LEMMA InitIInv == Init => IInv
<1> SUFFICES ASSUME Init PROVE IInv
  OBVIOUS
<1>1. RestType
  BY DEF Init, RestType, PCs, Stages
<1>2. MovedType
  <2>1. handlers \in Seq(Handlers)
    BY DEF Init
  <2>2. outcome \in [Callbacks -> Outcomes] /\ wanted \in [Callbacks -> Nat]
    BY DEF Init, Outcomes
  <2>3. state \in States /\ connection \in Connections
    BY DEF Init, States, Connections
  <2>4. /\ deferredClose \in BOOLEAN /\ deathCount \in Nat /\ revived \in Nat
        /\ waiters \subseteq Callbacks /\ terminating \subseteq 1..made
    BY DEF Init
  <2>5. session \in Nat /\ made \in Nat /\ session <= made
    BY DEF Init
  <2> QED
    BY <2>1, <2>2, <2>3, <2>4, <2>5 DEF MovedType
<1>3. SessionPresent /\ DyingWatched /\ DeathsCounted
  BY DEF Init, SessionPresent, DyingWatched, DeathsCounted
<1> QED
  BY <1>1, <1>2, <1>3 DEF IInv, SectionInv

\* A step of a thread of the application.
LEMMA ThreadStep ==
    ASSUME IInv, NEW t \in Threads, Call(t) \/ Continue(t)
    PROVE  IInv'
<1> USE DEF IInv
<1>1. CASE LogOut(t)
  <2>1. SectionInv'
    BY <1>1, EnterInactiveKeeps DEF LogOut
  <2> QED
    BY <1>1, <2>1 DEF LogOut, RestType, commits, holders, loop, fate
<1>2. CASE Revive(t)
  <2>1. SectionInv'
    BY <1>2, ReviveKeeps DEF Revive
  <2> QED
    BY <1>2, <2>1 DEF Revive, RestType, commits, holders, loop, fate
<1>3. CASE RefreshAccessToken(t)
  BY <1>3, RefreshKeeps
<1>4. ASSUME NEW c \in Callbacks, WaitForUploadCompletion(t, c) PROVE IInv'
  <2>1. WaitHandler \in Handlers
    BY DEF WaitHandler, Handler, Handlers, SectionInv, MovedType, RestType
  <2>2. /\ handlers' \in Seq(Handlers)
        /\ Outstanding(handlers, "death", deathCount, session)
               => Outstanding(handlers', "death", deathCount, session)
    BY <1>4, <2>1, AppendOutstanding DEF WaitForUploadCompletion, SectionInv, MovedType
  <2>3. MovedType'
    BY <1>4, <2>2 DEF WaitForUploadCompletion, SectionInv, MovedType, Outcomes, machine, link,
                      RestType
  <2>4. SectionInv'
    BY <1>4, <2>2, <2>3 DEF WaitForUploadCompletion, SectionInv, SessionPresent, DyingWatched,
                           DeathsCounted, machine, link
  <2> QED
    BY <1>4, <2>4 DEF WaitForUploadCompletion, RestType, commits, holders, loop, fate
<1>5. CASE GetSession(t)
  <2>1. SectionInv'
    BY <1>5, ReviveKeeps DEF GetSession
  <2> QED
    BY <1>5, <2>1 DEF GetSession, RestType, commits, loop, fate, Goto, PCs
<1>6. CASE DropReference(t)
  <2>1. SectionInv'
    BY <1>6, UnmovedKeeps DEF DropReference, Unmoved, moved
  <2> QED
    BY <1>6, <2>1 DEF DropReference, RestType, commits, loop, fate, Goto, PCs
<1>7. CASE UpdateConfiguration(t)
  <2>1. SectionInv'
    BY <1>7, EnterInactiveKeeps, UnmovedKeeps DEF UpdateConfiguration, Unmoved, moved
  <2>2. pc' \in [Threads -> PCs]
    BY <1>7 DEF UpdateConfiguration, Goto, RestType, PCs
  <2> QED
    BY <1>7, <2>1, <2>2 DEF UpdateConfiguration, RestType, commits, loop, fate
<1>8. CASE Commit(t)
  <2>1. SectionInv'
    BY <1>8, UnmovedKeeps DEF Commit, Unmoved, moved
  <2> QED
    BY <1>8, <2>1 DEF Commit, RestType, loop, fate, Goto, PCs
<1>9. CASE ExternalReference(t)
  <2>1. SectionInv'
    BY <1>9, UnmovedKeeps DEF ExternalReference, Unmoved, moved
  <2> QED
    BY <1>9, <2>1 DEF ExternalReference, RestType, commits, loop, fate, Goto, PCs
<1>10. CASE DidDropExternalReference(t)
  <2>1. SectionInv'
    BY <1>10, UnmovedKeeps, CloseKeeps DEF DidDropExternalReference, Unmoved, moved
  <2> QED
    BY <1>10, <2>1 DEF DidDropExternalReference, RestType, commits, loop, fate, Goto, PCs
<1>11. CASE ReviveReconfigured(t)
  <2>1. SectionInv'
    BY <1>11, ReviveKeeps DEF ReviveReconfigured
  <2> QED
    BY <1>11, <2>1 DEF ReviveReconfigured, RestType, commits, loop, fate, Goto, PCs
<1>12. CASE ReadVersion(t)
  <2>1. SectionInv'
    BY <1>12, UnmovedKeeps DEF ReadVersion, Unmoved, moved
  <2> QED
    BY <1>12, <2>1 DEF ReadVersion, RestType, loop, fate, Goto, PCs
<1>13. CASE NonsyncTransactNotify(t)
  <2>1. SectionInv'
    BY <1>13, UnmovedKeeps DEF NonsyncTransactNotify, Unmoved, moved
  <2>2. note[t] \in Nat /\ note' \in [Threads -> Nat] /\ pc' \in [Threads -> PCs]
    BY <1>13 DEF NonsyncTransactNotify, RestType, Goto, PCs
  <2>3. announced' \in Nat /\ deferredCommit' \in Nat /\ ignored' \in Nat
    BY <1>13, <2>2 DEF NonsyncTransactNotify, RestType
  <2> QED
    BY <1>13, <2>1, <2>2, <2>3 DEF NonsyncTransactNotify, RestType, loop, fate
<1> QED
  BY <1>1, <1>2, <1>3, <1>4, <1>5, <1>6, <1>7, <1>8, <1>9, <1>10, <1>11, <1>12, <1>13
  DEF Call, Continue

\* A step of the event loop thread, of the server or of the manager.
LEMMA ClientStep ==
    ASSUME IInv, Upload \/ HandlerFires \/ ErrorHandling \/ ClientEvent \/ Unregister
    PROVE  IInv'
<1> USE DEF IInv
<1>1. CASE Upload
  <2>1. SectionInv'
    BY <1>1, UnmovedKeeps DEF Upload, Unmoved, moved
  <2> QED
    BY <1>1, <2>1 DEF Upload, RestType, holders, loop, fate
<1>2. CASE HandlerFires
  BY <1>2, WaitFiresKeeps, DeathFiresKeeps DEF HandlerFires
<1>3. CASE HandleErrorInState
  <2>1. SectionInv'
    BY <1>3, EnterInactiveKeeps, UnmovedKeeps DEF HandleErrorInState, Unmoved, moved
  <2> QED
    BY <1>3, <2>1 DEF HandleErrorInState, Handled, RestType, commits, holders, fate, Stages
<1>4. CASE HandleError
  <2>1. CASE /\ cause = "token_expired"
             /\ IF state = "active" THEN EnterWaiting ELSE Unmoved
             /\ Handled
             /\ UNCHANGED <<resyncCounter, aside, commits, holders, errors, fate>>
    <3>1. SectionInv'
      BY <2>1, EnterWaitingKeeps, UnmovedKeeps DEF Unmoved, moved
    <3> QED
      BY <2>1, <3>1 DEF Handled, RestType, commits, holders, fate, Stages
  <2>2. CASE /\ outcome' = Answered(waiters, "aborted")
             /\ waiters' = {}
             /\ Handled
             /\ UNCHANGED <<machine, link, handlers, wanted, resyncCounter, aside, commits,
                            holders, errors, fate>>
    <3>1. outcome' \in [Callbacks -> Outcomes]
      BY <2>2 DEF Answered, SectionInv, MovedType, Outcomes
    <3>2. SectionInv'
      BY <2>2, <3>1 DEF SectionInv, MovedType, SessionPresent, DyingWatched, DeathsCounted,
                        machine, link
    <3> QED
      BY <2>2, <3>2 DEF Handled, RestType, commits, holders, fate, Stages
  <2>3. CASE /\ EnterInactive({})
             /\ Handled
             /\ UNCHANGED <<resyncCounter, aside, commits, holders, errors, fate>>
    <3>1. SectionInv'
      BY <2>3, EnterInactiveKeeps
    <3> QED
      BY <2>3, <3>1 DEF Handled, RestType, commits, holders, fate, Stages
  <2>4. CASE /\ resyncCounter' = resyncCounter + 1
             /\ aside' = waiters
             /\ EnterInactive(waiters)
             /\ client' = "restoring"
             /\ UNCHANGED <<commits, holders, cause, errors, fate>>
    <3>1. SectionInv'
      BY <2>4, EnterInactiveKeeps
    <3> QED
      BY <2>4, <3>1 DEF SectionInv, MovedType, RestType, commits, holders, fate, Stages
  <2>5. CASE AssertFails("inactive")
    <3>1. SectionInv'
      BY <2>5, UnmovedKeeps DEF AssertFails, waits, moved
    <3> QED
      BY <2>5, <3>1 DEF AssertFails, RestType, waits, commits, holders, loop
  <2> QED
    BY <1>4, <2>1, <2>2, <2>3, <2>4, <2>5 DEF HandleError
<1>5. CASE RestoreHandlers
  <2>1. waiters' \subseteq Callbacks
    BY <1>5 DEF RestoreHandlers, RestType
  <2>2. SectionInv'
    BY <1>5, <2>1 DEF RestoreHandlers, SectionInv, MovedType, SessionPresent, DyingWatched,
                      DeathsCounted, machine, link
  <2> QED
    BY <1>5, <2>2 DEF RestoreHandlers, RestType, commits, holders, fate, Stages
<1>6. CASE ReviveResynced
  <2>1. SectionInv'
    BY <1>6, ReviveKeeps DEF ReviveResynced
  <2> QED
    BY <1>6, <2>1 DEF ReviveResynced, Handled, RestType, commits, holders, fate, Stages
<1>7. ASSUME NEW s \in terminating, Terminated(s) PROVE IInv'
  <2>1. SectionInv'
    BY <1>7 DEF Terminated, SectionInv, MovedType, SessionPresent, DyingWatched, DeathsCounted,
                machine, waits
  <2> QED
    BY <1>7, <2>1 DEF Terminated, RestType, waits, commits, holders, loop, fate
<1>8. ASSUME NEW up \in {"connecting", "connected"}, ConnectionUp(up) PROVE IInv'
  <2>1. SectionInv'
    BY <1>8 DEF ConnectionUp, SectionInv, MovedType, SessionPresent, DyingWatched, DeathsCounted,
                machine, waits, Connections
  <2> QED
    BY <1>8, <2>1 DEF ConnectionUp, RestType, waits, commits, holders, loop, fate
<1>9. ASSUME NEW error \in Errors, ConnectionLost(error) PROVE IInv'
  <2>1. SectionInv'
    BY <1>9 DEF ConnectionLost, SectionInv, MovedType, SessionPresent, DyingWatched,
                DeathsCounted, machine, waits, Connections
  <2> QED
    BY <1>9, <2>1 DEF ConnectionLost, RestType, waits, commits, holders, fate, Stages
<1>10. CASE Unregister
  <2>1. SectionInv'
    BY <1>10, UnmovedKeeps DEF Unregister, waits, moved
  <2> QED
    BY <1>10, <2>1 DEF Unregister, RestType, waits, commits, holders, loop
<1> QED
  BY <1>1, <1>2, <1>3, <1>4, <1>5, <1>6, <1>7, <1>8, <1>9, <1>10 DEF ErrorHandling, ClientEvent

LEMMA StutterStep == ASSUME IInv, UNCHANGED vars PROVE IInv'
<1>1. SectionInv'
  BY UnmovedKeeps DEF IInv, vars, waits, moved
<1> QED
  BY <1>1 DEF IInv, vars, RestType, waits, commits, holders, loop, fate

\* The invariant holds of every behaviour.
THEOREM Invariance == Spec => []IInv
<1>1. IInv /\ [Next]_vars => IInv'
  BY ThreadStep, ClientStep, StutterStep DEF Next
<1> QED
  BY InitIInv, <1>1, PTL DEF Spec

\* Every variable keeps its type.
THEOREM TypeCorrect == Spec => []TypeOK
<1>1. IInv => TypeOK
  BY TypeParts DEF IInv, SectionInv
<1> QED
  BY Invariance, <1>1, PTL

\* The sync::Session is there in active and dying and never in inactive: the
\* assertions on m_session in wait_for_completion and update_configuration hold.
THEOREM SessionAlwaysPresent == Spec => []SessionPresent
<1>1. IInv => SessionPresent
  BY DEF IInv, SectionInv
<1> QED
  BY Invariance, <1>1, PTL

\* A dying session always has a death watch of its own outstanding.
THEOREM DyingAlwaysWatched == Spec => []DyingWatched
<1>1. IInv => DyingWatched
  BY DEF IInv, SectionInv
<1> QED
  BY Invariance, <1>1, PTL

\* A death watch ends the session only for a death the session was not saved
\* from: the count in the watch is later than that of the last revival.
THEOREM OldWatchesHarmless == Spec => OldWatchHarmless
<1>1. ASSUME IInv, NEW i \in 1..Len(handlers), DeathFires(i), state' # state
      PROVE  handlers[i].mark > revived
  <2>1. state = "dying" /\ deathCount = handlers[i].mark
    BY <1>1 DEF DeathFires, machine
  <2> QED
    BY <2>1, <1>1 DEF IInv, SectionInv, DeathsCounted, MovedType
<1>2. IInv /\ [Next]_vars =>
          [\A i \in 1..Len(handlers) : DeathFires(i) /\ state' # state => handlers[i].mark > revived]_vars
  BY <1>1
<1> QED
  BY Invariance, <1>2, PTL DEF Spec, OldWatchHarmless

-----------------------------------------------------------------------------
\* The callbacks, until the first client resync.

\* Nothing is ever moved aside, every callback is in the list until it is
\* called, and the list is watched.
Undisturbed == aside = {} /\ client \in {"idle", "reported", "handling"}

WaitersInv == Undisturbed /\ CallbacksAccounted /\ WaitersWatched

\* The list is emptied and everyone in it called.
LEMMA EmptiedKeeps ==
    ASSUME IInv, aside = {}, CallbacksAccounted, aside' = {}, waiters' = {},
           outcome' \in [Callbacks -> Outcomes],
           \A c \in Callbacks : IF c \in waiters THEN outcome'[c] # "waiting"
                                                 ELSE outcome'[c] = outcome[c]
    PROVE  CallbacksAccounted' /\ WaitersWatched'
BY DEF CallbacksAccounted, WaitersWatched

LEMMA DeactivatedEmpties ==
    ASSUME IInv, aside = {}, CallbacksAccounted, aside' = {}, Deactivated({})
    PROVE  CallbacksAccounted' /\ WaitersWatched'
<1>1. /\ outcome' \in [Callbacks -> Outcomes]
      /\ \A c \in Callbacks : IF c \in waiters THEN outcome'[c] # "waiting"
                                               ELSE outcome'[c] = outcome[c]
  BY DEF Deactivated, Answered, IInv, SectionInv, MovedType, Outcomes
<1> QED
  BY <1>1, EmptiedKeeps DEF Deactivated

\* The list is left alone in a section that keeps the session connected or
\* ends with it not connected.
LEMMA ListKept ==
    ASSUME CallbacksAccounted, WaitersWatched,
           UNCHANGED <<waiters, aside, outcome, resyncCounter>>,
           \/ state' \in {"waiting_for_access_token", "inactive"}
           \/ /\ state \in {"active", "dying"} /\ session' = session
              /\ Outstanding(handlers, "wait", resyncCounter, session)
                     => Outstanding(handlers', "wait", resyncCounter, session)
    PROVE  CallbacksAccounted' /\ WaitersWatched'
BY DEF CallbacksAccounted, WaitersWatched

\* Entering active registers a wait for the callbacks already queued.
LEMMA EnterActiveWatches ==
    ASSUME IInv, CallbacksAccounted, UNCHANGED <<aside, resyncCounter>>, EnterActive
    PROVE  CallbacksAccounted' /\ WaitersWatched'
<1> DEFINE h == WaitHandler
<1>1. h \in Handlers /\ h.kind = "wait" /\ h.mark = resyncCounter /\ h.session = session
  BY DEF WaitHandler, Handler, Handlers, IInv, SectionInv, MovedType, RestType
<1>2. waiters # {} => Outstanding(handlers', "wait", resyncCounter, session)
  <2> HIDE DEF h
  <2>1. /\ handlers \in Seq(Handlers)
        /\ waiters # {} => handlers' = Append(handlers, h)
    BY DEF EnterActive, Requeued, WaitHandler, h, IInv, SectionInv, MovedType
  <2>2. Outstanding(Append(handlers, h), h.kind, h.mark, h.session)
    BY <1>1, <2>1, AppendOutstanding
  <2> QED
    BY <1>1, <2>1, <2>2
<1> QED
  BY <1>2 DEF EnterActive, link, CallbacksAccounted, WaitersWatched

LEMMA ReviveWatches ==
    ASSUME IInv, CallbacksAccounted, WaitersWatched, UNCHANGED <<aside, resyncCounter>>,
           ReviveSection
    PROVE  CallbacksAccounted' /\ WaitersWatched'
<1>1. CASE EnterWaiting
  BY <1>1, ListKept DEF EnterWaiting
<1>2. CASE EnterActive
  BY <1>2, EnterActiveWatches
<1>3. CASE /\ state = "waiting_for_access_token"
           /\ UNCHANGED <<state, deathCount, revived, link, handlers, waiters, outcome, wanted>>
  BY <1>3, ListKept
<1>4. CASE state = "active" /\ Unmoved
  BY <1>4, ListKept DEF Unmoved, machine, link
<1> QED
  BY <1>1, <1>2, <1>3, <1>4 DEF ReviveSection

LEMMA UnmovedWatches ==
    ASSUME CallbacksAccounted, WaitersWatched, UNCHANGED <<aside, resyncCounter>>, Unmoved
    PROVE  CallbacksAccounted' /\ WaitersWatched'
BY DEF Unmoved, machine, link, CallbacksAccounted, WaitersWatched, Outstanding

LEMMA CloseWatches ==
    ASSUME IInv, WaitersInv, UNCHANGED <<aside, resyncCounter>>, CloseSection
    PROVE  CallbacksAccounted' /\ WaitersWatched'
<1> USE DEF WaitersInv
<1>1. CASE EnterInactive({})
  BY <1>1, DeactivatedEmpties DEF EnterInactive, Undisturbed
<1>2. CASE /\ state = "waiting_for_access_token"
           /\ UNCHANGED <<state, deathCount, revived, link, handlers, waiters, outcome, wanted>>
  BY <1>2, ListKept
<1>3. CASE state = "active" /\ EnterDying
  <2>1. Handler("death", session, deathCount + 1, announced) \in Handlers
    BY DEF Handler, Handlers, IInv, SectionInv, MovedType, RestType
  <2>2. Outstanding(handlers, "wait", resyncCounter, session)
            => Outstanding(handlers', "wait", resyncCounter, session)
    BY <1>3, <2>1, AppendOutstanding DEF EnterDying, IInv, SectionInv, MovedType
  <2> QED
    BY <1>3, <2>2, ListKept DEF EnterDying, link
<1>4. CASE Unmoved
  BY <1>4, UnmovedWatches
<1> QED
  BY <1>1, <1>2, <1>3, <1>4 DEF CloseSection

LEMMA RefreshWatches ==
    ASSUME IInv, WaitersInv, NEW t \in Threads, RefreshAccessToken(t)
    PROVE  CallbacksAccounted' /\ WaitersWatched'
<1> DEFINE new     == IF session = 0 THEN made + 1 ELSE session
           closing == deferredClose /\ StopPolicy = "AfterChangesUploaded"
           w       == Handler("wait", new, resyncCounter, Known)
           d       == Handler("death", new, deathCount + 1, Known)
           hs      == IF waiters = {} THEN handlers ELSE Append(handlers, w)
<1>1. /\ session' = new
      /\ handlers' = IF closing THEN Append(hs, d) ELSE hs
      /\ UNCHANGED <<resyncCounter, waiters, aside, outcome>>
  BY DEF RefreshAccessToken, Requeued
<1>2. new \in Nat /\ Known \in Nat
  BY DEF Known, IInv, SectionInv, MovedType, RestType
<1>3. /\ w \in Handlers /\ d \in Handlers
      /\ w.kind = "wait" /\ w.mark = resyncCounter /\ w.session = new
  BY <1>2 DEF Handler, Handlers, IInv, SectionInv, MovedType, RestType
<1> HIDE DEF new, w, d
<1>4. hs \in Seq(Handlers) /\ (waiters # {} => Outstanding(hs, "wait", resyncCounter, new))
  <2>1. handlers \in Seq(Handlers)
    BY DEF IInv, SectionInv, MovedType
  <2>2. Append(handlers, w) \in Seq(Handlers) /\ Outstanding(Append(handlers, w), w.kind, w.mark, w.session)
    BY <1>3, <2>1, AppendOutstanding
  <2> QED
    BY <1>3, <2>1, <2>2
<1> HIDE DEF hs
<1>5. Outstanding(hs, "wait", resyncCounter, new)
          => Outstanding(Append(hs, d), "wait", resyncCounter, new)
  BY <1>3, <1>4, AppendOutstanding
<1> QED
  BY <1>1, <1>4, <1>5 DEF WaitersInv, CallbacksAccounted, WaitersWatched

LEMMA WaitWatches ==
    ASSUME IInv, WaitersInv, NEW t \in Threads, NEW c \in Callbacks,
           WaitForUploadCompletion(t, c)
    PROVE  CallbacksAccounted' /\ WaitersWatched'
<1> DEFINE h == WaitHandler
<1>1. h \in Handlers /\ h.kind = "wait" /\ h.mark = resyncCounter /\ h.session = session
  BY DEF WaitHandler, Handler, Handlers, IInv, SectionInv, MovedType, RestType
<1>2. CallbacksAccounted'
  BY DEF WaitForUploadCompletion, WaitersInv, CallbacksAccounted, IInv, SectionInv, MovedType
<1>3. ASSUME state \in {"active", "dying"}
      PROVE  Outstanding(handlers', "wait", resyncCounter, session)
  <2>1. CASE waiters = {}
    <3> HIDE DEF h
    <3>1. handlers' = Append(handlers, h) /\ handlers \in Seq(Handlers)
      BY <1>3, <2>1 DEF WaitForUploadCompletion, h, IInv, SectionInv, MovedType
    <3>2. Outstanding(Append(handlers, h), h.kind, h.mark, h.session)
      BY <1>1, <3>1, AppendOutstanding
    <3> QED
      BY <1>1, <3>1, <3>2
  <2>2. CASE waiters # {}
    BY <1>3, <2>2 DEF WaitForUploadCompletion, WaitersInv, WaitersWatched
  <2> QED
    BY <2>1, <2>2
<1> QED
  BY <1>2, <1>3 DEF WaitForUploadCompletion, machine, link, WaitersWatched

\* A handler that is discarded is not the one that watches the list; any other
\* empties it.
LEMMA WaitFiresWatches ==
    ASSUME IInv, WaitersInv, NEW i \in 1..Len(handlers), WaitFires(i)
    PROVE  CallbacksAccounted' /\ WaitersWatched'
<1>1. aside = {} /\ UNCHANGED <<aside, resyncCounter, machine, link>>
  BY DEF WaitersInv, Undisturbed, WaitFires
<1>2. CASE handlers[i].mark # resyncCounter
  <2>1. Outstanding(handlers, "wait", resyncCounter, session)
            => Outstanding(handlers', "wait", resyncCounter, session)
    BY <1>2, WithoutOutstanding DEF WaitFires, Outdated, IInv, SectionInv, MovedType
  <2> QED
    BY <1>1, <1>2, <2>1 DEF WaitFires, Outdated, WaitersInv, CallbacksAccounted, WaitersWatched, machine, link
<1>3. CASE handlers[i].mark = resyncCounter
  <2>1. /\ waiters' = {}
        /\ outcome' \in [Callbacks -> Outcomes]
        /\ \A c \in Callbacks : IF c \in waiters THEN outcome'[c] # "waiting"
                                                 ELSE outcome'[c] = outcome[c]
    BY <1>3 DEF WaitFires, Outdated, Answered, IInv, SectionInv, MovedType, Outcomes
  <2> QED
    BY <1>1, <2>1, EmptiedKeeps DEF WaitersInv
<1> QED
  BY <1>2, <1>3

LEMMA DeathFiresWatches ==
    ASSUME IInv, WaitersInv, NEW i \in 1..Len(handlers), DeathFires(i)
    PROVE  CallbacksAccounted' /\ WaitersWatched'
<1>1. aside = {} /\ UNCHANGED <<aside, resyncCounter>>
  BY DEF WaitersInv, Undisturbed, DeathFires
<1>2. CASE state = "dying" /\ deathCount = handlers[i].mark
  BY <1>1, <1>2, DeactivatedEmpties DEF DeathFires, WaitersInv
<1>3. CASE ~(state = "dying" /\ deathCount = handlers[i].mark)
  <2>1. Outstanding(handlers, "wait", resyncCounter, session)
            => Outstanding(handlers', "wait", resyncCounter, session)
    BY WithoutOutstanding DEF DeathFires, IInv, SectionInv, MovedType
  <2> QED
    BY <1>1, <1>3, <2>1 DEF DeathFires, WaitersInv, CallbacksAccounted, WaitersWatched, machine, link
<1> QED
  BY <1>2, <1>3

\* An error empties the list or leaves it alone, unless it starts a resync.
LEMMA ErrorWatches ==
    ASSUME IInv, WaitersInv, resyncCounter' = 0, HandleErrorInState \/ HandleError
    PROVE  WaitersInv'
<1> USE DEF WaitersInv, Undisturbed
<1>1. CASE HandleErrorInState
  <2>1. UNCHANGED <<aside, resyncCounter>> /\ client' \in {"idle", "handling"}
    BY <1>1 DEF HandleErrorInState, Handled
  <2>2. CASE EnterInactive({})
    BY <2>1, <2>2, DeactivatedEmpties DEF EnterInactive
  <2>3. CASE Unmoved
    BY <2>1, <2>3, UnmovedWatches
  <2> QED
    BY <1>1, <2>2, <2>3 DEF HandleErrorInState
<1>2. CASE HandleError
  <2>1. CASE /\ IF state = "active" THEN EnterWaiting ELSE Unmoved
             /\ Handled
             /\ UNCHANGED <<resyncCounter, aside>>
    <3>1. CASE EnterWaiting
      BY <2>1, <3>1, ListKept DEF EnterWaiting, Handled
    <3>2. CASE Unmoved
      BY <2>1, <3>2, UnmovedWatches DEF Handled
    <3> QED
      BY <2>1, <3>1, <3>2
  <2>2. CASE /\ outcome' = Answered(waiters, "aborted")
             /\ waiters' = {}
             /\ Handled
             /\ UNCHANGED <<resyncCounter, aside>>
    <3>1. /\ outcome' \in [Callbacks -> Outcomes]
          /\ \A c \in Callbacks : IF c \in waiters THEN outcome'[c] # "waiting"
                                                   ELSE outcome'[c] = outcome[c]
      BY <2>2 DEF Answered, IInv, SectionInv, MovedType, Outcomes
    <3> QED
      BY <2>2, <3>1, EmptiedKeeps DEF Handled
  <2>3. CASE /\ EnterInactive({})
             /\ Handled
             /\ UNCHANGED <<resyncCounter, aside>>
    BY <2>3, DeactivatedEmpties DEF EnterInactive, Handled
  <2>4. CASE AssertFails("inactive")
    BY <2>4 DEF AssertFails, waits, loop, machine, link, CallbacksAccounted, WaitersWatched
  <2>5. resyncCounter' # resyncCounter + 1
    BY DEF IInv, RestType
  <2> QED
    BY <1>2, <2>1, <2>2, <2>3, <2>4, <2>5 DEF HandleError
<1> QED
  BY <1>1, <1>2

LEMMA WaitersStep ==
    ASSUME IInv, WaitersInv, resyncCounter' = 0, [Next]_vars
    PROVE  WaitersInv'
<1> USE DEF WaitersInv
<1>1. ASSUME NEW t \in Threads, Call(t) \/ Continue(t) PROVE WaitersInv'
  <2>1. UNCHANGED <<aside, client, resyncCounter>>
    BY <1>1 DEF Call, Continue, LogOut, Revive, RefreshAccessToken, WaitForUploadCompletion,
       GetSession, DropReference, UpdateConfiguration, Commit, ExternalReference,
       DidDropExternalReference, ReviveReconfigured, ReadVersion, NonsyncTransactNotify, loop
  <2>2. Undisturbed' /\ aside' = {}
    BY <2>1 DEF Undisturbed
  <2>3. CASE EnterInactive({})
    BY <2>1, <2>2, <2>3, DeactivatedEmpties DEF EnterInactive, Undisturbed
  <2>4. CASE ReviveSection
    BY <2>1, <2>2, <2>4, ReviveWatches
  <2>5. CASE Unmoved
    BY <2>1, <2>2, <2>5, UnmovedWatches
  <2>6. CASE CloseSection
    BY <2>1, <2>2, <2>6, CloseWatches
  <2>7. CASE RefreshAccessToken(t)
    BY <2>2, <2>7, RefreshWatches
  <2>8. ASSUME NEW c \in Callbacks, WaitForUploadCompletion(t, c) PROVE WaitersInv'
    BY <2>2, <2>8, WaitWatches
  <2> QED
    BY <1>1, <2>3, <2>4, <2>5, <2>6, <2>7, <2>8
    DEF Call, Continue, LogOut, Revive, GetSession, DropReference, UpdateConfiguration, Commit,
        ExternalReference, DidDropExternalReference, ReviveReconfigured, ReadVersion,
        NonsyncTransactNotify
<1>2. CASE Upload
  BY <1>2, UnmovedWatches DEF Upload, Undisturbed, loop
<1>3. CASE HandlerFires
  <2>1. Undisturbed'
    BY <1>3 DEF HandlerFires, WaitFires, DeathFires, Undisturbed, loop
  <2> QED
    BY <1>3, <2>1, WaitFiresWatches, DeathFiresWatches DEF HandlerFires
<1>4. CASE ErrorHandling
  <2>1. ~RestoreHandlers /\ ~ReviveResynced
    BY DEF RestoreHandlers, ReviveResynced, Undisturbed
  <2> QED
    BY <1>4, <2>1, ErrorWatches DEF ErrorHandling
<1>5. CASE ClientEvent
  <2>1. /\ UNCHANGED <<state, session, waits>>
        /\ Undisturbed'
    BY <1>5 DEF ClientEvent, Terminated, ConnectionUp, ConnectionLost, machine, waits, loop,
                Undisturbed
  <2> QED
    BY <2>1 DEF waits, CallbacksAccounted, WaitersWatched
<1>6. CASE Unregister \/ UNCHANGED vars
  BY <1>6 DEF Unregister, vars, machine, link, waits, loop, Undisturbed, CallbacksAccounted,
              WaitersWatched
<1> QED
  BY <1>1, <1>2, <1>3, <1>4, <1>5, <1>6 DEF Next

\* Resyncs are counted and never forgotten.
LEMMA ResyncsCounted ==
    ASSUME IInv, [Next]_vars
    PROVE  resyncCounter' = resyncCounter \/ (Resyncs /\ resyncCounter' = resyncCounter + 1)
<1>1. CASE \E t \in Threads : Call(t) \/ Continue(t)
  BY <1>1 DEF Call, Continue, LogOut, Revive, RefreshAccessToken, WaitForUploadCompletion,
     GetSession, DropReference, UpdateConfiguration, Commit, ExternalReference,
     DidDropExternalReference, ReviveReconfigured, ReadVersion, NonsyncTransactNotify
<1>2. CASE Upload \/ HandlerFires \/ ErrorHandling \/ ClientEvent \/ Unregister \/ UNCHANGED vars
  BY <1>2 DEF Upload, HandlerFires, WaitFires, DeathFires, ErrorHandling, HandleErrorInState,
     HandleError, AssertFails, RestoreHandlers, ReviveResynced, ClientEvent, Terminated,
     ConnectionUp, ConnectionLost, Unregister, vars, waits
<1> QED
  BY <1>1, <1>2 DEF Next

UntilResync == resyncCounter = 0 => WaitersInv

LEMMA WaitersInvariant == Spec => []UntilResync
<1>1. Init => UntilResync
  BY DEF Init, UntilResync, WaitersInv, Undisturbed, CallbacksAccounted, WaitersWatched
<1>2. ASSUME IInv, UntilResync, [Next]_vars PROVE UntilResync'
  <2>1. resyncCounter' = 0 => resyncCounter = 0
    BY <1>2, ResyncsCounted DEF IInv, RestType
  <2> QED
    BY <1>2, <2>1, WaitersStep DEF UntilResync
<1>3. IInv /\ UntilResync /\ [Next]_vars => UntilResync'
  BY <1>2
<1> QED
  BY Invariance, <1>1, <1>3, PTL DEF Spec

\* In every mode no callback is lost, and those queued on a connected session
\* have a wait outstanding, until the first client resync begins.
THEOREM SafeUntilResync == Spec => [](resyncCounter = 0 => CallbacksAccounted /\ WaitersWatched)
<1>1. UntilResync => (resyncCounter = 0 => CallbacksAccounted /\ WaitersWatched)
  BY DEF UntilResync, WaitersInv
<1> QED
  BY WaitersInvariant, <1>1, PTL

LEMMA ManualInvariant ==
    ASSUME ResyncMode = "Manual"
    PROVE  Spec => [](resyncCounter = 0)
<1>1. Init => resyncCounter = 0
  BY DEF Init
<1>2. IInv /\ resyncCounter = 0 /\ [Next]_vars => (resyncCounter = 0)'
  BY ResyncsCounted DEF Resyncs
<1> QED
  BY Invariance, <1>1, <1>2, PTL DEF Spec

\* With client resync off no callback is ever lost.
THEOREM NoCallbackLost ==
    ASSUME ResyncMode = "Manual"
    PROVE  Spec => []CallbacksAccounted
BY SafeUntilResync, ManualInvariant, PTL

\* With client resync off the queued callbacks of a connected session always
\* have a wait outstanding that will call them.
THEOREM WaitersAlwaysWatched ==
    ASSUME ResyncMode = "Manual"
    PROVE  Spec => []WaitersWatched
BY SafeUntilResync, ManualInvariant, PTL

-----------------------------------------------------------------------------
\* The callbacks, whatever the resync mode: how often they are called.

\* A callback in the list or aside has not been called yet.
NobodyCalledTwice ==
    \A c \in waiters \union aside : outcome[c] = "waiting"

\* Callbacks are aside only until they are moved back, and those that come into
\* the list meanwhile are other ones.
OnceInv ==
    /\ NobodyCalledTwice
    /\ waiters \intersect aside = {}
    /\ client # "restoring" => aside = {}

\* Only the end of a resync, a step of its own, leaves "restoring".
StillRestoring == client = "restoring" => client' = "restoring"

LEMMA KeptOnce ==
    ASSUME OnceInv, UNCHANGED <<waiters, aside, outcome>>, StillRestoring
    PROVE  OnceInv'
BY DEF OnceInv, NobodyCalledTwice, StillRestoring

\* The list is emptied; of the others nobody is called.
LEMMA EmptiedOnce ==
    ASSUME IInv, OnceInv, waiters' = {}, UNCHANGED aside, StillRestoring,
           \A c \in Callbacks \ waiters : outcome'[c] = outcome[c]
    PROVE  OnceInv'
<1>1. aside \subseteq Callbacks
  BY DEF IInv, RestType
<1> QED
  BY <1>1 DEF OnceInv, NobodyCalledTwice, StillRestoring

LEMMA DeactivatedOnce ==
    ASSUME IInv, OnceInv, Deactivated({}), UNCHANGED aside, StillRestoring
    PROVE  OnceInv'
<1>1. waiters' = {} /\ \A c \in Callbacks \ waiters : outcome'[c] = outcome[c]
  BY DEF Deactivated, Answered
<1> QED
  BY <1>1, EmptiedOnce

\* A section of a thread or of the event loop that leaves the list alone or goes
\* inactive.
LEMMA SectionOnce ==
    ASSUME IInv, OnceInv, UNCHANGED aside, StillRestoring,
           Unmoved \/ EnterInactive({}) \/ EnterWaiting \/ ReviveSection \/ CloseSection
    PROVE  OnceInv'
<1>1. CASE UNCHANGED <<waiters, outcome>>
  BY <1>1, KeptOnce
<1>2. CASE EnterInactive({})
  BY <1>2, DeactivatedOnce DEF EnterInactive
<1> QED
  BY <1>1, <1>2 DEF Unmoved, EnterWaiting, ReviveSection, EnterActive, CloseSection, EnterDying

\* A callback comes into the list when it is used for the first time.
LEMMA WaitOnce ==
    ASSUME IInv, OnceInv, NEW t \in Threads, NEW c \in Callbacks,
           WaitForUploadCompletion(t, c)
    PROVE  OnceInv'
<1>1. /\ waiters' = waiters \union {c} /\ UNCHANGED <<aside, client>>
      /\ outcome[c] = "unused" /\ outcome' = [outcome EXCEPT ![c] = "waiting"]
  BY DEF WaitForUploadCompletion, loop
<1>2. outcome \in [Callbacks -> Outcomes] /\ waiters \subseteq Callbacks /\ aside \subseteq Callbacks
  BY DEF IInv, SectionInv, MovedType, RestType
<1>3. c \notin aside
  BY <1>1 DEF OnceInv, NobodyCalledTwice
<1>4. \A d \in waiters' \union aside' : outcome'[d] = "waiting"
  BY <1>1, <1>2 DEF OnceInv, NobodyCalledTwice
<1> QED
  BY <1>1, <1>3, <1>4 DEF OnceInv, NobodyCalledTwice

LEMMA ThreadOnce ==
    ASSUME IInv, OnceInv, NEW t \in Threads, Call(t) \/ Continue(t)
    PROVE  OnceInv'
<1>1. UNCHANGED <<aside, client>>
  BY DEF Call, Continue, LogOut, Revive, RefreshAccessToken, WaitForUploadCompletion,
     GetSession, DropReference, UpdateConfiguration, Commit, ExternalReference,
     DidDropExternalReference, ReviveReconfigured, ReadVersion, NonsyncTransactNotify, loop
<1>2. StillRestoring
  BY <1>1 DEF StillRestoring
<1>3. CASE Unmoved \/ EnterInactive({}) \/ ReviveSection \/ CloseSection
  BY <1>1, <1>2, <1>3, SectionOnce
<1>4. CASE RefreshAccessToken(t)
  BY <1>1, <1>2, <1>4, KeptOnce DEF RefreshAccessToken
<1>5. ASSUME NEW c \in Callbacks, WaitForUploadCompletion(t, c) PROVE OnceInv'
  BY <1>5, WaitOnce
<1> QED
  BY <1>3, <1>4, <1>5
  DEF Call, Continue, LogOut, Revive, GetSession, DropReference, UpdateConfiguration, Commit,
      ExternalReference, DidDropExternalReference, ReviveReconfigured, ReadVersion,
      NonsyncTransactNotify

LEMMA HandlerOnce ==
    ASSUME IInv, OnceInv, NEW i \in 1..Len(handlers), WaitFires(i) \/ DeathFires(i)
    PROVE  OnceInv'
<1>1. UNCHANGED <<aside, client>> /\ StillRestoring
  BY DEF WaitFires, DeathFires, loop, StillRestoring
<1>2. CASE UNCHANGED <<waiters, outcome>>
  BY <1>1, <1>2, KeptOnce
<1>3. CASE WaitFires(i) /\ ~Outdated(handlers[i])
  <2>1. waiters' = {} /\ \A c \in Callbacks \ waiters : outcome'[c] = outcome[c]
    BY <1>3 DEF WaitFires, Answered
  <2> QED
    BY <1>1, <2>1, EmptiedOnce
<1>4. CASE Deactivated({})
  BY <1>1, <1>4, DeactivatedOnce
<1> QED
  BY <1>2, <1>3, <1>4 DEF WaitFires, DeathFires

\* A client resync moves the whole list aside before the session goes inactive
\* with an empty one; later it moves it back.
LEMMA ErrorOnce ==
    ASSUME IInv, OnceInv, ErrorHandling
    PROVE  OnceInv'
<1>1. CASE HandleErrorInState
  <2>1. UNCHANGED aside /\ StillRestoring
    BY <1>1 DEF HandleErrorInState, StillRestoring
  <2> QED
    BY <1>1, <2>1, SectionOnce DEF HandleErrorInState
<1>2. CASE HandleError
  <2>1. client = "handling" /\ StillRestoring
    BY <1>2 DEF HandleError, StillRestoring
  <2>2. CASE UNCHANGED aside /\ (EnterWaiting \/ Unmoved \/ EnterInactive({}))
    BY <2>1, <2>2, SectionOnce
  <2>3. CASE outcome' = Answered(waiters, "aborted") /\ waiters' = {} /\ UNCHANGED aside
    <3>1. \A c \in Callbacks \ waiters : outcome'[c] = outcome[c]
      BY <2>3 DEF Answered
    <3> QED
      BY <2>1, <2>3, <3>1, EmptiedOnce
  <2>4. CASE aside' = waiters /\ EnterInactive(waiters) /\ client' = "restoring"
    <3>1. waiters' = {} /\ \A c \in Callbacks : outcome'[c] = outcome[c]
      BY <2>4 DEF EnterInactive, Deactivated, Answered
    <3>2. waiters \subseteq Callbacks
      BY DEF IInv, SectionInv, MovedType
    <3> QED
      BY <2>4, <3>1, <3>2 DEF OnceInv, NobodyCalledTwice
  <2>5. CASE AssertFails("inactive")
    BY <2>1, <2>5, KeptOnce DEF AssertFails, waits
  <2> QED
    BY <1>2, <2>2, <2>3, <2>4, <2>5 DEF HandleError
<1>3. CASE RestoreHandlers
  BY <1>3 DEF RestoreHandlers, OnceInv, NobodyCalledTwice
<1>4. CASE ReviveResynced
  <2>1. UNCHANGED aside /\ StillRestoring
    BY <1>4 DEF ReviveResynced, StillRestoring
  <2> QED
    BY <1>4, <2>1, SectionOnce DEF ReviveResynced
<1> QED
  BY <1>1, <1>2, <1>3, <1>4 DEF ErrorHandling

LEMMA OnceStep ==
    ASSUME IInv, OnceInv, [Next]_vars
    PROVE  OnceInv'
<1>1. CASE Upload
  BY <1>1, SectionOnce DEF Upload, loop, StillRestoring
<1>2. CASE ClientEvent
  <2>1. UNCHANGED <<waiters, aside, outcome>> /\ StillRestoring
    BY <1>2 DEF ClientEvent, Terminated, ConnectionUp, ConnectionLost, EventLoopFree, waits,
                StillRestoring
  <2> QED
    BY <2>1, KeptOnce
<1>3. CASE Unregister \/ UNCHANGED vars
  <2>1. UNCHANGED <<waiters, aside, outcome>> /\ StillRestoring
    BY <1>3 DEF Unregister, vars, waits, loop, StillRestoring
  <2> QED
    BY <2>1, KeptOnce
<1> QED
  BY <1>1, <1>2, <1>3, ThreadOnce, HandlerOnce, ErrorOnce DEF Next, HandlerFires

\* What becomes of a callback is settled in one step.
OneCall ==
    \A c \in Callbacks : outcome'[c] # outcome[c] =>
        \/ outcome[c] = "unused" /\ outcome'[c] = "waiting"
        \/ outcome[c] = "waiting" /\ outcome'[c] \notin {"unused", "waiting"}

\* Only callbacks of the list are called.
LEMMA CallsListed ==
    ASSUME NobodyCalledTwice,
           \A c \in Callbacks \ waiters : outcome'[c] = outcome[c],
           \A c \in waiters : outcome'[c] \notin {"unused", "waiting"} \/ outcome'[c] = outcome[c]
    PROVE  OneCall
BY DEF NobodyCalledTwice, OneCall

LEMMA OneCallStep ==
    ASSUME IInv, NobodyCalledTwice, [Next]_vars
    PROVE  OneCall
<1>0. waiters \subseteq Callbacks /\ outcome \in [Callbacks -> Outcomes]
  BY DEF IInv, SectionInv, MovedType
<1>1. CASE UNCHANGED outcome
  BY <1>1 DEF OneCall
<1>2. CASE \E kept : Deactivated(kept)
  BY <1>0, <1>2, CallsListed DEF Deactivated, Answered
<1>3. CASE outcome' = Answered(waiters, "aborted")
  BY <1>0, <1>3, CallsListed DEF Answered
<1>4. ASSUME NEW i \in 1..Len(handlers), WaitFires(i) PROVE OneCall
  BY <1>0, <1>4, CallsListed DEF WaitFires, Answered
<1>5. ASSUME NEW t \in Threads, NEW c \in Callbacks, WaitForUploadCompletion(t, c)
      PROVE  OneCall
  BY <1>0, <1>5 DEF WaitForUploadCompletion, OneCall
<1>6. ASSUME NEW t \in Threads, Call(t) \/ Continue(t) PROVE OneCall
  BY <1>1, <1>2, <1>5, <1>6
  DEF Call, Continue, LogOut, Revive, RefreshAccessToken, GetSession, DropReference,
      UpdateConfiguration, Commit, ExternalReference, DidDropExternalReference,
      ReviveReconfigured, ReadVersion, NonsyncTransactNotify, ReviveSection, CloseSection,
      Unmoved, EnterWaiting, EnterActive, EnterDying, EnterInactive
<1>7. CASE ErrorHandling
  BY <1>1, <1>2, <1>3, <1>7
  DEF ErrorHandling, HandleErrorInState, HandleError, AssertFails, RestoreHandlers,
      ReviveResynced, ReviveSection, Unmoved, EnterWaiting, EnterActive, EnterInactive, waits
<1>8. CASE HandlerFires
  BY <1>1, <1>2, <1>4, <1>8 DEF HandlerFires, DeathFires
<1>9. CASE Upload \/ ClientEvent \/ Unregister \/ UNCHANGED vars
  BY <1>1, <1>9 DEF Upload, Unmoved, ClientEvent, Terminated, ConnectionUp, ConnectionLost,
     Unregister, vars, waits
<1> QED
  BY <1>6, <1>7, <1>8, <1>9 DEF Next

LEMMA OnceInvariance == Spec => []OnceInv
<1>1. Init => OnceInv
  BY DEF Init, OnceInv, NobodyCalledTwice
<1>2. IInv /\ OnceInv /\ [Next]_vars => OnceInv'
  BY OnceStep
<1> QED
  BY Invariance, <1>1, <1>2, PTL DEF Spec

\* Whatever the resync mode, every callback is called once at most: those in the
\* list or aside are still waiting, so the two calls that empty the list never
\* find the same one.
THEOREM CalledOnce == Spec => CalledAtMostOnce
<1>1. IInv /\ OnceInv /\ [Next]_vars => [OneCall]_vars
  BY OneCallStep DEF OnceInv
<1> QED
  BY Invariance, OnceInvariance, <1>1, PTL DEF Spec, CalledAtMostOnce, OneCall

-----------------------------------------------------------------------------
\* The commits, of a single committing thread.

Announcing(t) == pc[t] \in {"committed", "notifying"}

\* The number of the latest commit is known to the sync::Session, deferred, or
\* on its way with the thread that made it, unless it was dropped.
CommitInv ==
    /\ announced <= version /\ deferredCommit <= version
    /\ \A t \in Threads : pc[t] = "notifying" => note[t] = version
    /\ session # 0 /\ (\A t \in Threads : ~Announcing(t)) =>
           \/ announced = version
           \/ ignored = version
           \/ state = "waiting_for_access_token" /\ deferredCommit = version

\* A section ends without a sync::Session, or keeps the one there was and goes
\* on waiting if it was waiting.
Faithful ==
    session' # 0 =>
        /\ session' = session
        /\ state = "waiting_for_access_token" => state' = "waiting_for_access_token"

LEMMA SectionFaithful ==
    ASSUME \/ Unmoved \/ ReviveSection \/ CloseSection \/ EnterWaiting
           \/ \E kept : Deactivated(kept)
    PROVE  Faithful
<1>1. CASE \E kept : Deactivated(kept)
  BY <1>1 DEF Deactivated, Faithful
<1>2. CASE Unmoved \/ ReviveSection \/ EnterWaiting
  BY <1>2 DEF Unmoved, ReviveSection, EnterWaiting, EnterActive, machine, link, Faithful
<1>3. CASE CloseSection
  BY <1>3 DEF CloseSection, EnterInactive, Deactivated, EnterDying, Unmoved, machine, link, Faithful
<1> QED
  BY <1>1, <1>2, <1>3

\* Nothing is committed or announced.
LEMMA CommitsKept ==
    ASSUME CommitInv, Faithful,
           UNCHANGED <<version, announced, deferredCommit, ignored, note>>,
           \A t \in Threads : Announcing(t) => Announcing(t)',
           \A t \in Threads : pc'[t] = "notifying" => pc[t] = "notifying"
    PROVE  CommitInv'
BY DEF CommitInv, Faithful, Announcing

\* A call that goes from one place to another, of which neither is between a
\* commit and its announcement.
LEMMA Elsewhere ==
    ASSUME IInv, NEW t \in Threads, NEW from, NEW to, Goto(t, from, to),
           from \notin {"committed", "notifying"}, to \notin {"committed", "notifying"}
    PROVE  /\ \A u \in Threads : Announcing(u) => Announcing(u)'
           /\ \A u \in Threads : pc'[u] = "notifying" => pc[u] = "notifying"
BY DEF Goto, Announcing, IInv, RestType

LEMMA ThreadCommits ==
    ASSUME IInv, CommitInv, NEW t \in Threads, Threads = {t}, Call(t) \/ Continue(t)
    PROVE  CommitInv'
<1>1. /\ pc \in [Threads -> PCs] /\ note \in [Threads -> Nat]
      /\ version \in Nat /\ announced \in Nat /\ deferredCommit \in Nat
  BY DEF IInv, RestType
<1>2. CASE LogOut(t) \/ Revive(t)
  <2>1. Faithful
    BY <1>2, SectionFaithful DEF LogOut, Revive, EnterInactive
  <2> QED
    BY <1>2, <2>1, CommitsKept DEF LogOut, Revive, commits, holders, Announcing
<1>3. CASE GetSession(t) \/ ExternalReference(t) \/ DropReference(t) \/ DidDropExternalReference(t)
           \/ UpdateConfiguration(t) \/ ReviveReconfigured(t)
  <2>1. Faithful
    BY <1>3, SectionFaithful DEF GetSession, ExternalReference, DropReference,
       DidDropExternalReference, UpdateConfiguration, ReviveReconfigured, EnterInactive
  <2>2. \E from \in {"idle", "acquiring", "dropping", "configuring", "reviving"},
           to \in {"idle", "acquiring", "dropping", "configuring", "reviving"} : Goto(t, from, to)
    BY <1>3 DEF GetSession, ExternalReference, DropReference, DidDropExternalReference,
       UpdateConfiguration, ReviveReconfigured
  <2>3. /\ \A u \in Threads : Announcing(u) => Announcing(u)'
        /\ \A u \in Threads : pc'[u] = "notifying" => pc[u] = "notifying"
    BY <2>2, Elsewhere
  <2> QED
    BY <1>3, <2>1, <2>3, CommitsKept DEF GetSession, ExternalReference, DropReference,
       DidDropExternalReference, UpdateConfiguration, ReviveReconfigured, commits
<1>4. ASSUME NEW c \in Callbacks, WaitForUploadCompletion(t, c) PROVE CommitInv'
  BY <1>4, CommitsKept DEF WaitForUploadCompletion, machine, link, commits, holders, Faithful,
     Announcing
<1>5. CASE RefreshAccessToken(t)
  <2>1. /\ announced' = Known /\ deferredCommit' = 0
        /\ UNCHANGED <<version, ignored, note, pc>>
        /\ pc[t] = "idle" /\ state = "waiting_for_access_token"
    BY <1>5 DEF RefreshAccessToken, holders, Idle
  <2>2. Known <= version /\ (Known = version \/ ignored = version)
    <3>1. CASE session = 0
      BY <1>1, <3>1 DEF Known
    <3>2. CASE session # 0
      <4>1. \A u \in Threads : ~Announcing(u)
        BY <2>1 DEF Announcing
      <4> QED
        BY <1>1, <2>1, <3>2, <4>1 DEF Known, CommitInv
    <3> QED
      BY <3>1, <3>2
  <2> QED
    BY <1>1, <2>1, <2>2 DEF CommitInv
<1>6. CASE Commit(t)
  <2>1. /\ version' = version + 1 /\ pc' = [pc EXCEPT ![t] = "committed"]
        /\ UNCHANGED <<announced, deferredCommit>>
    BY <1>6 DEF Commit, Goto
  <2>2. pc'[t] = "committed"
    BY <1>1, <2>1
  <2> QED
    BY <1>1, <2>1, <2>2 DEF CommitInv, Announcing
<1>7. CASE ReadVersion(t)
  <2>1. /\ note' = [note EXCEPT ![t] = version] /\ pc' = [pc EXCEPT ![t] = "notifying"]
        /\ UNCHANGED <<version, announced, deferredCommit>>
    BY <1>7 DEF ReadVersion, Goto
  <2>2. pc'[t] = "notifying" /\ note'[t] = version
    BY <1>1, <2>1
  <2> QED
    BY <1>1, <2>1, <2>2 DEF CommitInv, Announcing
<1>8. CASE NonsyncTransactNotify(t)
  <2>1. /\ pc[t] = "notifying" /\ pc' = [pc EXCEPT ![t] = "idle"]
        /\ UNCHANGED <<version, state, session>>
    BY <1>8 DEF NonsyncTransactNotify, Goto, Unmoved, machine, link
  <2>2. pc'[t] = "idle" /\ note[t] = version
    BY <1>1, <2>1 DEF CommitInv
  <2>3. \/ /\ state = "waiting_for_access_token" /\ deferredCommit' = version
           /\ announced' = announced
        \/ announced' = version /\ deferredCommit' = deferredCommit
        \/ ignored' = version /\ announced' = announced /\ deferredCommit' = deferredCommit
    BY <1>1, <1>8, <2>2 DEF NonsyncTransactNotify, CommitInv
  <2> QED
    BY <1>1, <2>1, <2>2, <2>3 DEF CommitInv
<1> QED
  BY <1>2, <1>3, <1>4, <1>5, <1>6, <1>7, <1>8 DEF Call, Continue

LEMMA ClientCommits ==
    ASSUME IInv, CommitInv,
           Upload \/ HandlerFires \/ ErrorHandling \/ ClientEvent \/ Unregister \/ UNCHANGED vars
    PROVE  CommitInv'
<1>1. UNCHANGED <<version, announced, deferredCommit, ignored, note, pc>>
  BY DEF Upload, HandlerFires, WaitFires, DeathFires, ErrorHandling, HandleErrorInState,
     HandleError, AssertFails, RestoreHandlers, ReviveResynced, ClientEvent, Terminated,
     ConnectionUp, ConnectionLost, Unregister, vars, commits, holders
<1>2. Faithful
  <2>1. CASE HandlerFires
    BY <2>1, SectionFaithful DEF HandlerFires, WaitFires, DeathFires, machine, link, Faithful
  <2>2. CASE ErrorHandling
    BY <2>2, SectionFaithful DEF ErrorHandling, HandleErrorInState, HandleError, AssertFails,
       RestoreHandlers, ReviveResynced, EnterInactive, machine, link, Faithful
  <2>3. CASE Upload \/ ClientEvent \/ Unregister \/ UNCHANGED vars
    BY <2>3 DEF Upload, ClientEvent, Terminated, ConnectionUp, ConnectionLost, Unregister, vars,
       Unmoved, machine, link, Faithful
  <2> QED
    BY <2>1, <2>2, <2>3
<1> QED
  BY <1>1, <1>2, CommitsKept DEF Announcing

\* With one committing thread an active session knows of the latest commit,
\* unless the session was dying or inactive when it was told of it.
THEOREM CommitsKnown ==
    ASSUME NEW only, Threads = {only}
    PROVE  Spec => []CommitsAnnounced
<1>1. Init => CommitInv
  BY DEF Init, CommitInv
<1>2. IInv /\ CommitInv /\ [Next]_vars => CommitInv'
  BY ThreadCommits, ClientCommits DEF Next
<1>3. IInv /\ CommitInv => CommitsAnnounced
  BY DEF IInv, SectionInv, SessionPresent, CommitInv, CommitsAnnounced, Announcing
<1> QED
  BY Invariance, <1>1, <1>2, <1>3, PTL DEF Spec
-----------------------------------------------------------------------------
\* What the handlers wait for.

\* The commits the server, the sync::Session and the threads know of exist, and
\* the server knows of none it was not sent.
CommitsOrdered ==
    /\ uploaded <= announced /\ announced <= version /\ deferredCommit <= version
    /\ \A t \in Threads : note[t] <= version

\* The sync::Session of handler h has been destroyed, so that h is cancelled, or
\* it is the one in use and has been told of the commits h waits for.
Answerable(h, of, destroyed, told) ==
    h.session \in destroyed \/ (h.session = of /\ of # 0 /\ h.target <= told)

\* No handler waits for what cannot happen, and none of the session in use is
\* cancelled.
EveryHandlerAnswerable ==
    /\ session \notin terminating
    /\ \A i \in 1..Len(handlers) :
          Answerable(handlers[i], session, terminating, announced)

\* Commits are only ever made and announced.
CommitsGrow == version <= version' /\ announced <= announced' /\ CommitsOrdered'

LEMMA SameCommits ==
    ASSUME IInv, CommitsOrdered, UNCHANGED commits
    PROVE  CommitsGrow
BY DEF CommitsOrdered, CommitsGrow, commits, IInv, RestType

LEMMA CommitsStep ==
    ASSUME IInv, CommitsOrdered, [Next]_vars
    PROVE  CommitsGrow
<1>1. /\ note \in [Threads -> Nat] /\ version \in Nat /\ announced \in Nat
      /\ uploaded \in Nat /\ deferredCommit \in Nat
  BY DEF IInv, RestType
<1>2. ASSUME NEW t \in Threads, RefreshAccessToken(t) PROVE CommitsGrow
  <2>1. announced' = Known /\ deferredCommit' = 0 /\ UNCHANGED <<version, uploaded, note>>
    BY <1>2 DEF RefreshAccessToken
  <2>2. Known <= version /\ announced <= Known
    BY <1>1 DEF Known, CommitsOrdered
  <2>3. Known \in Nat
    BY <1>1 DEF Known
  <2> QED
    BY <1>1, <2>1, <2>2, <2>3 DEF CommitsOrdered, CommitsGrow
<1>3. ASSUME NEW t \in Threads, Commit(t) PROVE CommitsGrow
  BY <1>1, <1>3 DEF Commit, CommitsOrdered, CommitsGrow
<1>4. ASSUME NEW t \in Threads, ReadVersion(t) PROVE CommitsGrow
  BY <1>1, <1>4 DEF ReadVersion, CommitsOrdered, CommitsGrow
<1>5. ASSUME NEW t \in Threads, NonsyncTransactNotify(t) PROVE CommitsGrow
  <2>1. /\ note[t] \in Nat /\ note[t] <= version
        /\ note' = [note EXCEPT ![t] = 0] /\ UNCHANGED <<version, uploaded>>
    BY <1>1, <1>5 DEF NonsyncTransactNotify, CommitsOrdered
  <2>2. /\ announced' \in {announced, IF note[t] > announced THEN note[t] ELSE announced}
        /\ deferredCommit' \in {deferredCommit, note[t]}
    BY <1>5 DEF NonsyncTransactNotify
  <2> QED
    BY <1>1, <2>1, <2>2 DEF CommitsOrdered, CommitsGrow
<1>6. CASE Upload
  <2>1. \E v \in (uploaded + 1)..announced : uploaded' = v
    BY <1>6 DEF Upload
  <2>2. uploaded' <= announced /\ UNCHANGED <<version, announced, deferredCommit, note>>
    BY <1>1, <1>6, <2>1 DEF Upload
  <2> QED
    BY <1>1, <2>2 DEF CommitsOrdered, CommitsGrow
<1>7. ASSUME NEW t \in Threads, NEW c \in Callbacks, WaitForUploadCompletion(t, c)
      PROVE  CommitsGrow
  BY <1>7, SameCommits DEF WaitForUploadCompletion
<1>8. ASSUME NEW t \in Threads, Call(t) \/ Continue(t) PROVE CommitsGrow
  BY <1>2, <1>3, <1>4, <1>5, <1>7, <1>8, SameCommits
  DEF Call, Continue, LogOut, Revive, GetSession, DropReference, UpdateConfiguration,
      ExternalReference, DidDropExternalReference, ReviveReconfigured
<1>9. CASE HandlerFires \/ ErrorHandling \/ ClientEvent \/ Unregister \/ UNCHANGED vars
  <2>1. UNCHANGED commits
    BY <1>9 DEF HandlerFires, WaitFires, DeathFires, ErrorHandling, HandleErrorInState,
       HandleError, AssertFails, RestoreHandlers, ReviveResynced, ClientEvent, Terminated,
       ConnectionUp, ConnectionLost, Unregister, vars
  <2> QED
    BY <2>1, SameCommits
<1> QED
  BY <1>6, <1>8, <1>9 DEF Next

\* A list of handlers none of which waits in vain, and what keeps it one: more
\* commits told, a session destroyed, a handler added or taken out.
AllAnswerable(hs, of, destroyed, told) ==
    \A i \in 1..Len(hs) : Answerable(hs[i], of, destroyed, told)

LEMMA AppendAnswerable ==
    ASSUME NEW hs \in Seq(Handlers), NEW h \in Handlers, NEW of, NEW destroyed, NEW told,
           AllAnswerable(hs, of, destroyed, told), Answerable(h, of, destroyed, told)
    PROVE  AllAnswerable(Append(hs, h), of, destroyed, told)
<1>1. ASSUME NEW i \in 1..Len(Append(hs, h))
      PROVE  Answerable(Append(hs, h)[i], of, destroyed, told)
  <2>1. CASE i \in 1..Len(hs)
    <3>1. Append(hs, h)[i] = hs[i]
      BY <2>1
    <3> QED
      BY <2>1, <3>1 DEF AllAnswerable
  <2>2. CASE i = Len(hs) + 1
    <3>1. Append(hs, h)[i] = h
      BY <2>2
    <3> QED
      BY <3>1
  <2>3. i \in 1..Len(hs) \/ i = Len(hs) + 1
    OBVIOUS
  <2> QED
    BY <2>1, <2>2, <2>3
<1> QED
  BY <1>1 DEF AllAnswerable

LEMMA WithoutAnswerable ==
    ASSUME NEW hs \in Seq(Handlers), NEW i \in 1..Len(hs), NEW of, NEW destroyed, NEW told,
           AllAnswerable(hs, of, destroyed, told)
    PROVE  AllAnswerable(Without(hs, i), of, destroyed, told)
<1>1. \A j \in 1..Len(Without(hs, i)) : \E k \in 1..Len(hs) : Without(hs, i)[j] = hs[k]
  BY WithoutOutstanding
<1> QED
  BY <1>1 DEF AllAnswerable

LEMMA ToldMore ==
    ASSUME NEW hs \in Seq(Handlers), NEW of, NEW destroyed, NEW told \in Nat, NEW more \in Nat,
           told <= more, AllAnswerable(hs, of, destroyed, told)
    PROVE  AllAnswerable(hs, of, destroyed, more)
<1>1. \A i \in 1..Len(hs) : hs[i].target \in Nat
  <2>1. \A i \in 1..Len(hs) : hs[i] \in Handlers
    OBVIOUS
  <2> QED
    BY <2>1 DEF Handlers
<1> QED
  BY <1>1 DEF AllAnswerable, Answerable

LEMMA Destroyed ==
    ASSUME NEW hs, NEW of, NEW destroyed, NEW told, NEW told2,
           AllAnswerable(hs, of, destroyed, told)
    PROVE  AllAnswerable(hs, 0, destroyed \union ({of} \ {0}), told2)
BY DEF AllAnswerable, Answerable

AnswerableInv == session \notin terminating /\ AllAnswerable(handlers, session, terminating, announced)

\* The list, the session and those destroyed are left alone.
LEMMA KeptAnswerable ==
    ASSUME IInv, IInv', AnswerableInv, announced <= announced',
           UNCHANGED <<handlers, session, terminating>>
    PROVE  AnswerableInv'
<1>1. handlers \in Seq(Handlers) /\ announced \in Nat /\ announced' \in Nat
  BY DEF IInv, SectionInv, MovedType, RestType
<1>2. AllAnswerable(handlers, session, terminating, announced')
  BY <1>1, ToldMore DEF AnswerableInv
<1> QED
  BY <1>2 DEF AnswerableInv

\* The session is destroyed; a handler may have been taken out.
LEMMA DeactivatedAnswerable ==
    ASSUME IInv, AnswerableInv, NEW kept, Deactivated(kept),
           handlers' = handlers \/ \E i \in 1..Len(handlers) : handlers' = Without(handlers, i)
    PROVE  AnswerableInv'
<1>1. /\ session' = 0 /\ terminating' = terminating \union ({session} \ {0})
      /\ 0 \notin terminating /\ handlers \in Seq(Handlers)
  BY DEF Deactivated, IInv, SectionInv, MovedType
<1>2. AllAnswerable(handlers', session, terminating, announced)
  BY <1>1, WithoutAnswerable DEF AnswerableInv
<1>3. AllAnswerable(handlers', 0, terminating \union ({session} \ {0}), announced')
  BY <1>2, Destroyed
<1> QED
  BY <1>1, <1>3 DEF AnswerableInv

\* A handler for what has been announced is registered with the session in use.
LEMMA RegisteredAnswerable ==
    ASSUME IInv, AnswerableInv, session # 0, NEW kind \in {"wait", "death"}, NEW mark \in Nat,
           handlers' = Append(handlers, Handler(kind, session, mark, announced)),
           UNCHANGED <<session, terminating, announced>>
    PROVE  AnswerableInv'
<1> DEFINE h == Handler(kind, session, mark, announced)
<1>1. /\ h \in Handlers /\ handlers \in Seq(Handlers)
      /\ Answerable(h, session, terminating, announced)
  BY DEF Handler, Handlers, Answerable, IInv, SectionInv, MovedType, RestType
<1> HIDE DEF h
<1>2. AllAnswerable(Append(handlers, h), session, terminating, announced)
  BY <1>1, AppendAnswerable DEF AnswerableInv
<1> QED
  BY <1>2 DEF AnswerableInv, h

LEMMA SectionAnswerable ==
    ASSUME IInv, IInv', AnswerableInv, UNCHANGED announced,
           Unmoved \/ (\E kept : EnterInactive(kept)) \/ EnterWaiting
             \/ ReviveSection \/ CloseSection
    PROVE  AnswerableInv'
<1>0. announced <= announced'
  BY DEF IInv, RestType
<1>1. CASE UNCHANGED <<handlers, session, terminating>>
  BY <1>0, <1>1, KeptAnswerable
<1>2. CASE \E kept : EnterInactive(kept)
  BY <1>2, DeactivatedAnswerable DEF EnterInactive
<1>3. CASE state = "dying" /\ EnterActive
  <2>1. session # 0 /\ resyncCounter \in Nat
    BY <1>3 DEF IInv, SectionInv, SessionPresent, RestType
  <2>2. UNCHANGED <<session, terminating, announced>>
    BY <1>3 DEF EnterActive, link
  <2> QED
    BY <1>1, <1>3, <2>1, <2>2, RegisteredAnswerable DEF EnterActive, Requeued
<1>4. CASE state = "active" /\ EnterDying
  <2>1. session # 0 /\ deathCount + 1 \in Nat
    BY <1>4 DEF IInv, SectionInv, SessionPresent, MovedType
  <2> QED
    BY <1>4, <2>1, RegisteredAnswerable DEF EnterDying, link
<1> QED
  BY <1>1, <1>2, <1>3, <1>4 DEF Unmoved, EnterWaiting, ReviveSection, CloseSection, link

\* A token makes a new session if there is none: then all handlers are those of
\* sessions destroyed before.
LEMMA RefreshAnswerable ==
    ASSUME IInv, IInv', AnswerableInv, CommitsGrow, NEW t \in Threads, RefreshAccessToken(t)
    PROVE  AnswerableInv'
<1> DEFINE new == IF session = 0 THEN made + 1 ELSE session
           w   == Handler("wait", new, resyncCounter, Known)
           d   == Handler("death", new, deathCount + 1, Known)
           hs  == IF waiters = {} THEN handlers ELSE Append(handlers, w)
<1>1. /\ session' = new /\ announced' = Known /\ terminating' = terminating
      /\ handlers' \in {hs, Append(hs, d)}
  BY DEF RefreshAccessToken, Requeued
<1>2. /\ handlers \in Seq(Handlers) /\ session \in Nat /\ made \in Nat
      /\ terminating \subseteq 1..made /\ announced \in Nat /\ Known \in Nat
      /\ resyncCounter \in Nat /\ deathCount \in Nat
  BY <1>1 DEF IInv, SectionInv, MovedType, RestType
<1>3. announced <= Known
  BY <1>1 DEF CommitsGrow
<1>4. new \in Nat /\ new # 0 /\ new \notin terminating
  BY <1>2 DEF AnswerableInv
<1>5. AllAnswerable(handlers, new, terminating, Known)
  <2>1. CASE session = 0
    BY <2>1 DEF AnswerableInv, AllAnswerable, Answerable
  <2>2. CASE session # 0
    BY <1>2, <1>3, <2>2, ToldMore DEF AnswerableInv
  <2> QED
    BY <2>1, <2>2
<1>6. /\ w \in Handlers /\ Answerable(w, new, terminating, Known)
      /\ d \in Handlers /\ Answerable(d, new, terminating, Known)
  BY <1>2, <1>4 DEF Handler, Handlers, Answerable
<1> HIDE DEF new, w, d
<1>7. hs \in Seq(Handlers) /\ AllAnswerable(hs, new, terminating, Known)
  BY <1>2, <1>5, <1>6, AppendAnswerable, AppendOutstanding
<1> HIDE DEF hs
<1>8. AllAnswerable(Append(hs, d), new, terminating, Known)
  BY <1>6, <1>7, AppendAnswerable
<1> QED
  BY <1>1, <1>4, <1>7, <1>8 DEF AnswerableInv

LEMMA HandlerAnswerable ==
    ASSUME IInv, AnswerableInv, NEW i \in 1..Len(handlers), WaitFires(i) \/ DeathFires(i)
    PROVE  AnswerableInv'
<1>1. handlers' = Without(handlers, i) /\ UNCHANGED announced
  BY DEF WaitFires, DeathFires, Outdated, commits
<1>2. CASE Deactivated({})
  BY <1>1, <1>2, DeactivatedAnswerable
<1>3. CASE UNCHANGED <<session, terminating>>
  <2>1. AllAnswerable(Without(handlers, i), session, terminating, announced)
    BY WithoutAnswerable DEF AnswerableInv, IInv, SectionInv, MovedType
  <2> QED
    BY <1>1, <1>3, <2>1 DEF AnswerableInv
<1> QED
  BY <1>2, <1>3 DEF WaitFires, DeathFires, link

\* A termination completes only when no handler is left of the session.
LEMMA TerminatedAnswerable ==
    ASSUME IInv, AnswerableInv, NEW s \in terminating, Terminated(s)
    PROVE  AnswerableInv'
<1>1. /\ terminating' = terminating \ {s} /\ UNCHANGED <<session, handlers, announced>>
      /\ \A i \in 1..Len(handlers) : handlers[i].session # s
  BY DEF Terminated, waits, commits
<1> QED
  BY <1>1 DEF AnswerableInv, AllAnswerable, Answerable

LEMMA AnswerableStep ==
    ASSUME IInv, IInv', CommitsGrow, AnswerableInv, [Next]_vars
    PROVE  AnswerableInv'
<1>0. announced <= announced'
  BY DEF CommitsGrow
<1>1. CASE UNCHANGED <<handlers, session, terminating>>
  BY <1>0, <1>1, KeptAnswerable
<1>2. ASSUME NEW t \in Threads, NEW c \in Callbacks, WaitForUploadCompletion(t, c)
      PROVE  AnswerableInv'
  <2>1. UNCHANGED <<session, terminating, announced>>
    BY <1>2 DEF WaitForUploadCompletion, link, commits
  <2>2. CASE waiters = {} /\ state \in {"active", "dying"}
    <3>1. session # 0 /\ resyncCounter \in Nat
      BY <2>2 DEF IInv, SectionInv, SessionPresent, RestType
    <3> QED
      BY <1>2, <2>1, <2>2, <3>1, RegisteredAnswerable DEF WaitForUploadCompletion, WaitHandler
  <2> QED
    BY <1>1, <1>2, <2>1, <2>2 DEF WaitForUploadCompletion
<1>3. ASSUME NEW t \in Threads, Call(t) \/ Continue(t) PROVE AnswerableInv'
  BY <1>1, <1>2, <1>3, RefreshAnswerable, SectionAnswerable
  DEF Call, Continue, LogOut, Revive, GetSession, DropReference, UpdateConfiguration, Commit,
      ExternalReference, DidDropExternalReference, ReviveReconfigured, ReadVersion,
      NonsyncTransactNotify, commits, Unmoved, link
<1>4. CASE ErrorHandling
  <2>1. UNCHANGED announced
    BY <1>4 DEF ErrorHandling, HandleErrorInState, HandleError, AssertFails, RestoreHandlers,
       ReviveResynced, commits
  <2> QED
    BY <1>1, <1>4, <2>1, SectionAnswerable
    DEF ErrorHandling, HandleErrorInState, HandleError, AssertFails, RestoreHandlers,
        ReviveResynced, waits, link
<1>5. CASE Upload \/ Unregister \/ UNCHANGED vars
  BY <1>1, <1>5 DEF Upload, Unmoved, Unregister, vars, link, waits
<1>6. CASE ClientEvent
  BY <1>1, <1>6, TerminatedAnswerable DEF ClientEvent, ConnectionUp, ConnectionLost, waits
<1> QED
  BY <1>3, <1>4, <1>5, <1>6, HandlerAnswerable DEF Next, HandlerFires

LEMMA AnswerableInvariance == Spec => [](CommitsOrdered /\ AnswerableInv)
<1>1. Init => CommitsOrdered /\ AnswerableInv
  BY DEF Init, CommitsOrdered, AnswerableInv, AllAnswerable
<1>2. IInv /\ IInv' /\ CommitsOrdered /\ AnswerableInv /\ [Next]_vars
        => CommitsOrdered' /\ AnswerableInv'
  BY CommitsStep, AnswerableStep DEF CommitsGrow
<1> QED
  BY Invariance, <1>1, <1>2, PTL DEF Spec

\* Every handler registered with the sync client belongs to a sync::Session that
\* was destroyed, and is cancelled, or to the one in use, which knows of every
\* commit the handler waits for.
THEOREM HandlersAnswerable == Spec => []EveryHandlerAnswerable
<1>1. AnswerableInv => EveryHandlerAnswerable
  BY DEF AnswerableInv, AllAnswerable, EveryHandlerAnswerable
<1> QED
  BY AnswerableInvariance, <1>1, PTL

\* All that was sent is acknowledged: the watch for this death is due.
DyingCanEnd ==
    state = "dying" /\ uploaded = announced =>
        \E i \in 1..Len(handlers) :
            handlers[i].kind = "death" /\ handlers[i].mark = deathCount /\ Due(handlers[i])

\* Once the server has acknowledged all it was sent, a dying session has a watch
\* that is due and, when it is called, ends it.
THEOREM DyingCanAlwaysEnd == Spec => []DyingCanEnd
<1>1. ASSUME IInv, AnswerableInv, state = "dying", uploaded = announced
      PROVE  \E i \in 1..Len(handlers) :
                handlers[i].kind = "death" /\ handlers[i].mark = deathCount /\ Due(handlers[i])
  <2>1. PICK i \in 1..Len(handlers) : /\ handlers[i].kind = "death"
                                      /\ handlers[i].mark = deathCount
                                      /\ handlers[i].session = session
    BY <1>1 DEF IInv, SectionInv, DyingWatched, Outstanding
  <2>2. Answerable(handlers[i], session, terminating, announced) /\ session \notin terminating
    BY <1>1 DEF AnswerableInv, AllAnswerable
  <2>3. announced >= handlers[i].target
    <3>1. handlers[i] \in Handlers /\ announced \in Nat
      BY <1>1 DEF IInv, SectionInv, MovedType, RestType
    <3> QED
      BY <2>1, <2>2, <3>1 DEF Answerable, Handlers
  <2> QED
    BY <1>1, <2>1, <2>3 DEF Due
<1>2. IInv /\ AnswerableInv => DyingCanEnd
  BY <1>1 DEF DyingCanEnd
<1> QED
  BY Invariance, AnswerableInvariance, <1>2, PTL

\* All that was sent is acknowledged: a wait that is not outdated is due.
WaitersCanBeCalled ==
    waiters # {} /\ state \in {"active", "dying"} /\ uploaded = announced =>
        \E i \in 1..Len(handlers) :
            handlers[i].kind = "wait" /\ ~Outdated(handlers[i]) /\ Due(handlers[i])

\* Until the first resync, a connected session whose server has acknowledged
\* all it was sent has a wait that is due and calls everyone in the list.
THEOREM WaitersCanAlwaysBeCalled == Spec => [](resyncCounter = 0 => WaitersCanBeCalled)
<1>1. ASSUME IInv, AnswerableInv, WaitersWatched, waiters # {}, state \in {"active", "dying"},
             uploaded = announced
      PROVE  \E i \in 1..Len(handlers) :
                handlers[i].kind = "wait" /\ ~Outdated(handlers[i]) /\ Due(handlers[i])
  <2>1. PICK i \in 1..Len(handlers) : /\ handlers[i].kind = "wait"
                                      /\ handlers[i].mark = resyncCounter
                                      /\ handlers[i].session = session
    BY <1>1 DEF WaitersWatched, Outstanding
  <2>2. Answerable(handlers[i], session, terminating, announced) /\ session \notin terminating
    BY <1>1 DEF AnswerableInv, AllAnswerable
  <2>3. announced >= handlers[i].target
    <3>1. handlers[i] \in Handlers /\ announced \in Nat
      BY <1>1 DEF IInv, SectionInv, MovedType, RestType
    <3> QED
      BY <2>1, <2>2, <3>1 DEF Answerable, Handlers
  <2> QED
    BY <1>1, <2>1, <2>3 DEF Due, Outdated
<1>2. IInv /\ AnswerableInv /\ WaitersWatched => WaitersCanBeCalled
  BY <1>1 DEF WaitersCanBeCalled
<1> QED
  BY Invariance, AnswerableInvariance, SafeUntilResync, <1>2, PTL
==============================================================================
