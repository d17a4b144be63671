-------------------------- MODULE SyncRegistryProofs --------------------------
(***************************************************************************)
(* Proofs about SyncRegistry, for any threads, policy and number of        *)
(* sessions.  The inductive invariant adds to the properties what each     *)
(* lock protects: while a thread is between finding a session and          *)
(* referring to it the manager's lock is its own and the session stays     *)
(* listed, and while a user is being logged out the session on its way to  *)
(* the waiting ones is the one listed.                                     *)
(***************************************************************************)
EXTENDS SyncRegistry, TLAPS

\* Where a thread holds the manager's lock, and where the user's.
Acquiring == {"registering", "binding", "referencing"}

LocksOwned ==
    \A t \in Threads :
        /\ pc[t] \in Acquiring => managerLock = t /\ pin[t] = listed /\ listed # 0
        /\ pc[t] \in {"releasing", "stuck"} => managerLock = t
        /\ pc[t] = "moving" => userLock = t
        /\ userLock = t => pc[t] \in {"unregistering", "releasing", "moving", "stuck"}

ProbedIsListed ==
    \A t \in Threads :
        /\ probe[t] # 0 => probe[t] = listed
        /\ pc[t] = "releasing" => probe[t] # 0

\* The listed session is registered: nobody is still about to register it, and
\* the user was valid when it was.
Registered ==
    listed # 0 /\ listed \notin refused /\ \A t \in Threads : pc[t] # "registering"

\* Where the next log in or log out finds the registered session.
Reachable ==
    /\ user = "Active" => active = listed
    /\ user = "LoggedOut" /\ userLock = Nobody => waiting = listed
    /\ user = "LoggedOut" /\ userLock # Nobody => pin[userLock] = listed
    /\ user = "Error" => active = listed \/ (active = 0 /\ waiting = listed)

UserInv ==
    /\ Registered => Reachable
    /\ user = "LoggedOut" /\ userLock = Nobody => active = 0
    /\ userLock # Nobody => user = "LoggedOut"

IInv == TypeOK /\ LocksOwned /\ ProbedIsListed /\ ReferencedIsListed /\ UserInv

-----------------------------------------------------------------------------
LEMMA InitInv ==
    ASSUME Init
    PROVE  IInv
<1>1. TypeOK
  <2>1. made \in 0..MaxSessions /\ 0 \in 0..made
    BY BoundAssumption DEF Init
  <2>2. \A t \in Threads : pin[t] = 0 <=> pc[t] = "idle"
    BY DEF Init
  <2>3. pc \in [Threads -> PCs] /\ state \in [Sessions -> States]
    BY DEF Init, PCs, States
  <2>4. /\ refs \in [Threads -> 0..made] /\ probe \in [Threads -> 0..made]
        /\ pin \in [Threads -> 0..made]
    BY <2>1 DEF Init
  <2> QED
    BY <2>1, <2>2, <2>3, <2>4 DEF Init, TypeOK, Users
<1>2. LocksOwned /\ ProbedIsListed /\ ReferencedIsListed /\ UserInv
  BY ThreadsAssumption DEF Init, LocksOwned, Acquiring, ProbedIsListed, ReferencedIsListed,
     UserInv, Registered
<1> QED
  BY <1>1, <1>2 DEF IInv

\* The found or new session is listed and the finder has the manager's lock.
LEMMA GetSessionKeeps ==
    ASSUME IInv, NEW t \in Threads, GetSession(t)
    PROVE  IInv'
<1> USE ThreadsAssumption, BoundAssumption DEF GetSession, Goto
<1>1. TypeOK'
  <2>1. made' \in 0..MaxSessions /\ made <= made' /\ made' \in Nat /\ 0..made \subseteq 0..made'
    BY DEF IInv, TypeOK
  <2>2. pc' \in [Threads -> PCs]
    BY DEF IInv, TypeOK, PCs
  <2>3. pin' \in [Threads -> 0..made']
    BY <2>1 DEF IInv, TypeOK
  <2>4. \A u \in Threads : pin'[u] = 0 <=> pc'[u] = "idle"
    BY <2>1 DEF IInv, TypeOK
  <2>5. listed' \in 0..made' /\ active' \in 0..made' /\ waiting' \in 0..made'
    BY <2>1 DEF IInv, TypeOK
  <2>6. refs' \in [Threads -> 0..made'] /\ probe' \in [Threads -> 0..made']
    BY <2>1 DEF IInv, TypeOK
  <2>7. refused' \subseteq Sessions
    BY <2>1 DEF IInv, TypeOK, Sessions
  <2>8. /\ state' \in [Sessions -> States] /\ user' \in Users
        /\ managerLock' \in Threads \union {Nobody} /\ userLock' \in Threads \union {Nobody}
        /\ failed' \in BOOLEAN
    BY <2>1 DEF IInv, TypeOK, Sessions, States, Users
  <2> QED
    BY <2>1, <2>2, <2>3, <2>4, <2>5, <2>6, <2>7, <2>8 DEF TypeOK
<1>2. LocksOwned'
  BY DEF IInv, TypeOK, LocksOwned, Acquiring
<1>3. ProbedIsListed' /\ ReferencedIsListed'
  BY DEF IInv, TypeOK, LocksOwned, Acquiring, ProbedIsListed, ReferencedIsListed
<1>4. UserInv'
  BY DEF IInv, TypeOK, LocksOwned, Acquiring, UserInv, Registered, Reachable
<1> QED
  BY <1>1, <1>2, <1>3, <1>4 DEF IInv

\* Registration enters the session where the user's state says it is looked for.
LEMMA RegisterSessionKeeps ==
    ASSUME IInv, NEW t \in Threads, RegisterSession(t)
    PROVE  IInv'
<1> USE ThreadsAssumption, BoundAssumption DEF RegisterSession, Goto
<1>1. TypeOK'
  <2>1. made' \in 0..MaxSessions /\ made <= made' /\ made' \in Nat /\ 0..made \subseteq 0..made'
    BY DEF IInv, TypeOK
  <2>2. pc' \in [Threads -> PCs]
    BY DEF IInv, TypeOK, PCs
  <2>3. pin' \in [Threads -> 0..made']
    BY <2>1 DEF IInv, TypeOK
  <2>4. \A u \in Threads : pin'[u] = 0 <=> pc'[u] = "idle"
    BY <2>1 DEF IInv, TypeOK
  <2>5. listed' \in 0..made' /\ active' \in 0..made' /\ waiting' \in 0..made'
    BY <2>1 DEF IInv, TypeOK
  <2>6. refs' \in [Threads -> 0..made'] /\ probe' \in [Threads -> 0..made']
    BY <2>1 DEF IInv, TypeOK
  <2>7. refused' \subseteq Sessions
    <3>1. pin[t] \in Sessions
      BY DEF IInv, TypeOK, Sessions
    <3> QED
      BY <3>1 DEF IInv, TypeOK
  <2>8. /\ state' \in [Sessions -> States] /\ user' \in Users
        /\ managerLock' \in Threads \union {Nobody} /\ userLock' \in Threads \union {Nobody}
        /\ failed' \in BOOLEAN
    BY <2>1 DEF IInv, TypeOK, Sessions, States, Users
  <2> QED
    BY <2>1, <2>2, <2>3, <2>4, <2>5, <2>6, <2>7, <2>8 DEF TypeOK
<1>2. LocksOwned'
  BY DEF IInv, TypeOK, LocksOwned, Acquiring
<1>3. ProbedIsListed' /\ ReferencedIsListed'
  BY DEF IInv, TypeOK, LocksOwned, Acquiring, ProbedIsListed, ReferencedIsListed
<1>4. UserInv'
  BY DEF IInv, TypeOK, LocksOwned, Acquiring, UserInv, Registered, Reachable
<1> QED
  BY <1>1, <1>2, <1>3, <1>4 DEF IInv

\* Going online changes no registry.
LEMMA BindRegisteredKeeps ==
    ASSUME IInv, NEW t \in Threads, BindRegistered(t)
    PROVE  IInv'
<1> USE ThreadsAssumption, BoundAssumption DEF BindRegistered, Goto, Revived
<1>1. TypeOK'
  BY DEF IInv, TypeOK, PCs, Sessions, States
<1>2. LocksOwned'
  BY DEF IInv, TypeOK, LocksOwned, Acquiring
<1>3. ProbedIsListed' /\ ReferencedIsListed'
  BY DEF IInv, TypeOK, LocksOwned, Acquiring, ProbedIsListed, ReferencedIsListed
<1>4. UserInv'
  BY DEF IInv, TypeOK, LocksOwned, Acquiring, UserInv, Registered, Reachable
<1> QED
  BY <1>1, <1>2, <1>3, <1>4 DEF IInv

\* The referenced session is the pinned one, which the manager's lock has kept listed.
LEMMA TakeReferenceKeeps ==
    ASSUME IInv, NEW t \in Threads, TakeReference(t)
    PROVE  IInv'
<1> USE ThreadsAssumption, BoundAssumption DEF TakeReference, Goto
<1>1. TypeOK'
  <2>1. /\ pc' \in [Threads -> PCs] /\ pin' \in [Threads -> 0..made']
        /\ refs' \in [Threads -> 0..made'] /\ probe' \in [Threads -> 0..made']
    BY DEF IInv, TypeOK, PCs
  <2>2. \A u \in Threads : pin'[u] = 0 <=> pc'[u] = "idle"
    BY DEF IInv, TypeOK
  <2>3. state' \in [Sessions -> States]
    BY DEF IInv, TypeOK, Sessions, States
  <2>4. /\ made' \in 0..MaxSessions /\ listed' \in 0..made' /\ active' \in 0..made'
        /\ waiting' \in 0..made' /\ user' \in Users /\ refused' \subseteq Sessions
        /\ managerLock' \in Threads \union {Nobody} /\ userLock' \in Threads \union {Nobody}
        /\ failed' \in BOOLEAN
    BY DEF IInv, TypeOK
  <2> QED
    BY <2>1, <2>2, <2>3, <2>4 DEF TypeOK
<1>2. LocksOwned'
  BY DEF IInv, TypeOK, LocksOwned, Acquiring
<1>3. ProbedIsListed' /\ ReferencedIsListed'
  BY DEF IInv, TypeOK, LocksOwned, Acquiring, ProbedIsListed, ReferencedIsListed
<1>4. UserInv'
  BY DEF IInv, TypeOK, LocksOwned, Acquiring, UserInv, Registered, Reachable
<1> QED
  BY <1>1, <1>2, <1>3, <1>4 DEF IInv

\* One reference less.
LEMMA DropReferenceKeeps ==
    ASSUME IInv, NEW t \in Threads, DropReference(t)
    PROVE  IInv'
<1> USE ThreadsAssumption, BoundAssumption DEF DropReference, Goto, ReferredIn
<1>1. TypeOK'
  <2>1. made' \in 0..MaxSessions /\ made <= made' /\ made' \in Nat /\ 0..made \subseteq 0..made'
    BY DEF IInv, TypeOK
  <2>2. pc' \in [Threads -> PCs]
    BY DEF IInv, TypeOK, PCs
  <2>3. pin' \in [Threads -> 0..made']
    BY <2>1 DEF IInv, TypeOK
  <2>4. \A u \in Threads : pin'[u] = 0 <=> pc'[u] = "idle"
    BY <2>1 DEF IInv, TypeOK
  <2>5. listed' \in 0..made' /\ active' \in 0..made' /\ waiting' \in 0..made'
    BY <2>1 DEF IInv, TypeOK
  <2>6. refs' \in [Threads -> 0..made'] /\ probe' \in [Threads -> 0..made']
    BY <2>1 DEF IInv, TypeOK
  <2>7. refused' \subseteq Sessions
    BY <2>1 DEF IInv, TypeOK, Sessions
  <2>8. /\ state' \in [Sessions -> States] /\ user' \in Users
        /\ managerLock' \in Threads \union {Nobody} /\ userLock' \in Threads \union {Nobody}
        /\ failed' \in BOOLEAN
    BY <2>1 DEF IInv, TypeOK, Sessions, States, Users
  <2> QED
    BY <2>1, <2>2, <2>3, <2>4, <2>5, <2>6, <2>7, <2>8 DEF TypeOK
<1>2. LocksOwned'
  BY DEF IInv, TypeOK, LocksOwned, Acquiring
<1>3. ProbedIsListed' /\ ReferencedIsListed'
  BY DEF IInv, TypeOK, LocksOwned, Acquiring, ProbedIsListed, ReferencedIsListed
<1>4. UserInv'
  BY DEF IInv, TypeOK, LocksOwned, Acquiring, UserInv, Registered, Reachable
<1> QED
  BY <1>1, <1>2, <1>3, <1>4 DEF IInv

\* Closing changes the session's state only.
LEMMA DidDropExternalReferenceKeeps ==
    ASSUME IInv, NEW t \in Threads, DidDropExternalReference(t)
    PROVE  IInv'
<1> USE ThreadsAssumption, BoundAssumption DEF DidDropExternalReference, Goto, Closed, Unregisters, States
<1>1. TypeOK'
  <2>1. made' \in 0..MaxSessions /\ made <= made' /\ made' \in Nat /\ 0..made \subseteq 0..made'
    BY DEF IInv, TypeOK
  <2>2. pc' \in [Threads -> PCs]
    BY DEF IInv, TypeOK, PCs
  <2>3. pin' \in [Threads -> 0..made']
    BY <2>1 DEF IInv, TypeOK
  <2>4. \A u \in Threads : pin'[u] = 0 <=> pc'[u] = "idle"
    BY <2>1 DEF IInv, TypeOK
  <2>5. listed' \in 0..made' /\ active' \in 0..made' /\ waiting' \in 0..made'
    BY <2>1 DEF IInv, TypeOK
  <2>6. refs' \in [Threads -> 0..made'] /\ probe' \in [Threads -> 0..made']
    BY <2>1 DEF IInv, TypeOK
  <2>7. refused' \subseteq Sessions
    BY <2>1 DEF IInv, TypeOK, Sessions
  <2>8. /\ state' \in [Sessions -> States] /\ user' \in Users
        /\ managerLock' \in Threads \union {Nobody} /\ userLock' \in Threads \union {Nobody}
        /\ failed' \in BOOLEAN
    BY <2>1 DEF IInv, TypeOK, Sessions, States, Users
  <2> QED
    BY <2>1, <2>2, <2>3, <2>4, <2>5, <2>6, <2>7, <2>8 DEF TypeOK
<1>2. LocksOwned'
  BY DEF IInv, TypeOK, LocksOwned, Acquiring
<1>3. ProbedIsListed' /\ ReferencedIsListed'
  BY DEF IInv, TypeOK, LocksOwned, Acquiring, ProbedIsListed, ReferencedIsListed
<1>4. UserInv'
  BY DEF IInv, TypeOK, LocksOwned, Acquiring, UserInv, Registered, Reachable
<1> QED
  BY <1>1, <1>2, <1>3, <1>4 DEF IInv

\* What is erased has no reference, and nobody is about to take one: the lock is free.
LEMMA UnregisterSessionKeeps ==
    ASSUME IInv, NEW t \in Threads, UnregisterSession(t)
    PROVE  IInv'
<1> USE ThreadsAssumption, BoundAssumption DEF UnregisterSession, Goto, Back, Referenced, ReferredIn
<1>1. TypeOK'
  <2>1. made' \in 0..MaxSessions /\ made <= made' /\ made' \in Nat /\ 0..made \subseteq 0..made'
    BY DEF IInv, TypeOK
  <2>2. pc' \in [Threads -> PCs]
    BY DEF IInv, TypeOK, PCs
  <2>3. pin' \in [Threads -> 0..made']
    BY <2>1 DEF IInv, TypeOK
  <2>4. \A u \in Threads : pin'[u] = 0 <=> pc'[u] = "idle"
    BY <2>1 DEF IInv, TypeOK
  <2>5. listed' \in 0..made' /\ active' \in 0..made' /\ waiting' \in 0..made'
    BY <2>1 DEF IInv, TypeOK
  <2>6. refs' \in [Threads -> 0..made'] /\ probe' \in [Threads -> 0..made']
    BY <2>1 DEF IInv, TypeOK
  <2>7. refused' \subseteq Sessions
    BY <2>1 DEF IInv, TypeOK, Sessions
  <2>8. /\ state' \in [Sessions -> States] /\ user' \in Users
        /\ managerLock' \in Threads \union {Nobody} /\ userLock' \in Threads \union {Nobody}
        /\ failed' \in BOOLEAN
    BY <2>1 DEF IInv, TypeOK, Sessions, States, Users
  <2> QED
    BY <2>1, <2>2, <2>3, <2>4, <2>5, <2>6, <2>7, <2>8 DEF TypeOK
<1>2. LocksOwned'
  BY DEF IInv, TypeOK, LocksOwned, Acquiring
<1>3. ProbedIsListed' /\ ReferencedIsListed'
  BY DEF IInv, TypeOK, LocksOwned, Acquiring, ProbedIsListed, ReferencedIsListed
<1>4. UserInv'
  BY DEF IInv, TypeOK, LocksOwned, Acquiring, UserInv, Registered, Reachable
<1> QED
  BY <1>1, <1>2, <1>3, <1>4 DEF IInv

\* A temporary reference less.
LEMMA ReleaseProbeKeeps ==
    ASSUME IInv, NEW t \in Threads, ReleaseProbe(t)
    PROVE  IInv'
<1> USE ThreadsAssumption, BoundAssumption DEF ReleaseProbe, Goto, Back, Closed, Unregisters, States
<1>1. TypeOK'
  <2>1. made' \in 0..MaxSessions /\ made <= made' /\ made' \in Nat /\ 0..made \subseteq 0..made'
    BY DEF IInv, TypeOK
  <2>2. pc' \in [Threads -> PCs]
    BY DEF IInv, TypeOK, PCs
  <2>3. pin' \in [Threads -> 0..made']
    BY <2>1 DEF IInv, TypeOK
  <2>4. \A u \in Threads : pin'[u] = 0 <=> pc'[u] = "idle"
    BY <2>1 DEF IInv, TypeOK
  <2>5. listed' \in 0..made' /\ active' \in 0..made' /\ waiting' \in 0..made'
    BY <2>1 DEF IInv, TypeOK
  <2>6. refs' \in [Threads -> 0..made'] /\ probe' \in [Threads -> 0..made']
    BY <2>1 DEF IInv, TypeOK
  <2>7. refused' \subseteq Sessions
    BY <2>1 DEF IInv, TypeOK, Sessions
  <2>8. /\ state' \in [Sessions -> States] /\ user' \in Users
        /\ managerLock' \in Threads \union {Nobody} /\ userLock' \in Threads \union {Nobody}
        /\ failed' \in BOOLEAN
    BY <2>1 DEF IInv, TypeOK, Sessions, States, Users
  <2> QED
    BY <2>1, <2>2, <2>3, <2>4, <2>5, <2>6, <2>7, <2>8 DEF TypeOK
<1>2. LocksOwned'
  BY DEF IInv, TypeOK, LocksOwned, Acquiring
<1>3. ProbedIsListed' /\ ReferencedIsListed'
  BY DEF IInv, TypeOK, LocksOwned, Acquiring, ProbedIsListed, ReferencedIsListed
<1>4. UserInv'
  BY DEF IInv, TypeOK, LocksOwned, Acquiring, UserInv, Registered, Reachable
<1> QED
  BY <1>1, <1>2, <1>3, <1>4 DEF IInv

\* A session goes offline.
LEMMA LogOutSessionKeeps ==
    ASSUME IInv, NEW t \in Threads, NEW s \in 1..made, LogOutSession(t, s)
    PROVE  IInv'
<1> USE ThreadsAssumption, BoundAssumption DEF LogOutSession, Goto, States
<1>1. TypeOK'
  <2>1. /\ pc' \in [Threads -> PCs] /\ pin' \in [Threads -> 0..made']
        /\ refs' \in [Threads -> 0..made'] /\ probe' \in [Threads -> 0..made']
    BY DEF IInv, TypeOK, PCs
  <2>2. \A u \in Threads : pin'[u] = 0 <=> pc'[u] = "idle"
    BY DEF IInv, TypeOK
  <2>3. state' \in [Sessions -> States]
    BY DEF IInv, TypeOK, Sessions, States
  <2>4. /\ made' \in 0..MaxSessions /\ listed' \in 0..made' /\ active' \in 0..made'
        /\ waiting' \in 0..made' /\ user' \in Users /\ refused' \subseteq Sessions
        /\ managerLock' \in Threads \union {Nobody} /\ userLock' \in Threads \union {Nobody}
        /\ failed' \in BOOLEAN
    BY DEF IInv, TypeOK
  <2> QED
    BY <2>1, <2>2, <2>3, <2>4 DEF TypeOK
<1>2. LocksOwned'
  BY DEF IInv, TypeOK, LocksOwned, Acquiring
<1>3. ProbedIsListed' /\ ReferencedIsListed'
  BY DEF IInv, TypeOK, LocksOwned, Acquiring, ProbedIsListed, ReferencedIsListed
<1>4. UserInv'
  BY DEF IInv, TypeOK, LocksOwned, Acquiring, UserInv, Registered, Reachable
<1> QED
  BY <1>1, <1>2, <1>3, <1>4 DEF IInv

\* A session comes online.
LEMMA ReviveSessionKeeps ==
    ASSUME IInv, NEW t \in Threads, NEW s \in 1..made, ReviveSession(t, s)
    PROVE  IInv'
<1> USE ThreadsAssumption, BoundAssumption DEF ReviveSession, Revived, States, Idle
<1>1. TypeOK'
  BY DEF IInv, TypeOK, PCs, Sessions, States
<1>2. LocksOwned'
  BY DEF IInv, TypeOK, LocksOwned, Acquiring
<1>3. ProbedIsListed' /\ ReferencedIsListed'
  BY DEF IInv, TypeOK, LocksOwned, Acquiring, ProbedIsListed, ReferencedIsListed
<1>4. UserInv'
  BY DEF IInv, TypeOK, LocksOwned, Acquiring, UserInv, Registered, Reachable
<1> QED
  BY <1>1, <1>2, <1>3, <1>4 DEF IInv

\* The session found in the user's map is the listed one, if that is registered.
LEMMA LogOutUserKeeps ==
    ASSUME IInv, NEW t \in Threads, LogOutUser(t)
    PROVE  IInv'
<1> USE ThreadsAssumption, BoundAssumption DEF LogOutUser, Goto, Exists, States, Users
<1>1. TypeOK'
  <2>1. made' \in 0..MaxSessions /\ made <= made' /\ made' \in Nat /\ 0..made \subseteq 0..made'
    BY DEF IInv, TypeOK
  <2>2. pc' \in [Threads -> PCs]
    BY DEF IInv, TypeOK, PCs
  <2>3. pin' \in [Threads -> 0..made']
    BY <2>1 DEF IInv, TypeOK
  <2>4. \A u \in Threads : pin'[u] = 0 <=> pc'[u] = "idle"
    BY <2>1 DEF IInv, TypeOK
  <2>5. listed' \in 0..made' /\ active' \in 0..made' /\ waiting' \in 0..made'
    BY <2>1 DEF IInv, TypeOK
  <2>6. refs' \in [Threads -> 0..made'] /\ probe' \in [Threads -> 0..made']
    BY <2>1 DEF IInv, TypeOK
  <2>7. refused' \subseteq Sessions
    BY <2>1 DEF IInv, TypeOK, Sessions
  <2>8. /\ state' \in [Sessions -> States] /\ user' \in Users
        /\ managerLock' \in Threads \union {Nobody} /\ userLock' \in Threads \union {Nobody}
        /\ failed' \in BOOLEAN
    BY <2>1 DEF IInv, TypeOK, Sessions, States, Users
  <2> QED
    BY <2>1, <2>2, <2>3, <2>4, <2>5, <2>6, <2>7, <2>8 DEF TypeOK
<1>2. LocksOwned'
  BY DEF IInv, TypeOK, LocksOwned, Acquiring
<1>3. ProbedIsListed' /\ ReferencedIsListed'
  BY DEF IInv, TypeOK, LocksOwned, Acquiring, ProbedIsListed, ReferencedIsListed
<1>4. UserInv'
  BY DEF IInv, TypeOK, LocksOwned, Acquiring, UserInv, Registered, Reachable
<1> QED
  BY <1>1, <1>2, <1>3, <1>4 DEF IInv

\* The logged out session is where the next log in looks for it.
LEMMA MoveToWaitingKeeps ==
    ASSUME IInv, NEW t \in Threads, MoveToWaiting(t)
    PROVE  IInv'
<1> USE ThreadsAssumption, BoundAssumption DEF MoveToWaiting, Goto
<1>1. TypeOK'
  BY DEF IInv, TypeOK, PCs, Sessions, States
<1>2. LocksOwned'
  BY DEF IInv, TypeOK, LocksOwned, Acquiring
<1>3. ProbedIsListed' /\ ReferencedIsListed'
  BY DEF IInv, TypeOK, LocksOwned, Acquiring, ProbedIsListed, ReferencedIsListed
<1>4. UserInv'
  BY DEF IInv, TypeOK, LocksOwned, Acquiring, UserInv, Registered, Reachable
<1> QED
  BY <1>1, <1>2, <1>3, <1>4 DEF IInv

\* The waiting session exists if it is the listed one, so it is taken back.
LEMMA UpdateRefreshTokenKeeps ==
    ASSUME IInv, NEW t \in Threads, UpdateRefreshToken(t)
    PROVE  IInv'
<1> USE ThreadsAssumption, BoundAssumption DEF UpdateRefreshToken, Goto, Exists, Users
<1>1. TypeOK'
  <2>1. made' \in 0..MaxSessions /\ made <= made' /\ made' \in Nat /\ 0..made \subseteq 0..made'
    BY DEF IInv, TypeOK
  <2>2. pc' \in [Threads -> PCs]
    BY DEF IInv, TypeOK, PCs
  <2>3. pin' \in [Threads -> 0..made']
    BY <2>1 DEF IInv, TypeOK
  <2>4. \A u \in Threads : pin'[u] = 0 <=> pc'[u] = "idle"
    BY <2>1 DEF IInv, TypeOK
  <2>5. listed' \in 0..made' /\ active' \in 0..made' /\ waiting' \in 0..made'
    BY <2>1 DEF IInv, TypeOK
  <2>6. refs' \in [Threads -> 0..made'] /\ probe' \in [Threads -> 0..made']
    BY <2>1 DEF IInv, TypeOK
  <2>7. refused' \subseteq Sessions
    BY <2>1 DEF IInv, TypeOK, Sessions
  <2>8. /\ state' \in [Sessions -> States] /\ user' \in Users
        /\ managerLock' \in Threads \union {Nobody} /\ userLock' \in Threads \union {Nobody}
        /\ failed' \in BOOLEAN
    BY <2>1 DEF IInv, TypeOK, Sessions, States, Users
  <2> QED
    BY <2>1, <2>2, <2>3, <2>4, <2>5, <2>6, <2>7, <2>8 DEF TypeOK
<1>2. LocksOwned'
  BY DEF IInv, TypeOK, LocksOwned, Acquiring
<1>3. ProbedIsListed' /\ ReferencedIsListed'
  BY DEF IInv, TypeOK, LocksOwned, Acquiring, ProbedIsListed, ReferencedIsListed
<1>4. UserInv'
  BY DEF IInv, TypeOK, LocksOwned, Acquiring, UserInv, Registered, Reachable
<1> QED
  BY <1>1, <1>2, <1>3, <1>4 DEF IInv

\* Going online changes no registry.
LEMMA ReviveWaitingKeeps ==
    ASSUME IInv, NEW t \in Threads, ReviveWaiting(t)
    PROVE  IInv'
<1> USE ThreadsAssumption, BoundAssumption DEF ReviveWaiting, Goto, Revived, States
<1>1. TypeOK'
  <2>1. /\ pc' \in [Threads -> PCs] /\ pin' \in [Threads -> 0..made']
        /\ refs' \in [Threads -> 0..made'] /\ probe' \in [Threads -> 0..made']
    BY DEF IInv, TypeOK, PCs
  <2>2. \A u \in Threads : pin'[u] = 0 <=> pc'[u] = "idle"
    BY DEF IInv, TypeOK
  <2>3. state' \in [Sessions -> States]
    BY DEF IInv, TypeOK, Sessions, States
  <2>4. /\ made' \in 0..MaxSessions /\ listed' \in 0..made' /\ active' \in 0..made'
        /\ waiting' \in 0..made' /\ user' \in Users /\ refused' \subseteq Sessions
        /\ managerLock' \in Threads \union {Nobody} /\ userLock' \in Threads \union {Nobody}
        /\ failed' \in BOOLEAN
    BY DEF IInv, TypeOK
  <2> QED
    BY <2>1, <2>2, <2>3, <2>4 DEF TypeOK
<1>2. LocksOwned'
  BY DEF IInv, TypeOK, LocksOwned, Acquiring
<1>3. ProbedIsListed' /\ ReferencedIsListed'
  BY DEF IInv, TypeOK, LocksOwned, Acquiring, ProbedIsListed, ReferencedIsListed
<1>4. UserInv'
  BY DEF IInv, TypeOK, LocksOwned, Acquiring, UserInv, Registered, Reachable
<1> QED
  BY <1>1, <1>2, <1>3, <1>4 DEF IInv

\* An entry cleared out is not the listed session.
LEMMA AllSessionsKeeps ==
    ASSUME IInv, NEW t \in Threads, AllSessions(t)
    PROVE  IInv'
<1> USE ThreadsAssumption, BoundAssumption DEF AllSessions, Exists, Idle
<1>1. TypeOK'
  BY DEF IInv, TypeOK, PCs, Sessions, States
<1>2. LocksOwned'
  BY DEF IInv, TypeOK, LocksOwned, Acquiring
<1>3. ProbedIsListed' /\ ReferencedIsListed'
  BY DEF IInv, TypeOK, LocksOwned, Acquiring, ProbedIsListed, ReferencedIsListed
<1>4. UserInv'
  BY DEF IInv, TypeOK, LocksOwned, Acquiring, UserInv, Registered, Reachable
<1> QED
  BY <1>1, <1>2, <1>3, <1>4 DEF IInv

\* A session goes offline.
LEMMA SessionEndsKeeps ==
    ASSUME IInv, NEW s \in 1..made, SessionEnds(s)
    PROVE  IInv'
<1> USE ThreadsAssumption, BoundAssumption DEF SessionEnds, Goto, States
<1>1. TypeOK'
  BY DEF IInv, TypeOK, PCs, Sessions, States
<1>2. LocksOwned'
  BY DEF IInv, TypeOK, LocksOwned, Acquiring
<1>3. ProbedIsListed' /\ ReferencedIsListed'
  BY DEF IInv, TypeOK, LocksOwned, Acquiring, ProbedIsListed, ReferencedIsListed
<1>4. UserInv'
  BY DEF IInv, TypeOK, LocksOwned, Acquiring, UserInv, Registered, Reachable
<1> QED
  BY <1>1, <1>2, <1>3, <1>4 DEF IInv

\* An invalid user keeps its entries.
LEMMA InvalidateKeeps ==
    ASSUME IInv, Invalidate
    PROVE  IInv'
<1> USE ThreadsAssumption, BoundAssumption DEF Invalidate, Idle, Users
<1>1. TypeOK'
  BY DEF IInv, TypeOK, PCs, Sessions, States
<1>2. LocksOwned'
  BY DEF IInv, TypeOK, LocksOwned, Acquiring
<1>3. ProbedIsListed' /\ ReferencedIsListed'
  BY DEF IInv, TypeOK, LocksOwned, Acquiring, ProbedIsListed, ReferencedIsListed
<1>4. UserInv'
  BY DEF IInv, TypeOK, LocksOwned, Acquiring, UserInv, Registered, Reachable
<1> QED
  BY <1>1, <1>2, <1>3, <1>4 DEF IInv

LEMMA StutterKeeps ==
    ASSUME IInv, UNCHANGED vars
    PROVE  IInv'
BY DEF vars, IInv, TypeOK, LocksOwned, Acquiring, ProbedIsListed, ReferencedIsListed, UserInv,
       Registered, Reachable

LEMMA NextKeeps ==
    ASSUME IInv, [Next]_vars
    PROVE  IInv'
<1>1. CASE UNCHANGED vars
  BY <1>1, StutterKeeps
<1>2. ASSUME NEW t \in Threads,
             \/ GetSession(t) \/ RegisterSession(t) \/ BindRegistered(t) \/ TakeReference(t)
             \/ DropReference(t) \/ DidDropExternalReference(t)
             \/ UnregisterSession(t) \/ ReleaseProbe(t)
      PROVE  IInv'
  BY <1>2, GetSessionKeeps, RegisterSessionKeeps, BindRegisteredKeeps, TakeReferenceKeeps,
     DropReferenceKeeps, DidDropExternalReferenceKeeps, UnregisterSessionKeeps, ReleaseProbeKeeps
<1>3. ASSUME NEW t \in Threads, NEW s \in 1..made, LogOutSession(t, s) \/ ReviveSession(t, s)
      PROVE  IInv'
  BY <1>3, LogOutSessionKeeps, ReviveSessionKeeps
<1>4. ASSUME NEW t \in Threads,
             \/ LogOutUser(t) \/ MoveToWaiting(t) \/ UpdateRefreshToken(t)
             \/ ReviveWaiting(t) \/ AllSessions(t)
      PROVE  IInv'
  BY <1>4, LogOutUserKeeps, MoveToWaitingKeeps, UpdateRefreshTokenKeeps, ReviveWaitingKeeps,
     AllSessionsKeeps
<1>5. ASSUME NEW s \in 1..made, SessionEnds(s)
      PROVE  IInv'
  BY <1>5, SessionEndsKeeps
<1>6. CASE Invalidate
  BY <1>6, InvalidateKeeps
<1> QED
  BY <1>1, <1>2, <1>3, <1>4, <1>5, <1>6 DEF Next

THEOREM Invariance == Spec => []IInv
<1>1. Init => IInv
  BY InitInv
<1>2. IInv /\ [Next]_vars => IInv'
  BY NextKeeps
<1> QED
  BY <1>1, <1>2, PTL DEF Spec

\* The registries, locks and calls have their types, and a call works on a
\* session from its first step to its last.
THEOREM TypeCorrect == Spec => []TypeOK
BY Invariance, PTL DEF IInv

\* SyncManager::get_session and unregister_session: threads that refer to a
\* session of the path all refer to the listed one, whatever else goes on.
THEOREM OneSessionPerPath == Spec => []ReferencedIsListed
BY Invariance, PTL DEF IInv

\* SyncUser::register_session, log_out and update_refresh_token: what is
\* referenced is where the next log in or log out looks for it.
THEOREM LogInAndOutReach == Spec => []LogInAndOutReachIt
<1>1. IInv => LogInAndOutReachIt
  BY DEF IInv, TypeOK, LogInAndOutReachIt, ReferencedIsListed, UserInv, Registered, Reachable,
         LocksOwned, Acquiring
<1> QED
  BY <1>1, Invariance, PTL

-----------------------------------------------------------------------------
\* Standstills

\* Who has the manager's lock is at a place of a call where it is needed.
ManagerLockUsed ==
    \A t \in Threads :
        managerLock = t => pc[t] \in Acquiring \union {"releasing", "stuck"}

LEMMA ManagerLockUsedStep ==
    ASSUME IInv, ManagerLockUsed, [Next]_vars
    PROVE  ManagerLockUsed'
<1> USE ThreadsAssumption DEF ManagerLockUsed, Acquiring, Goto
<1>1. TypeOK /\ LocksOwned
  BY DEF IInv
<1>2. CASE UNCHANGED vars
  BY <1>2 DEF vars
<1>3. ASSUME NEW t \in Threads, GetSession(t) PROVE ManagerLockUsed'
  BY <1>1, <1>3 DEF GetSession, TypeOK
<1>4. ASSUME NEW t \in Threads, RegisterSession(t) \/ BindRegistered(t) PROVE ManagerLockUsed'
  BY <1>1, <1>4 DEF RegisterSession, BindRegistered, TypeOK
<1>5. ASSUME NEW t \in Threads, TakeReference(t) PROVE ManagerLockUsed'
  BY <1>1, <1>5 DEF TakeReference, TypeOK
<1>6. ASSUME NEW t \in Threads, DropReference(t) \/ DidDropExternalReference(t)
      PROVE  ManagerLockUsed'
  BY <1>1, <1>6 DEF DropReference, DidDropExternalReference, TypeOK
<1>7. ASSUME NEW t \in Threads, UnregisterSession(t) PROVE ManagerLockUsed'
  BY <1>1, <1>7 DEF UnregisterSession, Back, TypeOK
<1>8. ASSUME NEW t \in Threads, ReleaseProbe(t) PROVE ManagerLockUsed'
  BY <1>1, <1>8 DEF ReleaseProbe, Back, TypeOK, LocksOwned
<1>9. ASSUME NEW t \in Threads, NEW s \in 1..made, LogOutSession(t, s) \/ ReviveSession(t, s)
      PROVE  ManagerLockUsed'
  BY <1>1, <1>9 DEF LogOutSession, ReviveSession, TypeOK
<1>10. ASSUME NEW t \in Threads, LogOutUser(t) \/ MoveToWaiting(t) PROVE ManagerLockUsed'
  BY <1>1, <1>10 DEF LogOutUser, MoveToWaiting, TypeOK
<1>11. ASSUME NEW t \in Threads, UpdateRefreshToken(t) \/ ReviveWaiting(t) \/ AllSessions(t)
       PROVE  ManagerLockUsed'
  BY <1>1, <1>11 DEF UpdateRefreshToken, ReviveWaiting, AllSessions, TypeOK
<1>12. ASSUME NEW s \in 1..made, SessionEnds(s) PROVE ManagerLockUsed'
  BY <1>1, <1>12 DEF SessionEnds, TypeOK
<1>13. CASE Invalidate
  BY <1>13 DEF Invalidate
<1> QED
  BY <1>2, <1>3, <1>4, <1>5, <1>6, <1>7, <1>8, <1>9, <1>10, <1>11, <1>12, <1>13 DEF Next

\* Who waits for a lock waits for a call that can go on, or has come across one
\* of the two deadlocks.
LEMMA WaitingForSomebody ==
    ASSUME IInv, ManagerLockUsed
    PROVE  StandstillsKnown
<1> SUFFICES ASSUME NEW t \in Threads, pc[t] # "idle", ~LocksCrossed, ~LockTakenTwice, ~failed
             PROVE  \E u \in Threads : CanGoOn(u)
  BY DEF StandstillsKnown
<1>1. LocksOwned /\ managerLock \in Threads \union {Nobody} /\ userLock \in Threads \union {Nobody}
  BY DEF IInv, TypeOK
<1>2. \A u \in Threads : pc[u] # "stuck"
  BY DEF LockTakenTwice
<1>3. ASSUME NEW u \in Threads, pc[u] = "registering"
      PROVE  \E w \in Threads : CanGoOn(w)
  <2>1. managerLock = u
    BY <1>1, <1>3 DEF LocksOwned, Acquiring
  <2>2. CASE userLock = Nobody
    BY <1>3, <2>2 DEF CanGoOn
  <2>3. CASE userLock # Nobody
    <3>1. PICK w \in Threads : userLock = w
      BY <1>1, <2>3
    <3>2. pc[w] \in {"releasing", "moving"}
      BY <1>1, <1>2, <1>3, <2>1, <3>1 DEF LocksOwned, LocksCrossed
    <3> QED
      BY <3>2 DEF CanGoOn
  <2> QED
    BY <2>2, <2>3
<1>4. ASSUME NEW u \in Threads, pc[u] = "unregistering"
      PROVE  \E w \in Threads : CanGoOn(w)
  <2>1. CASE managerLock = Nobody
    BY <1>4, <2>1 DEF CanGoOn
  <2>2. CASE managerLock # Nobody
    <3>1. PICK w \in Threads : managerLock = w
      BY <1>1, <2>2
    <3>2. pc[w] \in {"registering", "binding", "referencing", "releasing"}
      BY <1>2, <3>1 DEF ManagerLockUsed, Acquiring
    <3> QED
      BY <1>3, <3>2 DEF CanGoOn
  <2> QED
    BY <2>1, <2>2
<1> QED
  BY <1>2, <1>3, <1>4 DEF CanGoOn

\* SyncManager::get_session, unregister_session and SyncUser::log_out: however
\* many threads there are, calls come to a standstill in the two known ways only.
THEOREM NoOtherStandstill == Spec => []StandstillsKnown
<1>1. Init => ManagerLockUsed
  BY ThreadsAssumption DEF Init, ManagerLockUsed
<1>2. IInv /\ ManagerLockUsed /\ [Next]_vars => ManagerLockUsed'
  BY ManagerLockUsedStep
<1>3. IInv /\ ManagerLockUsed => StandstillsKnown
  BY WaitingForSomebody
<1> QED
  BY <1>1, <1>2, <1>3, Invariance, PTL DEF Spec
=============================================================================
