----------------------------- MODULE SessionProofs -----------------------------
(***************************************************************************)
(* Proofs about Session, for any number of logins, lists and relaunches.   *)
(***************************************************************************)
EXTENDS Session, FiniteSetTheorems, SequenceTheorems, TLAPS

(* The sessions list i shows, or will show once the requests in flight are *)
(* answered, or could ask for now because it is in front.                  *)
Reach(i) ==
  (lists[i].sessions
     \cup {t \in Token : \E f \in fetches : f.list = i /\ f.token = t}
     \cup (IF front = i THEN {token} ELSE {})) \ {NoToken}

ReachAccounted ==
  \A i \in 1..Len(lists) :
    IsFiniteSet(Reach(i)) /\ Cardinality(Reach(i)) <= 1 + lists[i].changes

(* The list a login opens is asked for with the token of that login.       *)
ListInOwnName == \A q \in listings : q.token = q.login

(* Logins in flight belong to this run, and so does the token as soon as a *)
(* login was granted.                                                      *)
ThisRun ==
  /\ \A l \in logins : l > runStart
  /\ listings # {} \/ lists # <<>> => token = NoToken \/ token > runStart

IInv ==
  /\ TypeOK
  /\ ListInOwnName
  /\ TokensOfThisRun
  /\ ThisRun
  /\ ReachAccounted

-----------------------------------------------------------------------------
(* A list that just came to the front reaches the token of now, or none.   *)
LEMMA OneToken ==
  ASSUME NEW t, NEW S, S \subseteq {t}
  PROVE  IsFiniteSet(S) /\ Cardinality(S) \in Nat /\ Cardinality(S) <= 1
<1>1. IsFiniteSet({t}) /\ Cardinality({t}) = 1
  BY FS_Singleton
<1> QED
  BY <1>1, FS_Subset, FS_CardinalityType

(* A finite set that loses elements, or gains none.                        *)
LEMMA Fewer ==
  ASSUME NEW S, IsFiniteSet(S), NEW T \in SUBSET S, NEW n \in Nat,
         Cardinality(S) <= n
  PROVE  IsFiniteSet(T) /\ Cardinality(T) <= n
<1>1. IsFiniteSet(T) /\ Cardinality(T) <= Cardinality(S)
  BY FS_Subset
<1>2. Cardinality(S) \in Nat /\ Cardinality(T) \in Nat
  BY <1>1, FS_CardinalityType
<1> QED
  BY <1>1, <1>2

(* One more session for one more change.                                   *)
LEMMA OneMore ==
  ASSUME NEW S, IsFiniteSet(S), NEW t, NEW T \in SUBSET (S \cup {t}),
         NEW n \in Nat, Cardinality(S) <= n
  PROVE  IsFiniteSet(T) /\ Cardinality(T) <= n + 1
<1>0. Cardinality(S) \in Nat
  BY FS_CardinalityType
<1>1. /\ IsFiniteSet(S \cup {t})
      /\ Cardinality(S \cup {t}) = IF t \in S THEN Cardinality(S) ELSE Cardinality(S) + 1
  BY FS_AddElement
<1>2. Cardinality(S \cup {t}) \in Nat
  BY <1>1, FS_CardinalityType
<1> QED
  BY <1>0, <1>1, <1>2, Fewer

-----------------------------------------------------------------------------
(* How the sessions a list can reach change in a step                      *)

(* No list reaches a session more, and no change is forgotten.             *)
LEMMA ReachShrinks ==
  ASSUME IInv, TypeOK', Len(lists') = Len(lists),
         \A i \in 1..Len(lists) :
           /\ Reach(i)' \subseteq Reach(i)
           /\ lists'[i].changes >= lists[i].changes
  PROVE  ReachAccounted'
<1> SUFFICES ASSUME NEW i \in 1..Len(lists)
             PROVE  IsFiniteSet(Reach(i)') /\ Cardinality(Reach(i)') <= 1 + lists'[i].changes
  BY DEF ReachAccounted
<1>1. lists[i] \in ListScreen /\ lists'[i] \in ListScreen
  BY ElementOfSeq, LenProperties DEF IInv, TypeOK
<1>2. lists[i].changes \in Nat /\ lists'[i].changes \in Nat
  BY <1>1 DEF ListScreen
<1>3. 1 + lists[i].changes <= 1 + lists'[i].changes /\ 1 + lists'[i].changes \in Nat
  BY <1>2
<1>4. IsFiniteSet(Reach(i)) /\ Cardinality(Reach(i)) <= 1 + lists[i].changes
  BY DEF IInv, ReachAccounted
<1>5. Cardinality(Reach(i)) <= 1 + lists'[i].changes
  BY <1>2, <1>3, <1>4, FS_CardinalityType
<1> QED
  BY <1>3, <1>4, <1>5, Fewer

(* A login answered with a list in front.                                  *)
LEMMA ReachGrows ==
  ASSUME IInv, TypeOK', Len(lists') = Len(lists), NEW l, NEW shown \in 1..Len(lists),
         lists' = [lists EXCEPT ![shown].changes = @ + 1],
         Reach(shown)' \subseteq Reach(shown) \cup {l},
         \A i \in 1..Len(lists) : i # shown => Reach(i)' \subseteq Reach(i)
  PROVE  ReachAccounted'
<1> SUFFICES ASSUME NEW i \in 1..Len(lists)
             PROVE  IsFiniteSet(Reach(i)') /\ Cardinality(Reach(i)') <= 1 + lists'[i].changes
  BY DEF ReachAccounted
<1>1. lists[i] \in ListScreen
  BY ElementOfSeq, LenProperties DEF IInv, TypeOK
<1>2. lists[i].changes \in Nat
  BY <1>1 DEF ListScreen
<1>3. IsFiniteSet(Reach(i)) /\ Cardinality(Reach(i)) <= 1 + lists[i].changes
  BY DEF IInv, ReachAccounted
<1>4. CASE i = shown
  <2>1. lists'[i].changes = lists[i].changes + 1
    BY <1>1, <1>4, LenProperties DEF IInv, TypeOK, ListScreen
  <2>2. Reach(i)' \in SUBSET (Reach(i) \cup {l}) /\ 1 + lists[i].changes \in Nat
    BY <1>2, <1>4
  <2>3. IsFiniteSet(Reach(i)') /\ Cardinality(Reach(i)') <= (1 + lists[i].changes) + 1
    BY <1>3, <2>2, OneMore
  <2> QED
    BY <1>2, <2>1, <2>3
<1>5. CASE i # shown
  <2>1. lists'[i].changes = lists[i].changes
    BY <1>1, <1>5, LenProperties DEF IInv, TypeOK, ListScreen
  <2>2. Reach(i)' \in SUBSET Reach(i)
    BY <1>5
  <2> QED
    BY <1>2, <1>3, <2>1, <2>2, Fewer
<1> QED
  BY <1>4, <1>5

(* A new list in front: it reaches the session of the token of now.        *)
LEMMA OpenListReach ==
  ASSUME IInv, TypeOK', OpenList, UNCHANGED token
  PROVE  ReachAccounted'
<1> DEFINE n == Len(lists) + 1
<1> SUFFICES ASSUME NEW i \in 1..Len(lists')
             PROVE  IsFiniteSet(Reach(i)') /\ Cardinality(Reach(i)') <= 1 + lists'[i].changes
  BY DEF ReachAccounted
<1>0. lists \in Seq(ListScreen) /\ Len(lists) \in Nat /\ Len(lists') = n
      /\ front \in 0..Len(lists)
  BY LenProperties DEF IInv, TypeOK, OpenList
<1>1. CASE i = n
  <2>1. lists'[i] = [sessions |-> {}, changes |-> 0]
    BY <1>0, <1>1 DEF OpenList
  <2>2. Reach(i)' \subseteq {token}
    BY <1>0, <1>1, <2>1 DEF Reach, OpenList, IInv, TypeOK
  <2>3. /\ IsFiniteSet(Reach(i)')
        /\ Cardinality(Reach(i)') \in Nat
        /\ Cardinality(Reach(i)') <= 1
    BY <2>2, OneToken
  <2> QED
    BY <2>1, <2>3
<1>2. CASE i # n
  <2>0. i \in 1..Len(lists)
    BY <1>0, <1>2
  <2>1. lists'[i] = lists[i]
    BY <1>0, <2>0 DEF OpenList
  <2>2. Reach(i)' \subseteq Reach(i)
    BY <1>0, <1>2, <2>0, <2>1 DEF Reach, OpenList
  <2>3. lists[i] \in ListScreen
    BY <1>0, <2>0, ElementOfSeq
  <2>4. 1 + lists[i].changes \in Nat
    BY <2>3 DEF ListScreen
  <2>5. IsFiniteSet(Reach(i)) /\ Cardinality(Reach(i)) <= 1 + lists[i].changes
    BY <2>0 DEF IInv, ReachAccounted
  <2> QED
    BY <2>1, <2>2, <2>4, <2>5, Fewer
<1> QED
  BY <1>1, <1>2

-----------------------------------------------------------------------------
(* The conjuncts of IInv, one action at a time                             *)

(* Every action keeps the types.                                           *)
LEMMA TypeStep ==
  ASSUME TypeOK, [Next]_vars
  PROVE  TypeOK'
<1> USE BoundsAssumption
<1> DEFINE Fresh == [sessions |-> {}, changes |-> 0]
<1>0. /\ lists \in Seq(ListScreen) /\ Len(lists) \in Nat /\ front \in 0..Len(lists)
      /\ pressed \in 0..MaxLogins /\ logins \subseteq 1..pressed
      /\ runStart \in 0..pressed
  BY LenProperties DEF TypeOK
<1>1. ASSUME LogInPressed PROVE TypeOK'
  BY <1>0, <1>1 DEF TypeOK, LogInPressed
<1>2. ASSUME NoteChange PROVE lists' \in Seq(ListScreen) /\ Len(lists') = Len(lists)
  <2>1. CASE front = 0
    BY <1>0, <1>2, <2>1 DEF NoteChange
  <2>2. CASE front # 0
    <3>1. front \in 1..Len(lists) /\ lists[front] \in ListScreen
      BY <1>0, <2>2, ElementOfSeq
    <3>2. [lists[front] EXCEPT !.changes = @ + 1] \in ListScreen
      BY <3>1 DEF ListScreen
    <3>3. lists' = [lists EXCEPT ![front] = [lists[front] EXCEPT !.changes = @ + 1]]
      BY <1>2, <2>2 DEF NoteChange
    <3> QED
      BY <1>0, <3>1, <3>2, <3>3, ExceptSeq
  <2> QED
    BY <2>1, <2>2
<1>3. ASSUME NEW l \in logins, LoginGranted(l) PROVE TypeOK'
  <2>1. l \in 1..MaxLogins /\ l \in Token
    BY <1>0 DEF Token
  <2>2. lists' \in Seq(ListScreen) /\ Len(lists') = Len(lists)
    BY <1>2, <1>3 DEF LoginGranted
  <2> QED
    BY <1>0, <1>3, <2>1, <2>2 DEF TypeOK, LoginGranted, Listing
<1>4. ASSUME NEW l \in logins, LoginRefused(l) PROVE TypeOK'
  <2>1. lists' \in Seq(ListScreen) /\ Len(lists') = Len(lists)
    BY <1>2, <1>4 DEF LoginRefused
  <2> QED
    BY <1>0, <1>4, <2>1 DEF TypeOK, LoginRefused, Token, NoToken
<1>5. ASSUME NEW l \in logins, LoginLost(l) PROVE TypeOK'
  BY <1>0, <1>5 DEF TypeOK, LoginLost
<1>6. ASSUME OpenList
      PROVE  /\ lists' \in Seq(ListScreen) /\ Len(lists') = Len(lists) + 1
             /\ Len(lists') <= MaxLists
             /\ front' \in 0..Len(lists')
             /\ fetches \subseteq Fetch /\ token \in Token
                  /\ (\A f \in fetches : f.list <= Len(lists))
                => /\ fetches' \subseteq Fetch
                   /\ \A f \in fetches' : f.list <= Len(lists')
  <2>1. Fresh \in ListScreen
    BY DEF ListScreen
  <2>2. lists' = Append(lists, Fresh) /\ front' = Len(lists) + 1 /\ Len(lists) < MaxLists
    BY <1>6 DEF OpenList
  <2>3. lists' \in Seq(ListScreen) /\ Len(lists') = Len(lists) + 1
    BY <1>0, <2>1, <2>2, AppendProperties
  <2>4. fetches' = fetches \cup {[list |-> Len(lists) + 1, token |-> token]}
    BY <1>6 DEF OpenList
  <2> HIDE DEF Fresh
  <2> QED
    BY <1>0, <2>2, <2>3, <2>4 DEF Fetch
<1>7. ASSUME NEW q \in listings, ListingAnswered(q) PROVE TypeOK'
  BY <1>6, <1>7 DEF TypeOK, ListingAnswered
<1>8. ASSUME NEW q \in listings, ListingFailed(q) PROVE TypeOK'
  BY <1>8 DEF TypeOK, ListingFailed
<1>9. ASSUME SaveAnswered PROVE TypeOK'
  BY <1>6, <1>9 DEF TypeOK, SaveAnswered
<1>10. ASSUME NextPage PROVE TypeOK'
  BY <1>0, <1>10 DEF TypeOK, NextPage, Fetch
<1>11. ASSUME NEW f \in fetches, FetchAnswered(f) PROVE TypeOK'
  <2>1. f.list \in 1..Len(lists) /\ f.token \in Token
    BY <1>0 DEF TypeOK, Fetch
  <2>2. CASE f.token = NoToken
    BY <1>11, <2>2 DEF TypeOK, FetchAnswered
  <2>3. CASE f.token # NoToken
    <3>1. f.token \in 1..MaxLogins /\ lists[f.list] \in ListScreen
      BY <1>0, <2>1, <2>3, ElementOfSeq DEF Token, NoToken
    <3>2. [lists[f.list] EXCEPT !.sessions = @ \cup {f.token}] \in ListScreen
      BY <3>1 DEF ListScreen
    <3>3. lists' = [lists EXCEPT ![f.list] =
                      [lists[f.list] EXCEPT !.sessions = @ \cup {f.token}]]
      BY <1>11, <2>3 DEF FetchAnswered
    <3>4. lists' \in Seq(ListScreen) /\ Len(lists') = Len(lists)
      BY <1>0, <2>1, <3>2, <3>3, ExceptSeq
    <3> QED
      BY <1>11, <3>4 DEF TypeOK, FetchAnswered
  <2> QED
    BY <2>2, <2>3
<1>12. ASSUME SortPressed PROVE TypeOK'
  BY <1>0, <1>12 DEF TypeOK, SortPressed
<1>13. ASSUME Relaunch PROVE TypeOK'
  <2>1. lists' = <<>> /\ lists' \in Seq(ListScreen) /\ Len(lists') = 0
    BY <1>13, EmptySeq DEF Relaunch
  <2> QED
    BY <1>0, <1>13, <2>1 DEF TypeOK, Relaunch
<1>14. ASSUME UNCHANGED vars PROVE TypeOK'
  BY <1>14 DEF TypeOK, vars
<1> QED
  BY <1>1, <1>3, <1>4, <1>5, <1>7, <1>8, <1>9, <1>10, <1>11, <1>12, <1>13, <1>14
  DEF Next

(* Only LoginGranted builds a request for a list, and it has just saved    *)
(* the token.                                                              *)
LEMMA OwnNameStep ==
  ASSUME ListInOwnName, [Next]_vars
  PROVE  ListInOwnName'
<1>1. ASSUME NEW l \in logins, LoginGranted(l) PROVE ListInOwnName'
  BY <1>1 DEF ListInOwnName, LoginGranted
<1>2. listings' \subseteq listings => ListInOwnName'
  BY DEF ListInOwnName
<1>3. listings' \subseteq listings \/ \E l \in logins : LoginGranted(l)
  BY DEF Next, vars, LogInPressed, LoginRefused, LoginLost, ListingAnswered,
     ListingFailed, SaveAnswered, NextPage, FetchAnswered, SortPressed, Relaunch
<1> QED
  BY <1>1, <1>2, <1>3

(* The tokens a step puts into requests are of this run.                   *)
LEMMA TokensStep ==
  ASSUME IInv, [Next]_vars
  PROVE  TokensOfThisRun' /\ ThisRun'
<1> USE BoundsAssumption
<1>0. /\ pressed \in 0..MaxLogins /\ logins \subseteq 1..pressed
      /\ runStart \in 0..pressed /\ front \in 0..Len(lists)
      /\ lists \in Seq(ListScreen) /\ Len(lists) \in Nat /\ token \in Token
      /\ TokensOfThisRun /\ ThisRun
  BY LenProperties DEF IInv, TypeOK
<1>1. ASSUME LogInPressed PROVE TokensOfThisRun' /\ ThisRun'
  BY <1>0, <1>1 DEF LogInPressed, TokensOfThisRun, ThisRun
<1>2. ASSUME NEW l \in logins, LoginGranted(l) PROVE TokensOfThisRun' /\ ThisRun'
  BY <1>0, <1>2 DEF LoginGranted, TokensOfThisRun, ThisRun
<1>3. ASSUME NEW l \in logins, LoginRefused(l) PROVE TokensOfThisRun' /\ ThisRun'
  BY <1>0, <1>3 DEF LoginRefused, TokensOfThisRun, ThisRun
<1>4. ASSUME NEW l \in logins, LoginLost(l) PROVE TokensOfThisRun' /\ ThisRun'
  BY <1>0, <1>4 DEF LoginLost, TokensOfThisRun, ThisRun
<1>5. ASSUME OpenList, UNCHANGED <<token, runStart>>, logins' \subseteq logins,
             listings' \subseteq listings, listings # {} \/ lists # <<>>
      PROVE  TokensOfThisRun' /\ ThisRun'
  BY <1>0, <1>5 DEF OpenList, TokensOfThisRun, ThisRun
<1>6. ASSUME NEW q \in listings, ListingAnswered(q) PROVE TokensOfThisRun' /\ ThisRun'
  BY <1>5, <1>6 DEF ListingAnswered
<1>7. ASSUME NEW q \in listings, ListingFailed(q) PROVE TokensOfThisRun' /\ ThisRun'
  BY <1>0, <1>7 DEF ListingFailed, TokensOfThisRun, ThisRun
<1>8. ASSUME SaveAnswered PROVE TokensOfThisRun' /\ ThisRun'
  BY <1>5, <1>8 DEF SaveAnswered
<1>9. ASSUME NextPage PROVE TokensOfThisRun' /\ ThisRun'
  <2>1. lists # <<>>
    BY <1>0, <1>9, EmptySeq DEF NextPage
  <2>2. token = NoToken \/ token > runStart
    BY <1>0, <2>1 DEF ThisRun
  <2>3. \A f \in fetches' : f \in fetches \/ f.token = token
    BY <1>9 DEF NextPage
  <2>4. TokensOfThisRun'
    BY <1>0, <1>9, <2>2, <2>3 DEF NextPage, TokensOfThisRun
  <2>5. ThisRun'
    BY <1>0, <1>9 DEF NextPage, ThisRun
  <2> QED
    BY <2>4, <2>5
<1>10. ASSUME NEW f \in fetches, FetchAnswered(f) PROVE TokensOfThisRun' /\ ThisRun'
  <2>1. f.list \in 1..Len(lists)
    BY <1>0 DEF IInv, TypeOK, Fetch
  <2>2. lists # <<>>
    BY <1>0, <2>1, EmptySeq
  <2> QED
    BY <1>0, <1>10, <2>2 DEF FetchAnswered, TokensOfThisRun, ThisRun
<1>11. ASSUME SortPressed PROVE TokensOfThisRun' /\ ThisRun'
  BY <1>0, <1>11 DEF SortPressed, TokensOfThisRun, ThisRun
<1>12. ASSUME Relaunch PROVE TokensOfThisRun' /\ ThisRun'
  BY <1>12 DEF Relaunch, TokensOfThisRun, ThisRun
<1>13. ASSUME UNCHANGED vars PROVE TokensOfThisRun' /\ ThisRun'
  BY <1>0, <1>13 DEF vars, TokensOfThisRun, ThisRun
<1> QED
  BY <1>1, <1>2, <1>3, <1>4, <1>6, <1>7, <1>8, <1>9, <1>10, <1>11, <1>12, <1>13
  DEF Next

(* What a list can reach grows only with a login answered while it is in   *)
(* front.                                                                  *)
LEMMA ReachStep ==
  ASSUME IInv, TypeOK', [Next]_vars
  PROVE  ReachAccounted'
<1> USE BoundsAssumption
<1>0. /\ lists \in Seq(ListScreen) /\ Len(lists) \in Nat /\ front \in 0..Len(lists)
      /\ \A i \in 1..Len(lists) : lists[i] \in ListScreen /\ lists[i].changes \in Nat
      /\ token \in Token
      /\ fetches \subseteq Fetch
      /\ \A f \in fetches : f.list \in 1..Len(lists) /\ f.token \in Token
  <2>1. /\ lists \in Seq(ListScreen) /\ Len(lists) \in Nat /\ front \in 0..Len(lists)
        /\ token \in Token /\ fetches \subseteq Fetch
        /\ \A f \in fetches : f.list <= Len(lists)
    BY LenProperties DEF IInv, TypeOK
  <2>2. \A i \in 1..Len(lists) : lists[i] \in ListScreen
    BY <2>1, ElementOfSeq
  <2> QED
    BY <2>1, <2>2 DEF ListScreen, Fetch
<1>1. ASSUME UNCHANGED <<token, front, fetches, lists>> PROVE ReachAccounted'
  <2>1. \A i \in 1..Len(lists) : Reach(i)' = Reach(i)
    BY <1>1 DEF Reach
  <2> QED
    BY <1>0, <1>1, <2>1, ReachShrinks
<1>2. ASSUME NEW l \in logins, LoginGranted(l) PROVE ReachAccounted'
  <2>1. CASE front = 0
    <3>1. \A i \in 1..Len(lists) : Reach(i)' = Reach(i) /\ lists' = lists
      BY <1>2, <2>1 DEF Reach, LoginGranted, NoteChange
    <3> QED
      BY <1>0, <1>2, <2>1, <3>1, ReachShrinks DEF LoginGranted, NoteChange
  <2>2. CASE front # 0
    <3>0. PICK shown \in 1..Len(lists) : shown = front
      BY <1>0, <2>2
    <3>1. lists' = [lists EXCEPT ![shown].changes = @ + 1]
      BY <1>2, <2>2, <3>0 DEF LoginGranted, NoteChange
    <3>2. Len(lists') = Len(lists) /\ \A i \in 1..Len(lists) : lists'[i].sessions = lists[i].sessions
      BY <1>0, <3>1 DEF ListScreen
    <3>3. Reach(shown)' \subseteq Reach(shown) \cup {l}
      BY <1>2, <3>2 DEF Reach, LoginGranted
    <3>4. \A i \in 1..Len(lists) : i # shown => Reach(i)' \subseteq Reach(i)
      BY <1>2, <3>0, <3>2 DEF Reach, LoginGranted
    <3> QED
      BY <3>1, <3>2, <3>3, <3>4, ReachGrows
  <2> QED
    BY <2>1, <2>2
<1>3. ASSUME NEW l \in logins, LoginRefused(l) PROVE ReachAccounted'
  <2>1. /\ Len(lists') = Len(lists)
        /\ \A i \in 1..Len(lists) :
             /\ lists'[i].sessions = lists[i].sessions
             /\ lists'[i].changes >= lists[i].changes
    BY <1>0, <1>3 DEF LoginRefused, NoteChange, ListScreen
  <2>2. \A i \in 1..Len(lists) : Reach(i)' \subseteq Reach(i)
    BY <1>3, <2>1 DEF Reach, LoginRefused
  <2> QED
    BY <2>1, <2>2, ReachShrinks
<1>4. ASSUME NextPage PROVE ReachAccounted'
  <2>1. \A i \in 1..Len(lists) : Reach(i)' \subseteq Reach(i)
    <3> SUFFICES ASSUME NEW i \in 1..Len(lists), NEW t \in Reach(i)'
                 PROVE  t \in Reach(i)
      OBVIOUS
    <3>1. t # NoToken /\ lists' = lists /\ front' = front /\ token' = token
      BY <1>4 DEF Reach, NextPage
    <3>2. ASSUME NEW f \in fetches', f.list = i, f.token = t, f \notin fetches
          PROVE  t = token /\ front = i
      BY <1>4, <3>2 DEF NextPage
    <3> QED
      BY <1>0, <3>1, <3>2 DEF Reach
  <2> QED
    BY <1>0, <1>4, <2>1, ReachShrinks DEF NextPage
<1>5. ASSUME NEW f \in fetches, FetchAnswered(f) PROVE ReachAccounted'
  <2>1. /\ Len(lists') = Len(lists)
        /\ \A i \in 1..Len(lists) :
             /\ \/ lists'[i].sessions = lists[i].sessions
                \/ /\ f.list = i /\ f.token # NoToken
                   /\ lists'[i].sessions = lists[i].sessions \cup {f.token}
             /\ lists'[i].changes = lists[i].changes
    BY <1>0, <1>5 DEF FetchAnswered, ListScreen
  <2>2. \A i \in 1..Len(lists) : Reach(i)' \subseteq Reach(i)
    BY <1>0, <1>5, <2>1 DEF Reach, FetchAnswered
  <2> QED
    BY <1>0, <2>1, <2>2, ReachShrinks
<1>6. ASSUME SortPressed PROVE ReachAccounted'
  <2>1. \A i \in 1..Len(lists) : Reach(i)' \subseteq Reach(i)
    BY <1>6 DEF Reach, SortPressed
  <2> QED
    BY <1>0, <1>6, <2>1, ReachShrinks DEF SortPressed
<1>7. ASSUME Relaunch PROVE ReachAccounted'
  <2>1. Len(lists') = 0
    BY <1>7, EmptySeq DEF Relaunch
  <2> QED
    BY <2>1 DEF ReachAccounted
<1>8. ASSUME NEW q \in listings, ListingAnswered(q) PROVE ReachAccounted'
  BY <1>8, OpenListReach DEF ListingAnswered
<1>9. ASSUME SaveAnswered PROVE ReachAccounted'
  BY <1>9, OpenListReach DEF SaveAnswered
<1> QED
  BY <1>1, <1>2, <1>3, <1>4, <1>5, <1>6, <1>7, <1>8, <1>9
  DEF Next, vars, LogInPressed, LoginLost, ListingFailed

-----------------------------------------------------------------------------
(* Results                                                                 *)

(* IInv holds in every reachable state.                                    *)
THEOREM Invariance == Spec => []IInv
<1>1. Init => IInv
  <2> SUFFICES ASSUME Init PROVE IInv
    OBVIOUS
  <2>1. lists \in Seq(ListScreen) /\ Len(lists) = 0
    BY EmptySeq DEF Init
  <2> QED
    BY <2>1, BoundsAssumption DEF Init, IInv, TypeOK, ListInOwnName,
       TokensOfThisRun, ThisRun, ReachAccounted, Token, NoToken
<1>2. IInv /\ [Next]_vars => IInv'
  <2> SUFFICES ASSUME IInv, [Next]_vars PROVE IInv'
    OBVIOUS
  <2>1. TypeOK'
    BY TypeStep DEF IInv
  <2>2. ListInOwnName'
    BY OwnNameStep DEF IInv
  <2>3. TokensOfThisRun' /\ ThisRun'
    BY TokensStep
  <2>4. ReachAccounted'
    BY <2>1, ReachStep
  <2> QED
    BY <2>1, <2>2, <2>3, <2>4 DEF IInv
<1> QED
  BY <1>1, <1>2, PTL DEF Spec

(* The variables keep their types.                                         *)
THEOREM TypeCorrect == Spec => []TypeOK
<1>1. IInv => TypeOK
  BY DEF IInv
<1> QED
  BY <1>1, Invariance, PTL

(* The list a login opens is asked for with the token of that very login   *)
(* (RequesterURL.loginUser saves it before toDoIfSuccess).                 *)
THEOREM OwnNameCorrect == Spec => []ListInOwnName
<1>1. IInv => ListInOwnName
  BY DEF IInv
<1> QED
  BY <1>1, Invariance, PTL

(* No request carries a token that an earlier run of the application left  *)
(* in UserDefaults (ScreensCoordinator.start shows a login screen).        *)
THEOREM TokensCorrect == Spec => []TokensOfThisRun
<1>1. IInv => TokensOfThisRun
  BY DEF IInv
<1> QED
  BY <1>1, Invariance, PTL

(* A list mixes the rows of more sessions than one only for logins that    *)
(* were answered while it was in front (RequesterURL.getTaskList reads the *)
(* token when it sends).                                                   *)
THEOREM SessionsCorrect == Spec => []SessionsAccounted
<1>1. IInv => SessionsAccounted
  <2> SUFFICES ASSUME IInv, NEW i \in 1..Len(lists)
               PROVE  Cardinality(lists[i].sessions) <= 1 + lists[i].changes
    BY DEF SessionsAccounted
  <2>1. lists[i] \in ListScreen
    BY ElementOfSeq, LenProperties DEF IInv, TypeOK
  <2>2. lists[i].sessions \in SUBSET Reach(i)
    BY <2>1, BoundsAssumption DEF ListScreen, Reach, NoToken
  <2>3. IsFiniteSet(Reach(i)) /\ Cardinality(Reach(i)) <= 1 + lists[i].changes
    BY DEF IInv, ReachAccounted
  <2>4. 1 + lists[i].changes \in Nat
    BY <2>1 DEF ListScreen
  <2> QED
    BY <2>2, <2>3, <2>4, Fewer
<1> QED
  BY <1>1, Invariance, PTL
=============================================================================
