------------------------------- MODULE Session -------------------------------
(***************************************************************************)
(* The user's session: the token RequesterURL keeps in UserDefaults, the   *)
(* logins that grant or refuse one, and the requests that carry it.        *)
(*                                                                         *)
(* The token is one value for the whole application, read when a request   *)
(* is built and overwritten or removed by whichever login is answered      *)
(* last.  Nothing stops a user from pressing "log in" twice, and nothing   *)
(* holds a list on display back while a login is pending.  A token is the  *)
(* number of the login that granted it.  Screens are reduced to whether a  *)
(* login screen or a task list is in front.                                *)
(***************************************************************************)
EXTENDS Naturals, FiniteSets, Sequences

CONSTANTS
  MaxLogins,     \* bound: logins pressed
  MaxLists,      \* bound: task lists opened in one run
  MaxRelaunches  \* bound: relaunches of the application

ASSUME BoundsAssumption ==
  MaxLogins \in Nat /\ MaxLists \in Nat /\ MaxRelaunches \in Nat

VARIABLES
  token,       \* UserDefaults "userToken": a login's number, or NoToken
  front,       \* 0 for a login screen in front, else the task list there
  pressed,     \* logins pressed so far, which numbers them
  logins,      \* logins in flight
  listings,    \* getTaskList requests of makeLogin in flight
  fetches,     \* getTaskList requests of task lists in flight
  lists,       \* for each task list of the run, what its rows come from
  runStart,    \* history: logins pressed before this run
  relaunches   \* history: relaunches

vars == <<token, front, pressed, logins, listings, fetches, lists, runStart, relaunches>>

NoToken == 0
Token == 0..MaxLogins

(* The request a login's success sends, with the token in its header.      *)
Listing == [login : 1..MaxLogins, token : Token]

(* A request for a page of a list, with the token in its header.           *)
Fetch == [list : 1..MaxLists, token : Token]

(* sessions are those whose rows the list shows; changes (history) counts  *)
(* the logins answered while the list was in front.                        *)
ListScreen == [sessions : SUBSET (1..MaxLogins), changes : Nat]

-----------------------------------------------------------------------------
(* LogInPressed: loginUser sends no token.                                 *)
LogInPressed ==
  /\ front = 0
  /\ pressed < MaxLogins
  /\ pressed' = pressed + 1
  /\ logins' = logins \cup {pressed + 1}
  /\ UNCHANGED <<token, front, listings, fetches, lists, runStart, relaunches>>

(* History: the answer of a login reaches a list in front.                 *)
NoteChange ==
  lists' = IF front = 0 THEN lists ELSE [lists EXCEPT ![front].changes = @ + 1]

(* loginUser's answer with a token: it is saved, then toDoIfSuccess builds *)
(* the request for the list in the same handler.                           *)
LoginGranted(l) ==
  /\ logins' = logins \ {l}
  /\ token' = l
  /\ listings' = listings \cup {[login |-> l, token |-> token']}
  /\ NoteChange
  /\ UNCHANGED <<front, pressed, fetches, runStart, relaunches>>

(* loginUser's answer without a token: the one saved before is removed.    *)
LoginRefused(l) ==
  /\ logins' = logins \ {l}
  /\ token' = NoToken
  /\ NoteChange
  /\ UNCHANGED <<front, pressed, listings, fetches, runStart, relaunches>>

(* No data or an answer that cannot be decoded: nothing happens.           *)
LoginLost(l) ==
  /\ logins' = logins \ {l}
  /\ UNCHANGED <<token, front, pressed, listings, fetches, lists, runStart, relaunches>>

(* makeTaskList: the new list comes to the front and in viewDidLoad asks   *)
(* for its first page.                                                     *)
OpenList ==
  /\ Len(lists) < MaxLists
  /\ front' = Len(lists) + 1
  /\ lists' = Append(lists, [sessions |-> {}, changes |-> 0])
  /\ fetches' = fetches \cup {[list |-> Len(lists) + 1, token |-> token]}

(* The answer to a login's list request: tasks only for a valid token.     *)
ListingAnswered(q) ==
  /\ listings' = listings \ {q}
  /\ q.token # NoToken
  /\ OpenList
  /\ UNCHANGED <<token, pressed, logins, runStart, relaunches>>

(* The list request was refused or lost; toDoIfError is nil.               *)
ListingFailed(q) ==
  /\ listings' = listings \ {q}
  /\ UNCHANGED <<token, front, pressed, logins, fetches, lists, runStart, relaunches>>

(* A save or a delete sent earlier from an edit or a detail screen         *)
(* succeeds and opens a list, whatever is in front.                        *)
SaveAnswered ==
  /\ lists # <<>>
  /\ OpenList
  /\ UNCHANGED <<token, pressed, logins, listings, runStart, relaunches>>

(* A mutant of NextPage: lists that are not in front load pages too.       *)
NextPageAnywhere ==
  /\ \E i \in 1..Len(lists) :
       fetches' = fetches \cup {[list |-> i, token |-> token]}
  /\ UNCHANGED <<token, front, pressed, logins, listings, lists, runStart, relaunches>>

(* willDisplay in the list in front: the next page, with the token of now. *)
NextPage ==
  /\ front # 0
  /\ lists[front].sessions # {}
  /\ fetches' = fetches \cup {[list |-> front, token |-> token]}
  /\ UNCHANGED <<token, front, pressed, logins, listings, lists, runStart, relaunches>>

(* A page arrives: rows of the session whose token the request carried; a  *)
(* request without a token is refused and brings none.                     *)
FetchAnswered(f) ==
  /\ fetches' = fetches \ {f}
  /\ lists' = IF f.token = NoToken THEN lists
              ELSE [lists EXCEPT ![f.list].sessions = @ \cup {f.token}]
  /\ UNCHANGED <<token, front, pressed, logins, listings, runStart, relaunches>>

(* makeTaskList's .sortPressed                                             *)
SortPressed ==
  /\ front # 0
  /\ front' = 0
  /\ UNCHANGED <<token, pressed, logins, listings, fetches, lists, runStart, relaunches>>

(* A mutant of Relaunch: a saved token takes the user straight to a list.  *)
RelaunchToList ==
  /\ relaunches < MaxRelaunches
  /\ relaunches' = relaunches + 1
  /\ IF token = NoToken
     THEN front' = 0 /\ lists' = <<>> /\ fetches' = {}
     ELSE /\ front' = 1
          /\ lists' = <<[sessions |-> {}, changes |-> 0]>>
          /\ fetches' = {[list |-> 1, token |-> token]}
  /\ logins' = {}
  /\ listings' = {}
  /\ runStart' = pressed
  /\ UNCHANGED <<token, pressed>>

(* A mutant of Relaunch: the downloads of the lists go on without them.    *)
RelaunchKeepsFetches ==
  /\ relaunches < MaxRelaunches
  /\ relaunches' = relaunches + 1
  /\ front' = 0
  /\ logins' = {}
  /\ listings' = {}
  /\ lists' = <<>>
  /\ runStart' = pressed
  /\ UNCHANGED <<token, pressed, fetches>>

(* The application is terminated and launched again: the token survives in *)
(* UserDefaults, everything else is gone, and start shows a login screen.  *)
Relaunch ==
  /\ relaunches < MaxRelaunches
  /\ relaunches' = relaunches + 1
  /\ front' = 0
  /\ logins' = {}
  /\ listings' = {}
  /\ fetches' = {}
  /\ lists' = <<>>
  /\ runStart' = pressed
  /\ UNCHANGED <<token, pressed>>

-----------------------------------------------------------------------------
Init ==
  /\ token = NoToken
  /\ front = 0
  /\ pressed = 0
  /\ logins = {}
  /\ listings = {}
  /\ fetches = {}
  /\ lists = <<>>
  /\ runStart = 0
  /\ relaunches = 0

Next ==
  \/ LogInPressed
  \/ \E l \in logins : LoginGranted(l) \/ LoginRefused(l) \/ LoginLost(l)
  \/ \E q \in listings : ListingAnswered(q) \/ ListingFailed(q)
  \/ SaveAnswered
  \/ NextPage
  \/ \E f \in fetches : FetchAnswered(f)
  \/ SortPressed
  \/ Relaunch

Spec == Init /\ [][Next]_vars

-----------------------------------------------------------------------------
(* Properties                                                              *)

TypeOK ==
  /\ token \in Token
  /\ lists \in Seq(ListScreen)
  /\ front \in 0..Len(lists)
  /\ Len(lists) <= MaxLists
  /\ pressed \in 0..MaxLogins
  /\ logins \subseteq 1..pressed
  /\ listings \subseteq Listing
  /\ fetches \subseteq Fetch
  /\ \A f \in fetches : f.list <= Len(lists)
  /\ runStart \in 0..pressed
  /\ relaunches \in 0..MaxRelaunches

(* The token survives a relaunch, but is never used by the next run: every *)
(* request carries a token granted since the launch, or none, and the one  *)
(* for the list a login opens always does (loginUser saves the token       *)
(* before it calls toDoIfSuccess, which builds the request).               *)
TokensOfThisRun ==
  /\ \A f \in fetches : f.token = NoToken \/ f.token > runStart
  /\ \A q \in listings : q.token > runStart

(* Rows of two sessions come together in one list only if logins were      *)
(* answered while that list was in front, one for each further session: a  *)
(* login that is answered while its own screen is in front never mixes     *)
(* rows of two users.                                                      *)
SessionsAccounted ==
  \A i \in 1..Len(lists) :
    Cardinality(lists[i].sessions) <= 1 + lists[i].changes
=============================================================================
