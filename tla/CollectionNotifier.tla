-------------------------- MODULE CollectionNotifier --------------------------
(***************************************************************************)
(* Change notifications of the Realm object store: one collection (a       *)
(* Results) with its callbacks, the Realm and the thread it belongs to,    *)
(* the coordinator's worker thread that computes the changes, and other    *)
(* threads or processes that write to the same file.                       *)
(*                                                                         *)
(* A commit makes a version, and every commit changes the collection: a    *)
(* set of changes is the set of the versions it covers.                    *)
(***************************************************************************)
EXTENDS Integers, Sequences, FiniteSets

CONSTANTS MaxVersion,    \* commits after which nobody writes any more
          MaxTokens,     \* callbacks that are registered in one behaviour
          Habits         \* what the program does that it might not do

ASSUME BoundsAssumption == MaxVersion \in Nat \ {0} /\ MaxTokens \in Nat

(* addsWhileTold      adds a callback while the callbacks are being called  *)
(* removesLatecomers  removes, before the round of calls is over, a         *)
(*                    callback added since the round was packaged           *)
(* writesAcrossTurns  lets its run loop turn in the middle of a write       *)
(* looksAway          has no callback and stops reading the collection      *)
AllHabits == {"addsWhileTold", "removesLatecomers", "writesAcrossTurns", "looksAway"}

ASSUME HabitsAssumption == Habits \subseteq AllHabits

VARIABLES
  latest,        \* the newest version of the file
  readVersion,   \* the version the Realm reads
  stage,         \* the Realm's transaction: "reading", "writing", "committing"
  phase,         \* what its thread does: "idle", "waiting", "telling", or "undefined"
  op,            \* what it waits for the notifiers for: "refresh" or "begin"
  target,        \* the version it waits for
  notified,      \* a call of Realm::notify is queued on its run loop
  wake,          \* the worker has been woken up
  worker,        \* the worker's program counter, the versions it goes to, and
                 \* whether the changes on the way there are asked for
  skipVersion,   \* m_notifier_skip_version
  version,       \* m_sg_version
  hasRun,        \* m_has_run
  rows,          \* the version m_previous_rows were taken at
  changes,       \* m_changes: computed by run, not yet given to the callbacks
  callbacks,     \* m_callbacks
  have,          \* m_have_callbacks
  index,         \* m_callback_index, counted from 1
  count,         \* m_callback_count
  nextToken,     \* m_next_token
  seen,          \* history: the version a callback was last called at
  unwanted,      \* history: the versions it asked not to be told of
  packed,        \* history: the callbacks there were when a round was packaged
  unwatched      \* history: the versions whose changes the worker has not, or not
                 \* surely, collected

realmVars    == <<latest, readVersion, stage, phase, op, target, notified>>
workerVars   == <<wake, worker, skipVersion, version, hasRun, rows, changes>>
callbackVars == <<callbacks, have, index, count, nextToken>>
historyVars  == <<seen, unwanted, packed, unwatched>>
vars == <<realmVars, workerVars, callbackVars, historyVars>>

Versions == 1 .. MaxVersion
Tokens   == 1 .. MaxTokens
Npos     == 0     \* ++m_callback_index takes npos to the first callback

Callback == [token : Tokens, accumulated : SUBSET Versions, deliver : SUBSET Versions,
             initial : BOOLEAN, skip : BOOLEAN]

Positions  == 1 .. Len(callbacks)
Registered == {callbacks[i].token : i \in Positions}
Between(v, w) == {u \in Versions : v < u /\ u <= w}

TypeOK ==
  /\ latest \in 0 .. MaxVersion /\ readVersion \in 0 .. MaxVersion
  /\ stage \in {"reading", "writing", "committing"}
  /\ phase \in {"idle", "waiting", "telling", "undefined"}
  /\ op \in {"none", "refresh", "begin"} /\ target \in 0 .. MaxVersion
  /\ notified \in BOOLEAN /\ wake \in BOOLEAN
  /\ worker \in [pc : {"asleep", "collect", "run", "handover"},
                 target : 0 .. MaxVersion, skip : 0 .. MaxVersion, asked : BOOLEAN]
  /\ skipVersion \in 0 .. MaxVersion /\ version \in 0 .. MaxVersion
  /\ hasRun \in BOOLEAN /\ rows \in 0 .. MaxVersion /\ changes \in SUBSET Versions
  /\ callbacks \in Seq(Callback)
  /\ have \in BOOLEAN /\ index \in Nat /\ count \in Int
  /\ nextToken \in 1 .. MaxTokens + 1
  /\ seen \in [Tokens -> 0 .. MaxVersion] /\ unwanted \in [Tokens -> SUBSET Versions]
  /\ packed \in SUBSET Tokens /\ unwatched \in SUBSET Versions

(* The program has just registered the notifier: it is new to the worker,  *)
(* and the Realm reads the version it was registered at.  A notification   *)
(* from before may still be queued.                                        *)
Init ==
  /\ latest = 0 /\ readVersion = 0 /\ stage = "reading" /\ phase = "idle"
  /\ op = "none" /\ target = 0 /\ notified \in BOOLEAN
  /\ wake = FALSE
  /\ worker = [pc |-> "asleep", target |-> 0, skip |-> 0, asked |-> FALSE]
  /\ skipVersion = 0 /\ version = 0 /\ hasRun = FALSE /\ rows = 0 /\ changes = {}
  /\ callbacks = <<>> /\ have = FALSE /\ index = Npos /\ count = -1 /\ nextToken = 1
  /\ seen = [t \in Tokens |-> 0] /\ unwanted = [t \in Tokens |-> {}] /\ packed = {}
  /\ unwatched = {}

(***************************************************************************)
(* The callbacks.                                                          *)
(***************************************************************************)

(* User code runs on the Realm's thread.                                   *)
UserCode == phase \in {"idle", "telling"} /\ stage # "committing"

AddCallback ==
  /\ UserCode /\ nextToken <= MaxTokens
  /\ phase = "telling" => "addsWhileTold" \in Habits
  /\ callbacks' = Append(callbacks, [token |-> nextToken, accumulated |-> {}, deliver |-> {},
                                     initial |-> FALSE, skip |-> FALSE])
  /\ nextToken' = nextToken + 1
  /\ IF index = Npos THEN wake' = TRUE /\ have' = TRUE ELSE UNCHANGED <<wake, have>>
  /\ UNCHANGED <<realmVars, worker, skipVersion, version, hasRun, rows, changes,
                 index, count, historyVars>>

Without(s, i) == SubSeq(s, 1, i - 1) \o SubSeq(s, i + 1, Len(s))

(* A mutant of IndexWithout: npos is taken for an index.                   *)
IndexWithoutNpos(i) == IF index = Npos \/ index >= i THEN index - 1 ELSE index

IndexWithout(i) == IF index # Npos /\ index >= i THEN index - 1 ELSE index

(* A mutant of CountWithout: the round keeps its length.                   *)
CountKept == count

CountWithout == count - 1

(* Any thread may drop a token, at any time.                               *)
RemoveCallback(i) ==
  /\ i \in Positions
  /\ phase = "telling" /\ i > count => "removesLatecomers" \in Habits
  /\ index' = IndexWithout(i)
  /\ count' = CountWithout
  /\ callbacks' = Without(callbacks, i)
  /\ have' = (Len(callbacks) > 1)
  /\ seen' = [seen EXCEPT ![callbacks[i].token] = 0]
  /\ unwanted' = [unwanted EXCEPT ![callbacks[i].token] = {}]
  /\ UNCHANGED <<realmVars, workerVars, nextToken, packed, unwatched>>

Packaged ==
  [i \in Positions |->
     [callbacks[i] EXCEPT !.deliver = callbacks[i].accumulated, !.accumulated = {}]]

PackageForDelivery ==
  /\ callbacks' = Packaged
  /\ count' = Len(callbacks)
  /\ packed' = Registered

(* m_callback_count is unsigned: below zero it is larger than any index.   *)
Last == IF count < 0 \/ count > Len(callbacks) THEN Len(callbacks) ELSE count
RunsPast == count < 0 \/ count > Len(callbacks)

Due(i) == index < i /\ i <= Last /\ ~(callbacks[i].initial /\ callbacks[i].deliver = {})
NextDue(i) == Due(i) /\ \A j \in Positions : Due(j) => i <= j

CallOne ==
  /\ phase = "telling"
  /\ \E i \in Positions :
       /\ NextDue(i)
       /\ index' = i
       /\ callbacks' = [callbacks EXCEPT ![i].initial = TRUE, ![i].deliver = {}]
       /\ seen' = [seen EXCEPT ![callbacks[i].token] = readVersion]
  /\ UNCHANGED <<realmVars, workerVars, have, count, nextToken, unwanted, packed, unwatched>>

FinishRound ==
  /\ phase = "telling"
  /\ \A i \in Positions : ~Due(i)
  /\ index' = Npos
  /\ phase' = IF RunsPast THEN "undefined" ELSE "idle"
  /\ UNCHANGED <<latest, readVersion, stage, op, target, notified, workerVars,
                 callbacks, have, count, nextToken, historyVars>>

(***************************************************************************)
(* The Realm on its thread.                                                *)
(***************************************************************************)

(* Realm::notify, from the run loop.                                       *)
NotifyInVain ==
  /\ phase = "idle" /\ notified
  /\ \/ stage = "writing" /\ "writesAcrossTurns" \in Habits
     \/ stage = "reading" /\ latest = readVersion /\ ~(hasRun /\ version = readVersion)
  /\ notified' = FALSE
  /\ UNCHANGED <<latest, readVersion, stage, phase, op, target, workerVars, callbackVars,
                 historyVars>>

(* advance_to_ready, or process_available_async when there is no newer     *)
(* version: deliver what the worker has prepared, without waiting for it.  *)
NotifyTells ==
  /\ phase = "idle" /\ notified /\ stage = "reading" /\ hasRun
  /\ latest = readVersion => version = readVersion
  /\ notified' = FALSE
  /\ PackageForDelivery
  /\ IF version >= readVersion
     THEN phase' = "telling" /\ readVersion' = version
     ELSE UNCHANGED <<phase, readVersion>>
  /\ UNCHANGED <<latest, stage, op, target, workerVars, have, index, nextToken,
                 seen, unwanted, unwatched>>

NotifyAdvances ==
  /\ phase = "idle" /\ notified /\ stage = "reading" /\ ~hasRun /\ latest # readVersion
  /\ notified' = FALSE
  /\ readVersion' = latest
  /\ UNCHANGED <<latest, stage, phase, op, target, workerVars, callbackVars, historyVars>>

Ready(v) == ~have \/ (hasRun /\ version >= v)

(* Realm::refresh and Realm::begin_transaction wait for the notifiers.     *)
(* From here on begin_transaction holds the write lock.                    *)
StartWaiting(o) ==
  /\ phase = "idle" /\ stage = "reading"
  /\ phase' = "waiting" /\ op' = o /\ target' = latest
  /\ wake' = (wake \/ ~Ready(latest))
  /\ UNCHANGED <<latest, readVersion, stage, notified, worker, skipVersion, version,
                 hasRun, rows, changes, callbackVars, historyVars>>

Waited ==
  /\ phase = "waiting" /\ Ready(target)
  /\ IF hasRun THEN PackageForDelivery ELSE UNCHANGED <<callbacks, count, packed>>
  /\ IF hasRun /\ version >= target
     THEN readVersion' = version /\ phase' = "telling"
     ELSE readVersion' = latest  /\ phase' = "idle"
  /\ stage' = IF op = "begin" THEN "writing" ELSE stage
  /\ op' = "none" /\ target' = 0
  /\ UNCHANGED <<latest, notified, workerVars, have, index, nextToken,
                 seen, unwanted, unwatched>>

(* commitWriteTransactionWithoutNotifying: first the tokens, then commit.  *)
SuppressNext(T) ==
  /\ phase = "idle" /\ stage = "writing" /\ latest < MaxVersion /\ T # {}
  /\ callbacks' = [i \in Positions |->
                     [callbacks[i] EXCEPT !.skip = callbacks[i].skip \/ callbacks[i].token \in T]]
  /\ unwanted' = [t \in Tokens |-> IF t \in T THEN unwanted[t] \cup {latest + 1} ELSE unwanted[t]]
  /\ stage' = "committing"
  /\ UNCHANGED <<latest, readVersion, phase, op, target, notified, workerVars, have, index,
                 count, nextToken, seen, packed, unwatched>>

(* The worker takes new notifiers over under the lock a commit takes, so a *)
(* notifier is in m_notifiers from the worker's first start on.            *)
KnownToWorker == worker.pc # "asleep" \/ hasRun

(* A mutant of SkipVersionAt: the worker is not told of the write to skip. *)
SkipVersionAtNone(v) == skipVersion

SkipVersionAt(v) == IF KnownToWorker THEN v ELSE skipVersion

CommitWrite ==
  /\ phase = "idle" /\ stage \in {"writing", "committing"}
  /\ latest < MaxVersion
  /\ latest' = latest + 1 /\ readVersion' = latest + 1 /\ stage' = "reading"
  /\ skipVersion' = SkipVersionAt(latest + 1)
  /\ wake' = TRUE
  /\ UNCHANGED <<phase, op, target, notified, worker, version, hasRun, rows, changes,
                 callbackVars, historyVars>>

CancelWrite ==
  /\ phase = "idle" /\ stage = "writing"
  /\ stage' = "reading"
  /\ UNCHANGED <<latest, readVersion, phase, op, target, notified, workerVars, callbackVars,
                 historyVars>>

(* Somebody else commits a write, when the write lock is free.             *)
OtherCommits ==
  /\ stage = "reading" /\ ~(phase = "waiting" /\ op = "begin") /\ latest < MaxVersion
  /\ latest' = latest + 1 /\ wake' = TRUE
  /\ UNCHANGED <<readVersion, stage, phase, op, target, notified, worker, skipVersion, version,
                 hasRun, rows, changes, callbackVars, historyVars>>

(***************************************************************************)
(* The worker: run_async_notifiers.  It goes to the skip version first, if *)
(* there is one, so that the skipped change is handed over by itself.      *)
(***************************************************************************)

WorkerStarts ==
  /\ worker.pc = "asleep" /\ wake
  /\ wake' = FALSE
  /\ worker' = [pc |-> "collect", target |-> latest, skip |-> skipVersion, asked |-> FALSE]
  /\ skipVersion' = 0
  /\ UNCHANGED <<realmVars, version, hasRun, rows, changes, callbackVars, historyVars>>

Goal == IF worker.skip # 0 THEN worker.skip ELSE worker.target

(* The worker asks for the changes on the way to its goal, and advances:   *)
(* they are written down only for a notifier that has callbacks now.       *)
AddRequiredChangeInfo ==
  /\ worker.pc = "collect"
  /\ worker' = [worker EXCEPT !.pc = "run", !.asked = hasRun /\ have]
  /\ UNCHANGED <<realmVars, wake, skipVersion, version, hasRun, rows, changes, callbackVars,
                 historyVars>>

(* The comparison of the old and the new rows finds everything only with   *)
(* the changes since the old rows: they were asked for, and the rows were  *)
(* taken where the worker set out.                                         *)
Collected == worker.asked /\ rows = version

(* A callback may have come since the changes were asked for: the rows are *)
(* compared all the same, and what shows of the changes depends on them.   *)
RunQuery ==
  /\ worker.pc = "run"
  /\ \E found \in SUBSET Between(rows, Goal) :
       changes' = IF ~hasRun \/ ~have THEN {}
                  ELSE IF Collected THEN Between(rows, Goal) ELSE found
  /\ rows' = Goal
  /\ unwatched' = IF have /\ (hasRun => Collected) THEN unwatched
                  ELSE unwatched \cup Between(rows, Goal)
  /\ worker' = [worker EXCEPT !.pc = "handover", !.asked = FALSE]
  /\ UNCHANGED <<realmVars, wake, skipVersion, version, hasRun, callbackVars,
                 seen, unwanted, packed>>

(* need_to_run: nobody would use the rows.                                 *)
SkipQuery ==
  /\ "looksAway" \in Habits
  /\ worker.pc = "run" /\ hasRun /\ ~have
  /\ unwatched' = unwatched \cup Between(rows, Goal)
  /\ worker' = [worker EXCEPT !.pc = "handover", !.asked = FALSE]
  /\ UNCHANGED <<realmVars, wake, skipVersion, version, hasRun, rows, changes, callbackVars,
                 seen, unwanted, packed>>

AddChanges ==
  callbacks' = [i \in Positions |->
    IF callbacks[i].skip
    THEN [callbacks[i] EXCEPT !.skip = FALSE]
    ELSE [callbacks[i] EXCEPT !.accumulated = callbacks[i].accumulated \cup changes]]

(* A mutant of PrepareHandover: the Realms are not notified of the change. *)
PrepareHandoverQuietly ==
  /\ worker.pc = "handover"
  /\ version' = Goal /\ hasRun' = TRUE
  /\ AddChanges /\ changes' = {}
  /\ worker' = IF worker.skip # 0 THEN [worker EXCEPT !.pc = "collect", !.skip = 0]
                                  ELSE [worker EXCEPT !.pc = "asleep", !.target = 0]
  /\ UNCHANGED <<realmVars, wake, skipVersion, rows, have, index, count, nextToken,
                 historyVars>>

PrepareHandover ==
  /\ worker.pc = "handover"
  /\ version' = Goal /\ hasRun' = TRUE
  /\ AddChanges /\ changes' = {}
  /\ IF worker.skip # 0
     THEN worker' = [worker EXCEPT !.pc = "collect", !.skip = 0] /\ UNCHANGED notified
     ELSE worker' = [worker EXCEPT !.pc = "asleep", !.target = 0] /\ notified' = TRUE
  /\ UNCHANGED <<latest, readVersion, stage, phase, op, target, wake, skipVersion, rows,
                 have, index, count, nextToken, historyVars>>

Notify == NotifyInVain \/ NotifyTells \/ NotifyAdvances
Work   == WorkerStarts \/ AddRequiredChangeInfo \/ RunQuery \/ SkipQuery \/ PrepareHandover

Next ==
  \/ AddCallback
  \/ \E i \in Positions : RemoveCallback(i)
  \/ CallOne \/ FinishRound
  \/ Notify
  \/ \E o \in {"refresh", "begin"} : StartWaiting(o)
  \/ Waited
  \/ \E T \in SUBSET Registered : SuppressNext(T)
  \/ CommitWrite \/ CancelWrite \/ OtherCommits
  \/ Work

Spec == Init /\ [][Next]_vars

(* The worker and the run loop get their turns, a callback returns, and a  *)
(* program that has begun a write ends it.                                 *)
Fairness ==
  /\ WF_vars(Work) /\ WF_vars(Notify) /\ WF_vars(Waited)
  /\ WF_vars(CallOne \/ FinishRound) /\ WF_vars(CommitWrite \/ CancelWrite)

FairSpec == Spec /\ Fairness

(***************************************************************************)
(* Properties.                                                             *)
(***************************************************************************)

(* During a round of calls the first m_callback_count callbacks are those  *)
(* that were there when it was packaged and still are, however callbacks   *)
(* are added and removed in between, and the call under way is one of them *)
(* (the comment on m_callback_count in collection_notifier.hpp).           *)
RoundIsPackaged ==
  phase = "telling" =>
    /\ index <= count /\ count <= Len(callbacks)
    /\ {callbacks[i].token : i \in 1 .. count} = packed \cap Registered

(* What a callback need not be told of: what it asked to be spared, and    *)
(* what the worker passed while there was no callback at one of the times  *)
(* it looked, or compared with rows of a time when there was none.         *)
Spared(t) == unwanted[t] \cup unwatched

(* A callback is told of exactly what has changed since the version it was *)
(* last called at, up to the version the Realm shows it: nothing twice,    *)
(* nothing the Realm does not show yet, and nothing left out but what it   *)
(* is spared.  Only what the worker did not collect may come again: the    *)
(* rows it compares with may be older than the callback.                   *)
ToldExactly ==
  [][CallOne => \A i \in Positions :
       NextDue(i) /\ callbacks[i].initial =>
         LET c == callbacks[i]
             news == Between(seen[c.token], readVersion)
         IN  c.deliver \ unwatched \subseteq news /\ news \ c.deliver \subseteq Spared(c.token)]_vars

Called == {callbacks[i].token : i \in {j \in Positions : callbacks[j].initial}}

(* Again and again, so in the end once MaxVersion has been committed, every *)
(* callback that had its initial call and is still registered has been told *)
(* of all there is but what it is spared.                                   *)
EveryChangeTold ==
  \A t \in Tokens :
    []<>(t \in Called => Between(seen[t], latest) \subseteq Spared(t))
===============================================================================
