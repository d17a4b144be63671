----------------------- MODULE CollectionNotifierProofs -----------------------
(***************************************************************************)
(* Proofs about CollectionNotifier, for any number of versions and tokens. *)
(* Where it matters the program is an orderly one: it does not remove a    *)
(* callback that it added during the same round of calls.                  *)
(***************************************************************************)
EXTENDS CollectionNotifier, SequenceTheorems, TLAPS

USE BoundsAssumption

Orderly == "removesLatecomers" \notin Habits

-----------------------------------------------------------------------------
\* The inductive invariant of a round of calls.

\* The loop's index stays on the vector, between rounds it is npos, and the
\* cached flag is right.
LoopInv ==
    /\ index <= Len(callbacks)
    /\ phase # "telling" => index = Npos
    /\ have = (callbacks # <<>>)

\* Tokens are handed out once.
TokensInv ==
    /\ \A i \in Positions : callbacks[i].token < nextToken
    /\ \A i, j \in Positions : callbacks[i].token = callbacks[j].token => i = j
    /\ \A t \in packed : t < nextToken

RoundInv == TypeOK /\ LoopInv /\ TokensInv /\ RoundIsPackaged

-----------------------------------------------------------------------------
\* What the steps make of the list of callbacks.

\* Taking one callback out moves those behind it up by one.
LEMMA WithoutElements ==
    ASSUME NEW S, NEW s \in Seq(S), NEW i \in 1..Len(s)
    PROVE  /\ Without(s, i) \in Seq(S)
           /\ Len(Without(s, i)) = Len(s) - 1
           /\ \A j \in 1..(i - 1) : Without(s, i)[j] = s[j]
           /\ \A j \in i..(Len(s) - 1) : Without(s, i)[j] = s[j + 1]
<1> DEFINE front == SubSeq(s, 1, i - 1)
           back  == SubSeq(s, i + 1, Len(s))
<1>1. Len(s) \in Nat /\ i \in Nat /\ 1 <= i /\ i <= Len(s)
  OBVIOUS
<1>2. /\ front \in Seq(S) /\ Len(front) = i - 1
      /\ \A j \in 1..(i - 1) : front[j] = s[j]
  <2>1. \A j \in 1..(i - 1) : s[j] \in S
    BY <1>1
  <2> QED
    BY <1>1, <2>1, SMTT(30)
<1>3. /\ back \in Seq(S) /\ Len(back) = Len(s) - i
      /\ \A j \in 1..(Len(s) - i) : back[j] = s[i + j]
  BY <1>1, SMTT(30)
<1> HIDE DEF front, back
<1>4. /\ front \o back \in Seq(S) /\ Len(front \o back) = Len(front) + Len(back)
      /\ \A j \in 1..(Len(front) + Len(back)) :
            (front \o back)[j] = IF j <= Len(front) THEN front[j] ELSE back[j - Len(front)]
  BY <1>2, <1>3, ConcatProperties
<1>5. \A j \in 1..(i - 1) : (front \o back)[j] = s[j]
  BY <1>1, <1>2, <1>3, <1>4
<1>6. ASSUME NEW j \in i..(Len(s) - 1) PROVE (front \o back)[j] = s[j + 1]
  <2>1. /\ j \in 1..(Len(front) + Len(back)) /\ ~(j <= Len(front))
        /\ j - Len(front) = j - i + 1
    BY <1>1, <1>2, <1>3
  <2>2. j - i + 1 \in 1..(Len(s) - i) /\ i + (j - i + 1) = j + 1
    BY <1>1
  <2> QED
    BY <2>1, <1>3, <1>4, <2>2
<1>7. Without(s, i) = front \o back
  BY DEF Without, front, back
<1>8. Len(front) + Len(back) = Len(s) - 1
  BY <1>1, <1>2, <1>3
<1>9. Len(front \o back) = Len(s) - 1
  BY <1>4, <1>8
<1> QED
  BY <1>4, <1>5, <1>6, <1>7, <1>9

\* A step that changes at most the fields of some callbacks.
SameTokens ==
    /\ callbacks' \in Seq(Callback)
    /\ Len(callbacks') = Len(callbacks)
    /\ \A i \in Positions : callbacks'[i].token = callbacks[i].token

LEMMA UnchangedFields ==
    ASSUME TypeOK, UNCHANGED callbacks
    PROVE  SameTokens
BY DEF TypeOK, SameTokens

LEMMA CallbackTypes ==
    ASSUME TypeOK
    PROVE  /\ Len(callbacks) \in Nat
           /\ \A i \in Positions :
                /\ callbacks[i] \in Callback /\ callbacks[i].token \in Tokens
                /\ callbacks[i].accumulated \in SUBSET Versions
                /\ callbacks[i].deliver \in SUBSET Versions
                /\ callbacks[i].initial \in BOOLEAN /\ callbacks[i].skip \in BOOLEAN
<1>1. callbacks \in Seq(Callback)
  BY DEF TypeOK
<1>2. \A i \in Positions : callbacks[i] \in Callback
  BY <1>1 DEF Positions
<1>3. \A c \in Callback : /\ c.token \in Tokens
                          /\ c.accumulated \in SUBSET Versions
                          /\ c.deliver \in SUBSET Versions
                          /\ c.initial \in BOOLEAN /\ c.skip \in BOOLEAN
  BY DEF Callback
<1> QED
  BY <1>1, <1>2, <1>3

\* A list with a new element at every position.
LEMMA ListOf ==
    ASSUME TypeOK, NEW s, DOMAIN s = Positions, \A i \in Positions : s[i] \in Callback,
           s = [i \in Positions |-> s[i]]
    PROVE  s \in Seq(Callback) /\ Len(s) = Len(callbacks)
BY CallbackTypes DEF Positions

\* package_for_delivery: what was accumulated is now to be delivered.
LEMMA PackagedFields ==
    ASSUME TypeOK, PackageForDelivery
    PROVE  /\ SameTokens
           /\ count' = Len(callbacks) /\ packed' = Registered
           /\ \A i \in Positions :
                /\ callbacks'[i].initial = callbacks[i].initial
                /\ callbacks'[i].skip = callbacks[i].skip
                /\ callbacks'[i].deliver = callbacks[i].accumulated
                /\ callbacks'[i].accumulated = {}
<1> DEFINE New(i) ==
             [callbacks[i] EXCEPT !.deliver = callbacks[i].accumulated, !.accumulated = {}]
<1>1. \A i \in Positions :
            /\ New(i) \in Callback /\ New(i).token = callbacks[i].token
            /\ New(i).initial = callbacks[i].initial /\ New(i).skip = callbacks[i].skip
            /\ New(i).deliver = callbacks[i].accumulated /\ New(i).accumulated = {}
  BY CallbackTypes DEF Callback
<1>2. callbacks' = [i \in Positions |-> New(i)]
  BY DEF PackageForDelivery, Packaged
<1> HIDE DEF New
<1>3. callbacks' \in Seq(Callback) /\ Len(callbacks') = Len(callbacks)
  BY <1>1, <1>2, ListOf
<1>4. \A i \in Positions : callbacks'[i] = New(i)
  BY <1>2
<1> QED
  BY <1>1, <1>3, <1>4 DEF SameTokens, PackageForDelivery

\* add_changes of every callback: one that skips loses its mark instead.
LEMMA AddedFields ==
    ASSUME TypeOK, AddChanges
    PROVE  /\ SameTokens
           /\ \A i \in Positions :
                /\ callbacks'[i].initial = callbacks[i].initial
                /\ callbacks'[i].skip = FALSE
                /\ callbacks'[i].deliver = callbacks[i].deliver
                /\ callbacks'[i].accumulated =
                     IF callbacks[i].skip THEN callbacks[i].accumulated
                                          ELSE callbacks[i].accumulated \cup changes
<1> DEFINE New(i) == IF callbacks[i].skip
                     THEN [callbacks[i] EXCEPT !.skip = FALSE]
                     ELSE [callbacks[i] EXCEPT !.accumulated =
                                                  callbacks[i].accumulated \cup changes]
<1>1. \A i \in Positions :
            /\ New(i) \in Callback /\ New(i).token = callbacks[i].token
            /\ New(i).initial = callbacks[i].initial /\ New(i).skip = FALSE
            /\ New(i).deliver = callbacks[i].deliver
            /\ New(i).accumulated = IF callbacks[i].skip THEN callbacks[i].accumulated
                                          ELSE callbacks[i].accumulated \cup changes
  <2>1. changes \in SUBSET Versions
    BY DEF TypeOK
  <2> QED
    BY <2>1, CallbackTypes DEF Callback
<1>2. callbacks' = [i \in Positions |-> New(i)]
  BY DEF AddChanges
<1> HIDE DEF New
<1>3. callbacks' \in Seq(Callback) /\ Len(callbacks') = Len(callbacks)
  BY <1>1, <1>2, ListOf
<1>4. \A i \in Positions : callbacks'[i] = New(i)
  BY <1>2
<1> QED
  BY <1>1, <1>3, <1>4 DEF SameTokens

\* suppress_next_notification of some callbacks.
LEMMA SuppressedFields ==
    ASSUME TypeOK, NEW T \in SUBSET Registered, SuppressNext(T)
    PROVE  /\ SameTokens
           /\ \A i \in Positions :
                /\ callbacks'[i].initial = callbacks[i].initial
                /\ callbacks'[i].skip = (callbacks[i].skip \/ callbacks[i].token \in T)
                /\ callbacks'[i].deliver = callbacks[i].deliver
                /\ callbacks'[i].accumulated = callbacks[i].accumulated
<1> DEFINE New(i) == [callbacks[i] EXCEPT !.skip = callbacks[i].skip \/ callbacks[i].token \in T]
<1>1. \A i \in Positions :
            /\ New(i) \in Callback /\ New(i).token = callbacks[i].token
            /\ New(i).initial = callbacks[i].initial
            /\ New(i).skip = (callbacks[i].skip \/ callbacks[i].token \in T)
            /\ New(i).deliver = callbacks[i].deliver
            /\ New(i).accumulated = callbacks[i].accumulated
  BY CallbackTypes DEF Callback
<1>2. callbacks' = [i \in Positions |-> New(i)]
  BY DEF SuppressNext
<1> HIDE DEF New
<1>3. callbacks' \in Seq(Callback) /\ Len(callbacks') = Len(callbacks)
  BY <1>1, <1>2, ListOf
<1>4. \A i \in Positions : callbacks'[i] = New(i)
  BY <1>2
<1> QED
  BY <1>1, <1>3, <1>4 DEF SameTokens

\* A call of one callback.
LEMMA CalledFields ==
    ASSUME TypeOK, NEW i \in Positions,
           callbacks' = [callbacks EXCEPT ![i].initial = TRUE, ![i].deliver = {}]
    PROVE  /\ SameTokens
           /\ callbacks'[i].initial = TRUE /\ callbacks'[i].deliver = {}
           /\ callbacks'[i].skip = callbacks[i].skip
           /\ callbacks'[i].accumulated = callbacks[i].accumulated
           /\ \A j \in Positions : j # i => callbacks'[j] = callbacks[j]
<1> DEFINE new == [callbacks[i] EXCEPT !.initial = TRUE, !.deliver = {}]
<1>1. /\ new \in Callback /\ new.token = callbacks[i].token
      /\ new.initial = TRUE /\ new.deliver = {}
      /\ new.skip = callbacks[i].skip /\ new.accumulated = callbacks[i].accumulated
  BY CallbackTypes DEF Callback
<1>2. callbacks' = [callbacks EXCEPT ![i] = new]
  BY DEF TypeOK
<1> HIDE DEF new
<1>3. callbacks \in Seq(Callback)
  BY DEF TypeOK
<1>4. /\ callbacks' \in Seq(Callback) /\ Len(callbacks') = Len(callbacks)
      /\ callbacks'[i] = new /\ \A j \in Positions : j # i => callbacks'[j] = callbacks[j]
  <2>1. i \in 1 .. Len(callbacks) /\ Positions = 1 .. Len(callbacks)
    BY DEF Positions
  <2>2. /\ [callbacks EXCEPT ![i] = new] \in Seq(Callback)
        /\ Len([callbacks EXCEPT ![i] = new]) = Len(callbacks)
        /\ \A j \in 1 .. Len(callbacks) :
              [callbacks EXCEPT ![i] = new][j] = IF j = i THEN new ELSE callbacks[j]
    <3>1. new \in Callback
      BY <1>1
    <3> QED
      BY <3>1, <1>3, <2>1, ExceptSeq
  <2> QED
    BY <1>2, <2>1, <2>2
<1> QED
  BY <1>1, <1>4 DEF SameTokens

-----------------------------------------------------------------------------
\* A round of calls.

\* A step that moves no callback keeps all of it but for the loop's variables.
LEMMA TokensKept ==
    ASSUME RoundInv, SameTokens, UNCHANGED nextToken
    PROVE  /\ Positions' = Positions /\ Registered' = Registered
           /\ \A n \in Int : n <= Len(callbacks) =>
                {callbacks'[i].token : i \in 1 .. n} = {callbacks[i].token : i \in 1 .. n}
           /\ (callbacks' # <<>>) = (callbacks # <<>>)
           /\ packed' \in {packed, Registered} => TokensInv'
<1>1. Positions' = Positions
  BY DEF SameTokens, Positions
<1>2. Registered' = Registered
  BY <1>1 DEF SameTokens, Registered
<1>3. \A n \in Int : n <= Len(callbacks) => 1 .. n \subseteq Positions
  BY CallbackTypes DEF RoundInv, Positions
<1>4. \A n \in Int : n <= Len(callbacks) =>
         {callbacks'[i].token : i \in 1 .. n} = {callbacks[i].token : i \in 1 .. n}
  BY <1>3 DEF SameTokens
<1>5. (callbacks' # <<>>) = (callbacks # <<>>)
  BY DEF SameTokens, RoundInv, TypeOK
<1>6. ASSUME packed' \in {packed, Registered} PROVE TokensInv'
  <2>1. \A t \in Registered : t < nextToken
    BY DEF RoundInv, TokensInv, Registered
  <2>2. \A t \in packed' : t < nextToken
    BY <1>6, <2>1 DEF RoundInv, TokensInv
  <2> QED
    BY <1>1, <2>2 DEF RoundInv, TokensInv, SameTokens
<1> QED
  BY <1>1, <1>2, <1>4, <1>5, <1>6

\* A callback more, behind the others.
LEMMA AddCallbackKeeps ==
    ASSUME RoundInv, AddCallback
    PROVE  /\ RoundInv'
           /\ Len(callbacks') = Len(callbacks) + 1
           /\ \A i \in Positions : callbacks'[i] = callbacks[i]
           /\ LET c == callbacks'[Len(callbacks) + 1]
              IN  ~c.initial /\ ~c.skip /\ c.accumulated = {} /\ c.token \in Tokens
<1> DEFINE new == [token |-> nextToken, accumulated |-> {}, deliver |-> {},
                   initial |-> FALSE, skip |-> FALSE]
           n == Len(callbacks)
<1>1. n \in Nat /\ callbacks \in Seq(Callback) /\ Positions = 1 .. n
  BY DEF RoundInv, TypeOK, Positions
<1>2. /\ new \in Callback /\ new.token = nextToken /\ ~new.initial /\ ~new.skip
      /\ new.accumulated = {} /\ nextToken \in Tokens
  BY DEF Callback, AddCallback, RoundInv, TypeOK, Tokens
<1>3. callbacks' = Append(callbacks, new)
  BY DEF AddCallback
<1> HIDE DEF new
<1>4. /\ callbacks' \in Seq(Callback) /\ Len(callbacks') = n + 1
      /\ \A i \in 1 .. n : callbacks'[i] = callbacks[i]
      /\ callbacks'[n + 1] = new
  BY <1>1, <1>2, <1>3
<1>5. Positions' = Positions \cup {n + 1} /\ n + 1 \notin Positions
  BY <1>1, <1>4 DEF Positions
<1> HIDE DEF n
<1>6. Registered' = Registered \cup {nextToken}
  BY <1>1, <1>2, <1>4, <1>5 DEF Registered
<1>7. TypeOK'
  <2>1. nextToken' \in 1 .. MaxTokens + 1 /\ index' \in Nat /\ count' \in Int
    BY DEF AddCallback, RoundInv, TypeOK
  <2>2. have' \in BOOLEAN /\ wake' \in BOOLEAN
    BY DEF AddCallback, RoundInv, TypeOK
  <2> QED
    BY <1>4, <2>1, <2>2 DEF AddCallback, RoundInv, TypeOK, realmVars, historyVars
<1>8. LoopInv'
  <2>1. index' = index /\ phase' = phase
    BY DEF AddCallback, realmVars
  <2>2. have' = TRUE
    <3>1. CASE index = Npos
      BY <3>1 DEF AddCallback
    <3>2. CASE index # Npos
      <4>1. callbacks # <<>>
        BY <3>2, <1>1 DEF RoundInv, LoopInv, TypeOK, Npos
      <4> QED
        BY <3>2, <4>1 DEF AddCallback, RoundInv, LoopInv
    <3> QED
      BY <3>1, <3>2
  <2>3. callbacks' # <<>>
    BY <1>1, <1>4 DEF n
  <2>4. index <= n + 1
    BY <1>1 DEF RoundInv, LoopInv, TypeOK, n
  <2> QED
    BY <1>4, <2>1, <2>2, <2>3, <2>4 DEF RoundInv, LoopInv
<1>9. TokensInv'
  <2>1. nextToken' = nextToken + 1 /\ packed' = packed /\ nextToken \in Nat
    BY DEF AddCallback, historyVars, RoundInv, TypeOK
  <2>2. \A i \in Positions : callbacks[i].token < nextToken /\ callbacks[i].token \in Nat
    BY CallbackTypes DEF RoundInv, TokensInv, Tokens
  <2>3. \A i \in Positions' : callbacks'[i].token < nextToken'
    BY <1>1, <1>2, <1>4, <1>5, <2>1, <2>2
  <2>4. \A i, j \in Positions' : callbacks'[i].token = callbacks'[j].token => i = j
    <3> SUFFICES ASSUME NEW i \in Positions', NEW j \in Positions',
                        callbacks'[i].token = callbacks'[j].token
                 PROVE  i = j
      OBVIOUS
    <3>1. i \in Positions => callbacks'[i].token = callbacks[i].token /\ callbacks[i].token # nextToken
      BY <1>1, <1>4, <2>1, <2>2
    <3>2. j \in Positions => callbacks'[j].token = callbacks[j].token /\ callbacks[j].token # nextToken
      BY <1>1, <1>4, <2>1, <2>2
    <3> QED
      BY <1>2, <1>4, <1>5, <3>1, <3>2 DEF RoundInv, TokensInv
  <2>5. \A t \in packed' : t < nextToken'
    BY <2>1 DEF RoundInv, TokensInv, TypeOK, Tokens
  <2> QED
    BY <2>3, <2>4, <2>5 DEF TokensInv
<1>10. RoundIsPackaged'
  <2>1. phase' = phase /\ index' = index /\ count' = count /\ packed' = packed
    BY DEF AddCallback, realmVars, historyVars
  <2>2. nextToken \notin packed
    BY DEF RoundInv, TokensInv, TypeOK, Tokens
  <2> SUFFICES ASSUME phase = "telling" PROVE RoundIsPackaged'
    BY <2>1 DEF RoundIsPackaged
  <2>3. index <= count /\ count <= n /\ count \in Int
        /\ {callbacks[i].token : i \in 1 .. count} = packed \cap Registered
    BY DEF RoundInv, RoundIsPackaged, TypeOK, n
  <2>4. count <= n + 1 /\ 1 .. count \subseteq 1 .. n
    BY <2>3, <1>1
  <2>5. {callbacks'[i].token : i \in 1 .. count} = {callbacks[i].token : i \in 1 .. count}
    BY <2>4, <1>4
  <2>6. packed \cap Registered' = packed \cap Registered
    BY <1>6, <2>2
  <2> QED
    BY <1>4, <2>1, <2>3, <2>4, <2>5, <2>6 DEF RoundIsPackaged
<1> QED
  BY <1>1, <1>2, <1>4, <1>7, <1>8, <1>9, <1>10 DEF RoundInv, n

\* Where the callback now at position j was before that at i was taken out.
Before(i, j) == IF j < i THEN j ELSE j + 1

\* A callback less, one of the round if there is a round.
LEMMA RemoveCallbackKeeps ==
    ASSUME Orderly, RoundInv, NEW i \in Positions, RemoveCallback(i)
    PROVE  /\ RoundInv'
           /\ \A j \in Positions' :
                /\ Before(i, j) \in Positions \ {i}
                /\ callbacks'[j] = callbacks[Before(i, j)]
<1> DEFINE n == Len(callbacks)
<1>1. /\ n \in Nat /\ callbacks \in Seq(Callback) /\ Positions = 1 .. n
      /\ i \in 1 .. n /\ i \in Nat
  BY DEF RoundInv, TypeOK, Positions
<1>2. /\ callbacks' \in Seq(Callback) /\ Len(callbacks') = n - 1
      /\ \A j \in 1 .. (i - 1) : callbacks'[j] = callbacks[j]
      /\ \A j \in i .. (n - 1) : callbacks'[j] = callbacks[j + 1]
  BY <1>1, WithoutElements DEF RemoveCallback
<1> HIDE DEF n
<1>3. Positions' = 1 .. (n - 1)
  BY <1>2 DEF Positions
<1>4. ASSUME NEW j \in Positions'
      PROVE  Before(i, j) \in Positions \ {i} /\ callbacks'[j] = callbacks[Before(i, j)]
  BY <1>1, <1>2, <1>3 DEF Before
<1>5. \A k \in Positions \ {i} : \E j \in Positions' : Before(i, j) = k
  <2> SUFFICES ASSUME NEW k \in Positions \ {i} PROVE \E j \in Positions' : Before(i, j) = k
    OBVIOUS
  <2>1. CASE k < i
    BY <2>1, <1>1, <1>3 DEF Before
  <2>2. CASE k > i
    <3>1. k - 1 \in Positions' /\ Before(i, k - 1) = k
      BY <2>2, <1>1, <1>3 DEF Before
    <3> QED
      BY <3>1
  <2> QED
    BY <1>1, <2>1, <2>2
<1>6. \A j \in Positions : j # i => callbacks[j].token # callbacks[i].token
  BY DEF RoundInv, TokensInv
<1>7. Registered' = Registered \ {callbacks[i].token}
  BY <1>4, <1>5, <1>6 DEF Registered
<1>8. index \in Nat /\ count \in Int /\ index <= n
  BY DEF RoundInv, TypeOK, LoopInv, n
<1>9. index' = (IF index # 0 /\ index >= i THEN index - 1 ELSE index) /\ index' \in Nat
  BY <1>1, <1>8 DEF RemoveCallback, IndexWithout, Npos
<1>10. TypeOK'
  <2>1. callbacks[i].token \in Tokens
    BY CallbackTypes DEF RoundInv
  <2>2. count' \in Int /\ have' \in BOOLEAN
    BY <1>8 DEF RemoveCallback, CountWithout
  <2>3. seen' \in [Tokens -> 0 .. MaxVersion] /\ unwanted' \in [Tokens -> SUBSET Versions]
    BY <2>1 DEF RemoveCallback, RoundInv, TypeOK
  <2> QED
    BY <1>2, <1>9, <2>2, <2>3 DEF RemoveCallback, RoundInv, TypeOK, realmVars, workerVars
<1>11. LoopInv'
  <2>1. phase' = phase /\ have' = (n > 1)
    BY DEF RemoveCallback, realmVars, n
  <2>2. (callbacks' # <<>>) = (n > 1)
    BY <1>1, <1>2
  <2>3. index' <= n - 1
    BY <1>1, <1>8, <1>9
  <2>4. phase # "telling" => index' = Npos
    BY <1>9 DEF RoundInv, LoopInv, Npos
  <2> QED
    BY <1>2, <2>1, <2>2, <2>3, <2>4 DEF LoopInv
<1>12. TokensInv'
  <2>1. nextToken' = nextToken /\ packed' = packed
    BY DEF RemoveCallback
  <2>2. \A j \in Positions' : callbacks'[j].token < nextToken'
    BY <1>4, <2>1 DEF RoundInv, TokensInv
  <2>3. ASSUME NEW j \in Positions', NEW k \in Positions',
               callbacks'[j].token = callbacks'[k].token
        PROVE  j = k
    <3>1. Before(i, j) = Before(i, k)
      BY <1>4, <2>3 DEF RoundInv, TokensInv
    <3> QED
      BY <3>1, <1>1, <1>3 DEF Before
  <2> QED
    BY <2>1, <2>2, <2>3 DEF RoundInv, TokensInv
<1>13. RoundIsPackaged'
  <2>1. phase' = phase /\ packed' = packed /\ count' = count - 1
    BY DEF RemoveCallback, realmVars, CountWithout
  <2> SUFFICES ASSUME phase = "telling" PROVE RoundIsPackaged'
    BY <2>1 DEF RoundIsPackaged
  <2>2. i <= count
    BY <1>1, <1>8 DEF RemoveCallback, Orderly
  <2>3. index <= count /\ count <= n
        /\ {callbacks[k].token : k \in 1 .. count} = packed \cap Registered
    BY DEF RoundInv, RoundIsPackaged, n
  <2>4. index' <= count' /\ count' <= n - 1 /\ count' \in Nat
    BY <1>1, <1>8, <1>9, <2>1, <2>2, <2>3
  <2>5. {callbacks'[k].token : k \in 1 .. count'} =
          {callbacks[k].token : k \in 1 .. count} \ {callbacks[i].token}
    <3>1. ASSUME NEW k \in 1 .. count'
          PROVE  /\ Before(i, k) \in (1 .. count) \ {i}
                 /\ callbacks'[k] = callbacks[Before(i, k)]
      <4>1. k \in Positions'
        BY <2>4, <1>3, <1>1
      <4>2. Before(i, k) \in 1 .. count
        BY <1>1, <1>8, <2>1, <2>2 DEF Before
      <4> QED
        BY <1>4, <4>1, <4>2
    <3>2. ASSUME NEW k \in (1 .. count) \ {i}
          PROVE  \E j \in 1 .. count' : Before(i, j) = k
      <4>1. CASE k < i
        BY <4>1, <1>1, <1>8, <2>1, <2>2 DEF Before
      <4>2. CASE k > i
        <5>1. k - 1 \in 1 .. count' /\ Before(i, k - 1) = k
          BY <4>2, <1>1, <1>8, <2>1 DEF Before
        <5> QED
          BY <5>1
      <4> QED
        BY <1>1, <4>1, <4>2
    <3>3. (1 .. count) \subseteq Positions
      BY <1>1, <1>8, <2>3
    <3>4. \A k \in (1 .. count) \ {i} : callbacks[k].token # callbacks[i].token
      BY <3>3, <1>6
    <3>5. ASSUME NEW x \in {callbacks'[k].token : k \in 1 .. count'}
          PROVE  x \in {callbacks[k].token : k \in 1 .. count} \ {callbacks[i].token}
      BY <3>1, <3>4
    <3>6. ASSUME NEW x \in {callbacks[k].token : k \in 1 .. count} \ {callbacks[i].token}
          PROVE  x \in {callbacks'[k].token : k \in 1 .. count'}
      <4>1. PICK k \in (1 .. count) \ {i} : x = callbacks[k].token
        OBVIOUS
      <4>2. PICK j \in 1 .. count' : Before(i, j) = k
        BY <3>2
      <4> QED
        BY <3>1, <4>1, <4>2
    <3> QED
      BY <3>5, <3>6
  <2>6. {callbacks'[k].token : k \in 1 .. count'} = packed' \cap Registered'
    BY <1>7, <2>1, <2>3, <2>5
  <2> QED
    BY <1>2, <2>4, <2>6 DEF RoundIsPackaged
<1> QED
  BY <1>4, <1>10, <1>11, <1>12, <1>13 DEF RoundInv

\* A step of the loop, or one that has nothing to do with it.
LEMMA RoundKept ==
    ASSUME RoundInv, TypeOK', SameTokens, UNCHANGED <<have, nextToken, packed, count>>,
           index' <= Len(callbacks),
           phase' # "telling" => index' = Npos,
           phase' = "telling" => phase = "telling" /\ index' <= count
    PROVE  RoundInv'
<1>1. LoopInv'
  BY TokensKept DEF RoundInv, LoopInv, SameTokens
<1>2. TokensInv'
  BY TokensKept
<1>3. RoundIsPackaged'
  <2> SUFFICES ASSUME phase' = "telling" PROVE RoundIsPackaged'
    BY DEF RoundIsPackaged
  <2>1. count <= Len(callbacks) /\ count \in Int
        /\ {callbacks[i].token : i \in 1 .. count} = packed \cap Registered
    BY DEF RoundInv, RoundIsPackaged, TypeOK
  <2>2. /\ {callbacks'[i].token : i \in 1 .. count} = {callbacks[i].token : i \in 1 .. count}
        /\ Registered' = Registered
    BY <2>1, TokensKept
  <2> QED
    BY <2>1, <2>2 DEF RoundIsPackaged, SameTokens
<1> QED
  BY <1>1, <1>2, <1>3 DEF RoundInv

\* A package between two rounds: all callbacks are in it.
LEMMA RoundPackaged ==
    ASSUME RoundInv, TypeOK', PackageForDelivery, phase # "telling",
           UNCHANGED <<have, nextToken, index>>
    PROVE  RoundInv'
<1>1. SameTokens /\ count' = Len(callbacks) /\ packed' = Registered
  BY PackagedFields DEF RoundInv
<1>2. index' = 0 /\ Len(callbacks) \in Nat
  BY DEF RoundInv, LoopInv, TypeOK, Npos
<1>3. LoopInv'
  BY <1>1, <1>2, TokensKept DEF RoundInv, LoopInv, SameTokens, Npos
<1>4. TokensInv'
  BY <1>1, TokensKept
<1>5. {callbacks'[i].token : i \in 1 .. Len(callbacks)} = Registered
  BY <1>1, <1>2 DEF SameTokens, Registered, Positions
<1>6. RoundIsPackaged'
  BY <1>1, <1>2, <1>5, TokensKept DEF RoundIsPackaged, SameTokens
<1> QED
  BY <1>3, <1>4, <1>6 DEF RoundInv

LEMMA CallOneKeeps ==
    ASSUME RoundInv, CallOne
    PROVE  RoundInv'
<1>1. PICK i \in Positions :
         /\ NextDue(i) /\ index' = i
         /\ callbacks' = [callbacks EXCEPT ![i].initial = TRUE, ![i].deliver = {}]
         /\ seen' = [seen EXCEPT ![callbacks[i].token] = readVersion]
  BY DEF CallOne
<1>2. SameTokens
  BY <1>1, CalledFields DEF RoundInv
<1>3. callbacks[i].token \in Tokens /\ Len(callbacks) \in Nat
  BY CallbackTypes DEF RoundInv
<1>4. TypeOK'
  BY <1>1, <1>2, <1>3, SMTT(30) DEF CallOne, RoundInv, TypeOK, SameTokens, realmVars, workerVars, Positions
<1>5. i <= count
  BY <1>1 DEF CallOne, NextDue, Due, Last, RoundInv, RoundIsPackaged, TypeOK
<1> QED
  BY <1>1, <1>2, <1>3, <1>4, <1>5, RoundKept DEF CallOne, realmVars, Positions

LEMMA FinishRoundKeeps ==
    ASSUME RoundInv, FinishRound
    PROVE  RoundInv'
<1>1. SameTokens
  BY UnchangedFields DEF RoundInv, FinishRound
<1>2. TypeOK'
  BY DEF FinishRound, RoundInv, TypeOK, workerVars, historyVars, Npos
<1>3. index' = Npos /\ phase' # "telling" /\ Npos <= Len(callbacks)
  BY CallbackTypes DEF FinishRound, RoundInv, Npos
<1> QED
  BY <1>1, <1>2, <1>3, RoundKept DEF FinishRound, historyVars

LEMMA NotifyKeeps ==
    ASSUME RoundInv, Notify
    PROVE  RoundInv'
<1>1. ASSUME NotifyTells PROVE RoundInv'
  <2>1. callbacks' \in Seq(Callback) /\ count' \in Int /\ packed' \in SUBSET Tokens
    BY <1>1, PackagedFields, CallbackTypes DEF NotifyTells, RoundInv, SameTokens, Registered
  <2>2. TypeOK'
    BY <1>1, <2>1 DEF NotifyTells, RoundInv, TypeOK, workerVars
  <2> QED
    BY <1>1, <2>2, RoundPackaged DEF NotifyTells
<1>2. ASSUME NotifyInVain \/ NotifyAdvances PROVE RoundInv'
  <2>1. SameTokens /\ UNCHANGED <<callbackVars, packed, phase>>
    BY <1>2, UnchangedFields DEF NotifyInVain, NotifyAdvances, RoundInv, callbackVars, historyVars
  <2>2. TypeOK'
    BY <1>2 DEF NotifyInVain, NotifyAdvances, RoundInv, TypeOK, workerVars, callbackVars, historyVars
  <2> QED
    BY <2>1, <2>2, RoundKept DEF callbackVars, RoundInv, LoopInv, RoundIsPackaged
<1> QED
  BY <1>1, <1>2 DEF Notify

\* The steps of the Realm's thread that touch no callback.
QuietSteps ==
    \/ \E o \in {"refresh", "begin"} : StartWaiting(o)
    \/ CommitWrite \/ CancelWrite \/ OtherCommits

LEMMA QuietKeeps ==
    ASSUME RoundInv, QuietSteps
    PROVE  RoundInv'
<1>1. SameTokens /\ UNCHANGED <<callbackVars, packed>>
  BY UnchangedFields
  DEF QuietSteps, StartWaiting, CommitWrite, CancelWrite, OtherCommits, RoundInv,
      callbackVars, historyVars
<1>2. phase' = phase \/ (phase # "telling" /\ phase' # "telling")
  BY DEF QuietSteps, StartWaiting, CommitWrite, CancelWrite, OtherCommits
<1>3. TypeOK'
  <2>1. CASE \E o \in {"refresh", "begin"} : StartWaiting(o)
    BY <2>1, Zenon DEF StartWaiting, RoundInv, TypeOK, callbackVars, historyVars
  <2>2. CASE CommitWrite
    <3>1. latest + 1 \in 0 .. MaxVersion
      BY <2>2 DEF CommitWrite, RoundInv, TypeOK
    <3>2. skipVersion' \in 0 .. MaxVersion
      BY <2>2, <3>1 DEF CommitWrite, SkipVersionAt, RoundInv, TypeOK
    <3> QED
      BY <2>2, <3>1, <3>2 DEF CommitWrite, RoundInv, TypeOK, callbackVars, historyVars
  <2>3. CASE CancelWrite
    BY <2>3 DEF CancelWrite, RoundInv, TypeOK, workerVars, callbackVars, historyVars
  <2>4. CASE OtherCommits
    <3>1. latest + 1 \in 0 .. MaxVersion
      BY <2>4 DEF OtherCommits, RoundInv, TypeOK
    <3> QED
      BY <2>4, <3>1 DEF OtherCommits, RoundInv, TypeOK, callbackVars, historyVars
  <2> QED
    BY <2>1, <2>2, <2>3, <2>4 DEF QuietSteps
<1> QED
  BY <1>1, <1>2, <1>3, RoundKept DEF callbackVars, RoundInv, LoopInv, RoundIsPackaged

LEMMA WaitedKeeps ==
    ASSUME RoundInv, Waited
    PROVE  RoundInv'
<1>1. /\ readVersion' \in 0 .. MaxVersion /\ phase' \in {"telling", "idle"}
      /\ stage' \in {"reading", "writing", "committing"}
  BY DEF Waited, RoundInv, TypeOK
<1>2. CASE hasRun
  <2>1. callbacks' \in Seq(Callback) /\ count' \in Int /\ packed' \in SUBSET Tokens
    BY <1>2, PackagedFields, CallbackTypes DEF Waited, RoundInv, SameTokens, Registered
  <2>2. TypeOK'
    BY <1>1, <2>1 DEF Waited, RoundInv, TypeOK, workerVars
  <2> QED
    BY <1>2, <2>2, RoundPackaged DEF Waited
<1>3. CASE ~hasRun
  <2>1. SameTokens
    BY <1>3, UnchangedFields DEF Waited, RoundInv
  <2>2. TypeOK'
    BY <1>1, <1>3 DEF Waited, RoundInv, TypeOK, workerVars
  <2>3. phase' # "telling" /\ index' = Npos /\ index' <= Len(callbacks)
    BY <1>3 DEF Waited, RoundInv, LoopInv
  <2> QED
    BY <1>3, <2>1, <2>2, <2>3, RoundKept DEF Waited
<1> QED
  BY <1>2, <1>3 DEF RoundInv, TypeOK

LEMMA SuppressNextKeeps ==
    ASSUME RoundInv, NEW T \in SUBSET Registered, SuppressNext(T)
    PROVE  RoundInv'
<1>1. SameTokens
  BY SuppressedFields DEF RoundInv
<1>2. latest + 1 \in Versions
  BY DEF SuppressNext, RoundInv, TypeOK, Versions
<1>3. unwanted' \in [Tokens -> SUBSET Versions]
  BY <1>2 DEF SuppressNext, RoundInv, TypeOK
<1>4. TypeOK'
  BY <1>1, <1>3 DEF SuppressNext, SameTokens, RoundInv, TypeOK, workerVars
<1> QED
  BY <1>1, <1>4, RoundKept DEF SuppressNext, RoundInv, LoopInv, RoundIsPackaged

LEMMA WorkKeeps ==
    ASSUME RoundInv, Work
    PROVE  RoundInv'
<1>1. Goal \in 0 .. MaxVersion /\ Between(rows, Goal) \subseteq Versions
  BY DEF RoundInv, TypeOK, Goal, Between
<1>2. SameTokens
  <2>1. CASE PrepareHandover
    BY <2>1, AddedFields DEF PrepareHandover, RoundInv
  <2>2. CASE WorkerStarts \/ AddRequiredChangeInfo \/ RunQuery \/ SkipQuery
    BY <2>2, UnchangedFields
    DEF WorkerStarts, AddRequiredChangeInfo, RunQuery, SkipQuery, RoundInv, callbackVars
  <2> QED
    BY <2>1, <2>2 DEF Work
<1>3. /\ UNCHANGED <<have, nextToken, packed, count, index, phase>>
  BY DEF Work, WorkerStarts, AddRequiredChangeInfo, RunQuery, SkipQuery, PrepareHandover,
         callbackVars, realmVars, historyVars
<1>4. TypeOK'
  <2>1. CASE WorkerStarts
    <3>1. worker' \in [pc : {"asleep", "collect", "run", "handover"},
                       target : 0 .. MaxVersion, skip : 0 .. MaxVersion, asked : BOOLEAN]
      BY <2>1 DEF WorkerStarts, RoundInv, TypeOK
    <3>2. wake' \in BOOLEAN /\ skipVersion' \in 0 .. MaxVersion
      <4>1. wake' = FALSE /\ skipVersion' = 0
        BY <2>1, Zenon DEF WorkerStarts
      <4>2. 0 \in 0 .. MaxVersion
        OBVIOUS
      <4> QED
        BY <4>1, <4>2
    <3>3. UNCHANGED <<realmVars, version, hasRun, rows, changes, callbackVars, historyVars>>
      BY <2>1, Zenon DEF WorkerStarts
    <3> QED
      BY <3>1, <3>2, <3>3 DEF RoundInv, TypeOK, realmVars, callbackVars, historyVars
  <2>5. CASE AddRequiredChangeInfo
    <3>1. worker' \in [pc : {"asleep", "collect", "run", "handover"},
                       target : 0 .. MaxVersion, skip : 0 .. MaxVersion, asked : BOOLEAN]
      BY <2>5 DEF AddRequiredChangeInfo, RoundInv, TypeOK
    <3> QED
      BY <2>5, <3>1 DEF AddRequiredChangeInfo, RoundInv, TypeOK, realmVars, callbackVars,
                        historyVars
  <2>2. CASE RunQuery
    BY <1>1, <2>2 DEF RunQuery, RoundInv, TypeOK, realmVars, callbackVars
  <2>3. CASE SkipQuery
    BY <1>1, <2>3 DEF SkipQuery, RoundInv, TypeOK, realmVars, callbackVars
  <2>4. CASE PrepareHandover
    <3>1. callbacks' \in Seq(Callback)
      BY <1>2 DEF SameTokens
    <3>2. worker' \in [pc : {"asleep", "collect", "run", "handover"},
                       target : 0 .. MaxVersion, skip : 0 .. MaxVersion, asked : BOOLEAN]
      <4>1. /\ worker \in [pc : {"asleep", "collect", "run", "handover"},
                           target : 0 .. MaxVersion, skip : 0 .. MaxVersion, asked : BOOLEAN]
            /\ 0 \in 0 .. MaxVersion
        BY DEF RoundInv, TypeOK
      <4>2. \/ worker' = [worker EXCEPT !.pc = "collect", !.skip = 0]
            \/ worker' = [worker EXCEPT !.pc = "asleep", !.target = 0]
        BY <2>4 DEF PrepareHandover
      <4> QED
        BY <4>1, <4>2
    <3> QED
      BY <1>1, <2>4, <3>1, <3>2 DEF PrepareHandover, RoundInv, TypeOK, historyVars
  <2> QED
    BY <2>1, <2>2, <2>3, <2>4, <2>5 DEF Work
<1> QED
  BY <1>2, <1>3, <1>4, RoundKept DEF RoundInv, LoopInv, RoundIsPackaged

LEMMA InitRound ==
    ASSUME Init
    PROVE  RoundInv
<1>1. callbacks = <<>> /\ Len(callbacks) = 0 /\ Positions = {}
  BY DEF Init, Positions
<1>2. TypeOK
  <2>1. callbacks \in Seq(Callback)
    BY <1>1
  <2>2. worker \in [pc : {"asleep", "collect", "run", "handover"},
                    target : 0 .. MaxVersion, skip : 0 .. MaxVersion, asked : BOOLEAN]
    BY DEF Init
  <2>3. /\ seen \in [Tokens -> 0 .. MaxVersion] /\ unwanted \in [Tokens -> SUBSET Versions]
    BY DEF Init
  <2>4. nextToken \in 1 .. MaxTokens + 1 /\ index \in Nat /\ count \in Int
    BY DEF Init, Npos
  <2> QED
    BY <2>1, <2>2, <2>3, <2>4 DEF Init, TypeOK
<1>3. LoopInv
  <2>1. index <= Len(callbacks) /\ index = Npos
    BY <1>1 DEF Init, Npos
  <2>2. have = (callbacks # <<>>)
    BY <1>1, Zenon DEF Init
  <2> QED
    BY <2>1, <2>2 DEF LoopInv
<1>4. TokensInv /\ RoundIsPackaged
  BY <1>1 DEF Init, TokensInv, RoundIsPackaged
<1> QED
  BY <1>2, <1>3, <1>4 DEF RoundInv

LEMMA StutterKeeps ==
    ASSUME RoundInv, UNCHANGED vars
    PROVE  RoundInv'
<1> USE DEF vars, realmVars, workerVars, callbackVars, historyVars
<1>1. TypeOK'
  BY DEF RoundInv, TypeOK
<1>2. SameTokens
  BY UnchangedFields DEF RoundInv
<1> QED
  BY <1>1, <1>2, RoundKept DEF RoundInv, LoopInv, RoundIsPackaged

LEMMA NextKeeps ==
    ASSUME Orderly, RoundInv, [Next]_vars
    PROVE  RoundInv'
<1>1. CASE AddCallback
  BY <1>1, AddCallbackKeeps
<1>2. ASSUME NEW i \in Positions, RemoveCallback(i)
      PROVE  RoundInv'
  BY <1>2, RemoveCallbackKeeps
<1>3. CASE CallOne \/ FinishRound
  BY <1>3, CallOneKeeps, FinishRoundKeeps
<1>4. CASE Notify \/ Waited \/ Work
  BY <1>4, NotifyKeeps, WaitedKeeps, WorkKeeps
<1>5. ASSUME NEW T \in SUBSET Registered, SuppressNext(T)
      PROVE  RoundInv'
  BY <1>5, SuppressNextKeeps
<1>6. CASE QuietSteps
  BY <1>6, QuietKeeps
<1>7. CASE UNCHANGED vars
  BY <1>7, StutterKeeps
<1> QED
  BY <1>1, <1>2, <1>3, <1>4, <1>5, <1>6, <1>7 DEF Next, QuietSteps

LEMMA RoundInvariance ==
    ASSUME Orderly
    PROVE  Spec => []RoundInv
<1>1. Init => RoundInv
  BY InitRound
<1>2. RoundInv /\ [Next]_vars => RoundInv'
  BY NextKeeps
<1> QED
  BY <1>1, <1>2, PTL DEF Spec

-----------------------------------------------------------------------------
\* The inductive invariant of what the callbacks are told.

\* Nobody is ahead of the file, and the worker only goes forward.
VersionsInv ==
    /\ readVersion <= latest /\ version <= latest /\ target <= latest
    /\ worker.pc = "asleep" => worker.skip = 0 /\ worker.target = 0
    /\ worker.pc # "asleep" => version <= worker.target /\ worker.target <= latest
    /\ worker.skip # 0 => version <= worker.skip /\ worker.skip <= worker.target
    /\ skipVersion # 0 => version <= skipVersion /\ skipVersion <= latest
    /\ skipVersion # 0 => worker.target <= skipVersion
    /\ ~hasRun /\ worker.pc = "asleep" => skipVersion = 0

\* The Realm's thread waits for a version, tells of one the worker has handed
\* over and writes on top of the newest.
ThreadInv ==
    /\ phase = "telling" => hasRun /\ readVersion <= version
    /\ phase = "waiting" => stage = "reading" /\ op \in {"refresh", "begin"} /\ readVersion <= target
    /\ phase = "waiting" /\ op = "begin" => target = latest
    /\ stage # "reading" => readVersion = latest
    /\ stage # "reading" /\ phase = "telling" => version = latest
    /\ stage = "committing" => phase = "idle"

\* The changes in S take a callback from version v to version w: they lie
\* between the two, and what they lack there it is spared.
Covers(S, v, w, unseen, spared) ==
    S \ unseen \subseteq Between(v, w) /\ Between(v, w) \ S \subseteq spared \cup unseen

\* What the worker computes covers what lies ahead of the handed over version.
WorkInv ==
    /\ ~hasRun => changes = {}
    /\ ~hasRun /\ worker.pc = "handover" => rows = Goal
    /\ hasRun /\ worker.pc # "handover" =>
         /\ changes = {} /\ rows <= version
         /\ Between(rows, version) \subseteq unwatched
    /\ hasRun /\ worker.pc = "handover" =>
         /\ rows <= Goal /\ Between(rows, Goal) \subseteq unwatched
         /\ Covers(changes, version, Goal, unwatched, {})

\* The callbacks the round under way has still to consider.
Pending(i) == phase = "telling" /\ index < i /\ i <= count

SeenBy(i)     == seen[callbacks[i].token]
UnwantedBy(i) == unwanted[callbacks[i].token]

\* What is packaged takes a callback to what the Realm shows, and what has been
\* accumulated since takes it to what the worker has handed over.
ToldInv(i) ==
    LET c == callbacks[i] IN
    /\ c.initial => hasRun /\ SeenBy(i) <= readVersion /\ SeenBy(i) <= version
    /\ Pending(i) => Covers(c.accumulated, readVersion, version, unwatched, UnwantedBy(i))
    /\ Pending(i) /\ c.initial =>
         Covers(c.deliver, SeenBy(i), readVersion, unwatched, UnwantedBy(i))
    /\ ~Pending(i) /\ c.initial =>
         Covers(c.accumulated, SeenBy(i), version, unwatched, UnwantedBy(i))

\* A callback that has been called is up to date when a write begins, so that
\* the only version it may be behind by is the Realm's own, where the worker
\* stops.
StopsAside(x) == x <= version \/ readVersion <= x

WriteInv(i) ==
    callbacks[i].initial =>
      /\ stage # "reading" => version = latest
      /\ ~Pending(i) /\ (stage # "reading" \/ version < readVersion) =>
           Covers({}, SeenBy(i), version, unwatched, UnwantedBy(i))
      /\ version < readVersion =>
           StopsAside(worker.target) /\ StopsAside(worker.skip) /\ StopsAside(skipVersion)

\* What the next hand over drops is what the callback asked not to be told of.
SkipInv(i) ==
    callbacks[i].skip =>
      /\ stage = "committing" \/ version < readVersion
      /\ callbacks[i].initial =>
           /\ worker.pc # "asleep" => Covers({}, version, Goal, unwatched, UnwantedBy(i))
           /\ stage = "committing" => latest + 1 \in UnwantedBy(i)
           /\ stage # "committing" /\ worker.pc = "asleep" =>
                skipVersion # 0 /\ Covers({}, version, skipVersion, unwatched, UnwantedBy(i))

CallbackInv(i) == ToldInv(i) /\ WriteInv(i) /\ SkipInv(i)

IInv ==
    /\ RoundInv /\ VersionsInv /\ ThreadInv /\ WorkInv
    /\ \A i \in Positions : CallbackInv(i)

LEMMA VersionTypes ==
    ASSUME TypeOK
    PROVE  /\ latest \in Nat /\ readVersion \in Nat /\ target \in Nat /\ skipVersion \in Nat
           /\ version \in Nat /\ rows \in Nat
           /\ worker.target \in Nat /\ worker.skip \in Nat /\ Goal \in Nat
           /\ worker.pc \in {"asleep", "collect", "run", "handover"}
           /\ Goal = IF worker.skip # 0 THEN worker.skip ELSE worker.target
           /\ changes \subseteq Versions /\ unwatched \subseteq Versions
           /\ \A v, w : Between(v, w) \subseteq Versions
           /\ \A t \in Tokens : seen[t] \in Nat /\ unwanted[t] \subseteq Versions
           /\ Versions \subseteq Nat
BY DEF TypeOK, Goal, Between, Versions

\* What a step does to the worker's program counter.
LEMMA WorkerFields ==
    ASSUME TypeOK
    PROVE  /\ WorkerStarts =>
                worker'.pc = "collect" /\ worker'.target = latest /\ worker'.skip = skipVersion
           /\ AddRequiredChangeInfo =>
                /\ worker'.pc = "run" /\ worker'.target = worker.target
                /\ worker'.skip = worker.skip /\ Goal' = Goal
           /\ RunQuery \/ SkipQuery =>
                /\ worker'.pc = "handover" /\ worker'.target = worker.target
                /\ worker'.skip = worker.skip /\ Goal' = Goal
           /\ PrepareHandover /\ worker.skip # 0 =>
                worker'.pc = "collect" /\ worker'.target = worker.target /\ worker'.skip = 0
           /\ PrepareHandover /\ worker.skip = 0 =>
                worker'.pc = "asleep" /\ worker'.target = 0 /\ worker'.skip = 0
<1>1. worker \in [pc : {"asleep", "collect", "run", "handover"},
                 target : 0 .. MaxVersion, skip : 0 .. MaxVersion, asked : BOOLEAN]
  BY DEF TypeOK
<1>2. WorkerStarts =>
        worker'.pc = "collect" /\ worker'.target = latest /\ worker'.skip = skipVersion
  BY DEF WorkerStarts
<1>3. RunQuery \/ SkipQuery =>
        /\ worker'.pc = "handover" /\ worker'.target = worker.target
        /\ worker'.skip = worker.skip /\ Goal' = Goal
  BY <1>1 DEF RunQuery, SkipQuery, Goal
<1>6. AddRequiredChangeInfo =>
        /\ worker'.pc = "run" /\ worker'.target = worker.target
        /\ worker'.skip = worker.skip /\ Goal' = Goal
  BY <1>1 DEF AddRequiredChangeInfo, Goal
<1>4. PrepareHandover /\ worker.skip # 0 =>
        worker'.pc = "collect" /\ worker'.target = worker.target /\ worker'.skip = 0
  BY <1>1 DEF PrepareHandover
<1>5. PrepareHandover /\ worker.skip = 0 =>
        worker'.pc = "asleep" /\ worker'.target = 0 /\ worker'.skip = 0
  BY <1>1 DEF PrepareHandover
<1> QED
  BY <1>2, <1>3, <1>4, <1>5, <1>6

\* The steps that leave the versions, the worker and the phase alone.
CallbackStep == UNCHANGED <<realmVars, worker, skipVersion, version, hasRun, rows, changes, unwatched>>

\* The parts about versions, threads and work.
BaseInv == TypeOK /\ VersionsInv /\ ThreadInv /\ WorkInv

LEMMA CallbackStepBase ==
    ASSUME BaseInv, TypeOK', CallbackStep
    PROVE  BaseInv'
BY DEF CallbackStep, realmVars, BaseInv, VersionsInv, ThreadInv, WorkInv, Covers, Between, Goal

\* A step of the Realm's thread or of another writer.
RealmStep == UNCHANGED <<worker, version, hasRun, rows, changes, unwatched>>

LEMMA RealmStepWork ==
    ASSUME WorkInv, RealmStep
    PROVE  WorkInv'
BY DEF RealmStep, WorkInv, Covers, Between, Goal

LEMMA RealmStepBase ==
    ASSUME BaseInv, TypeOK',
           FinishRound \/ Notify \/ QuietSteps \/ Waited
             \/ \E T \in SUBSET Registered : SuppressNext(T)
    PROVE  BaseInv'
<1> USE DEF BaseInv
<1> USE VersionTypes
<1>1. CASE FinishRound
  <2>1. RealmStep
    BY <1>1 DEF RealmStep, FinishRound, workerVars, historyVars
  <2>2. VersionsInv' /\ ThreadInv'
    BY <1>1 DEF FinishRound, workerVars, VersionsInv, ThreadInv
  <2> QED
    BY <2>1, <2>2, RealmStepWork
<1>2. CASE Notify
  <2>1. RealmStep
    BY <1>2 DEF RealmStep, Notify, NotifyInVain, NotifyTells, NotifyAdvances, workerVars, historyVars
  <2>2. VersionsInv' /\ ThreadInv'
    BY <1>2 DEF Notify, NotifyInVain, NotifyTells, NotifyAdvances, workerVars, VersionsInv, ThreadInv
  <2> QED
    BY <2>1, <2>2, RealmStepWork
<1>3. CASE QuietSteps
  <2>1. RealmStep
    BY <1>3 DEF RealmStep, QuietSteps, StartWaiting, CommitWrite, CancelWrite, OtherCommits,
                workerVars, historyVars
  <2>2. VersionsInv' /\ ThreadInv'
    <3>1. CASE \E o \in {"refresh", "begin"} : StartWaiting(o)
      BY <3>1 DEF StartWaiting, VersionsInv, ThreadInv
    <3>2. CASE CommitWrite
      BY <3>2 DEF CommitWrite, SkipVersionAt, KnownToWorker, VersionsInv, ThreadInv
    <3>3. CASE CancelWrite
      BY <3>3 DEF CancelWrite, workerVars, VersionsInv, ThreadInv
    <3>4. CASE OtherCommits
      BY <3>4 DEF OtherCommits, VersionsInv, ThreadInv
    <3> QED
      BY <1>3, <3>1, <3>2, <3>3, <3>4 DEF QuietSteps
  <2> QED
    BY <2>1, <2>2, RealmStepWork
<1>4. CASE Waited
  <2>1. RealmStep
    BY <1>4 DEF RealmStep, Waited, workerVars
  <2>2. VersionsInv' /\ ThreadInv'
    BY <1>4 DEF Waited, workerVars, VersionsInv, ThreadInv
  <2> QED
    BY <2>1, <2>2, RealmStepWork
<1>5. ASSUME NEW T \in SUBSET Registered, SuppressNext(T)
      PROVE  BaseInv'
  <2>1. RealmStep
    BY <1>5 DEF RealmStep, SuppressNext, workerVars
  <2>2. VersionsInv' /\ ThreadInv'
    BY <1>5 DEF SuppressNext, workerVars, VersionsInv, ThreadInv
  <2> QED
    BY <2>1, <2>2, RealmStepWork
<1> QED
  BY <1>1, <1>2, <1>3, <1>4, <1>5

LEMMA WorkBase ==
    ASSUME BaseInv, TypeOK', Work
    PROVE  BaseInv'
<1> USE DEF BaseInv
<1> USE VersionTypes, WorkerFields
<1>1. VersionsInv'
  <2>1. CASE WorkerStarts
    BY <2>1 DEF WorkerStarts, realmVars, VersionsInv
  <2>2. CASE AddRequiredChangeInfo \/ RunQuery \/ SkipQuery
    BY <2>2 DEF AddRequiredChangeInfo, RunQuery, SkipQuery, realmVars, VersionsInv
  <2>3. CASE PrepareHandover /\ worker.skip # 0
    BY <2>3 DEF PrepareHandover, VersionsInv
  <2>4. CASE PrepareHandover /\ worker.skip = 0
    BY <2>4 DEF PrepareHandover, VersionsInv
  <2> QED
    BY <2>1, <2>2, <2>3, <2>4 DEF Work
<1>2. ThreadInv'
  BY DEF Work, WorkerStarts, AddRequiredChangeInfo, RunQuery, SkipQuery, PrepareHandover,
         realmVars, ThreadInv, VersionsInv
<1>3. WorkInv'
  <2>1. CASE WorkerStarts
    BY <2>1 DEF WorkerStarts, WorkInv, historyVars
  <2>5. CASE AddRequiredChangeInfo
    BY <2>5 DEF AddRequiredChangeInfo, WorkInv, historyVars
  <2>2. CASE RunQuery
    BY <2>2 DEF RunQuery, WorkInv, VersionsInv, Covers, Between
  <2>3. CASE SkipQuery
    BY <2>3 DEF SkipQuery, WorkInv, VersionsInv, Covers, Between
  <2>4. CASE PrepareHandover
    <3>1. /\ version' = Goal /\ hasRun' = TRUE /\ changes' = {} /\ worker'.pc # "handover"
          /\ rows' = rows /\ unwatched' = unwatched /\ worker.pc = "handover"
      BY <2>4 DEF PrepareHandover, historyVars
    <3>2. rows <= Goal /\ Between(rows, Goal) \subseteq unwatched
      BY <3>1 DEF WorkInv, Between
    <3> QED
      BY <3>1, <3>2 DEF WorkInv, Between
  <2> QED
    BY <2>1, <2>2, <2>3, <2>4, <2>5 DEF Work
<1> QED
  BY <1>1, <1>2, <1>3
-----------------------------------------------------------------------------
\* Sets of changes.

LEMMA CoversNothing ==
    ASSUME NEW v \in Nat, NEW unseen, NEW spared
    PROVE  Covers({}, v, v, unseen, spared)
BY DEF Covers, Between, Versions

LEMMA CoversCompose ==
    ASSUME NEW S, NEW R, NEW v \in Nat, NEW w \in Nat, NEW x \in Nat, v <= w, w <= x,
           NEW unseen, NEW spared,
           Covers(S, v, w, unseen, spared), Covers(R, w, x, unseen, spared)
    PROVE  Covers(S \cup R, v, x, unseen, spared)
<1>1. \A u \in Versions : u \in Nat
  BY DEF Versions
<1>2. \A u \in Versions : u \in Between(v, x) <=> u \in Between(v, w) \/ u \in Between(w, x)
  BY <1>1 DEF Between
<1>3. Between(v, w) \subseteq Versions /\ Between(w, x) \subseteq Versions /\ Between(v, x) \subseteq Versions
  BY DEF Between
<1> QED
  BY <1>2, <1>3 DEF Covers

LEMMA CoversMore ==
    ASSUME NEW S, NEW v, NEW w, NEW unseen, NEW spared, NEW unseen2, NEW spared2,
           Covers(S, v, w, unseen, spared), unseen \subseteq unseen2,
           spared \subseteq spared2 \cup unseen2
    PROVE  Covers(S, v, w, unseen2, spared2)
BY DEF Covers

-----------------------------------------------------------------------------
\* Each step keeps what is known of each callback.

LEMMA PartsOfIInv ==
    ASSUME IInv
    PROVE  TypeOK /\ RoundInv /\ BaseInv /\ \A i \in Positions : CallbackInv(i)
BY DEF IInv, BaseInv, RoundInv

\* A step that moves a callback and changes nothing that it is told by.
LEMMA CallbackMoved ==
    ASSUME NEW i \in Positions, CallbackInv(i), NEW j \in Positions',
           callbacks'[j] = callbacks[i], SeenBy(j)' = SeenBy(i), UnwantedBy(j)' = UnwantedBy(i),
           Pending(j)' <=> Pending(i),
           UNCHANGED <<latest, readVersion, stage, worker, skipVersion, version, hasRun, unwatched>>
    PROVE  CallbackInv(j)'
<1>1. ToldInv(j)'
  BY DEF CallbackInv, ToldInv, Covers, Between
<1>2. WriteInv(j)'
  BY DEF CallbackInv, WriteInv, Covers, Between, StopsAside
<1>3. SkipInv(j)'
  BY DEF CallbackInv, SkipInv, Covers, Between, Goal
<1> QED
  BY <1>1, <1>2, <1>3 DEF CallbackInv

LEMMA AddCallbackTold ==
    ASSUME IInv, AddCallback, NEW j \in Positions'
    PROVE  CallbackInv(j)'
<1>1. /\ RoundInv /\ Len(callbacks) \in Nat /\ Len(callbacks') = Len(callbacks) + 1
      /\ \A i \in Positions : callbacks'[i] = callbacks[i]
      /\ ~callbacks'[Len(callbacks) + 1].initial /\ ~callbacks'[Len(callbacks) + 1].skip
  BY AddCallbackKeeps, PartsOfIInv, CallbackTypes
<1>2. /\ UNCHANGED <<latest, readVersion, stage, worker, skipVersion, version, hasRun, unwatched>>
      /\ UNCHANGED <<phase, index, count, seen, unwanted>>
  BY DEF AddCallback, realmVars, historyVars
<1>3. j \in Positions \/ j = Len(callbacks) + 1
  BY <1>1 DEF Positions
<1>4. CASE j \in Positions
  <2>1. /\ CallbackInv(j) /\ callbacks'[j] = callbacks[j]
        /\ SeenBy(j)' = SeenBy(j) /\ UnwantedBy(j)' = UnwantedBy(j)
        /\ Pending(j)' <=> Pending(j)
    BY <1>1, <1>2, <1>4 DEF IInv, SeenBy, UnwantedBy, Pending
  <2> QED
    BY <1>2, <1>4, <2>1, CallbackMoved
<1>5. CASE j = Len(callbacks) + 1
  <2>1. ~callbacks'[j].initial /\ ~callbacks'[j].skip
    BY <1>1, <1>5
  <2>2. ~Pending(j)'
    BY <1>1, <1>2, <1>5 DEF Pending, RoundInv, RoundIsPackaged, TypeOK
  <2> QED
    BY <2>1, <2>2 DEF CallbackInv, ToldInv, WriteInv, SkipInv
<1> QED
  BY <1>3, <1>4, <1>5

\* Where a callback stood before another was removed, and what it still has to
\* be told in the round.
LEMMA CallbackRemoved ==
    ASSUME Orderly, IInv, NEW i \in Positions, RemoveCallback(i), NEW j \in Positions'
    PROVE  LET k == Before(i, j) IN
           /\ k \in Positions /\ callbacks'[j] = callbacks[k]
           /\ SeenBy(j)' = SeenBy(k) /\ UnwantedBy(j)' = UnwantedBy(k)
           /\ Pending(j)' <=> Pending(k)
<1> DEFINE k == Before(i, j)
<1>1. /\ k \in Positions \ {i} /\ callbacks'[j] = callbacks[k]
      /\ RoundInv /\ j \in Nat /\ i \in Nat /\ 1 <= j
  BY RemoveCallbackKeeps, PartsOfIInv DEF Positions
<1>2. UNCHANGED phase
  BY DEF RemoveCallback, realmVars
<1>3. callbacks[k].token # callbacks[i].token
  BY <1>1 DEF RoundInv, TokensInv
<1>4. callbacks[k].token \in Tokens /\ callbacks[i].token \in Tokens
  BY <1>1, CallbackTypes DEF RoundInv
<1>5. SeenBy(j)' = SeenBy(k) /\ UnwantedBy(j)' = UnwantedBy(k)
  BY <1>1, <1>3, <1>4 DEF SeenBy, UnwantedBy, RemoveCallback, RoundInv, TypeOK
<1>6. Pending(j)' <=> Pending(k)
  <2>1. CASE phase # "telling"
    BY <1>2, <2>1 DEF Pending
  <2>2. CASE phase = "telling"
    <3>1. i <= count /\ count \in Nat /\ index \in Nat
      BY <1>1, <2>2 DEF RemoveCallback, Orderly, RoundInv, TypeOK
    <3>2. index' = (IF index # 0 /\ index >= i THEN index - 1 ELSE index) /\ count' = count - 1
      BY DEF RemoveCallback, IndexWithout, CountWithout, Npos
    <3>3. 1 <= i
      BY DEF Positions
    <3> QED
      BY <1>1, <1>2, <2>2, <3>1, <3>2, <3>3 DEF Pending, Before
  <2> QED
    BY <2>1, <2>2
<1> QED
  BY <1>1, <1>5, <1>6

LEMMA RemoveCallbackTold ==
    ASSUME Orderly, IInv, NEW i \in Positions, RemoveCallback(i), NEW j \in Positions'
    PROVE  CallbackInv(j)'
<1> DEFINE k == Before(i, j)
<1>1. /\ k \in Positions /\ callbacks'[j] = callbacks[k]
      /\ SeenBy(j)' = SeenBy(k) /\ UnwantedBy(j)' = UnwantedBy(k)
      /\ Pending(j)' <=> Pending(k)
  BY CallbackRemoved
<1>2. UNCHANGED <<latest, readVersion, stage, worker, skipVersion, version, hasRun, unwatched>>
  BY DEF RemoveCallback, realmVars, workerVars
<1>3. CallbackInv(k)
  BY <1>1 DEF IInv
<1> HIDE DEF k
<1> QED
  BY <1>1, <1>2, <1>3, CallbackMoved

\* A callback that the round has come to, or passed because it has nothing to
\* be told: what was packaged for it takes it up to what the Realm shows.
LEMMA Passed ==
    ASSUME IInv, NEW i \in Positions, phase = "telling",
           callbacks[i].initial, ~Pending(i) \/ ~Due(i)
    PROVE  /\ Covers(callbacks[i].accumulated, SeenBy(i), version, unwatched, UnwantedBy(i))
           /\ stage # "reading" => Covers({}, SeenBy(i), version, unwatched, UnwantedBy(i))
<1> DEFINE c == callbacks[i]
<1>0. /\ TypeOK /\ ToldInv(i) /\ WriteInv(i) /\ ThreadInv
      /\ c.token \in Tokens /\ SeenBy(i) \in Nat /\ readVersion \in Nat /\ version \in Nat
  BY PartsOfIInv, CallbackTypes, VersionTypes DEF IInv, CallbackInv, SeenBy
<1>1. CASE ~Pending(i)
  BY <1>0, <1>1 DEF ToldInv, WriteInv
<1>2. CASE Pending(i) /\ ~Due(i)
  <2>1. c.deliver = {}
    <3>1. index < i /\ i <= Last
      BY <1>2, PartsOfIInv DEF Pending, Last, Positions, RoundInv, TypeOK, RoundIsPackaged
    <3> QED
      BY <1>2, <3>1 DEF Due
  <2>2. /\ Covers({}, SeenBy(i), readVersion, unwatched, UnwantedBy(i))
        /\ Covers(c.accumulated, readVersion, version, unwatched, UnwantedBy(i))
        /\ SeenBy(i) <= readVersion /\ readVersion <= version
    BY <1>0, <1>2, <2>1 DEF ToldInv, ThreadInv
  <2>3. Covers({} \cup c.accumulated, SeenBy(i), version, unwatched, UnwantedBy(i))
    BY <1>0, <2>2, CoversCompose
  <2>4. {} \cup c.accumulated = c.accumulated
    OBVIOUS
  <2>5. stage # "reading" => readVersion = version
    BY <1>0 DEF ThreadInv
  <2> QED
    BY <2>2, <2>3, <2>4, <2>5
<1> QED
  BY <1>1, <1>2
\* Where no callback is skipping: while the callbacks are being called.
LEMMA NoneSkips ==
    ASSUME IInv, NEW i \in Positions, stage # "committing", readVersion <= version
    PROVE  ~callbacks[i].skip
BY PartsOfIInv, VersionTypes DEF CallbackInv, SkipInv

\* A callback that is not pending, told by something that has not changed.
LEMMA SettledKept ==
    ASSUME IInv, NEW i \in Positions, SameTokens,
           ~Pending(i)', callbacks'[i].initial, ~callbacks'[i].skip,
           UNCHANGED <<latest, readVersion, stage, version, unwatched>>,
           hasRun', readVersion <= version,
           SeenBy(i)' \in Nat, SeenBy(i)' <= readVersion,
           Covers(callbacks'[i].accumulated, SeenBy(i)', version, unwatched, UnwantedBy(i)'),
           stage # "reading" => version = latest,
           stage # "reading" => Covers({}, SeenBy(i)', version, unwatched, UnwantedBy(i)')
    PROVE  CallbackInv(i)'
<1>1. readVersion \in Nat /\ version \in Nat
  BY VersionTypes, PartsOfIInv
<1>2. ToldInv(i)'
  BY <1>1 DEF ToldInv, Covers, Between
<1>3. WriteInv(i)'
  BY <1>1 DEF WriteInv, Covers, Between
<1>4. SkipInv(i)'
  BY DEF SkipInv
<1> QED
  BY <1>2, <1>3, <1>4 DEF CallbackInv

LEMMA CallOneTold ==
    ASSUME IInv, CallOne, NEW j \in Positions
    PROVE  CallbackInv(j)'
<1>1. PICK i \in Positions :
         /\ NextDue(i) /\ index' = i
         /\ callbacks' = [callbacks EXCEPT ![i].initial = TRUE, ![i].deliver = {}]
         /\ seen' = [seen EXCEPT ![callbacks[i].token] = readVersion]
  BY DEF CallOne
<1>2. /\ TypeOK /\ RoundInv /\ BaseInv /\ CallbackInv(j) /\ CallbackInv(i)
      /\ readVersion \in Nat /\ version \in Nat
  BY PartsOfIInv, VersionTypes
<1>3. /\ SameTokens /\ callbacks'[i].initial /\ callbacks'[i].skip = callbacks[i].skip
      /\ callbacks'[i].accumulated = callbacks[i].accumulated
      /\ \A k \in Positions : k # i => callbacks'[k] = callbacks[k]
  BY <1>1, <1>2, CalledFields
<1>4. /\ phase = "telling"
      /\ UNCHANGED <<latest, readVersion, stage, phase, worker, skipVersion, version, hasRun,
                     count, unwanted, unwatched>>
  BY DEF CallOne, realmVars, workerVars
<1>5. hasRun /\ readVersion <= version /\ stage # "committing"
      /\ (stage # "reading" => version = latest /\ readVersion = latest)
  BY <1>2, <1>4 DEF BaseInv, ThreadInv
<1>6. callbacks[i].token \in Tokens /\ callbacks[j].token \in Tokens /\ SeenBy(j) \in Nat
  BY <1>2, CallbackTypes, VersionTypes DEF SeenBy
<1>7. CASE j = i
  <2>1. SeenBy(j)' = readVersion /\ UnwantedBy(j)' = UnwantedBy(j)
    BY <1>1, <1>2, <1>3, <1>4, <1>6, <1>7 DEF SeenBy, UnwantedBy, SameTokens, TypeOK
  <2>2. ~Pending(j)'
    BY <1>1, <1>7 DEF Pending, Positions
  <2>3. Pending(j)
    BY <1>1, <1>2, <1>4, <1>7 DEF NextDue, Due, Last, Pending, RoundInv, RoundIsPackaged, TypeOK
  <2>4. Covers(callbacks[j].accumulated, readVersion, version, unwatched, UnwantedBy(j))
    BY <1>2, <2>3 DEF CallbackInv, ToldInv
  <2>5. stage # "reading" => Covers({}, readVersion, version, unwatched, UnwantedBy(j))
    BY <1>2, <1>5, CoversNothing
  <2>6. ~callbacks'[j].skip
    BY <1>3, <1>5, <1>7, NoneSkips
  <2>7. /\ callbacks'[j].initial /\ hasRun' /\ SeenBy(j)' \in Nat /\ SeenBy(j)' <= readVersion
        /\ Covers(callbacks'[j].accumulated, SeenBy(j)', version, unwatched, UnwantedBy(j)')
        /\ stage # "reading" => Covers({}, SeenBy(j)', version, unwatched, UnwantedBy(j)')
    BY <1>2, <1>3, <1>4, <1>5, <1>7, <2>1, <2>4, <2>5
  <2> QED
    BY <1>3, <1>4, <1>5, <2>2, <2>6, <2>7, SettledKept
<1>8. CASE j # i
  <2>1. callbacks[j].token # callbacks[i].token
    BY <1>2, <1>8 DEF RoundInv, TokensInv
  <2>2. callbacks'[j] = callbacks[j]
    BY <1>3, <1>8
  <2>3. SeenBy(j)' = SeenBy(j) /\ UnwantedBy(j)' = UnwantedBy(j)
    BY <1>1, <1>2, <1>4, <1>6, <2>1, <2>2 DEF SeenBy, UnwantedBy, TypeOK
  <2>4. Positions' = Positions
    BY <1>3 DEF SameTokens, Positions
  <2>5. CASE Pending(j)' <=> Pending(j)
    BY <1>2, <1>4, <2>2, <2>3, <2>4, <2>5, CallbackMoved
  <2>6. CASE ~(Pending(j)' <=> Pending(j))
    <3>1. /\ Pending(j) /\ ~Pending(j)' /\ j < i
          /\ i \in Nat /\ j \in Nat /\ index \in Nat /\ count \in Int
      BY <1>1, <1>2, <1>4, <1>8, <2>6, SMTT(30)
      DEF Pending, NextDue, Due, Positions, RoundInv, RoundIsPackaged, TypeOK
    <3>2. ~Due(j)
      BY <1>1, <3>1 DEF NextDue
    <3>3. callbacks[j].initial
      BY <1>2, <3>1, <3>2, CallbackTypes
      DEF Pending, Due, Last, Positions, RoundInv, RoundIsPackaged, TypeOK
    <3>4. /\ Covers(callbacks[j].accumulated, SeenBy(j), version, unwatched, UnwantedBy(j))
          /\ stage # "reading" => Covers({}, SeenBy(j), version, unwatched, UnwantedBy(j))
      BY <1>4, <3>2, <3>3, Passed
    <3>5. SeenBy(j) <= readVersion
      BY <1>2, <3>3 DEF CallbackInv, ToldInv
    <3>6. ~callbacks[j].skip
      BY <1>5, NoneSkips
    <3>7. /\ callbacks'[j].initial /\ ~callbacks'[j].skip /\ hasRun'
          /\ SeenBy(j)' \in Nat /\ SeenBy(j)' <= readVersion
          /\ Covers(callbacks'[j].accumulated, SeenBy(j)', version, unwatched, UnwantedBy(j)')
          /\ stage # "reading" => Covers({}, SeenBy(j)', version, unwatched, UnwantedBy(j)')
      BY <1>4, <1>5, <1>6, <2>2, <2>3, <3>3, <3>4, <3>5, <3>6
    <3> QED
      BY <1>3, <1>4, <1>5, <3>1, <3>7, SettledKept
  <2> QED
    BY <2>5, <2>6
<1> QED
  BY <1>7, <1>8

LEMMA FinishRoundTold ==
    ASSUME IInv, FinishRound, NEW j \in Positions
    PROVE  CallbackInv(j)'
<1>1. /\ TypeOK /\ RoundInv /\ BaseInv /\ CallbackInv(j)
      /\ readVersion \in Nat /\ version \in Nat /\ callbacks[j].token \in Tokens
      /\ SeenBy(j) \in Nat
  BY PartsOfIInv, VersionTypes, CallbackTypes DEF SeenBy
<1>2. /\ phase = "telling" /\ phase' # "telling" /\ ~Due(j)
      /\ UNCHANGED <<latest, readVersion, stage, worker, skipVersion, version, hasRun, callbacks,
                     seen, unwanted, unwatched>>
  BY DEF FinishRound, workerVars, historyVars
<1>3. SeenBy(j)' = SeenBy(j) /\ UnwantedBy(j)' = UnwantedBy(j) /\ ~Pending(j)' /\ SameTokens
  BY <1>1, <1>2, UnchangedFields DEF SeenBy, UnwantedBy, Pending
<1>4. hasRun /\ readVersion <= version /\ stage # "committing"
      /\ (stage # "reading" => version = latest)
  BY <1>1, <1>2 DEF BaseInv, ThreadInv
<1>5. ~callbacks[j].skip
  BY <1>4, NoneSkips
<1>6. CASE callbacks[j].initial
  <2>1. /\ Covers(callbacks[j].accumulated, SeenBy(j), version, unwatched, UnwantedBy(j))
        /\ stage # "reading" => Covers({}, SeenBy(j), version, unwatched, UnwantedBy(j))
    BY <1>2, <1>6, Passed
  <2>2. SeenBy(j) <= readVersion
    BY <1>1, <1>6 DEF CallbackInv, ToldInv
  <2>3. /\ callbacks'[j].initial /\ ~callbacks'[j].skip /\ hasRun'
        /\ SeenBy(j)' \in Nat /\ SeenBy(j)' <= readVersion
        /\ Covers(callbacks'[j].accumulated, SeenBy(j)', version, unwatched, UnwantedBy(j)')
        /\ stage # "reading" => Covers({}, SeenBy(j)', version, unwatched, UnwantedBy(j)')
    BY <1>1, <1>2, <1>3, <1>4, <1>5, <1>6, <2>1, <2>2
  <2> QED
    BY <1>2, <1>3, <1>4, <2>3, SettledKept
<1>7. CASE ~callbacks[j].initial
  BY <1>2, <1>3, <1>5, <1>7 DEF CallbackInv, ToldInv, WriteInv, SkipInv
<1> QED
  BY <1>6, <1>7

\* A package the Realm goes on to tell of: it advances to the version handed
\* over, and all callbacks are now to be considered.
LEMMA TellingStarts ==
    ASSUME IInv, NEW j \in Positions, phase # "telling", PackageForDelivery, hasRun,
           phase' = "telling", readVersion' = version,
           stage # "committing", version >= readVersion,
           stage' # "reading" => version = latest,
           UNCHANGED <<latest, workerVars, index, seen, unwanted, unwatched>>
    PROVE  CallbackInv(j)'
<1>1. /\ TypeOK /\ RoundInv /\ CallbackInv(j)
      /\ readVersion \in Nat /\ version \in Nat /\ callbacks[j].token \in Tokens
      /\ SeenBy(j) \in Nat /\ Len(callbacks) \in Nat
  BY PartsOfIInv, VersionTypes, CallbackTypes DEF SeenBy
<1>2. /\ callbacks'[j].token = callbacks[j].token /\ callbacks'[j].initial = callbacks[j].initial
      /\ callbacks'[j].skip = callbacks[j].skip
      /\ callbacks'[j].deliver = callbacks[j].accumulated /\ callbacks'[j].accumulated = {}
      /\ count' = Len(callbacks)
  BY <1>1, PackagedFields DEF SameTokens
<1>3. SeenBy(j)' = SeenBy(j) /\ UnwantedBy(j)' = UnwantedBy(j)
  BY <1>2 DEF SeenBy, UnwantedBy
<1>4. Pending(j)' /\ ~Pending(j)
  BY <1>1, <1>2 DEF Pending, Positions, RoundInv, LoopInv, Npos
<1>5. ~callbacks[j].skip
  BY NoneSkips
<1>6. Covers({}, version, version, unwatched, UnwantedBy(j))
  BY <1>1, CoversNothing
<1>7. callbacks[j].initial =>
        /\ Covers(callbacks[j].accumulated, SeenBy(j), version, unwatched, UnwantedBy(j))
        /\ SeenBy(j) <= version
  BY <1>1, <1>4 DEF CallbackInv, ToldInv
<1>8. version' = version /\ hasRun' = hasRun /\ unwatched' = unwatched /\ latest' = latest
  BY DEF workerVars
<1>9. ToldInv(j)'
  BY <1>2, <1>3, <1>4, <1>6, <1>7, <1>8 DEF ToldInv, Covers, Between
<1>10. WriteInv(j)' /\ SkipInv(j)'
  BY <1>1, <1>2, <1>4, <1>5, <1>8 DEF WriteInv, SkipInv
<1> QED
  BY <1>9, <1>10 DEF CallbackInv
\* Nothing that a callback is told by changes while the Realm is between rounds.
LEMMA NotPending ==
    ASSUME phase # "telling"
    PROVE  \A i : ~Pending(i)
BY DEF Pending

LEMMA NotifyTold ==
    ASSUME IInv, Notify, NEW j \in Positions
    PROVE  CallbackInv(j)'
<1>1. /\ TypeOK /\ BaseInv /\ CallbackInv(j)
      /\ readVersion \in Nat /\ version \in Nat /\ latest \in Nat
  BY PartsOfIInv, VersionTypes
<1>2. CASE NotifyInVain
  <2>1. /\ callbacks' = callbacks /\ phase' = phase
        /\ UNCHANGED <<latest, readVersion, stage, worker, skipVersion, version, hasRun, seen,
                       unwanted, unwatched, index, count>>
    BY <1>2 DEF NotifyInVain, workerVars, callbackVars, historyVars
  <2>2. /\ j \in Positions' /\ SeenBy(j)' = SeenBy(j) /\ UnwantedBy(j)' = UnwantedBy(j)
        /\ Pending(j)' <=> Pending(j)
    BY <2>1 DEF SeenBy, UnwantedBy, Pending, Positions
  <2> QED
    BY <1>1, <2>1, <2>2, CallbackMoved
<1>3. CASE NotifyAdvances
  <2>1. /\ ~hasRun /\ phase = "idle" /\ stage = "reading" /\ readVersion' = latest
        /\ UNCHANGED <<latest, stage, phase, workerVars, callbacks, seen, unwanted, unwatched>>
    BY <1>3 DEF NotifyAdvances, callbackVars, historyVars
  <2>2. ~callbacks[j].initial
    BY <1>1, <2>1 DEF CallbackInv, ToldInv
  <2>3. ~Pending(j)'
    BY <2>1 DEF Pending
  <2>4. callbacks[j].skip => version < readVersion
    BY <1>1, <2>1 DEF CallbackInv, SkipInv
  <2>5. readVersion <= latest
    BY <1>1 DEF BaseInv, VersionsInv
  <2> QED
    BY <1>1, <2>1, <2>2, <2>3, <2>4, <2>5
    DEF CallbackInv, ToldInv, WriteInv, SkipInv, workerVars
<1>4. CASE NotifyTells
  <2>1. /\ phase = "idle" /\ stage = "reading" /\ hasRun /\ PackageForDelivery
        /\ UNCHANGED <<latest, stage, workerVars, index, seen, unwanted, unwatched>>
        /\ version >= readVersion => phase' = "telling" /\ readVersion' = version
        /\ ~(version >= readVersion) => phase' = phase /\ readVersion' = readVersion
    BY <1>4 DEF NotifyTells
  <2>2. CASE version >= readVersion
    BY <2>1, <2>2, TellingStarts
  <2>3. CASE ~(version >= readVersion)
    <3>1. /\ callbacks'[j].token = callbacks[j].token /\ callbacks'[j].initial = callbacks[j].initial
          /\ callbacks'[j].skip = callbacks[j].skip /\ callbacks'[j].accumulated = {}
      BY <1>1, <2>1, PackagedFields DEF SameTokens
    <3>2. SeenBy(j)' = SeenBy(j) /\ UnwantedBy(j)' = UnwantedBy(j) /\ ~Pending(j) /\ ~Pending(j)'
      BY <2>1, <2>3, <3>1 DEF SeenBy, UnwantedBy, Pending
    <3>3. callbacks[j].initial => Covers({}, SeenBy(j), version, unwatched, UnwantedBy(j))
      BY <1>1, <2>3, <3>2 DEF CallbackInv, WriteInv
    <3>4. UNCHANGED <<latest, readVersion, stage, worker, skipVersion, version, hasRun, unwatched>>
      BY <2>1, <2>3 DEF workerVars
    <3>5. ToldInv(j)'
      BY <1>1, <3>1, <3>2, <3>3, <3>4 DEF CallbackInv, ToldInv, Covers, Between
    <3>6. WriteInv(j)'
      BY <1>1, <3>1, <3>2, <3>4 DEF CallbackInv, WriteInv, Covers, Between, StopsAside
    <3>7. SkipInv(j)'
      BY <1>1, <3>1, <3>2, <3>4 DEF CallbackInv, SkipInv, Covers, Between, Goal
    <3> QED
      BY <3>5, <3>6, <3>7 DEF CallbackInv
  <2> QED
    BY <2>2, <2>3
<1> QED
  BY <1>2, <1>3, <1>4 DEF Notify

LEMMA WaitedTold ==
    ASSUME IInv, Waited, NEW j \in Positions
    PROVE  CallbackInv(j)'
<1>1. /\ TypeOK /\ RoundInv /\ BaseInv /\ CallbackInv(j)
      /\ readVersion \in Nat /\ version \in Nat /\ latest \in Nat /\ target \in Nat
  BY PartsOfIInv, VersionTypes
<1>2. /\ phase = "waiting" /\ Ready(target)
      /\ UNCHANGED <<latest, workerVars, index, seen, unwanted, unwatched>>
      /\ stage' = (IF op = "begin" THEN "writing" ELSE stage)
  BY DEF Waited
<1>3. /\ stage = "reading" /\ readVersion <= target /\ target <= latest
      /\ version <= latest /\ (op = "begin" => target = latest)
  BY <1>1, <1>2 DEF BaseInv, ThreadInv, VersionsInv
<1>4. have
  <2>1. callbacks # <<>>
    BY <1>1 DEF Positions, TypeOK
  <2> QED
    BY <1>1, <2>1 DEF RoundInv, LoopInv
<1>5. hasRun /\ version >= target
  BY <1>2, <1>4 DEF Ready
<1>6. PackageForDelivery /\ phase' = "telling" /\ readVersion' = version
  BY <1>5 DEF Waited
<1>7. stage' # "reading" => version = latest
  BY <1>1, <1>2, <1>3, <1>5
<1>8. version >= readVersion /\ phase # "telling" /\ stage # "committing"
  BY <1>1, <1>2, <1>3, <1>5
<1> QED
  BY <1>2, <1>5, <1>6, <1>7, <1>8, TellingStarts

LEMMA QuietTold ==
    ASSUME IInv, QuietSteps, NEW j \in Positions
    PROVE  CallbackInv(j)'
<1>1. /\ TypeOK /\ BaseInv /\ CallbackInv(j) /\ VersionsInv /\ ThreadInv
      /\ readVersion \in Nat /\ version \in Nat /\ latest \in Nat
      /\ skipVersion \in Nat /\ worker.target \in Nat /\ worker.skip \in Nat
      /\ SeenBy(j) \in Nat
  BY PartsOfIInv, VersionTypes, CallbackTypes DEF BaseInv, SeenBy
<1>2. /\ callbacks' = callbacks
      /\ UNCHANGED <<worker, version, hasRun, index, count, seen, unwanted, unwatched>>
  BY DEF QuietSteps, StartWaiting, CommitWrite, CancelWrite, OtherCommits,
         workerVars, callbackVars, historyVars
<1>3. /\ j \in Positions' /\ SeenBy(j)' = SeenBy(j) /\ UnwantedBy(j)' = UnwantedBy(j)
  BY <1>2 DEF SeenBy, UnwantedBy, Positions
<1>4. Pending(j)' <=> Pending(j)
  BY <1>2 DEF QuietSteps, StartWaiting, CommitWrite, CancelWrite, OtherCommits, Pending
<1>5. CASE \E o \in {"refresh", "begin"} : StartWaiting(o)
  <2>1. UNCHANGED <<latest, readVersion, stage, skipVersion>>
    BY <1>5 DEF StartWaiting
  <2> QED
    BY <1>1, <1>2, <1>3, <1>4, <2>1, CallbackMoved
<1>6. CASE CancelWrite
  <2>1. stage = "writing" /\ stage' = "reading" /\ UNCHANGED <<latest, readVersion, skipVersion>>
    BY <1>6 DEF CancelWrite, workerVars
  <2>2. ToldInv(j)'
    BY <1>1, <1>2, <1>3, <1>4, <2>1 DEF CallbackInv, ToldInv, Covers, Between
  <2>3. WriteInv(j)'
    BY <1>1, <1>2, <1>3, <1>4, <2>1 DEF CallbackInv, WriteInv, Covers, Between, StopsAside
  <2>4. SkipInv(j)'
    BY <1>1, <1>2, <1>3, <1>4, <2>1 DEF CallbackInv, SkipInv, Covers, Between, Goal
  <2> QED
    BY <2>2, <2>3, <2>4 DEF CallbackInv
<1>7. CASE OtherCommits
  <2>1. stage = "reading" /\ UNCHANGED <<stage, readVersion, skipVersion>>
    BY <1>7 DEF OtherCommits
  <2>2. ToldInv(j)'
    BY <1>1, <1>2, <1>3, <1>4, <2>1 DEF CallbackInv, ToldInv, Covers, Between
  <2>3. WriteInv(j)'
    BY <1>1, <1>2, <1>3, <1>4, <2>1 DEF CallbackInv, WriteInv, Covers, Between, StopsAside
  <2>4. SkipInv(j)'
    BY <1>1, <1>2, <1>3, <1>4, <2>1 DEF CallbackInv, SkipInv, Covers, Between, Goal
  <2> QED
    BY <2>2, <2>3, <2>4 DEF CallbackInv
<1>8. CASE CommitWrite
  <2>1. /\ phase = "idle" /\ stage \in {"writing", "committing"} /\ stage' = "reading"
        /\ latest' = latest + 1 /\ readVersion' = latest + 1
        /\ skipVersion' = IF KnownToWorker THEN latest + 1 ELSE skipVersion
    BY <1>8 DEF CommitWrite, SkipVersionAt
  <2>2. ~Pending(j) /\ ~Pending(j)'
    BY <1>4, <2>1 DEF Pending
  <2>3. readVersion = latest /\ version <= latest
    BY <1>1, <2>1 DEF ThreadInv, VersionsInv
  <2>4. ToldInv(j)'
    BY <1>1, <1>2, <1>3, <2>1, <2>2, <2>3 DEF CallbackInv, ToldInv, Covers, Between
  <2>5. CASE callbacks[j].initial
    <3>1. /\ hasRun /\ version = latest
          /\ Covers({}, SeenBy(j), version, unwatched, UnwantedBy(j))
      BY <1>1, <2>1, <2>2, <2>5 DEF CallbackInv, ToldInv, WriteInv
    <3>2. skipVersion' = latest + 1
      BY <2>1, <3>1 DEF KnownToWorker
    <3>3. worker.target <= latest /\ worker.skip <= latest
      BY <1>1 DEF VersionsInv, BaseInv, TypeOK
    <3>4. WriteInv(j)'
      BY <1>1, <1>2, <1>3, <2>1, <2>2, <3>1, <3>2, <3>3 DEF WriteInv, StopsAside, Covers, Between
    <3>5. callbacks[j].skip => stage = "committing"
      BY <1>1, <2>3, <3>1 DEF CallbackInv, SkipInv
    <3>6. ASSUME callbacks[j].skip
          PROVE  Covers({}, version, latest + 1, unwatched, UnwantedBy(j))
      <4>1. latest + 1 \in UnwantedBy(j)
        BY <1>1, <2>5, <3>5, <3>6 DEF CallbackInv, SkipInv
      <4>2. \A u \in Versions : u \in Nat
        BY DEF Versions
      <4>3. \A u \in Between(version, latest + 1) : u = latest + 1
        BY <1>1, <3>1, <4>2 DEF Between
      <4> QED
        BY <4>1, <4>3 DEF Covers
    <3>7. SkipInv(j)'
      BY <1>1, <1>2, <1>3, <2>1, <2>3, <2>5, <3>2, <3>6
      DEF CallbackInv, SkipInv, Covers, Between, Goal
    <3> QED
      BY <2>4, <3>4, <3>7 DEF CallbackInv
  <2>6. CASE ~callbacks[j].initial
    BY <1>1, <1>2, <2>1, <2>3, <2>4, <2>6 DEF CallbackInv, WriteInv, SkipInv
  <2> QED
    BY <2>5, <2>6, CallbackTypes, <1>1
<1> QED
  BY <1>5, <1>6, <1>7, <1>8 DEF QuietSteps

LEMMA SuppressNextTold ==
    ASSUME IInv, NEW T \in SUBSET Registered, SuppressNext(T), NEW j \in Positions
    PROVE  CallbackInv(j)'
<1>1. /\ TypeOK /\ BaseInv /\ CallbackInv(j) /\ VersionsInv /\ ThreadInv
      /\ readVersion \in Nat /\ version \in Nat /\ latest \in Nat /\ Goal \in Nat
      /\ skipVersion \in Nat /\ callbacks[j].token \in Tokens
  BY PartsOfIInv, VersionTypes, CallbackTypes DEF BaseInv
<1>2. /\ callbacks'[j].token = callbacks[j].token /\ callbacks'[j].initial = callbacks[j].initial
      /\ callbacks'[j].skip = (callbacks[j].skip \/ callbacks[j].token \in T)
      /\ callbacks'[j].accumulated = callbacks[j].accumulated
      /\ callbacks'[j].deliver = callbacks[j].deliver
  BY <1>1, SuppressedFields DEF SameTokens
<1>3. /\ phase = "idle" /\ stage = "writing" /\ stage' = "committing"
      /\ UNCHANGED <<latest, readVersion, phase, worker, skipVersion, version, hasRun, seen,
                     unwatched>>
  BY DEF SuppressNext, workerVars
<1>4. ~Pending(j) /\ ~Pending(j)' /\ SeenBy(j)' = SeenBy(j)
  BY <1>2, <1>3 DEF Pending, SeenBy
<1>5. /\ UnwantedBy(j) \subseteq UnwantedBy(j)'
      /\ callbacks[j].token \in T => latest + 1 \in UnwantedBy(j)'
  BY <1>1, <1>2 DEF UnwantedBy, SuppressNext, TypeOK
<1>6. ToldInv(j)'
  BY <1>1, <1>2, <1>3, <1>4, <1>5 DEF CallbackInv, ToldInv, Covers, Between
<1>7. WriteInv(j)'
  BY <1>1, <1>2, <1>3, <1>4, <1>5 DEF CallbackInv, WriteInv, Covers, Between, StopsAside
<1>8. SkipInv(j)'
  <2>1. CASE callbacks[j].initial
    <3>1. version = latest /\ readVersion = latest
      BY <1>1, <1>3, <2>1 DEF CallbackInv, WriteInv, ThreadInv
    <3>2. ~callbacks[j].skip
      BY <1>1, <1>3, <3>1 DEF CallbackInv, SkipInv
    <3>3. worker.pc # "asleep" => Goal = version
      BY <1>1, <3>1, VersionTypes DEF VersionsInv
    <3>4. Covers({}, version, version, unwatched, UnwantedBy(j)')
      BY <1>1, CoversNothing DEF Covers
    <3> QED
      BY <1>2, <1>3, <1>5, <3>2, <3>3, <3>4 DEF SkipInv, Covers, Between, Goal
  <2>2. CASE ~callbacks[j].initial
    BY <1>2, <1>3, <2>2 DEF SkipInv
  <2> QED
    BY <2>1, <2>2
<1> QED
  BY <1>6, <1>7, <1>8 DEF CallbackInv
LEMMA WorkTold ==
    ASSUME IInv, Work, NEW j \in Positions
    PROVE  CallbackInv(j)'
<1>1. /\ TypeOK /\ RoundInv /\ BaseInv /\ CallbackInv(j) /\ VersionsInv /\ ThreadInv /\ WorkInv
      /\ readVersion \in Nat /\ version \in Nat /\ latest \in Nat /\ Goal \in Nat
      /\ skipVersion \in Nat /\ worker.target \in Nat /\ worker.skip \in Nat
      /\ SeenBy(j) \in Nat /\ callbacks[j].token \in Tokens
  BY PartsOfIInv, VersionTypes, CallbackTypes DEF BaseInv, SeenBy
<1>2. UNCHANGED <<latest, readVersion, stage, phase, index, count, seen, unwanted>>
  BY DEF Work, WorkerStarts, AddRequiredChangeInfo, RunQuery, SkipQuery, PrepareHandover,
         realmVars, callbackVars, historyVars
<1>3. callbacks'[j].token = callbacks[j].token /\ callbacks'[j].initial = callbacks[j].initial
      /\ callbacks'[j].deliver = callbacks[j].deliver
  BY <1>1, AddedFields
  DEF Work, WorkerStarts, AddRequiredChangeInfo, RunQuery, SkipQuery, PrepareHandover,
      callbackVars, SameTokens
<1>4. /\ SeenBy(j)' = SeenBy(j) /\ UnwantedBy(j)' = UnwantedBy(j)
      /\ Pending(j)' <=> Pending(j)
  BY <1>2, <1>3 DEF SeenBy, UnwantedBy, Pending
<1>5. CASE WorkerStarts
  <2>1. /\ callbacks' = callbacks /\ worker.pc = "asleep" /\ worker'.pc = "collect"
        /\ worker'.target = latest /\ worker'.skip = skipVersion /\ skipVersion' = 0
        /\ UNCHANGED <<version, hasRun, unwatched>>
        /\ Goal' = IF skipVersion # 0 THEN skipVersion ELSE latest
    BY <1>1, <1>5, WorkerFields DEF WorkerStarts, callbackVars, historyVars, Goal
  <2>2. ToldInv(j)'
    BY <1>1, <1>2, <1>4, <2>1 DEF CallbackInv, ToldInv, Covers, Between
  <2>3. WriteInv(j)'
    BY <1>1, <1>2, <1>4, <2>1
    DEF CallbackInv, WriteInv, Covers, Between, StopsAside, VersionsInv
  <2>4. SkipInv(j)'
    <3>1. ASSUME callbacks[j].skip, callbacks[j].initial
          PROVE  Covers({}, version, Goal', unwatched, UnwantedBy(j))
      <4>1. CASE stage = "committing"
        <5>1. version = latest
          BY <1>1, <3>1, <4>1 DEF CallbackInv, WriteInv
        <5>2. Goal' = version
          BY <1>1, <2>1, <5>1 DEF VersionsInv
        <5> QED
          BY <1>1, <5>2, CoversNothing
      <4>2. CASE stage # "committing"
        BY <1>1, <2>1, <3>1, <4>2 DEF CallbackInv, SkipInv
      <4> QED
        BY <4>1, <4>2
    <3> QED
      BY <1>1, <1>2, <1>4, <2>1, <3>1 DEF CallbackInv, SkipInv, Covers, Between
  <2> QED
    BY <2>2, <2>3, <2>4 DEF CallbackInv
<1>6. CASE AddRequiredChangeInfo \/ RunQuery \/ SkipQuery
  <2>1. /\ callbacks' = callbacks /\ worker.pc # "asleep" /\ worker'.pc # "asleep"
        /\ worker'.target = worker.target /\ worker'.skip = worker.skip /\ Goal' = Goal
        /\ UNCHANGED <<skipVersion, version, hasRun>> /\ unwatched \subseteq unwatched'
    BY <1>1, <1>6, WorkerFields
    DEF AddRequiredChangeInfo, RunQuery, SkipQuery, callbackVars, historyVars
  <2>2. ToldInv(j)'
    BY <1>1, <1>2, <1>4, <2>1 DEF CallbackInv, ToldInv, Covers, Between
  <2>3. WriteInv(j)'
    BY <1>1, <1>2, <1>4, <2>1 DEF CallbackInv, WriteInv, Covers, Between, StopsAside
  <2>4. SkipInv(j)'
    BY <1>1, <1>2, <1>4, <2>1 DEF CallbackInv, SkipInv, Covers, Between
  <2> QED
    BY <2>2, <2>3, <2>4 DEF CallbackInv
<1>7. CASE PrepareHandover
  <2>1. /\ version' = Goal /\ hasRun' = TRUE /\ UNCHANGED <<skipVersion, unwatched>>
        /\ worker.pc = "handover"
        /\ callbacks'[j].skip = FALSE
        /\ callbacks'[j].accumulated = IF callbacks[j].skip THEN callbacks[j].accumulated
                                       ELSE callbacks[j].accumulated \cup changes
        /\ worker'.target \in {0, worker.target} /\ worker'.skip = 0
    BY <1>1, <1>7, AddedFields, WorkerFields DEF PrepareHandover, historyVars
  <2>2. version <= Goal /\ Goal <= latest
    BY <1>1, <2>1, VersionTypes DEF VersionsInv
  <2>3. SkipInv(j)'
    BY <2>1 DEF SkipInv
  \* the changes bring any callback on to the version handed over
  <2>4. ASSUME hasRun
        PROVE  Covers(changes, version, Goal, unwatched, UnwantedBy(j))
    BY <1>1, <2>1, <2>4 DEF WorkInv, Covers
  <2>5. ASSUME hasRun, NEW v \in Nat, v <= version,
               Covers(callbacks[j].accumulated, v, version, unwatched, UnwantedBy(j)),
               callbacks[j].skip => Covers({}, version, Goal, unwatched, UnwantedBy(j))
        PROVE  Covers(callbacks'[j].accumulated, v, Goal, unwatched, UnwantedBy(j))
    <3>1. CASE callbacks[j].skip
      <4>1. Covers(callbacks[j].accumulated \cup {}, v, Goal, unwatched, UnwantedBy(j))
        BY <1>1, <2>2, <2>5, <3>1, CoversCompose
      <4>2. callbacks[j].accumulated \cup {} = callbacks'[j].accumulated
        BY <2>1, <3>1
      <4> QED
        BY <4>1, <4>2
    <3>2. CASE ~callbacks[j].skip
      <4>1. Covers(callbacks[j].accumulated \cup changes, v, Goal, unwatched, UnwantedBy(j))
        BY <1>1, <2>2, <2>4, <2>5, CoversCompose
      <4> QED
        BY <2>1, <3>2, <4>1
    <3> QED
      BY <3>1, <3>2
  <2>6. ASSUME Pending(j)
        PROVE  Covers(callbacks'[j].accumulated, readVersion, Goal, unwatched, UnwantedBy(j))
    <3>1. hasRun /\ readVersion <= version /\ stage # "committing"
      BY <1>1, <2>6 DEF ThreadInv, Pending
    <3>2. ~callbacks[j].skip
      BY <3>1, NoneSkips
    <3> QED
      BY <1>1, <2>5, <2>6, <3>1, <3>2 DEF CallbackInv, ToldInv
  <2>7. ASSUME ~Pending(j), callbacks[j].initial
        PROVE  Covers(callbacks'[j].accumulated, SeenBy(j), Goal, unwatched, UnwantedBy(j))
    <3>1. /\ hasRun /\ SeenBy(j) <= version
          /\ Covers(callbacks[j].accumulated, SeenBy(j), version, unwatched, UnwantedBy(j))
      BY <1>1, <2>7 DEF CallbackInv, ToldInv
    <3>2. callbacks[j].skip => Covers({}, version, Goal, unwatched, UnwantedBy(j))
      BY <1>1, <2>1, <2>7 DEF CallbackInv, SkipInv
    <3> QED
      BY <1>1, <2>5, <3>1, <3>2
  <2>8. ToldInv(j)'
    <3>1. callbacks[j].initial => SeenBy(j) <= Goal /\ SeenBy(j) <= readVersion
      BY <1>1, <2>2 DEF CallbackInv, ToldInv
    <3>2. Pending(j) /\ callbacks[j].initial =>
            Covers(callbacks[j].deliver, SeenBy(j), readVersion, unwatched, UnwantedBy(j))
      BY <1>1 DEF CallbackInv, ToldInv
    <3> QED
      BY <1>2, <1>3, <1>4, <2>1, <2>6, <2>7, <3>1, <3>2 DEF ToldInv, Covers, Between
  <2>9. WriteInv(j)'
    <3> SUFFICES ASSUME callbacks[j].initial PROVE WriteInv(j)'
      BY <1>3 DEF WriteInv
    <3>1. stage # "reading" => version = latest /\ Goal = version
      BY <1>1, <2>2 DEF CallbackInv, WriteInv
    <3>2. Goal < readVersion => Goal = version
      BY <1>1, <2>1, <2>2, VersionTypes DEF CallbackInv, WriteInv, StopsAside
    <3>3. ~Pending(j) /\ (stage # "reading" \/ Goal < readVersion) =>
            Covers({}, SeenBy(j), Goal, unwatched, UnwantedBy(j))
      BY <1>1, <3>1, <3>2 DEF CallbackInv, WriteInv
    <3>4. Goal < readVersion =>
            /\ worker'.target <= Goal \/ readVersion <= worker'.target
            /\ worker'.skip <= Goal \/ readVersion <= worker'.skip
            /\ skipVersion' <= Goal \/ readVersion <= skipVersion'
      BY <1>1, <2>1, <3>2 DEF CallbackInv, WriteInv, StopsAside
    <3> QED
      BY <1>2, <1>4, <2>1, <3>1, <3>3, <3>4 DEF WriteInv, StopsAside, Covers, Between
  <2> QED
    BY <2>3, <2>8, <2>9 DEF CallbackInv
<1> QED
  BY <1>5, <1>6, <1>7 DEF Work

-----------------------------------------------------------------------------
\* The invariant, put together.

LEMMA InitIInv ==
    ASSUME Init
    PROVE  IInv
<1>1. RoundInv
  BY InitRound
<1>2. VersionsInv /\ ThreadInv /\ WorkInv
  BY DEF Init, VersionsInv, ThreadInv, WorkInv
<1>3. Positions = {}
  BY DEF Init, Positions
<1> QED
  BY <1>1, <1>2, <1>3 DEF IInv

LEMMA StutterIInv ==
    ASSUME IInv, UNCHANGED vars
    PROVE  IInv'
<1>1. RoundInv' /\ CallbackStep /\ TypeOK'
  BY StutterKeeps, PartsOfIInv
  DEF vars, workerVars, historyVars, CallbackStep, RoundInv
<1>2. BaseInv'
  BY <1>1, CallbackStepBase, PartsOfIInv
<1>3. ASSUME NEW j \in Positions' PROVE CallbackInv(j)'
  <2>1. /\ j \in Positions /\ CallbackInv(j) /\ callbacks'[j] = callbacks[j]
        /\ SeenBy(j)' = SeenBy(j) /\ UnwantedBy(j)' = UnwantedBy(j) /\ (Pending(j)' <=> Pending(j))
    BY PartsOfIInv DEF vars, callbackVars, historyVars, realmVars, Positions, SeenBy, UnwantedBy, Pending
  <2>2. UNCHANGED <<latest, readVersion, stage, worker, skipVersion, version, hasRun, unwatched>>
    BY <1>1 DEF CallbackStep, realmVars
  <2> QED
    BY <2>1, <2>2, CallbackMoved
<1> QED
  BY <1>1, <1>2, <1>3 DEF IInv, BaseInv

LEMMA NextIInv ==
    ASSUME Orderly, IInv, [Next]_vars
    PROVE  IInv'
<1>1. RoundInv' /\ TypeOK'
  BY NextKeeps, PartsOfIInv DEF RoundInv
<1>2. BaseInv /\ TypeOK
  BY PartsOfIInv
<1>3. CASE AddCallback
  <2>1. CallbackStep
    BY <1>3 DEF AddCallback, CallbackStep, historyVars
  <2> QED
    BY <1>1, <1>2, <1>3, <2>1, CallbackStepBase, AddCallbackTold DEF IInv, BaseInv
<1>4. ASSUME NEW i \in Positions, RemoveCallback(i)
      PROVE  IInv'
  <2>1. CallbackStep
    BY <1>4 DEF RemoveCallback, CallbackStep, workerVars
  <2> QED
    BY <1>1, <1>2, <1>4, <2>1, CallbackStepBase, RemoveCallbackTold DEF IInv, BaseInv
<1>5. ASSUME Positions' = Positions, BaseInv', \A j \in Positions : CallbackInv(j)'
      PROVE  IInv'
  BY <1>1, <1>5 DEF IInv, BaseInv
<1>6. SameTokens => Positions' = Positions
  BY DEF SameTokens, Positions
<1>7. CASE CallOne
  <2>1. CallbackStep /\ SameTokens
    BY <1>2, <1>7, CalledFields DEF CallOne, CallbackStep, workerVars
  <2> QED
    BY <1>1, <1>2, <1>5, <1>6, <1>7, <2>1, CallbackStepBase, CallOneTold
<1>8. CASE FinishRound
  <2>1. Positions' = Positions
    BY <1>8 DEF FinishRound, Positions
  <2> QED
    BY <1>1, <1>2, <1>5, <1>8, <2>1, RealmStepBase, FinishRoundTold
<1>9. CASE Notify
  <2>1. Positions' = Positions
    BY <1>2, <1>6, <1>9, PackagedFields
    DEF Notify, NotifyInVain, NotifyTells, NotifyAdvances, callbackVars, Positions
  <2> QED
    BY <1>1, <1>2, <1>5, <1>9, <2>1, RealmStepBase, NotifyTold
<1>10. CASE Waited
  <2>1. Positions' = Positions
    BY <1>2, <1>6, <1>10, PackagedFields DEF Waited, Positions
  <2> QED
    BY <1>1, <1>2, <1>5, <1>10, <2>1, RealmStepBase, WaitedTold
<1>11. CASE QuietSteps
  <2>1. Positions' = Positions
    BY <1>11 DEF QuietSteps, StartWaiting, CommitWrite, CancelWrite, OtherCommits, callbackVars,
                 Positions
  <2> QED
    BY <1>1, <1>2, <1>5, <1>11, <2>1, RealmStepBase, QuietTold
<1>12. ASSUME NEW T \in SUBSET Registered, SuppressNext(T)
       PROVE  IInv'
  <2>1. Positions' = Positions
    BY <1>2, <1>6, <1>12, SuppressedFields
  <2> QED
    BY <1>1, <1>2, <1>5, <1>12, <2>1, RealmStepBase, SuppressNextTold
<1>13. CASE Work
  <2>1. Positions' = Positions
    BY <1>2, <1>6, <1>13, AddedFields
    DEF Work, WorkerStarts, AddRequiredChangeInfo, RunQuery, SkipQuery, PrepareHandover,
        callbackVars, Positions
  <2> QED
    BY <1>1, <1>2, <1>5, <1>13, <2>1, WorkBase, WorkTold
<1>14. CASE UNCHANGED vars
  BY <1>14, StutterIInv
<1> QED
  BY <1>3, <1>4, <1>7, <1>8, <1>9, <1>10, <1>11, <1>12, <1>13, <1>14 DEF Next, QuietSteps

LEMMA Invariance ==
    ASSUME Orderly
    PROVE  Spec => []IInv
<1>1. Init => IInv
  BY InitIInv
<1>2. IInv /\ [Next]_vars => IInv'
  BY NextIInv
<1> QED
  BY <1>1, <1>2, PTL DEF Spec

-----------------------------------------------------------------------------
\* The theorems.

\* The types of all the variables; in particular the loop's index, an unsigned
\* number in the code, is never taken below npos.
THEOREM TypeCorrect ==
    ASSUME Orderly
    PROVE  Spec => []TypeOK
<1>1. RoundInv => TypeOK
  BY DEF RoundInv
<1> QED
  BY <1>1, RoundInvariance, PTL

\* m_have_callbacks, which the worker reads without m_callback_mutex, is true
\* exactly when there is a callback (collection_notifier.cpp keeps it up to
\* date in two places, one of them only when no round is under way).
THEOREM HaveExact ==
    ASSUME Orderly
    PROVE  Spec => [](have = (callbacks # <<>>))
<1>1. RoundInv => have = (callbacks # <<>>)
  BY DEF RoundInv, LoopInv
<1> QED
  BY <1>1, RoundInvariance, PTL

\* While callbacks are being called the first m_callback_count of them are those
\* of the package that are still registered, and the loop's index is on one of
\* them or before the first, whoever adds and removes callbacks meanwhile.
THEOREM RoundCorrect ==
    ASSUME Orderly
    PROVE  Spec => []RoundIsPackaged
<1>1. RoundInv => RoundIsPackaged
  BY DEF RoundInv
<1> QED
  BY <1>1, RoundInvariance, PTL

\* Every call tells a callback of exactly what changed since its last call, up
\* to the version the Realm shows, but for what it asked to be spared and what
\* the worker did not surely collect.
THEOREM ToldCorrect ==
    ASSUME Orderly
    PROVE  Spec => ToldExactly
<1> DEFINE Exactly ==
      CallOne => \A i \in Positions :
       NextDue(i) /\ callbacks[i].initial =>
         LET c == callbacks[i]
             news == Between(seen[c.token], readVersion)
         IN  c.deliver \ unwatched \subseteq news /\ news \ c.deliver \subseteq Spared(c.token)
<1>1. IInv => Exactly
  <2> SUFFICES ASSUME IInv, CallOne, NEW i \in Positions, NextDue(i), callbacks[i].initial
               PROVE  LET c == callbacks[i]
                          news == Between(seen[c.token], readVersion)
                      IN  /\ c.deliver \ unwatched \subseteq news
                          /\ news \ c.deliver \subseteq Spared(c.token)
    OBVIOUS
  <2>1. Pending(i)
    BY PartsOfIInv, SMTT(30)
    DEF CallOne, NextDue, Due, Last, Pending, Positions, RoundInv, RoundIsPackaged, TypeOK
  <2>2. Covers(callbacks[i].deliver, SeenBy(i), readVersion, unwatched, UnwantedBy(i))
    BY <2>1, PartsOfIInv DEF CallbackInv, ToldInv
  <2> QED
    BY <2>2 DEF Covers, SeenBy, UnwantedBy, Spared
<1>2. IInv /\ [Next]_vars => [Exactly]_vars
  BY <1>1
<1> QED
  BY <1>1, Invariance, PTL DEF ToldExactly

-----------------------------------------------------------------------------
\* Nothing is left untold.

\* Everything that could still call a callback has come to an end: no round is
\* under way, no call of Realm::notify is queued, and the worker sleeps and has
\* not been woken.
AtRest == phase # "telling" /\ ~notified /\ ~wake /\ worker.pc = "asleep"

\* Then every callback that was called before has been told of all there is.
NothingLeftUntold == AtRest => \A t \in Called : Between(seen[t], latest) \subseteq Spared(t)

\* The worker is at the newest version, on its way there, or will be woken.
WakeInv ==
    /\ worker.pc = "asleep" /\ hasRun => version = latest \/ wake
    /\ worker.pc # "asleep" => worker.target = latest \/ wake

\* A callback misses nothing of what the worker has handed over, if it has been
\* called since the package or the round is over; until then it misses nothing
\* after the version the round tells of.
Heard(i) ==
    /\ Pending(i) => Covers({}, readVersion, version, unwatched, UnwantedBy(i))
    /\ ~Pending(i) /\ callbacks[i].initial =>
         Covers({}, SeenBy(i), version, unwatched, UnwantedBy(i))

\* The worker has yet to notify the Realm, or the Realm has yet to look.
NotifyDue == worker.pc # "asleep" \/ notified

RestInv == WakeInv /\ \A i \in Positions : NotifyDue \/ Heard(i)

LEMMA WakeStep ==
    ASSUME IInv, WakeInv, [Next]_vars
    PROVE  WakeInv'
<1>1. ASSUME UNCHANGED <<latest, version, hasRun, worker>>, wake => wake'
      PROVE  WakeInv'
  BY <1>1 DEF WakeInv
<1>2. CASE AddCallback \/ (\E i \in Positions : RemoveCallback(i)) \/ CallOne \/ FinishRound
  BY <1>1, <1>2 DEF AddCallback, RemoveCallback, CallOne, FinishRound, realmVars, workerVars
<1>3. CASE Notify
  BY <1>1, <1>3 DEF Notify, NotifyInVain, NotifyTells, NotifyAdvances, workerVars
<1>4. CASE Waited \/ (\E T \in SUBSET Registered : SuppressNext(T)) \/ UNCHANGED vars
  BY <1>1, <1>4 DEF Waited, SuppressNext, vars, realmVars, workerVars
<1>5. CASE QuietSteps
  <2>1. CASE CommitWrite \/ OtherCommits
    BY <2>1 DEF CommitWrite, OtherCommits, WakeInv
  <2>2. CASE CancelWrite \/ (\E o \in {"refresh", "begin"} : StartWaiting(o))
    BY <1>1, <2>2 DEF CancelWrite, StartWaiting, workerVars
  <2> QED
    BY <1>5, <2>1, <2>2 DEF QuietSteps
<1>6. CASE Work
  <2>0. TypeOK
    BY PartsOfIInv
  <2> USE <2>0, VersionTypes, WorkerFields
  <2>1. CASE WorkerStarts
    BY <2>1 DEF WorkerStarts, realmVars, WakeInv
  <2>2. CASE AddRequiredChangeInfo \/ RunQuery \/ SkipQuery
    BY <2>2 DEF AddRequiredChangeInfo, RunQuery, SkipQuery, realmVars, WakeInv
  <2>3. CASE PrepareHandover
    <3>1. /\ worker.pc = "handover" /\ version' = Goal /\ UNCHANGED <<latest, wake>>
      BY <2>3 DEF PrepareHandover
    <3>2. CASE worker.skip # 0
      BY <2>3, <3>1, <3>2 DEF WakeInv
    <3>3. CASE worker.skip = 0
      BY <2>3, <3>1, <3>3 DEF WakeInv
    <3> QED
      BY <3>2, <3>3
  <2> QED
    BY <1>6, <2>1, <2>2, <2>3 DEF Work
<1> QED
  BY <1>2, <1>3, <1>4, <1>5, <1>6 DEF Next, QuietSteps

LEMMA HeardMoved ==
    ASSUME NEW i, Heard(i), NEW j, callbacks'[j].initial = callbacks[i].initial,
           SeenBy(j)' = SeenBy(i), UnwantedBy(i) \subseteq UnwantedBy(j)',
           Pending(j)' <=> Pending(i), Pending(i) => readVersion' = readVersion,
           UNCHANGED <<version, unwatched>>
    PROVE  Heard(j)'
BY DEF Heard, Covers, Between

\* The callbacks a round passes because there is nothing to tell them.
LEMMA HeardPassed ==
    ASSUME IInv, NEW i \in Positions, phase = "telling", Heard(i),
           callbacks[i].initial, ~Pending(i) \/ ~Due(i)
    PROVE  Covers({}, SeenBy(i), version, unwatched, UnwantedBy(i))
<1>1. CASE ~Pending(i)
  BY <1>1 DEF Heard
<1>2. CASE Pending(i)
  <2>1. /\ TypeOK /\ RoundInv /\ ToldInv(i) /\ ThreadInv /\ callbacks[i].token \in Tokens
        /\ SeenBy(i) \in Nat /\ readVersion \in Nat /\ version \in Nat
    BY PartsOfIInv, CallbackTypes, VersionTypes DEF IInv, CallbackInv, SeenBy
  <2>2. callbacks[i].deliver = {}
    <3>1. index < i /\ i <= Last
      BY <1>2, <2>1 DEF Pending, Last, Positions, RoundInv, TypeOK, RoundIsPackaged
    <3> QED
      BY <1>2, <3>1 DEF Due
  <2>3. /\ Covers({}, SeenBy(i), readVersion, unwatched, UnwantedBy(i))
        /\ Covers({}, readVersion, version, unwatched, UnwantedBy(i))
        /\ SeenBy(i) <= readVersion /\ readVersion <= version
    BY <1>2, <2>1, <2>2 DEF ToldInv, ThreadInv, Heard
  <2>4. Covers({} \cup {}, SeenBy(i), version, unwatched, UnwantedBy(i))
    BY <2>1, <2>3, CoversCompose
  <2>5. {} \cup {} = {}
    OBVIOUS
  <2> QED
    BY <2>4, <2>5
<1> QED
  BY <1>1, <1>2

LEMMA CallOneHeard ==
    ASSUME IInv, \A i \in Positions : Heard(i), CallOne, NEW j \in Positions
    PROVE  Heard(j)'
<1>1. PICK i \in Positions :
         /\ NextDue(i) /\ index' = i
         /\ callbacks' = [callbacks EXCEPT ![i].initial = TRUE, ![i].deliver = {}]
         /\ seen' = [seen EXCEPT ![callbacks[i].token] = readVersion]
  BY DEF CallOne
<1>2. /\ TypeOK /\ RoundInv /\ callbacks[i].token \in Tokens /\ callbacks[j].token \in Tokens
  BY PartsOfIInv, CallbackTypes
<1>3. /\ SameTokens /\ \A k \in Positions : k # i => callbacks'[k] = callbacks[k]
  BY <1>1, <1>2, CalledFields
<1>4. /\ phase = "telling"
      /\ UNCHANGED <<readVersion, phase, version, count, unwanted, unwatched>>
  BY DEF CallOne, realmVars, workerVars
<1>5. CASE j = i
  <2>1. SeenBy(j)' = readVersion /\ UnwantedBy(j)' = UnwantedBy(j)
    BY <1>1, <1>2, <1>3, <1>4, <1>5 DEF SeenBy, UnwantedBy, SameTokens, TypeOK
  <2>2. ~Pending(j)'
    BY <1>1, <1>5 DEF Pending, Positions
  <2>3. Pending(j)
    BY <1>1, <1>2, <1>4, <1>5 DEF NextDue, Due, Last, Pending, RoundInv, RoundIsPackaged, TypeOK
  <2> QED
    BY <1>4, <2>1, <2>2, <2>3 DEF Heard, Covers, Between
<1>6. CASE j # i
  <2>1. callbacks'[j] = callbacks[j] /\ callbacks[j].token # callbacks[i].token
    BY <1>2, <1>3, <1>6 DEF RoundInv, TokensInv
  <2>2. SeenBy(j)' = SeenBy(j) /\ UnwantedBy(j)' = UnwantedBy(j)
    BY <1>1, <1>2, <1>4, <2>1 DEF SeenBy, UnwantedBy, TypeOK
  <2>3. CASE Pending(j)' <=> Pending(j)
    BY <1>4, <2>1, <2>2, <2>3, HeardMoved
  <2>4. CASE ~(Pending(j)' <=> Pending(j))
    <3>1. /\ Pending(j) /\ ~Pending(j)' /\ j < i
      BY <1>1, <1>2, <1>4, <1>6, <2>4
      DEF Pending, NextDue, Due, Positions, RoundInv, RoundIsPackaged, TypeOK
    <3>2. ~Due(j)
      BY <1>1, <3>1 DEF NextDue, Positions
    <3>3. callbacks[j].initial => Covers({}, SeenBy(j), version, unwatched, UnwantedBy(j))
      BY <1>4, <3>2, HeardPassed
    <3> QED
      BY <1>4, <2>1, <2>2, <3>1, <3>3 DEF Heard, Covers, Between
  <2> QED
    BY <2>3, <2>4
<1> QED
  BY <1>5, <1>6

\* What the Realm goes on to tell of is all the worker has handed over.
LEMMA HeardAtStart ==
    ASSUME IInv, NEW j \in Positions, phase # "telling", PackageForDelivery,
           phase' = "telling", readVersion' = version, UNCHANGED <<version, index>>
    PROVE  Heard(j)'
<1>1. TypeOK /\ RoundInv /\ version \in Nat /\ Len(callbacks) \in Nat
  BY PartsOfIInv, VersionTypes, CallbackTypes
<1>2. Pending(j)'
  BY <1>1, PackagedFields DEF Pending, Positions, RoundInv, LoopInv, Npos
<1> QED
  BY <1>1, <1>2, CoversNothing DEF Heard

\* Realm::notify: a notification is used up in vain only by callbacks that are
\* up to date.
LEMMA NotifyHeard ==
    ASSUME IInv, Notify, NEW j \in Positions
    PROVE  Heard(j)'
<1>1. /\ TypeOK /\ ToldInv(j) /\ WriteInv(j) /\ ThreadInv /\ VersionsInv
      /\ readVersion \in Nat /\ version \in Nat /\ latest \in Nat
  BY PartsOfIInv, VersionTypes DEF IInv, CallbackInv
<1>2. CASE NotifyInVain
  <2>1. /\ phase = "idle" /\ ~Pending(j) /\ ~Pending(j)'
        /\ UNCHANGED <<callbacks, seen, unwanted, version, unwatched>>
        /\ \/ stage # "reading"
           \/ latest = readVersion /\ ~(hasRun /\ version = readVersion)
    <3>1. /\ phase = "idle" /\ phase' = phase
          /\ UNCHANGED <<callbacks, seen, unwanted, version, unwatched>>
      BY <1>2 DEF NotifyInVain, workerVars, callbackVars, historyVars
    <3>2. \/ stage # "reading"
          \/ latest = readVersion /\ ~(hasRun /\ version = readVersion)
      BY <1>2 DEF NotifyInVain
    <3> QED
      BY <3>1, <3>2 DEF Pending
  <2>2. callbacks[j].initial => stage # "reading" \/ version < readVersion
    BY <1>1, <2>1 DEF ToldInv, VersionsInv
  <2>3. callbacks[j].initial => Covers({}, SeenBy(j), version, unwatched, UnwantedBy(j))
    BY <1>1, <2>1, <2>2 DEF WriteInv
  <2> QED
    BY <2>1, <2>3 DEF Heard, SeenBy, UnwantedBy, Covers, Between
<1>3. CASE NotifyAdvances
  <2>1. ~hasRun /\ phase' = "idle" /\ callbacks' = callbacks
    BY <1>3 DEF NotifyAdvances, callbackVars
  <2>2. ~callbacks'[j].initial /\ ~Pending(j)'
    BY <1>1, <2>1 DEF ToldInv, Pending
  <2> QED
    BY <2>2 DEF Heard
<1>4. CASE NotifyTells
  <2>1. /\ phase = "idle" /\ stage = "reading" /\ hasRun /\ PackageForDelivery
        /\ UNCHANGED <<version, index, seen, unwanted, unwatched>>
        /\ version >= readVersion => phase' = "telling" /\ readVersion' = version
        /\ ~(version >= readVersion) => phase' = phase
    BY <1>4 DEF NotifyTells, workerVars
  <2>2. CASE version >= readVersion
    BY <2>1, <2>2, HeardAtStart
  <2>3. CASE ~(version >= readVersion)
    <3>1. /\ callbacks'[j].token = callbacks[j].token
          /\ callbacks'[j].initial = callbacks[j].initial
      BY <1>1, <2>1, PackagedFields DEF SameTokens
    <3>2. SeenBy(j)' = SeenBy(j) /\ UnwantedBy(j)' = UnwantedBy(j) /\ ~Pending(j) /\ ~Pending(j)'
      BY <2>1, <2>3, <3>1 DEF SeenBy, UnwantedBy, Pending
    <3>3. callbacks[j].initial => Covers({}, SeenBy(j), version, unwatched, UnwantedBy(j))
      BY <1>1, <2>3, <3>2 DEF WriteInv
    <3> QED
      BY <2>1, <3>1, <3>2, <3>3 DEF Heard, Covers, Between
  <2> QED
    BY <2>2, <2>3
<1> QED
  BY <1>2, <1>3, <1>4 DEF Notify

\* If after a step no notification is due, nobody has missed anything.
LEMMA HeardStep ==
    ASSUME Orderly, IInv, RestInv, [Next]_vars, ~NotifyDue', NEW j \in Positions'
    PROVE  Heard(j)'
<1>1. TypeOK /\ RoundInv
  BY PartsOfIInv
<1>2. CASE Notify
  <2>1. Positions' = Positions
    BY <1>1, <1>2, PackagedFields
    DEF Notify, NotifyInVain, NotifyTells, NotifyAdvances, callbackVars, Positions, SameTokens
  <2> QED
    BY <1>2, <2>1, NotifyHeard
<1>3. CASE Work
  <2>1. NotifyDue'
    BY <1>1, <1>3, WorkerFields
    DEF Work, WorkerStarts, AddRequiredChangeInfo, RunQuery, SkipQuery, PrepareHandover, NotifyDue
  <2> QED
    BY <2>1
<1>4. ASSUME UNCHANGED <<worker, notified>>
      PROVE  \A i \in Positions : Heard(i)
  BY <1>4 DEF RestInv, NotifyDue
<1>5. CASE AddCallback
  <2>1. /\ Len(callbacks) \in Nat /\ Len(callbacks') = Len(callbacks) + 1
        /\ \A i \in Positions : callbacks'[i] = callbacks[i]
        /\ ~callbacks'[Len(callbacks) + 1].initial
    BY <1>1, <1>5, AddCallbackKeeps, CallbackTypes
  <2>2. UNCHANGED <<readVersion, worker, notified, version, phase, index, count, seen, unwanted,
                    unwatched>>
    BY <1>5 DEF AddCallback, realmVars, historyVars
  <2>3. CASE j \in Positions
    <3>1. callbacks'[j] = callbacks[j] /\ Heard(j)
      BY <1>4, <2>1, <2>2, <2>3
    <3>2. /\ SeenBy(j)' = SeenBy(j) /\ UnwantedBy(j)' = UnwantedBy(j)
          /\ Pending(j)' <=> Pending(j)
      BY <2>2, <3>1 DEF SeenBy, UnwantedBy, Pending
    <3> QED
      BY <2>2, <3>1, <3>2, HeardMoved
  <2>4. CASE j = Len(callbacks) + 1
    <3>1. ~Pending(j)'
      BY <1>1, <2>1, <2>2, <2>4 DEF Pending, RoundInv, RoundIsPackaged, TypeOK
    <3> QED
      BY <2>1, <2>4, <3>1 DEF Heard
  <2> QED
    BY <2>1, <2>3, <2>4 DEF Positions
<1>6. ASSUME NEW i \in Positions, RemoveCallback(i)
      PROVE  Heard(j)'
  <2> DEFINE k == Before(i, j)
  <2>1. /\ k \in Positions /\ callbacks'[j] = callbacks[k]
        /\ SeenBy(j)' = SeenBy(k) /\ UnwantedBy(j)' = UnwantedBy(k)
        /\ Pending(j)' <=> Pending(k)
    BY <1>6, CallbackRemoved
  <2>2. UNCHANGED <<readVersion, worker, notified, version, unwatched>>
    BY <1>6 DEF RemoveCallback, realmVars, workerVars
  <2>3. Heard(k)
    BY <1>4, <2>1, <2>2
  <2> HIDE DEF k
  <2> QED
    BY <2>1, <2>2, <2>3, HeardMoved
<1>7. CASE CallOne
  <2>1. Positions' = Positions
    BY <1>1, <1>7, CalledFields DEF CallOne, SameTokens, Positions
  <2>2. UNCHANGED <<worker, notified>>
    BY <1>7 DEF CallOne, realmVars, workerVars
  <2> QED
    BY <1>4, <1>7, <2>1, <2>2, CallOneHeard
<1>8. CASE FinishRound
  <2>1. /\ phase = "telling" /\ phase' # "telling" /\ ~Due(j)
        /\ UNCHANGED <<worker, notified, version, callbacks, seen, unwanted, unwatched>>
        /\ j \in Positions
    BY <1>8 DEF FinishRound, workerVars, historyVars, Positions
  <2>2. callbacks[j].initial => Covers({}, SeenBy(j), version, unwatched, UnwantedBy(j))
    BY <1>4, <2>1, HeardPassed
  <2>3. ~Pending(j)'
    BY <2>1 DEF Pending
  <2> QED
    BY <2>1, <2>2, <2>3 DEF Heard, SeenBy, UnwantedBy, Covers, Between
<1>9. CASE Waited
  <2>1. Positions' = Positions
    BY <1>1, <1>9, PackagedFields DEF Waited, Positions, SameTokens
  <2>2. have
    <3>1. callbacks # <<>>
      BY <1>1, <2>1 DEF Positions, TypeOK
    <3> QED
      BY <1>1, <3>1 DEF RoundInv, LoopInv
  <2>3. /\ phase = "waiting" /\ hasRun /\ version >= target
        /\ UNCHANGED <<version, index>>
    BY <1>9, <2>2 DEF Waited, Ready, workerVars
  <2>4. PackageForDelivery /\ phase' = "telling" /\ readVersion' = version
    BY <1>9, <2>3 DEF Waited
  <2> QED
    BY <2>1, <2>3, <2>4, HeardAtStart
<1>10. CASE QuietSteps \/ UNCHANGED vars
  <2>1. /\ UNCHANGED <<worker, notified, version, callbacks, index, count, seen, unwanted, unwatched>>
        /\ phase' = "telling" <=> phase = "telling"
        /\ phase = "telling" => readVersion' = readVersion
    BY <1>10 DEF QuietSteps, StartWaiting, CommitWrite, CancelWrite, OtherCommits, vars, realmVars,
                 workerVars, callbackVars, historyVars
  <2>2. /\ j \in Positions /\ SeenBy(j)' = SeenBy(j) /\ UnwantedBy(j)' = UnwantedBy(j)
        /\ Pending(j)' <=> Pending(j)
        /\ Pending(j) => phase = "telling"
    BY <2>1 DEF Positions, SeenBy, UnwantedBy, Pending
  <2> QED
    BY <1>4, <2>1, <2>2, HeardMoved
<1>11. ASSUME NEW T \in SUBSET Registered, SuppressNext(T)
       PROVE  Heard(j)'
  <2>1. /\ phase = "idle" /\ phase' = "idle"
        /\ UNCHANGED <<worker, notified, version, seen, unwatched>>
    BY <1>11 DEF SuppressNext, workerVars
  <2>2. SameTokens /\ \A i \in Positions : callbacks'[i].initial = callbacks[i].initial
    BY <1>1, <1>11, SuppressedFields
  <2>3. j \in Positions /\ callbacks'[j].token = callbacks[j].token /\ callbacks[j].token \in Tokens
    BY <1>1, <2>2, CallbackTypes DEF SameTokens, Positions
  <2>4. /\ SeenBy(j)' = SeenBy(j) /\ UnwantedBy(j) \subseteq UnwantedBy(j)'
        /\ ~Pending(j) /\ ~Pending(j)'
    BY <1>11, <2>1, <2>3 DEF SeenBy, UnwantedBy, Pending, SuppressNext
  <2> QED
    BY <1>4, <2>1, <2>2, <2>3, <2>4, HeardMoved
<1> QED
  BY <1>2, <1>3, <1>5, <1>6, <1>7, <1>8, <1>9, <1>10, <1>11 DEF Next, QuietSteps

LEMMA RestInvariance ==
    ASSUME Orderly
    PROVE  Spec => []RestInv
<1>1. Init => RestInv
  BY DEF Init, RestInv, WakeInv, Positions
<1>2. IInv /\ RestInv /\ [Next]_vars => RestInv'
  BY WakeStep, HeardStep DEF RestInv
<1> QED
  BY Invariance, <1>1, <1>2, PTL DEF Spec

\* When everything has come to rest, no callback that was ever called is behind:
\* no notification is used up too early and no wake-up of the worker is lost,
\* however commits, waits, writes and callbacks interleave.
THEOREM RestCorrect ==
    ASSUME Orderly
    PROVE  Spec => []NothingLeftUntold
<1>1. IInv /\ RestInv => NothingLeftUntold
  <2> SUFFICES ASSUME IInv, RestInv, AtRest, NEW i \in Positions, callbacks[i].initial
               PROVE  Between(SeenBy(i), latest) \subseteq Spared(callbacks[i].token)
    BY DEF NothingLeftUntold, Called, SeenBy
  <2>1. hasRun /\ ~Pending(i)
    BY DEF IInv, CallbackInv, ToldInv, AtRest, Pending
  <2>2. version = latest
    BY <2>1 DEF RestInv, WakeInv, AtRest
  <2>3. Covers({}, SeenBy(i), version, unwatched, UnwantedBy(i))
    BY <2>1 DEF RestInv, NotifyDue, AtRest, Heard
  <2> QED
    BY <2>2, <2>3 DEF Covers, Spared, UnwantedBy
<1> QED
  BY Invariance, RestInvariance, <1>1, PTL
===============================================================================
