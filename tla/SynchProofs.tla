---------------------------- MODULE SynchProofs -----------------------------
(***************************************************************************)
(* For any set of threads: no KASSERT of the lock fails, the wait channels *)
(* are exact, no wakeup of the lock is lost, and the lock with its         *)
(* condition variable implements a Mesa monitor.                           *)
(*                                                                         *)
(* The invariant IInv adds to the properties who holds the lock and the    *)
(* spinlock of the condition variable: the refinement needs that the       *)
(* thread between lock_release and its sleep in cv_wait is the one that    *)
(* holds cv_wchanlock, so that no signal falls in between.                 *)
(***************************************************************************)
EXTENDS Synch, TLAPS

HolderExact == \A t \in Thread : where[t] \in {"in", "cv_wait"} <=> lk_holder = t
WchanlockExact == \A t \in Thread : where[t] \in {"cv_wait", "released"} <=> cv_wchanlock = t

IInv ==
    /\ LTypeOK /\ status = "ok"
    /\ HolderExact /\ WchanlockExact /\ ChannelsExact /\ LockNotForgotten

-----------------------------------------------------------------------------
(* A thread that goes to sleep is added at the end of the channel.         *)
LEMMA ListsAppend ==
    ASSUME NEW w \in Seq(Thread), NEW S, NEW t \in Thread, t \notin S, Lists(w, S)
    PROVE  Append(w, t) \in Seq(Thread) /\ Lists(Append(w, t), S \cup {t})
<1> DEFINE v == Append(w, t)
<1>1. /\ v \in Seq(Thread) /\ Len(v) = Len(w) + 1 /\ Len(w) \in Nat
      /\ v[Len(w) + 1] = t
      /\ \A k \in 1 .. Len(w) : v[k] = w[k]
  OBVIOUS
<1>2. \A k \in 1 .. Len(w) : w[k] # t
  BY DEF Lists
<1> HIDE DEF v
<1>3. ASSUME NEW u \in Thread
      PROVE  u \in S \cup {t} <=> \E k \in 1 .. Len(v) : v[k] = u
  <2>1. CASE u = t
    BY <1>1, <2>1
  <2>2. CASE u # t
    <3>1. (\E k \in 1 .. Len(v) : v[k] = u) <=> (\E k \in 1 .. Len(w) : w[k] = u)
      BY <1>1, <2>2
    <3> QED BY <2>2, <3>1 DEF Lists
  <2> QED BY <2>1, <2>2
<1>4. ASSUME NEW j \in 1 .. Len(v), NEW k \in 1 .. Len(v), v[j] = v[k]
      PROVE  j = k
  BY <1>4, <1>1, <1>2 DEF Lists
<1>5. Lists(v, S \cup {t})
  BY <1>3, <1>4 DEF Lists
<1> QED BY <1>1, <1>5 DEF v

(* wchan_wakeone takes the thread that has slept longest off the channel.  *)
LEMMA ListsTail ==
    ASSUME NEW w \in Seq(Thread), NEW S, w # <<>>, Lists(w, S)
    PROVE  /\ Head(w) \in Thread /\ Head(w) \in S
           /\ Tail(w) \in Seq(Thread) /\ Lists(Tail(w), S \ {Head(w)})
<1> DEFINE v == Tail(w)
           h == Head(w)
<1>1. /\ h \in Thread /\ h = w[1] /\ v \in Seq(Thread)
      /\ Len(w) \in Nat /\ Len(w) >= 1 /\ Len(v) = Len(w) - 1
      /\ \A k \in 1 .. Len(w) - 1 : v[k] = w[k + 1]
  OBVIOUS
<1> HIDE DEF v, h
<1>2. h \in S
  BY <1>1 DEF Lists
<1>3. ASSUME NEW u \in Thread
      PROVE  u \in S \ {h} <=> \E k \in 1 .. Len(v) : v[k] = u
  <2>1. CASE u = h
    <3>1. \A k \in 1 .. Len(v) : v[k] # h
      BY <1>1 DEF Lists
    <3> QED BY <2>1, <3>1
  <2>2. CASE u # h
    <3>1. ASSUME NEW k \in 1 .. Len(w), w[k] = u
          PROVE  \E i \in 1 .. Len(v) : v[i] = u
      <4>1. k # 1 /\ k - 1 \in 1 .. Len(v)
        BY <3>1, <2>2, <1>1
      <4>2. v[k - 1] = w[(k - 1) + 1] /\ (k - 1) + 1 = k
        BY <4>1, <1>1
      <4> QED BY <3>1, <4>1, <4>2
    <3>2. ASSUME NEW k \in 1 .. Len(v), v[k] = u
          PROVE  \E i \in 1 .. Len(w) : w[i] = u
      BY <3>2, <1>1
    <3> QED BY <2>2, <3>1, <3>2 DEF Lists
  <2> QED BY <2>1, <2>2
<1>4. ASSUME NEW j \in 1 .. Len(v), NEW k \in 1 .. Len(v), v[j] = v[k]
      PROVE  j = k
  <2>1. /\ j + 1 \in 1 .. Len(w) /\ k + 1 \in 1 .. Len(w)
        /\ w[j + 1] = w[k + 1]
    BY <1>4, <1>1
  <2> QED BY <2>1, <1>1 DEF Lists
<1>5. Lists(v, S \ {h})
  BY <1>3, <1>4 DEF Lists
<1> QED BY <1>1, <1>2, <1>5 DEF v, h

(* An empty channel, and who is on one.                                    *)
LEMMA ListsEmpty == Lists(<<>>, {})
BY DEF Lists

LEMMA ListsRange ==
    ASSUME NEW w \in Seq(Thread), NEW S, Lists(w, S), NEW t \in Thread
    PROVE  t \in Range(w) <=> t \in S
BY DEF Lists, Range

-----------------------------------------------------------------------------
LEMMA InitInv == ASSUME NULL \notin Thread PROVE LInit => IInv
<1> SUFFICES ASSUME LInit PROVE IInv
  OBVIOUS
<1>1. LockSleepers = {} /\ CvSleepers = {}
  BY DEF LInit, LockSleepers, CvSleepers
<1>2. ChannelsExact
  BY <1>1, ListsEmpty DEF LInit, ChannelsExact
<1>3. LTypeOK
  BY DEF LInit, LTypeOK, Location
<1>4. HolderExact /\ WchanlockExact
  BY DEF LInit, HolderExact, WchanlockExact
<1> QED BY <1>2, <1>3, <1>4 DEF LInit, IInv, LockNotForgotten

(* lock_release, from "in" or within cv_wait: the assertion on the holder  *)
(* holds, and the sleeper that is woken is on its way to the lock.         *)
LEMMA ReleaseInv ==
    ASSUME NULL \notin Thread, IInv, NEW t \in Thread,
           NEW from, NEW to, LockRelease(t, from, to),
           \/ from = "in" /\ to = "out"
           \/ from = "cv_wait" /\ to = "released"
    PROVE  /\ IInv'
           /\ lk_holder = t /\ lk_holder' = NULL
           /\ where[t] = from /\ where'[t] = to
<1> USE DEF IInv
<1>1. lk_holder = t /\ where[t] = from
  BY DEF LockRelease, HolderExact
<1>2. /\ lk_holder' = NULL
      /\ lk_wchan' = wchan_wakeone(lk_wchan)
      /\ where' = Woken([where EXCEPT ![t] = to], lk_wchan, "acquire")
      /\ status' = "ok"
      /\ cv_wchan' = cv_wchan /\ cv_wchanlock' = cv_wchanlock
  BY <1>1 DEF LockRelease
<1>3. CASE lk_wchan = <<>>
  <2>1. where' = [where EXCEPT ![t] = to] /\ lk_wchan' = lk_wchan
    BY <1>2, <1>3 DEF Woken, wchan_wakeone
  <2>2. LTypeOK'
    BY <1>2, <2>1 DEF LTypeOK, Location
  <2>3. LockSleepers' = LockSleepers /\ CvSleepers' = CvSleepers
    BY <1>1, <2>1 DEF LTypeOK, LockSleepers, CvSleepers
  <2>4. ChannelsExact'
    BY <1>2, <2>1, <2>3 DEF ChannelsExact, Lists
  <2>5. HolderExact' /\ WchanlockExact'
    BY <1>1, <1>2, <2>1 DEF LTypeOK, HolderExact, WchanlockExact
  <2> QED BY <1>1, <1>2, <1>3, <2>1, <2>2, <2>4, <2>5 DEF LockNotForgotten, LTypeOK
<1>4. CASE lk_wchan # <<>>
  <2> DEFINE h == Head(lk_wchan)
  <2>1. /\ h \in Thread /\ h \in LockSleepers
        /\ Tail(lk_wchan) \in Seq(Thread)
        /\ Lists(Tail(lk_wchan), LockSleepers \ {h})
    BY <1>4, ListsTail DEF LTypeOK, ChannelsExact
  <2>2. where[h] = "lock_sleep" /\ h # t
    BY <1>1, <2>1 DEF LockSleepers
  <2>3. where' = [[where EXCEPT ![t] = to] EXCEPT ![h] = "acquire"]
        /\ lk_wchan' = Tail(lk_wchan)
    BY <1>2, <1>4 DEF Woken, wchan_wakeone
  <2> HIDE DEF h
  <2>4. /\ where' \in [Thread -> Location] /\ where'[t] = to /\ where'[h] = "acquire"
        /\ \A u \in Thread : u # t /\ u # h => where'[u] = where[u]
    BY <2>1, <2>2, <2>3 DEF LTypeOK, Location
  <2>5. LTypeOK'
    BY <1>2, <2>1, <2>3, <2>4 DEF LTypeOK
  <2>6. LockSleepers' = LockSleepers \ {h} /\ CvSleepers' = CvSleepers
    BY <1>1, <2>1, <2>2, <2>4 DEF LockSleepers, CvSleepers
  <2>7. ChannelsExact'
    BY <1>2, <2>1, <2>3, <2>6 DEF ChannelsExact, Lists
  <2>8. HolderExact' /\ WchanlockExact'
    BY <1>1, <1>2, <2>1, <2>2, <2>4 DEF LTypeOK, HolderExact, WchanlockExact
  <2> QED BY <1>1, <1>2, <2>1, <2>4, <2>5, <2>7, <2>8 DEF LockNotForgotten
<1> QED BY <1>3, <1>4

(* A thread that is off the channels comes to lock_acquire.                *)
LEMMA MoveInv ==
    ASSUME IInv, NEW t \in Thread, where[t] \in {"out", "cv_woken"}, Goto(t, "acquire"),
           UNCHANGED <<lk_holder, lk_wchan, cv_wchan, cv_wchanlock, status>>
    PROVE  IInv'
<1> USE DEF IInv
<1>1. where' = [where EXCEPT ![t] = "acquire"]
  BY DEF Goto
<1>2. LTypeOK'
  BY <1>1 DEF LTypeOK, Location
<1>3. LockSleepers' = LockSleepers /\ CvSleepers' = CvSleepers
  BY <1>1 DEF LTypeOK, LockSleepers, CvSleepers
<1>4. ChannelsExact'
  BY <1>3 DEF ChannelsExact, Lists
<1>5. HolderExact' /\ WchanlockExact'
  BY <1>1 DEF LTypeOK, HolderExact, WchanlockExact
<1>6. LockNotForgotten'
  BY <1>1 DEF LTypeOK, LockNotForgotten
<1> QED BY <1>2, <1>4, <1>5, <1>6

(* Nothing changes. *)
LEMMA StutterInv == ASSUME IInv, UNCHANGED lvars PROVE IInv'
BY DEF IInv, lvars, LTypeOK, HolderExact, WchanlockExact, ChannelsExact, Lists,
       LockSleepers, CvSleepers, LockNotForgotten

LEMMA StepInv == ASSUME NULL \notin Thread, IInv, [LNext]_lvars PROVE IInv'
<1> USE DEF IInv
<1>1. ASSUME NEW t \in Thread, call_acquire(t) \/ cv_wait_return(t) PROVE IInv'
  BY <1>1, MoveInv DEF call_acquire, cv_wait_return
<1>2. ASSUME NEW t \in Thread, lock_acquire(t) PROVE IInv'
  <2>1. where[t] = "acquire" /\ lk_holder # t
    BY <1>2 DEF lock_acquire, HolderExact
  <2>2. status' = "ok" /\ cv_wchan' = cv_wchan /\ cv_wchanlock' = cv_wchanlock
    BY <1>2, <2>1 DEF lock_acquire
  <2>3. CASE lk_holder = NULL
    <3>1. lk_holder' = t /\ where' = [where EXCEPT ![t] = "in"] /\ lk_wchan' = lk_wchan
      BY <1>2, <2>1, <2>3 DEF lock_acquire, Goto
    <3>2. LTypeOK'
      BY <2>2, <3>1 DEF LTypeOK, Location
    <3>3. LockSleepers' = LockSleepers /\ CvSleepers' = CvSleepers
      BY <2>1, <3>1 DEF LTypeOK, LockSleepers, CvSleepers
    <3>4. ChannelsExact'
      BY <2>2, <3>1, <3>3 DEF ChannelsExact, Lists
    <3>5. HolderExact' /\ WchanlockExact'
      BY <2>1, <2>2, <2>3, <3>1 DEF LTypeOK, HolderExact, WchanlockExact
    <3> QED BY <2>2, <3>1, <3>2, <3>4, <3>5 DEF LockNotForgotten
  <2>4. CASE lk_holder # NULL
    <3>1. /\ lk_wchan' = Append(lk_wchan, t)
          /\ where' = [where EXCEPT ![t] = "lock_sleep"] /\ lk_holder' = lk_holder
      BY <1>2, <2>1, <2>4 DEF lock_acquire, Goto
    <3>2. LockSleepers' = LockSleepers \cup {t} /\ CvSleepers' = CvSleepers
          /\ t \notin LockSleepers
      BY <2>1, <3>1 DEF LTypeOK, LockSleepers, CvSleepers
    <3>3. lk_wchan' \in Seq(Thread) /\ Lists(lk_wchan', LockSleepers')
      BY <3>1, <3>2, ListsAppend DEF LTypeOK, ChannelsExact
    <3>4. LTypeOK'
      BY <2>2, <3>1, <3>3 DEF LTypeOK, Location
    <3>5. ChannelsExact'
      BY <2>2, <3>2, <3>3 DEF ChannelsExact, Lists
    <3>6. HolderExact' /\ WchanlockExact'
      BY <2>1, <2>2, <3>1 DEF LTypeOK, HolderExact, WchanlockExact
    <3> QED BY <2>2, <2>4, <3>1, <3>4, <3>5, <3>6 DEF LockNotForgotten
  <2> QED BY <2>3, <2>4
<1>3. ASSUME NEW t \in Thread, lock_release(t) \/ cv_wait_release(t) PROVE IInv'
  BY <1>3, ReleaseInv DEF lock_release, cv_wait_release
<1>4. ASSUME NEW t \in Thread, cv_wait(t) PROVE IInv'
  <2>1. /\ where[t] = "in" /\ cv_wchanlock = NULL /\ cv_wchanlock' = t
        /\ where' = [where EXCEPT ![t] = "cv_wait"] /\ status' = "ok"
        /\ UNCHANGED <<lk_holder, lk_wchan, cv_wchan>>
    BY <1>4 DEF cv_wait, Goto
  <2>2. LTypeOK'
    BY <2>1 DEF LTypeOK, Location
  <2>3. LockSleepers' = LockSleepers /\ CvSleepers' = CvSleepers
    BY <2>1 DEF LTypeOK, LockSleepers, CvSleepers
  <2>4. ChannelsExact'
    BY <2>1, <2>3 DEF ChannelsExact, Lists
  <2>5. HolderExact' /\ WchanlockExact'
    BY <2>1 DEF LTypeOK, HolderExact, WchanlockExact
  <2>6. LockNotForgotten'
    BY <2>1 DEF LTypeOK, LockNotForgotten, HolderExact
  <2> QED BY <2>1, <2>2, <2>4, <2>5, <2>6
<1>5. ASSUME NEW t \in Thread, cv_wait_sleep(t) PROVE IInv'
  <2>1. /\ where[t] = "released" /\ cv_wchanlock' = NULL /\ cv_wchan' = Append(cv_wchan, t)
        /\ where' = [where EXCEPT ![t] = "cv_sleep"] /\ status' = "ok"
        /\ UNCHANGED <<lk_holder, lk_wchan>>
    BY <1>5 DEF cv_wait_sleep, Goto
  <2>2. LockSleepers' = LockSleepers /\ CvSleepers' = CvSleepers \cup {t}
        /\ t \notin CvSleepers
    BY <2>1 DEF LTypeOK, LockSleepers, CvSleepers
  <2>3. cv_wchan' \in Seq(Thread) /\ Lists(cv_wchan', CvSleepers')
    BY <2>1, <2>2, ListsAppend DEF LTypeOK, ChannelsExact
  <2>4. LTypeOK'
    BY <2>1, <2>3 DEF LTypeOK, Location
  <2>5. ChannelsExact'
    BY <2>1, <2>2, <2>3 DEF ChannelsExact, Lists
  <2>6. HolderExact' /\ WchanlockExact'
    BY <2>1 DEF LTypeOK, HolderExact, WchanlockExact
  <2>7. LockNotForgotten'
    BY <2>1 DEF LTypeOK, LockNotForgotten
  <2> QED BY <2>1, <2>4, <2>5, <2>6, <2>7
<1>6. ASSUME NEW t \in Thread, cv_signal(t) PROVE IInv'
  <2>1. /\ cv_wchan' = wchan_wakeone(cv_wchan)
        /\ where' = Woken(where, cv_wchan, "cv_woken") /\ status' = "ok"
        /\ UNCHANGED <<lk_holder, lk_wchan, cv_wchanlock>>
    BY <1>6 DEF cv_signal
  <2>2. CASE cv_wchan = <<>>
    <3>1. UNCHANGED lvars
      BY <2>1, <2>2 DEF wchan_wakeone, Woken, lvars
    <3> QED BY <3>1, StutterInv
  <2>3. CASE cv_wchan # <<>>
    <3> DEFINE h == Head(cv_wchan)
    <3>1. /\ h \in Thread /\ h \in CvSleepers
          /\ Tail(cv_wchan) \in Seq(Thread)
          /\ Lists(Tail(cv_wchan), CvSleepers \ {h})
      BY <2>3, ListsTail DEF LTypeOK, ChannelsExact
    <3>2. cv_wchan' = Tail(cv_wchan) /\ where' = [where EXCEPT ![h] = "cv_woken"]
      BY <2>1, <2>3 DEF wchan_wakeone, Woken
    <3>3. where[h] = "cv_sleep"
      BY <3>1 DEF CvSleepers
    <3> HIDE DEF h
    <3>4. LTypeOK'
      BY <2>1, <3>1, <3>2 DEF LTypeOK, Location
    <3>5. LockSleepers' = LockSleepers /\ CvSleepers' = CvSleepers \ {h}
      BY <3>1, <3>2, <3>3 DEF LTypeOK, LockSleepers, CvSleepers
    <3>6. ChannelsExact'
      BY <2>1, <3>1, <3>2, <3>5 DEF ChannelsExact, Lists
    <3>7. HolderExact' /\ WchanlockExact'
      BY <2>1, <3>1, <3>2, <3>3 DEF LTypeOK, HolderExact, WchanlockExact
    <3>8. LockNotForgotten'
      BY <2>1, <3>1, <3>2, <3>3 DEF LTypeOK, LockNotForgotten
    <3> QED BY <2>1, <3>4, <3>6, <3>7, <3>8
  <2> QED BY <2>2, <2>3
<1>7. ASSUME NEW t \in Thread, cv_broadcast(t) PROVE IInv'
  <2>1. /\ cv_wchan' = <<>> /\ status' = "ok"
        /\ where' = [u \in Thread |-> IF u \in Range(cv_wchan) THEN "cv_woken" ELSE where[u]]
        /\ UNCHANGED <<lk_holder, lk_wchan, cv_wchanlock>>
    BY <1>7 DEF cv_broadcast
  <2>2. \A u \in Thread : u \in Range(cv_wchan) <=> where[u] = "cv_sleep"
    BY ListsRange DEF LTypeOK, ChannelsExact, CvSleepers
  <2>3. \A u \in Thread : where'[u] = IF where[u] = "cv_sleep" THEN "cv_woken" ELSE where[u]
    BY <2>1, <2>2
  <2>4. where' \in [Thread -> Location]
    BY <2>1 DEF LTypeOK, Location
  <2>5. LTypeOK'
    BY <2>1, <2>4 DEF LTypeOK
  <2>6. LockSleepers' = LockSleepers /\ CvSleepers' = {}
    BY <2>3 DEF LockSleepers, CvSleepers
  <2>7. ChannelsExact'
    BY <2>1, <2>6, ListsEmpty DEF ChannelsExact, Lists
  <2>8. HolderExact' /\ WchanlockExact'
    BY <2>1, <2>3 DEF HolderExact, WchanlockExact
  <2>9. LockNotForgotten'
    BY <2>1, <2>3 DEF LockNotForgotten
  <2> QED BY <2>1, <2>5, <2>7, <2>8, <2>9
<1>8. CASE UNCHANGED lvars
  BY <1>8, StutterInv
<1> QED BY <1>1, <1>2, <1>3, <1>4, <1>5, <1>6, <1>7, <1>8 DEF LNext

(* The invariant holds in every state of the lock and the condition        *)
(* variable; with it no KASSERT of lock_acquire or lock_release fails.     *)
THEOREM Invariance == ASSUME NULL \notin Thread PROVE LSpec => []IInv
<1>1. LInit => IInv BY InitInv
<1>2. IInv /\ [LNext]_lvars => IInv' BY StepInv
<1> QED BY <1>1, <1>2, PTL DEF LSpec

(* When the lock is free and threads sleep in lock_acquire, one is on its  *)
(* way to take it: lock_release never leaves the sleepers behind.          *)
THEOREM LockNotForgottenCorrect ==
    ASSUME NULL \notin Thread PROVE LSpec => []LockNotForgotten
<1>1. IInv => LockNotForgotten BY DEF IInv
<1> QED BY <1>1, Invariance, PTL

(* The channels of lock_acquire and cv_wait hold their sleepers, once each. *)
THEOREM ChannelsCorrect == ASSUME NULL \notin Thread PROVE LSpec => []ChannelsExact
<1>1. IInv => ChannelsExact BY DEF IInv
<1> QED BY <1>1, Invariance, PTL

(* Waiting, lock_release and sleeping in cv_wait, as the user of the       *)
(* monitor sees them.                                                      *)
LEMMA WaitingOf ==
    ASSUME NULL \notin Thread, IInv
    PROVE  /\ \A t \in Thread : where[t] = "released" => Waiting = Append(cv_wchan, t)
           /\ (\A t \in Thread : where[t] # "released") => Waiting = cv_wchan
<1>1. ASSUME NEW t \in Thread, where[t] = "released" PROVE Waiting = Append(cv_wchan, t)
  BY <1>1 DEF IInv, WchanlockExact, Waiting
<1>2. ASSUME \A t \in Thread : where[t] # "released" PROVE Waiting = cv_wchan
  BY <1>2 DEF IInv, LTypeOK, Waiting
<1> QED BY <1>1, <1>2

(* A step that leaves the channel and who is "released" alone leaves the   *)
(* queue of the monitor alone.                                             *)
LEMMA WaitingSame ==
    ASSUME NULL \notin Thread, IInv, IInv', cv_wchan' = cv_wchan,
           \A t \in Thread : where'[t] = "released" <=> where[t] = "released"
    PROVE  Waiting' = Waiting
<1>1. ASSUME NEW t \in Thread, where[t] = "released" PROVE Waiting' = Waiting
  <2>1. cv_wchanlock = t /\ cv_wchanlock' = t /\ where'[t] = "released"
    BY <1>1 DEF IInv, WchanlockExact
  <2> QED BY <1>1, <2>1 DEF Waiting
<1>2. ASSUME \A t \in Thread : where[t] # "released" PROVE Waiting' = Waiting
  BY <1>2 DEF IInv, LTypeOK, Waiting
<1> QED BY <1>1, <1>2

(* The lock with its condition variable is a Mesa monitor: what cv_wait    *)
(* does in three steps is one atomic wait.                                 *)
THEOREM MesaRefinement == ASSUME NULL \notin Thread PROVE LSpec => RefinesMesa
<1>1. LInit => Monitor!MInit
  BY DEF LInit, Monitor!MInit, Waiting
<1>2. ASSUME IInv, IInv', [LNext]_lvars PROVE [Monitor!MNext]_(Monitor!mvars)
  <2> USE <1>2 DEF Monitor!MNext, Monitor!mvars
  <2>0. where \in [Thread -> Location]
    BY DEF IInv, LTypeOK
  <2>1. ASSUME NEW t \in Thread, call_acquire(t) \/ cv_wait_return(t)
        PROVE  UNCHANGED Monitor!mvars
    <3>1. /\ where[t] # "released" /\ where' = [where EXCEPT ![t] = "acquire"]
          /\ cv_wchan' = cv_wchan /\ lk_holder' = lk_holder
      BY <2>1 DEF call_acquire, cv_wait_return, Goto
    <3> QED BY <2>0, <3>1, WaitingSame
  <2>2. ASSUME NEW t \in Thread, lock_acquire(t)
        PROVE  Monitor!Acquire(t) \/ UNCHANGED Monitor!mvars
    <3>1. where[t] = "acquire" /\ lk_holder # t
      BY <2>2 DEF lock_acquire, IInv, HolderExact
    <3>2. /\ cv_wchan' = cv_wchan
          /\ \/ lk_holder = NULL /\ lk_holder' = t /\ where' = [where EXCEPT ![t] = "in"]
             \/ lk_holder' = lk_holder /\ where' = [where EXCEPT ![t] = "lock_sleep"]
      BY <2>2, <3>1 DEF lock_acquire, Goto
    <3>3. Waiting' = Waiting
      BY <2>0, <3>1, <3>2, WaitingSame
    <3> QED BY <3>2, <3>3 DEF Monitor!Acquire
  <2>3. ASSUME NEW t \in Thread, lock_release(t) PROVE Monitor!Release(t)
    <3>1. lk_holder = t /\ lk_holder' = NULL /\ where[t] = "in" /\ where'[t] = "out"
      BY <2>3, ReleaseInv DEF lock_release
    <3>2. cv_wchan' = cv_wchan /\ cv_wchanlock' = cv_wchanlock
      BY <2>3 DEF lock_release, LockRelease
    <3>3. \A u \in Thread : where'[u] = "released" <=> where[u] = "released"
      BY <3>1, <3>2 DEF IInv, WchanlockExact, HolderExact
    <3>4. Waiting' = Waiting
      BY <3>2, <3>3, WaitingSame
    <3> QED BY <3>1, <3>4 DEF Monitor!Release
  <2>4. ASSUME NEW t \in Thread, cv_wait(t) PROVE UNCHANGED Monitor!mvars
    <3>1. /\ where[t] = "in" /\ where' = [where EXCEPT ![t] = "cv_wait"]
          /\ cv_wchan' = cv_wchan /\ lk_holder' = lk_holder
      BY <2>4 DEF cv_wait, Goto
    <3> QED BY <2>0, <3>1, WaitingSame
  <2>5. ASSUME NEW t \in Thread, cv_wait_release(t) PROVE Monitor!Wait(t)
    <3>1. lk_holder = t /\ lk_holder' = NULL /\ where[t] = "cv_wait" /\ where'[t] = "released"
      BY <2>5, ReleaseInv DEF cv_wait_release
    <3>2. cv_wchan' = cv_wchan
      BY <2>5 DEF cv_wait_release, LockRelease
    <3>3. Waiting = cv_wchan /\ Waiting' = Append(cv_wchan', t)
      BY <3>1 DEF IInv, WchanlockExact, Waiting
    <3> QED BY <3>1, <3>2, <3>3 DEF Monitor!Wait
  <2>6. ASSUME NEW t \in Thread, cv_wait_sleep(t) PROVE UNCHANGED Monitor!mvars
    <3>1. /\ where[t] = "released" /\ cv_wchanlock' = NULL
          /\ cv_wchan' = Append(cv_wchan, t) /\ lk_holder' = lk_holder
      BY <2>6 DEF cv_wait_sleep
    <3>2. Waiting = Append(cv_wchan, t)
      BY <3>1, WaitingOf
    <3>3. Waiting' = cv_wchan'
      BY <3>1 DEF Waiting
    <3> QED BY <3>1, <3>2, <3>3
  <2>7. ASSUME NEW t \in Thread, cv_signal(t)
        PROVE  Monitor!Signal \/ UNCHANGED Monitor!mvars
    <3>1. /\ cv_wchanlock = NULL /\ cv_wchanlock' = NULL /\ lk_holder' = lk_holder
          /\ cv_wchan' = wchan_wakeone(cv_wchan)
      BY <2>7 DEF cv_signal
    <3>2. Waiting = cv_wchan /\ Waiting' = cv_wchan'
      BY <3>1 DEF Waiting
    <3> QED BY <3>1, <3>2 DEF Monitor!Signal, wchan_wakeone
  <2>8. ASSUME NEW t \in Thread, cv_broadcast(t) PROVE Monitor!Broadcast
    <3>1. /\ cv_wchanlock = NULL /\ cv_wchanlock' = NULL /\ lk_holder' = lk_holder
          /\ cv_wchan' = <<>>
      BY <2>8 DEF cv_broadcast
    <3> QED BY <3>1 DEF Waiting, Monitor!Broadcast
  <2>9. CASE UNCHANGED lvars
    BY <2>9 DEF lvars, Waiting
  <2> QED BY <2>1, <2>2, <2>3, <2>4, <2>5, <2>6, <2>7, <2>8, <2>9 DEF LNext
<1> QED BY <1>1, <1>2, Invariance, PTL DEF LSpec, RefinesMesa, Monitor!MSpec
=============================================================================
