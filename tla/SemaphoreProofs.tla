-------------------------- MODULE SemaphoreProofs ---------------------------
(***************************************************************************)
(* For any finite set of threads and any initial count: the wait channel   *)
(* is exact, no wakeup is lost, and P and V implement the operations of a  *)
(* counting semaphore.  The invariant IInv is the conjunction of the three *)
(* invariants: that V adds a thread to Awake needs that the thread at the  *)
(* head of the channel was asleep.                                         *)
(***************************************************************************)
EXTENDS Semaphore, FiniteSetTheorems, TLAPS

IInv == TypeOK /\ ChannelExact /\ NoLostWakeup

(* The threads V has woken are finitely many, and one more or one less of  *)
(* them changes their number by at most one.                               *)
LEMMA AwakeCount ==
    ASSUME NEW S \in SUBSET Thread, NEW t \in Thread
    PROVE  /\ Cardinality(S) \in Nat
           /\ Cardinality(S \cup {t}) = IF t \in S THEN Cardinality(S)
                                        ELSE Cardinality(S) + 1
           /\ Cardinality(S) <= Cardinality(S \ {t}) + 1
           /\ Cardinality(S \ {t}) \in Nat
<1>1. IsFiniteSet(S) /\ IsFiniteSet(S \ {t})
  BY ThreadAssumption, FS_Subset
<1>2. Cardinality(S) \in Nat /\ Cardinality(S \ {t}) \in Nat
  BY <1>1, FS_CardinalityType
<1>3. Cardinality(S \cup {t}) = IF t \in S THEN Cardinality(S) ELSE Cardinality(S) + 1
  BY <1>1, FS_AddElement
<1>4. Cardinality(S \ {t}) = IF t \in S THEN Cardinality(S) - 1 ELSE Cardinality(S)
  BY <1>1, FS_RemoveElement
<1> QED BY <1>2, <1>3, <1>4

LEMMA InitInv == Init => IInv
BY CountAssumption DEF Init, IInv, TypeOK, ChannelExact, NoLostWakeup

LEMMA StepInv == IInv /\ [Next]_vars => IInv'
<1> SUFFICES ASSUME IInv, [Next]_vars PROVE IInv'
  OBVIOUS
<1> USE DEF IInv
<1>1. ASSUME NEW t \in Thread, call_P(t) PROVE IInv'
  <2>1. TypeOK' /\ ChannelExact'
    BY <1>1 DEF call_P, TypeOK, ChannelExact
  <2>2. Awake' = Awake
    BY <1>1 DEF call_P, TypeOK, Awake
  <2> QED BY <1>1, <2>1, <2>2 DEF call_P, NoLostWakeup
<1>2. ASSUME NEW t \in Thread, P(t), sem_count = 0 PROVE IInv'
  <2>1. /\ sem_wchan' = Append(sem_wchan, t)
        /\ pc' = [pc EXCEPT ![t] = "asleep"]
        /\ sem_count' = 0
        /\ pc[t] # "asleep"
    BY <1>2 DEF P
  <2>2. TypeOK'
    BY <2>1 DEF TypeOK
  <2>3. \A k \in 1 .. Len(sem_wchan) : sem_wchan[k] # t
    BY <2>1 DEF ChannelExact
  <2>4. /\ Len(sem_wchan') = Len(sem_wchan) + 1
        /\ sem_wchan'[Len(sem_wchan) + 1] = t
        /\ \A k \in 1 .. Len(sem_wchan) : sem_wchan'[k] = sem_wchan[k]
        /\ Len(sem_wchan) \in Nat
    BY <2>1 DEF TypeOK
  <2>5. ChannelExact'
    <3>1. ASSUME NEW u \in Thread
          PROVE  pc'[u] = "asleep" <=> \E k \in 1 .. Len(sem_wchan') : sem_wchan'[k] = u
      <4>1. CASE u = t
        BY <4>1, <2>1, <2>4 DEF TypeOK
      <4>2. CASE u # t
        <5>1. pc'[u] = pc[u]
          BY <4>2, <2>1 DEF TypeOK
        <5>2. (\E k \in 1 .. Len(sem_wchan') : sem_wchan'[k] = u)
                <=> (\E k \in 1 .. Len(sem_wchan) : sem_wchan[k] = u)
          BY <4>2, <2>4
        <5> QED BY <5>1, <5>2 DEF ChannelExact
      <4> QED BY <4>1, <4>2
    <3>2. ASSUME NEW j \in 1 .. Len(sem_wchan'), NEW k \in 1 .. Len(sem_wchan'),
                 sem_wchan'[j] = sem_wchan'[k]
          PROVE  j = k
      BY <3>2, <2>3, <2>4 DEF ChannelExact
    <3> QED BY <3>1, <3>2 DEF ChannelExact
  <2>6. Awake' \in SUBSET Thread
    BY DEF Awake
  <2>7. Cardinality(Awake') \in Nat
    BY <2>6, AwakeCount
  <2> QED BY <2>1, <2>2, <2>5, <2>7 DEF NoLostWakeup
<1>3. ASSUME NEW t \in Thread, P(t), sem_count # 0 PROVE IInv'
  <2>1. /\ sem_count' = sem_count - 1
        /\ pc' = [pc EXCEPT ![t] = "out"]
        /\ sem_wchan' = sem_wchan
        /\ pc[t] # "asleep"
    BY <1>3 DEF P
  <2>2. TypeOK' /\ ChannelExact'
    BY <1>3, <2>1 DEF TypeOK, ChannelExact
  <2>3. Awake' = Awake \ {t} /\ Awake \in SUBSET Thread
    BY <2>1 DEF TypeOK, Awake
  <2>4. Cardinality(Awake) <= Cardinality(Awake') + 1 /\ Cardinality(Awake) \in Nat
        /\ Cardinality(Awake') \in Nat
    BY <2>3, AwakeCount
  <2> QED BY <1>3, <2>1, <2>2, <2>4 DEF NoLostWakeup, TypeOK
<1>4. ASSUME V, sem_wchan = <<>> PROVE IInv'
  BY <1>4 DEF V, TypeOK, ChannelExact, NoLostWakeup
<1>5. ASSUME V, sem_wchan # <<>> PROVE IInv'
  <2> DEFINE h == Head(sem_wchan)
  <2>1. /\ sem_wchan' = Tail(sem_wchan)
        /\ pc' = [pc EXCEPT ![h] = "woken"]
        /\ sem_count' = sem_count + 1
    BY <1>5 DEF V
  <2>2. /\ h \in Thread /\ h = sem_wchan[1]
        /\ Len(sem_wchan) \in Nat /\ Len(sem_wchan) >= 1
        /\ Len(sem_wchan') = Len(sem_wchan) - 1
        /\ \A k \in 1 .. Len(sem_wchan) - 1 : sem_wchan'[k] = sem_wchan[k + 1]
    BY <1>5, <2>1 DEF TypeOK
  <2>3. pc[h] = "asleep"
    BY <2>2 DEF ChannelExact
  <2>4. TypeOK'
    BY <1>5, <2>1, <2>2 DEF TypeOK
  <2> HIDE DEF h
  <2>5. ChannelExact'
    <3>1. ASSUME NEW u \in Thread
          PROVE  pc'[u] = "asleep" <=> \E k \in 1 .. Len(sem_wchan') : sem_wchan'[k] = u
      <4>1. CASE u = h
        <5>1. pc'[u] # "asleep"
          BY <4>1, <2>1, <2>2 DEF TypeOK
        <5>2. \A k \in 1 .. Len(sem_wchan') : sem_wchan'[k] # u
          BY <4>1, <2>2 DEF ChannelExact
        <5> QED BY <5>1, <5>2
      <4>2. CASE u # h
        <5>1. pc'[u] = pc[u]
          BY <4>2, <2>1, <2>2 DEF TypeOK
        <5>2. ASSUME NEW k \in 1 .. Len(sem_wchan), sem_wchan[k] = u
              PROVE  \E i \in 1 .. Len(sem_wchan') : sem_wchan'[i] = u
          <6>1. k # 1 /\ k - 1 \in 1 .. Len(sem_wchan')
            BY <5>2, <4>2, <2>2
          <6>2. sem_wchan'[k - 1] = sem_wchan[(k - 1) + 1] /\ (k - 1) + 1 = k
            BY <6>1, <2>2
          <6> QED BY <6>1, <6>2, <5>2
        <5>3. ASSUME NEW k \in 1 .. Len(sem_wchan'), sem_wchan'[k] = u
              PROVE  \E i \in 1 .. Len(sem_wchan) : sem_wchan[i] = u
          BY <5>3, <2>2
        <5> QED BY <5>1, <5>2, <5>3 DEF ChannelExact
      <4> QED BY <4>1, <4>2
    <3>2. ASSUME NEW j \in 1 .. Len(sem_wchan'), NEW k \in 1 .. Len(sem_wchan'),
                 sem_wchan'[j] = sem_wchan'[k]
          PROVE  j = k
      <4>1. /\ j + 1 \in 1 .. Len(sem_wchan) /\ k + 1 \in 1 .. Len(sem_wchan)
            /\ sem_wchan[j + 1] = sem_wchan[k + 1]
        BY <3>2, <2>2
      <4> QED BY <4>1, <2>2 DEF ChannelExact
    <3> QED BY <3>1, <3>2 DEF ChannelExact
  <2>6. Awake' = Awake \cup {h} /\ h \notin Awake /\ Awake \in SUBSET Thread
    BY <2>1, <2>2, <2>3 DEF TypeOK, Awake
  <2>7. Cardinality(Awake') = Cardinality(Awake) + 1 /\ Cardinality(Awake) \in Nat
    BY <2>2, <2>6, AwakeCount
  <2> QED BY <1>5, <2>1, <2>4, <2>5, <2>7 DEF NoLostWakeup, TypeOK
<1>6. CASE UNCHANGED vars
  BY <1>6 DEF vars, TypeOK, ChannelExact, NoLostWakeup, Awake
<1> QED BY <1>1, <1>2, <1>3, <1>4, <1>5, <1>6 DEF Next

(* The three invariants hold in every state of P and V.                    *)
THEOREM Invariance == Spec => []IInv
<1>1. Init => IInv BY InitInv
<1>2. IInv /\ [Next]_vars => IInv' BY StepInv
<1> QED BY <1>1, <1>2, PTL DEF Spec

(* While a thread sleeps in P, every unit of the count is matched by a     *)
(* thread that V has woken: no wakeup is lost, for any number of threads.  *)
THEOREM NoLostWakeupCorrect == Spec => []NoLostWakeup
<1>1. IInv => NoLostWakeup BY DEF IInv
<1> QED BY <1>1, Invariance, PTL

(* The wait channel holds exactly the threads asleep in P, once each.      *)
THEOREM ChannelCorrect == Spec => []ChannelExact
<1>1. IInv => ChannelExact BY DEF IInv
<1> QED BY <1>1, Invariance, PTL

(* P and V implement the atomic operations of CountingSemaphore: a turn of *)
(* the loop in P that goes to sleep changes nothing a user can see.        *)
THEOREM CountingRefinement == Spec => RefinesCounting
<1> DEFINE w == {t \in Thread : pc[t] # "out"}
<1>1. Init => Counting!CInit
  BY DEF Init, Counting!CInit
<1>2. ASSUME IInv, [Next]_vars PROVE [Counting!CNext]_(Counting!cvars)
  <2>0. TypeOK
    BY <1>2 DEF IInv
  <2> USE <2>0 DEF TypeOK, Counting!CNext, Counting!cvars
  <2>1. ASSUME NEW t \in Thread, call_P(t) PROVE Counting!Arrive(t)
    <3>1. w' = w \cup {t} /\ t \notin w
      BY <2>1 DEF call_P
    <3> QED BY <2>1, <3>1 DEF call_P, Counting!Arrive
  <2>2. ASSUME NEW t \in Thread, P(t), sem_count # 0 PROVE Counting!Take(t)
    <3>1. w' = w \ {t} /\ t \in w
      BY <2>2 DEF P
    <3>2. sem_count > 0 /\ sem_count' = sem_count - 1
      BY <2>2 DEF P
    <3> QED BY <3>1, <3>2 DEF Counting!Take
  <2>3. ASSUME NEW t \in Thread, P(t), sem_count = 0
        PROVE  sem_count' = sem_count /\ w' = w
    BY <2>3 DEF P
  <2>4. ASSUME V PROVE Counting!Give
    <3>1. w' = w
      <4>1. CASE sem_wchan = <<>>
        BY <2>4, <4>1 DEF V
      <4>2. CASE sem_wchan # <<>>
        <5>1. Head(sem_wchan) \in Thread /\ Head(sem_wchan) = sem_wchan[1]
              /\ 1 \in 1 .. Len(sem_wchan)
          BY <4>2
        <5>2. pc[Head(sem_wchan)] = "asleep"
          BY <5>1, <1>2 DEF IInv, ChannelExact
        <5>3. pc' = [pc EXCEPT ![Head(sem_wchan)] = "woken"]
          BY <2>4, <4>2 DEF V
        <5> QED BY <5>1, <5>2, <5>3
      <4> QED BY <4>1, <4>2
    <3> QED BY <2>4, <3>1 DEF V, Counting!Give
  <2>5. CASE UNCHANGED vars
    BY <2>5 DEF vars
  <2> QED BY <1>2, <2>1, <2>2, <2>3, <2>4, <2>5 DEF Next
<1> QED BY <1>1, <1>2, Invariance, PTL DEF Spec, RefinesCounting, Counting!CSpec
=============================================================================
