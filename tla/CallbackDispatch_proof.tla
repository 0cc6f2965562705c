----------------------- MODULE CallbackDispatch_proof -----------------------
(***************************************************************************)
(* The safety properties of CallbackDispatch for any number of threads.    *)
(***************************************************************************)
EXTENDS CallbackDispatch, TLAPS, SequenceTheorems

USE ActorsAssumption, FlagsAssumption, HandlesAssumption

-----------------------------------------------------------------------------
(* Type correctness.                                                       *)

\* The count of active handles stays within its machine word.
LEMMA AddType ==
  ASSUME NEW n \in 0..(HandleModulus - 1), NEW k \in {-1, 1}
  PROVE  Add(n, k) \in 0..(HandleModulus - 1)
BY DEF Add

LEMMA InitType == Init => TypeOK
<1> SUFFICES ASSUME Init PROVE TypeOK
  OBVIOUS
<1>1. 0 \in 0..(HandleModulus - 1) /\ others \in 0..(HandleModulus - 1)
  BY DEF Init
<1>2. queue \in Seq(Actors)
  BY DEF Init
<1>3. request \in BOOLEAN
  <2>1. request \in {TRUE, ~RequestMayEnd}
    BY DEF Init
  <2> QED
    BY <2>1, Zenon
<1>4. pc \in [Actors -> Sites] /\ mpc \in LoopSites
  BY DEF Init, Sites, LoopSites, Before, Parked, After
<1> QED
  BY <1>1, <1>2, <1>3, <1>4 DEF Init, TypeOK, Sites, LoopSites, Before, Parked, After,
     Actors

LEMMA NextType == TypeOK /\ [Next]_vars => TypeOK'
<1> SUFFICES ASSUME TypeOK, [Next]_vars PROVE TypeOK'
  OBVIOUS
<1> USE DEF TypeOK, Sites, LoopSites, Before, Parked, After, Actors,
            Outcomes, invokeVars, invVars, queueVars, loopVars, mainVars,
            refVars, otherVars
<1>1. ASSUME NEW a \in Actors, Enter(a) PROVE TypeOK'
  BY <1>1 DEF Enter
<1>2. ASSUME NEW a \in Actors, DirectDispatch(a) PROVE TypeOK'
  BY <1>2 DEF DirectDispatch, DispatchToV8
<1>3. ASSUME NEW a \in Actors, DirectReturn(a) PROVE TypeOK'
  BY <1>3 DEF DirectReturn, CallEnds
<1>4. ASSUME NEW a \in Actors, RefTest(a) PROVE TypeOK'
  BY <1>4 DEF RefTest
<1>5. ASSUME NEW a \in Actors, RefSet(a) PROVE TypeOK'
  <2>1. loaded' \in [Actors -> 0..(HandleModulus - 1)]
    BY <1>5 DEF RefSet
  <2>2. pc' \in [Actors -> Sites]
    BY <1>5 DEF RefSet
  <2>3. refd' \in BOOLEAN
    BY <1>5 DEF RefSet
  <2>4. UNCHANGED <<dispatches, outcome, live, invMutex, queue, mutex,
                    asyncPending, mpc, cur, inC, exception, request,
                    activeHandles, others, churn>>
    BY <1>5 DEF RefSet
  <2> QED
    BY <2>1, <2>2, <2>3, <2>4, SMTT(30)
<1>6. ASSUME NEW a \in Actors, RefAdd(a) PROVE TypeOK'
  <2>1. Add(loaded[a], 1) \in 0..(HandleModulus - 1)
    BY <1>6, AddType
  <2>2. 0 \in 0..(HandleModulus - 1)
    OBVIOUS
  <2> QED
    BY <1>6, <2>1, <2>2 DEF RefAdd
<1>7. ASSUME NEW a \in Actors, Construct(a) PROVE TypeOK'
  BY <1>7 DEF Construct
<1>8. ASSUME NEW a \in Actors, LockQueue(a) PROVE TypeOK'
  BY <1>8 DEF LockQueue
<1>9. ASSUME NEW a \in Actors, PushAndUnlock(a) PROVE TypeOK'
  BY <1>9 DEF PushAndUnlock
<1>10. ASSUME NEW a \in Actors, Send(a) PROVE TypeOK'
  BY <1>10 DEF Send
<1>11. ASSUME NEW a \in Actors, WaitBegin(a) PROVE TypeOK'
  BY <1>11 DEF WaitBegin
<1>12. ASSUME NEW a \in Actors, WaitReturn(a) PROVE TypeOK'
  BY <1>12 DEF WaitReturn
<1>13. ASSUME NEW a \in Actors, UnrefTest(a) PROVE TypeOK'
  BY <1>13 DEF UnrefTest
<1>14. ASSUME NEW a \in Actors, UnrefClear(a) PROVE TypeOK'
  <2>1. loaded' \in [Actors -> 0..(HandleModulus - 1)]
    BY <1>14 DEF UnrefClear
  <2>2. pc' \in [Actors -> Sites]
    BY <1>14 DEF UnrefClear
  <2>3. refd' \in BOOLEAN
    BY <1>14 DEF UnrefClear
  <2>4. UNCHANGED <<dispatches, outcome, live, invMutex, queue, mutex,
                    asyncPending, mpc, cur, inC, exception, request,
                    activeHandles, others, churn>>
    BY <1>14 DEF UnrefClear
  <2> QED
    BY <2>1, <2>2, <2>3, <2>4, SMTT(30)
<1>15. ASSUME NEW a \in Actors, UnrefSub(a) PROVE TypeOK'
  <2>1. Add(loaded[a], -1) \in 0..(HandleModulus - 1)
    BY <1>15, AddType
  <2>2. 0 \in 0..(HandleModulus - 1)
    OBVIOUS
  <2> QED
    BY <1>15, <2>1, <2>2 DEF UnrefSub
<1>16. ASSUME NEW a \in Actors, Destroy(a) PROVE TypeOK'
  BY <1>16 DEF Destroy, CallEnds
<1>17. ASSUME NEW a \in Actors, SpuriousWake(a) PROVE TypeOK'
  BY <1>17 DEF SpuriousWake
<1>18. ASSUME FFICall PROVE TypeOK'
  BY <1>18 DEF FFICall
<1>19. ASSUME FFICallReturn PROVE TypeOK'
  BY <1>19, ZenonT(40) DEF FFICallReturn
<1>20. ASSUME LoopWake PROVE TypeOK'
  BY <1>20 DEF LoopWake
<1>21. ASSUME WatcherLock PROVE TypeOK'
  BY <1>21 DEF WatcherLock
<1>22. ASSUME WatcherPop PROVE TypeOK'
  BY <1>22 DEF WatcherPop
<1>23. ASSUME WatcherDispatch PROVE TypeOK'
  <2>1. dispatches' \in [Actors -> Nat]
    <3>1. CASE cur \in Actors
      BY <1>23, <3>1 DEF WatcherDispatch, DispatchToV8
    <3>2. CASE cur \notin Actors
      <4>1. dispatches' = [a \in Actors |-> dispatches[a]]
        BY <1>23, <3>2 DEF WatcherDispatch, DispatchToV8
      <4> QED
        BY <4>1
    <3> QED
      BY <3>1, <3>2
  <2>2. outcome' \in [Actors -> Outcomes \union {"none"}]
    BY <1>23 DEF WatcherDispatch, DispatchToV8
  <2>3. exception' \in BOOLEAN
    BY <1>23 DEF WatcherDispatch, DispatchToV8
  <2> QED
    BY <1>23, <2>1, <2>2, <2>3 DEF WatcherDispatch
<1>24. ASSUME SignalDoneExecuting PROVE TypeOK'
  BY <1>24, ZenonT(40) DEF SignalDoneExecuting
<1>25. ASSUME SignalUnlock PROVE TypeOK'
  BY <1>25 DEF SignalUnlock
<1>26. ASSUME WatcherUnlock PROVE TypeOK'
  BY <1>26 DEF WatcherUnlock
<1>27. ASSUME RequestEnds PROVE TypeOK'
  BY <1>27 DEF RequestEnds
<1>28. ASSUME LoopExit PROVE TypeOK'
  BY <1>28 DEF LoopExit
<1>29. ASSUME NEW k \in {1, -1}, OtherBegin(k) PROVE TypeOK'
  BY <1>29 DEF OtherBegin
<1>30. ASSUME OtherEnd PROVE TypeOK'
  <2>0. churn \in {1, -1} /\ loaded[Main] \in 0..(HandleModulus - 1)
    BY <1>30 DEF OtherEnd
  <2>1. Add(loaded[Main], churn) \in 0..(HandleModulus - 1)
    BY <2>0, AddType
  <2>2. 0 \in 0..(HandleModulus - 1)
    OBVIOUS
  <2> QED
    BY <1>30, <2>1, <2>2 DEF OtherEnd
<1>31. ASSUME UNCHANGED vars PROVE TypeOK'
  BY <1>31 DEF vars
<1> QED
  BY <1>1, <1>2, <1>3, <1>4, <1>5, <1>6, <1>7, <1>8, <1>9, <1>10, <1>11,
     <1>12, <1>13, <1>14, <1>15, <1>16, <1>17, <1>18, <1>19, <1>20, <1>21,
     <1>22, <1>23, <1>24, <1>25, <1>26, <1>27, <1>28, <1>29, <1>30, <1>31
  DEF Next, Invoke, Ref, Unref, WatcherCallback

\* Every variable of CallbackDispatch keeps its type in every behaviour.
THEOREM TypeCorrect == SafetySpec => []TypeOK
BY InitType, NextType, PTL DEF SafetySpec

-----------------------------------------------------------------------------
(* The inductive invariant.                                                *)

\* What a push does to the queue: one more entry, at the end.
LEMMA PushEntries ==
  ASSUME NEW s \in Seq(Actors), NEW a \in Actors
  PROVE  /\ DOMAIN Append(s, a) = 1..(Len(s) + 1)
         /\ \A i \in DOMAIN s : i \in DOMAIN Append(s, a) /\ Append(s, a)[i] = s[i]
         /\ \A i \in DOMAIN Append(s, a) : i \notin DOMAIN s => i = Len(s) + 1
         /\ Append(s, a)[Len(s) + 1] = a
BY AppendProperties

\* What a pop does to it: the other entries move up by one place.
LEMMA PopEntries ==
  ASSUME NEW s \in Seq(Actors), s # <<>>
  PROVE  /\ 1 \in DOMAIN s /\ Head(s) = s[1]
         /\ \A i \in DOMAIN Tail(s) :
              i + 1 \in DOMAIN s /\ i + 1 # 1 /\ Tail(s)[i] = s[i + 1]
         /\ \A i \in DOMAIN s \ {1} :
              i - 1 \in DOMAIN Tail(s) /\ Tail(s)[i - 1] = s[i]
BY HeadTailProperties

\* A push keeps one entry for each parked thread.
LEMMA PushQueue ==
  ASSUME TypeOK, MainInv, MutexInv, QueueInv, CallInv,
         NEW a \in Actors, PushAndUnlock(a)
  PROVE  QueueInv'
<1> DEFINE n == Len(queue) + 1
<1>1. /\ a \in Threads /\ pc[a] = "push" /\ dispatches[a] = 0
      /\ pc \in [Actors -> Sites] /\ "send" \in Parked /\ "push" \notin Parked
  BY DEF PushAndUnlock, TypeOK, MainInv, CallInv, Before, Parked, Actors
<1>2. /\ DOMAIN queue' = 1..n
      /\ \A i \in DOMAIN queue : i \in DOMAIN queue' /\ queue'[i] = queue[i]
      /\ \A i \in DOMAIN queue' : i \notin DOMAIN queue => i = n
      /\ n \in DOMAIN queue' /\ queue'[n] = a
  BY PushEntries DEF PushAndUnlock, TypeOK
<1>3. /\ pc' = [pc EXCEPT ![a] = "send"]
      /\ UNCHANGED <<dispatches, mpc, cur>>
  BY DEF PushAndUnlock, loopVars
<1>4. \A i \in DOMAIN queue : queue[i] # a
  BY <1>1 DEF QueueInv
<1> HIDE DEF n
<1>5. \A i \in DOMAIN queue' :
        queue'[i] \in Threads /\ pc'[queue'[i]] \in Parked
                             /\ dispatches'[queue'[i]] = 0
  <2> TAKE i \in DOMAIN queue'
  <2>1. CASE i \in DOMAIN queue
    BY <1>1, <1>2, <1>3, <1>4, <2>1 DEF QueueInv, Actors
  <2>2. CASE i = n
    BY <1>1, <1>2, <1>3, <2>2
  <2> QED
    BY <1>2, <2>1, <2>2
<1>6. \A i, j \in DOMAIN queue' : queue'[i] = queue'[j] => i = j
  BY <1>2, <1>4 DEF QueueInv
<1>7. mutex = a /\ mpc \notin {"dispatch", "signal"}
  BY <1>1, ActorsAssumption DEF MutexInv
<1>8. \A t \in Threads : pc'[t] \in Parked => InQueue(t)'
  <2> SUFFICES ASSUME NEW t \in Threads, pc'[t] \in Parked
               PROVE  InQueue(t)'
    OBVIOUS
  <2>1. CASE t = a
    BY <1>2, <2>1 DEF InQueue
  <2>2. CASE t # a
    <3>1. InQueue(t)
      BY <1>1, <1>3, <1>7, <2>2 DEF QueueInv, Actors
    <3> QED
      BY <1>2, <3>1 DEF InQueue
  <2> QED
    BY <2>1, <2>2
<1> QED
  BY <1>3, <1>5, <1>6, <1>7, <1>8 DEF QueueInv

\* A pop hands the first entry to the loop and keeps the others.
LEMMA PopQueue ==
  ASSUME TypeOK, QueueInv, WatcherPop
  PROVE  QueueInv' /\ CurInv'
<1>1. /\ 1 \in DOMAIN queue /\ cur' = queue[1]
      /\ DOMAIN queue' \subseteq Int /\ DOMAIN queue \subseteq Int
      /\ \A i \in DOMAIN queue' :
           i + 1 \in DOMAIN queue /\ i + 1 # 1 /\ queue'[i] = queue[i + 1]
      /\ \A i \in DOMAIN queue \ {1} :
           i - 1 \in DOMAIN queue' /\ queue'[i - 1] = queue[i]
  <2>1. DOMAIN queue' \subseteq Int /\ DOMAIN queue \subseteq Int
    BY HeadTailProperties DEF WatcherPop, TypeOK
  <2> QED
    BY <2>1, PopEntries DEF WatcherPop, TypeOK
<1>2. mpc = "drain" /\ mpc' = "dispatch" /\ UNCHANGED <<pc, dispatches>>
  BY DEF WatcherPop, invokeVars
<1>3. \A i \in DOMAIN queue' :
        queue'[i] \in Threads /\ pc'[queue'[i]] \in Parked
                             /\ dispatches'[queue'[i]] = 0
  BY <1>1, <1>2 DEF QueueInv
<1>4. \A i, j \in DOMAIN queue' : queue'[i] = queue'[j] => i = j
  <2> SUFFICES ASSUME NEW i \in DOMAIN queue', NEW j \in DOMAIN queue',
                      queue'[i] = queue'[j]
               PROVE  i = j
    OBVIOUS
  <2>1. queue[i + 1] = queue[j + 1]
    BY <1>1
  <2>2. i + 1 = j + 1
    BY <1>1, <2>1 DEF QueueInv
  <2> QED
    BY <1>1, <2>2
<1>5. ~InQueue(cur)'
  BY <1>1 DEF InQueue, QueueInv
<1>6. \A t \in Threads : pc'[t] \in Parked => InQueue(t)' \/ cur' = t
  <2> SUFFICES ASSUME NEW t \in Threads, pc[t] \in Parked, cur' # t
               PROVE  InQueue(t)'
    BY <1>2
  <2>1. PICK i \in DOMAIN queue : queue[i] = t
    BY <1>2 DEF QueueInv, InQueue
  <2>2. i \in DOMAIN queue \ {1}
    BY <1>1, <2>1
  <2> QED
    BY <1>1, <2>1, <2>2 DEF InQueue
<1> QED
  BY <1>1, <1>2, <1>3, <1>4, <1>5, <1>6 DEF QueueInv, CurInv

LEMMA InitInv == Init => IInv
<1> SUFFICES ASSUME Init PROVE IInv
  OBVIOUS
<1>1. /\ pc = [a \in Actors |-> "native"]
      /\ live = [a \in Actors |-> FALSE]
      /\ queue = <<>> /\ mutex = Nobody /\ mpc = "loop" /\ cur = Nobody
      /\ dispatches = [a \in Actors |-> 0]
      /\ outcome = [a \in Actors |-> "none"]
  BY DEF Init
<1>2. MainInv /\ MutexInv /\ QueueInv /\ CurInv /\ WakeupNotLost
  BY <1>1 DEF MainInv, MutexInv, QueueInv, CurInv, WakeupNotLost, InQueue,
     Parked, Before, After, Actors
<1>3. CallInv /\ InvocationInv
  BY <1>1 DEF CallInv, InvocationInv, Parked, Before, After, Actors
<1> QED
  BY InitType, <1>2, <1>3 DEF IInv

LEMMA NextInv ==
  ASSUME IInv, [Next]_vars, [\A a \in Actors : ~SpuriousWake(a)]_vars
  PROVE  IInv'
<1> TypeOK /\ TypeOK'
  BY NextType DEF IInv
<1> USE DEF IInv, MainInv, MutexInv, QueueInv, CurInv, CallInv,
            InvocationInv, WakeupNotLost, InQueue, Dispatched, TypeOK, Parked,
            Before, After, Sites, LoopSites, Actors, invokeVars, invVars,
            queueVars, loopVars, mainVars, refVars, otherVars
<1>1. ASSUME NEW a \in Actors, Enter(a) PROVE IInv'
  BY <1>1 DEF Enter, OnLoopThread
<1>2. ASSUME NEW a \in Actors, DirectDispatch(a) PROVE IInv'
  BY <1>2 DEF DirectDispatch, DispatchToV8, Outcomes
<1>3. ASSUME NEW a \in Actors, DirectReturn(a) PROVE IInv'
  BY <1>3 DEF DirectReturn, CallEnds
<1>4. ASSUME NEW a \in Actors, RefTest(a) PROVE IInv'
  BY <1>4 DEF RefTest
<1>5. ASSUME NEW a \in Actors, RefSet(a) PROVE IInv'
  BY <1>5, SMTT(30) DEF RefSet
<1>6. ASSUME NEW a \in Actors, RefAdd(a) PROVE IInv'
  BY <1>6, SMTT(30) DEF RefAdd
<1>7. ASSUME NEW a \in Actors, Construct(a) PROVE IInv'
  BY <1>7 DEF Construct
<1>8. ASSUME NEW a \in Actors, LockQueue(a) PROVE IInv'
  BY <1>8 DEF LockQueue
<1>9. ASSUME NEW a \in Actors, PushAndUnlock(a) PROVE IInv'
  <2>1. QueueInv'
    BY <1>9, PushQueue
  <2>2. TypeOK' /\ MainInv' /\ MutexInv' /\ CallInv'
    BY <1>9 DEF PushAndUnlock
  <2>3. CurInv' /\ InvocationInv'
    BY <1>9 DEF PushAndUnlock
  <2>4. WakeupNotLost'
    BY <1>9 DEF PushAndUnlock
  <2> HIDE DEF MainInv, MutexInv, QueueInv, CurInv, CallInv, InvocationInv,
              WakeupNotLost, TypeOK
  <2> QED
    BY <2>1, <2>2, <2>3, <2>4
<1>10. ASSUME NEW a \in Actors, Send(a) PROVE IInv'
  BY <1>10, SMTT(30) DEF Send
<1>11. ASSUME NEW a \in Actors, WaitBegin(a) PROVE IInv'
  BY <1>11, SMTT(30) DEF WaitBegin
<1>12. ASSUME NEW a \in Actors, WaitReturn(a) PROVE IInv'
  BY <1>12 DEF WaitReturn
<1>13. ASSUME NEW a \in Actors, UnrefTest(a) PROVE IInv'
  BY <1>13 DEF UnrefTest
<1>14. ASSUME NEW a \in Actors, UnrefClear(a) PROVE IInv'
  BY <1>14, SMTT(30) DEF UnrefClear
<1>15. ASSUME NEW a \in Actors, UnrefSub(a) PROVE IInv'
  BY <1>15, SMTT(30) DEF UnrefSub
<1>16. ASSUME NEW a \in Actors, Destroy(a) PROVE IInv'
  BY <1>16 DEF Destroy, CallEnds
<1>17. ASSUME FFICall PROVE IInv'
  BY <1>17 DEF FFICall, CanRunJS
<1>18. ASSUME FFICallReturn PROVE IInv'
  BY <1>18 DEF FFICallReturn, CanRunJS
<1>19. ASSUME LoopWake PROVE IInv'
  BY <1>19 DEF LoopWake, MainFree
<1>20. ASSUME WatcherLock PROVE IInv'
  BY <1>20 DEF WatcherLock
<1>21. ASSUME WatcherPop PROVE IInv'
  <2>1. QueueInv' /\ CurInv'
    BY <1>21, PopQueue
  <2> HIDE DEF QueueInv, CurInv
  <2> QED
    BY <1>21, <2>1 DEF WatcherPop
<1>22. ASSUME WatcherDispatch PROVE IInv'
  BY <1>22 DEF WatcherDispatch, DispatchToV8, Outcomes, MainFree
<1>23. ASSUME SignalDoneExecuting PROVE IInv'
  BY <1>23 DEF SignalDoneExecuting
<1>24. ASSUME SignalUnlock PROVE IInv'
  BY <1>24 DEF SignalUnlock
<1>25. ASSUME WatcherUnlock PROVE IInv'
  BY <1>25 DEF WatcherUnlock
<1>26. ASSUME RequestEnds PROVE IInv'
  BY <1>26 DEF RequestEnds, MainFree
<1>27. ASSUME LoopExit PROVE IInv'
  BY <1>27 DEF LoopExit, MainFree
<1>28. ASSUME NEW k \in {1, -1}, OtherBegin(k) PROVE IInv'
  BY <1>28 DEF OtherBegin
<1>29. ASSUME OtherEnd PROVE IInv'
  BY <1>29 DEF OtherEnd
<1>30. ASSUME UNCHANGED vars PROVE IInv'
  BY <1>30 DEF vars
<1> HIDE DEF IInv
<1> QED
  BY <1>1, <1>2, <1>3, <1>4, <1>5, <1>6, <1>7, <1>8, <1>9, <1>10, <1>11,
     <1>12, <1>13, <1>14, <1>15, <1>16, <1>17, <1>18, <1>19, <1>20, <1>21,
     <1>22, <1>23, <1>24, <1>25, <1>26, <1>27, <1>28, <1>29, <1>30
  DEF Next, Invoke, Ref, Unref, WatcherCallback

\* The invariant holds in every behaviour in which no wait ends spuriously.
THEOREM Invariant == SafetySpec /\ NoSpuriousWake => []IInv
BY InitInv, NextInv, PTL DEF SafetySpec, NoSpuriousWake

\* ffi.h:100-104: a wait returns only after the call was dispatched, once, in
\* every behaviour in which no wait ends spuriously.
THEOREM Handoff == SafetySpec /\ NoSpuriousWake => []HandoffOrder
<1>1. IInv => HandoffOrder
  BY DEF IInv, CallInv, MainInv, HandoffOrder, After, Actors
<1> QED
  BY <1>1, Invariant, PTL

\* As long as no wait ends spuriously, the queue and the loop never point into a
\* stack frame that is gone.
THEOREM NoDangling == SafetySpec /\ NoSpuriousWake => []NoDanglingInvocation
<1>1. IInv => NoDanglingInvocation
  <2> SUFFICES ASSUME IInv PROVE NoDanglingInvocation
    OBVIOUS
  <2>1. \A i \in DOMAIN queue : live[queue[i]]
    BY DEF IInv, QueueInv, InvocationInv, Parked
  <2>2. mpc \in {"dispatch", "signal", "signalUnlock"} => live[cur]
    BY DEF IInv, CurInv, InvocationInv, Parked
  <2> QED
    BY <2>1, <2>2 DEF NoDanglingInvocation, Range
<1> QED
  BY <1>1, Invariant, PTL

\* A wake-up is pending, or about to be sent, for whatever is queued while the
\* loop sleeps.
LEMMA WakeupInv ==
  ASSUME TypeOK, WakeupNotLost, [Next]_vars
  PROVE  WakeupNotLost'
<1> USE DEF WakeupNotLost, TypeOK, invokeVars, queueVars, loopVars
<1>1. CASE \E a \in Actors : PushAndUnlock(a)
  BY <1>1 DEF PushAndUnlock
<1>2. CASE \E a \in Actors : Send(a)
  BY <1>2 DEF Send
<1>3. ASSUME NEW a \in Actors,
             \/ Enter(a) \/ DirectDispatch(a) \/ DirectReturn(a) \/ Ref(a)
             \/ Construct(a) \/ LockQueue(a) \/ WaitBegin(a) \/ WaitReturn(a)
             \/ SpuriousWake(a) \/ Unref(a) \/ Destroy(a)
      PROVE  WakeupNotLost'
  <2>1. /\ UNCHANGED <<queue, mpc, asyncPending>> /\ pc[a] # "send"
        /\ \E site : pc' = [pc EXCEPT ![a] = site]
    BY <1>3 DEF Enter, DirectDispatch, DirectReturn, CallEnds, Ref, RefTest, RefSet,
       RefAdd, Construct, LockQueue, WaitBegin, WaitReturn, SpuriousWake, Unref,
       UnrefTest, UnrefClear, UnrefSub, Destroy
  <2> QED
    BY <2>1
<1>4. CASE SignalDoneExecuting
  BY <1>4 DEF SignalDoneExecuting
<1>5. CASE LoopWake \/ WatcherLock \/ WatcherPop \/ WatcherDispatch
           \/ SignalUnlock \/ WatcherUnlock
  BY <1>5 DEF LoopWake, WatcherLock, WatcherPop, WatcherDispatch, SignalUnlock,
     WatcherUnlock
<1>6. CASE \/ FFICall \/ FFICallReturn \/ RequestEnds \/ LoopExit
           \/ OtherBegin(1) \/ OtherBegin(-1) \/ OtherEnd \/ UNCHANGED vars
  BY <1>6 DEF FFICall, FFICallReturn, RequestEnds, LoopExit, OtherBegin, OtherEnd,
     vars
<1> QED
  BY <1>1, <1>2, <1>3, <1>4, <1>5, <1>6 DEF Next, Invoke, WatcherCallback

\* Coalesced wake-ups lose nobody, even where waits end spuriously.
THEOREM WakeupsKept == SafetySpec => []WakeupNotLost
<1>1. Init => WakeupNotLost
  BY DEF Init, WakeupNotLost
<1> QED
  BY <1>1, WakeupInv, TypeCorrect, PTL DEF SafetySpec

-----------------------------------------------------------------------------
(* The remote procedure call that C code sees.                              *)

\* A step that leaves every thread's phase and outcome alone is invisible.
LEMMA Invisible ==
  ASSUME UNCHANGED <<phaseOf, outcomeOf>>
  PROVE  [RPC!Next]_(RPC!vars)
BY DEF RPC!vars

\* What the refinement mapping is for each thread.
LEMMA PhaseChange ==
  ASSUME IInv, NEW a \in Actors, NEW site, pc' = [pc EXCEPT ![a] = site],
         UNCHANGED <<dispatches, outcome>>,
         pc[a] # "native", site # "native"
  PROVE  UNCHANGED <<phaseOf, outcomeOf>>
BY DEF phaseOf, outcomeOf, IInv, TypeOK

\* DispatchToV8 is the run of the call's function.
LEMMA RunStep ==
  ASSUME TypeOK, NEW a \in Actors, NEW d, DispatchToV8(a, d),
         dispatches[a] = 0, pc[a] # "native",
         \A x \in Actors : pc'[x] = "native" <=> pc[x] = "native"
  PROVE  RPC!Run(a)
<1>1. phaseOf[a] = "called"
  BY DEF phaseOf
<1>2. phaseOf' = [phaseOf EXCEPT ![a] = "run"]
  <2>1. dispatches' = [dispatches EXCEPT ![a] = 1]
    BY DEF DispatchToV8, TypeOK
  <2>2. \A x \in Actors :
          phaseOf'[x] = IF x = a THEN "run" ELSE phaseOf[x]
    BY <2>1 DEF phaseOf, TypeOK
  <2> QED
    BY <2>2 DEF phaseOf
<1>3. PICK o \in Outcomes : outcome' = [outcome EXCEPT ![a] = o]
  BY DEF DispatchToV8
<1>4. outcomeOf' = [outcomeOf EXCEPT ![a] = IF o = "skipped" THEN "error" ELSE o]
  BY <1>3 DEF outcomeOf, TypeOK
<1>5. (IF o = "skipped" THEN "error" ELSE o) \in RPC!Outcomes
  BY DEF Outcomes, RPC!Outcomes
<1> QED
  BY <1>1, <1>2, <1>4, <1>5 DEF RPC!Run

LEMMA NextRPC ==
  ASSUME IInv, [Next]_vars, [\A a \in Actors : ~SpuriousWake(a)]_vars
  PROVE  [RPC!Next]_(RPC!vars)
<1> USE DEF Actors, invokeVars, invVars, queueVars, loopVars, mainVars, refVars,
            otherVars
<1>0. pc \in [Actors -> Sites] /\ dispatches \in [Actors -> Nat]
      /\ outcome \in [Actors -> Outcomes \union {"none"}]
  BY DEF IInv, TypeOK
<1>1. ASSUME NEW a \in Actors, Enter(a) PROVE RPC!Call(a)
  <2>1. dispatches[a] = 0 /\ outcome[a] = "none"
    BY <1>1 DEF Enter, IInv, CallInv
  <2> QED
    BY <1>0, <1>1, <2>1 DEF Enter, RPC!Call, phaseOf, outcomeOf, OnLoopThread
<1>2. ASSUME NEW a \in Actors, DirectDispatch(a) PROVE RPC!Run(a)
  <2>1. a = Main /\ dispatches[a] = 0
    BY <1>2 DEF DirectDispatch, IInv, MainInv, CallInv
  <2> QED
    BY <1>0, <1>2, <2>1, RunStep DEF DirectDispatch, IInv
<1>3. ASSUME NEW a \in Actors, DirectReturn(a) PROVE RPC!Return(a)
  <2>1. dispatches[a] # 0
    BY <1>3 DEF DirectReturn, IInv, MainInv, CallInv
  <2> QED
    BY <1>0, <1>3, <2>1 DEF DirectReturn, CallEnds, RPC!Return, phaseOf, outcomeOf
<1>4. ASSUME NEW a \in Actors, Destroy(a) PROVE RPC!Return(a)
  <2>1. dispatches[a] # 0
    BY <1>4 DEF Destroy, IInv, MainInv, CallInv, Dispatched, After
  <2> QED
    BY <1>0, <1>4, <2>1 DEF Destroy, CallEnds, RPC!Return, phaseOf, outcomeOf
<1>5. ASSUME WatcherDispatch PROVE RPC!Run(cur)
  <2>1. cur \in Actors /\ pc[cur] # "native" /\ dispatches[cur] = 0
    BY <1>5 DEF WatcherDispatch, IInv, CurInv, Parked
  <2> QED
    BY <1>5, <2>1, RunStep DEF WatcherDispatch, IInv
<1>6. ASSUME NEW a \in Actors,
             \/ Ref(a) \/ Construct(a) \/ LockQueue(a) \/ PushAndUnlock(a)
             \/ Send(a) \/ WaitBegin(a) \/ WaitReturn(a) \/ Unref(a)
      PROVE  UNCHANGED <<phaseOf, outcomeOf>>
  <2>1. PICK site \in Sites \ {"native"} :
          /\ pc' = [pc EXCEPT ![a] = site] /\ pc[a] # "native"
          /\ UNCHANGED <<dispatches, outcome>>
    BY <1>6 DEF Ref, Unref, Sites, Before, Parked, After, RefTest, RefSet,
       RefAdd, Construct, LockQueue, PushAndUnlock, Send, WaitBegin,
       WaitReturn, UnrefTest, UnrefClear, UnrefSub
  <2> QED
    BY <2>1, PhaseChange
<1>7. ASSUME SignalDoneExecuting PROVE UNCHANGED <<phaseOf, outcomeOf>>
  <2>1. cur \in Actors
    BY <1>7 DEF SignalDoneExecuting, IInv, CurInv
  <2>2. CASE pc[cur] = "waiting"
    BY <1>7, <2>1, <2>2, PhaseChange DEF SignalDoneExecuting
  <2>3. CASE pc[cur] # "waiting"
    BY <1>7, <2>3 DEF SignalDoneExecuting, phaseOf, outcomeOf
  <2> QED
    BY <2>2, <2>3
<1>8. ASSUME \/ FFICall \/ FFICallReturn \/ LoopWake \/ WatcherLock
             \/ WatcherPop \/ SignalUnlock \/ WatcherUnlock
             \/ RequestEnds \/ LoopExit \/ OtherBegin(1) \/ OtherBegin(-1)
             \/ OtherEnd \/ UNCHANGED vars
      PROVE  UNCHANGED <<phaseOf, outcomeOf>>
  <2>1. UNCHANGED <<pc, dispatches, outcome>>
    BY <1>8 DEF FFICall, FFICallReturn, LoopWake, WatcherLock, WatcherPop,
       SignalUnlock, WatcherUnlock, RequestEnds, LoopExit, OtherBegin,
       OtherEnd, vars
  <2> QED
    BY <2>1 DEF phaseOf, outcomeOf
<1>9. cur \in Actors \/ ~WatcherDispatch
  BY DEF WatcherDispatch, IInv, CurInv
<1> QED
  BY <1>1, <1>2, <1>3, <1>4, <1>5, <1>6, <1>7, <1>8, <1>9, Invisible
  DEF Next, Invoke, WatcherCallback, RPC!Next

\* Each call is a synchronous remote procedure call: every behaviour of the
\* queue, the mutexes and the wake-ups in which no wait ends spuriously is one
\* of CallbackRPC.
THEOREM ImplementsRPC == SafetySpec /\ NoSpuriousWake => RPCSafety
<1>1. Init => RPC!Init
  BY DEF Init, RPC!Init, phaseOf, outcomeOf
<1>2. IInv /\ [Next]_vars /\ [\A a \in Actors : ~SpuriousWake(a)]_vars
        => [RPC!Next]_(RPC!vars)
  BY NextRPC
<1> QED
  BY <1>1, <1>2, Invariant, PTL
     DEF SafetySpec, NoSpuriousWake, RPCSafety, RPC!SafetySpec

-----------------------------------------------------------------------------
(* The references of the handle (uv_ref and uv_unref in                    *)
(* CallbackInfo::Invoke) when a single foreign thread calls back and no    *)
(* other handle is in motion: the count is then exact, for any number of   *)
(* other handles and any machine word, and whatever the condition variable *)
(* does.  With two threads it is not (see CallbackDispatch_held.cfg).      *)

\* Where the thread is tells the handle's flag and the loop's count.
Uncounted == {"native", "refTest", "refSet", "destroy"}
CountedAt == {"construct", "lockQueue", "push", "wake", "unrefTest", "unrefClear"}
               \union Parked
RefInv(t) ==
  /\ pc[t] \in Uncounted => ~refd /\ activeHandles = others
  /\ pc[t] = "refAdd" => refd /\ loaded[t] = others /\ activeHandles = others
  /\ pc[t] \in CountedAt => refd /\ activeHandles = others + 1
  /\ pc[t] = "unrefSub" =>
       ~refd /\ loaded[t] = others + 1 /\ activeHandles = others + 1

Paths(t) ==
  /\ pc[Main] \in {"native", "direct", "directDone"}
  /\ pc[t] \notin {"direct", "directDone"}
  /\ churn = 0

SInv(t) == TypeOK /\ Paths(t) /\ RefInv(t)

\* The word is wide enough for the other handles and ours.
LEMMA AddExact ==
  ASSUME NEW n \in 0..OtherHandles
  PROVE  Add(n, 1) = n + 1 /\ Add(n + 1, -1) = n
<1>1. n \in Nat /\ n + 1 < HandleModulus /\ n < HandleModulus /\ n + 1 + (-1) = n
  OBVIOUS
<1>2. \A m \in Nat, k \in Nat \ {0} : m < k => m % k = m
  OBVIOUS
<1> QED
  BY <1>1, <1>2 DEF Add

\* Steps that leave the thread and the references where they are.
LEMMA Aside ==
  ASSUME NEW t, SInv(t), TypeOK', UNCHANGED <<refd, activeHandles, others, churn>>,
         loaded'[t] = loaded[t], pc'[t] = pc[t],
         pc'[Main] \in {"native", "direct", "directDone"}
  PROVE  SInv(t)'
BY DEF SInv, Paths, RefInv

\* ... and steps that take it on with the references as they are.
LEMMA Onward ==
  ASSUME NEW t, SInv(t), TypeOK', UNCHANGED <<refd, activeHandles, others, churn>>,
         \/ pc[t] \in Uncounted /\ pc'[t] \in Uncounted
         \/ pc[t] \in CountedAt /\ pc'[t] \in CountedAt,
         pc'[Main] = pc[Main]
  PROVE  SInv(t)'
BY DEF SInv, Paths, RefInv, Uncounted, CountedAt, Parked

LEMMA SInitInv ==
  ASSUME NEW t, Threads = {t}
  PROVE  Init => SInv(t)
<1> SUFFICES ASSUME Init PROVE SInv(t)
  OBVIOUS
<1>1. TypeOK
  BY InitType
<1> QED
  BY <1>1 DEF Init, SInv, Paths, RefInv, Uncounted, CountedAt, Parked, Actors

LEMMA MainSteps ==
  ASSUME NEW t, Threads = {t}, SInv(t), TypeOK',
         Enter(Main) \/ Invoke(Main) \/ SpuriousWake(Main)
  PROVE  SInv(t)'
<1>1. t # Main /\ Main \in Actors /\ t \in Actors
  BY DEF Actors
<1>2. Enter(Main) \/ DirectDispatch(Main) \/ DirectReturn(Main)
  BY <1>1 DEF SInv, Paths, Invoke, Ref, RefTest, RefSet, RefAdd, Construct,
     LockQueue, PushAndUnlock, Send, WaitBegin, WaitReturn, Unref, UnrefTest,
     UnrefClear, UnrefSub, Destroy, SpuriousWake
<1>3. /\ UNCHANGED <<refd, activeHandles, others, churn, loaded>>
      /\ pc'[t] = pc[t] /\ pc'[Main] \in {"native", "direct", "directDone"}
  BY <1>1, <1>2 DEF Enter, OnLoopThread, DirectDispatch, DispatchToV8, DirectReturn,
     CallEnds, refVars, otherVars, SInv, TypeOK
<1> QED
  BY <1>3, Aside

LEMMA ThreadSteps ==
  ASSUME NEW t, Threads = {t}, SInv(t), TypeOK',
         Enter(t) \/ Invoke(t) \/ SpuriousWake(t)
  PROVE  SInv(t)'
<1> USE DEF Uncounted, CountedAt, Parked
<1>1. t # Main /\ Main \in Actors /\ t \in Actors
  BY DEF Actors
<1>2. CASE RefTest(t) \/ UnrefTest(t)
  BY <1>1, <1>2, ZenonT(40) DEF RefTest, UnrefTest, SInv, TypeOK, Paths, RefInv, refVars, otherVars
<1>3. CASE RefSet(t) \/ UnrefClear(t)
  BY <1>1, <1>3, ZenonT(40) DEF RefSet, UnrefClear, SInv, TypeOK, Paths, RefInv, otherVars
<1>4. CASE RefAdd(t) \/ UnrefSub(t)
  BY <1>1, <1>4, AddExact, ZenonT(40) DEF RefAdd, UnrefSub, SInv, TypeOK, Paths, RefInv, otherVars
<1>5. CASE \/ Enter(t) \/ Construct(t) \/ LockQueue(t) \/ PushAndUnlock(t) \/ Send(t)
           \/ WaitBegin(t) \/ WaitReturn(t) \/ Destroy(t) \/ SpuriousWake(t)
  <2>1. /\ UNCHANGED <<refd, activeHandles, others, churn>> /\ pc'[Main] = pc[Main]
        /\ \/ pc[t] \in Uncounted /\ pc'[t] \in Uncounted
           \/ pc[t] \in CountedAt /\ pc'[t] \in CountedAt
    BY <1>1, <1>5 DEF Enter, OnLoopThread, Construct, LockQueue, PushAndUnlock, Send,
       WaitBegin, WaitReturn, Destroy, CallEnds, SpuriousWake, SInv, TypeOK, refVars,
       otherVars
  <2> QED
    BY <2>1, Onward
<1>6. CASE DirectDispatch(t) \/ DirectReturn(t)
  BY <1>6 DEF DirectDispatch, DirectReturn, SInv, Paths
<1> QED
  BY <1>2, <1>3, <1>4, <1>5, <1>6 DEF Invoke, Ref, Unref

\* SignalDoneExecuting wakes the thread where it waits.
LEMMA LoopSteps ==
  ASSUME NEW t, Threads = {t}, HandlesChurn = FALSE, SInv(t), TypeOK',
         \/ FFICall \/ FFICallReturn \/ LoopWake \/ WatcherCallback
         \/ RequestEnds \/ LoopExit
         \/ OtherBegin(1) \/ OtherBegin(-1) \/ OtherEnd
  PROVE  SInv(t)'
<1>1. t # Main /\ Main \in Actors /\ t \in Actors
  BY DEF Actors
<1>2. CASE SignalDoneExecuting
  <2>1. /\ UNCHANGED <<refd, activeHandles, others, churn, loaded>>
        /\ pc'[Main] = pc[Main]
    BY <1>1, <1>2 DEF SignalDoneExecuting, refVars, otherVars, SInv, Paths, TypeOK
  <2>2. pc'[t] = pc[t] \/ (pc[t] = "waiting" /\ pc'[t] = "wake")
    BY <1>1, <1>2 DEF SignalDoneExecuting, SInv, TypeOK
  <2>3. CASE pc'[t] = pc[t]
    BY <2>1, <2>3, Aside DEF SInv, Paths
  <2>4. CASE pc[t] = "waiting" /\ pc'[t] = "wake"
    BY <2>1, <2>4, Onward DEF CountedAt, Parked
  <2> QED
    BY <2>2, <2>3, <2>4
<1>3. CASE ~SignalDoneExecuting
  <2>1. UNCHANGED <<pc, refd, activeHandles, others, churn, loaded>>
    BY <1>3 DEF FFICall, FFICallReturn, LoopWake, WatcherCallback, WatcherLock,
       WatcherPop, WatcherDispatch, DispatchToV8, SignalUnlock, WatcherUnlock,
       RequestEnds, LoopExit, OtherBegin, OtherEnd, invokeVars, refVars, otherVars,
       SInv, Paths
  <2> QED
    BY <2>1, Aside DEF SInv, Paths
<1> QED
  BY <1>2, <1>3

LEMMA SNextInv ==
  ASSUME NEW t, Threads = {t}, HandlesChurn = FALSE
  PROVE  SInv(t) /\ [Next]_vars => SInv(t)'
<1> SUFFICES ASSUME SInv(t), [Next]_vars PROVE SInv(t)'
  OBVIOUS
<1>1. TypeOK'
  BY NextType DEF SInv
<1>2. CASE UNCHANGED vars
  BY <1>1, <1>2, Aside DEF vars, invokeVars, refVars, otherVars, SInv, Paths
<1>3. CASE Next
  BY <1>1, <1>3, MainSteps, ThreadSteps, LoopSteps DEF Next, Actors
<1> QED
  BY <1>2, <1>3

\* When no call is executing the handle neither keeps the loop alive nor takes
\* away from the other handles.
THEOREM Released ==
  ASSUME NEW CONSTANT t, Threads = {t}, HandlesChurn = FALSE
  PROVE  SafetySpec => []LoopReleased
<1>1. SInv(t) => LoopReleased
  BY DEF SInv, RefInv, Uncounted, LoopReleased, Actors
<1> QED
  BY <1>1, SInitInv, SNextInv, PTL DEF SafetySpec

\* The loop does not exit while the thread's call is executing.
THEOREM HeldOpen ==
  ASSUME NEW CONSTANT t, Threads = {t}, HandlesChurn = FALSE
  PROVE  SafetySpec => LoopHeldOpen
<1>1. SInv(t) /\ [Next]_vars =>
        [mpc' = "exited" /\ mpc # "exited"
           => \A a \in Actors : pc[a] \notin Executing]_vars
  <2> SUFFICES ASSUME SInv(t), Next, mpc' = "exited", mpc # "exited"
               PROVE  \A a \in Actors : pc[a] \notin Executing
    OBVIOUS
  <2>1. activeHandles = 0
    BY DEF Next, Enter, Invoke, DirectDispatch, DirectReturn, Ref, RefTest, RefSet,
       RefAdd, Construct, LockQueue, PushAndUnlock, Send, WaitBegin, WaitReturn,
       Unref, UnrefTest, UnrefClear, UnrefSub, Destroy, SpuriousWake, FFICall,
       FFICallReturn, LoopWake, WatcherCallback, WatcherLock, WatcherPop,
       WatcherDispatch, SignalDoneExecuting, SignalUnlock, WatcherUnlock,
       RequestEnds, LoopExit, OtherBegin, OtherEnd, loopVars
  <2> QED
    BY <2>1 DEF SInv, TypeOK, Paths, RefInv, CountedAt, Parked, Executing, Actors
<1> QED
  BY <1>1, SInitInv, SNextInv, PTL DEF SafetySpec, LoopHeldOpen
=============================================================================
