------------------------- MODULE PoolCallbacks_proof -------------------------
(***************************************************************************)
(* What CallbackDispatch guarantees holds in PoolCallbacks as well, for    *)
(* any number of threads of the pool.                                      *)
(***************************************************************************)
EXTENDS PoolCallbacks, CallbackDispatch_proof

USE ActorsAssumption, FlagsAssumption, HandlesAssumption

JobsOK == job \in [Threads -> {"idle", "running", "done"}]

\* Each step within a callback takes its thread on, and not out of uv_cond_wait.
LEMMA InvokeMoves ==
  ASSUME TypeOK, NEW t \in Threads, Invoke(t)
  PROVE  pc'[t] # pc[t] /\ pc'[t] # "wake"
BY DEF TypeOK, Actors, Invoke, DirectDispatch, DirectReturn, CallEnds, Ref, RefTest,
   RefSet, RefAdd, Construct, LockQueue, PushAndUnlock, Send, WaitBegin, WaitReturn,
   Unref, UnrefTest, UnrefClear, UnrefSub, Destroy

\* The loop moves no thread, but with its m_mutex.
LEMMA LoopMoves ==
  ASSUME IInv, LoopWake \/ WatcherCallback \/ PoolLoopExit
  PROVE  pc' = pc \/ invMutex' # invMutex
<1>1. CASE SignalDoneExecuting
  <2>1. /\ cur \in Actors /\ invMutex[cur] = Nobody
        /\ invMutex' = [invMutex EXCEPT ![cur] = Main]
        /\ invMutex \in [Actors -> Actors \union {Nobody}] /\ Main # Nobody
    BY <1>1 DEF SignalDoneExecuting, IInv, TypeOK, CurInv, Actors
  <2> QED
    BY <2>1
<1>2. CASE ~SignalDoneExecuting
  BY <1>2 DEF LoopWake, WatcherCallback, WatcherLock, WatcherPop, WatcherDispatch,
     SignalUnlock, WatcherUnlock, PoolLoopExit, LoopExit, invokeVars
<1> QED
  BY <1>1, <1>2

\* A step of the composition is one of CallbackDispatch, and no wait ends
\* spuriously in it.
LEMMA PoolStep ==
  ASSUME IInv, [PoolNext]_poolVars
  PROVE  [Next]_vars /\ [\A a \in Actors : ~SpuriousWake(a)]_vars
<1>1. CASE UNCHANGED vars
  BY <1>1
<1>2. ASSUME NEW t \in Threads, Enter(t) \/ Invoke(t)
      PROVE  Next /\ \A a \in Actors : ~SpuriousWake(a)
  <2>1. pc'[t] # pc[t] /\ pc'[t] # "wake" /\ t \in Actors
    BY <1>2, InvokeMoves DEF Enter, OnLoopThread, IInv, TypeOK, Actors
  <2>2. \A a \in Actors : ~SpuriousWake(a)
    BY <2>1 DEF SpuriousWake, IInv, TypeOK
  <2> QED
    BY <1>2, <2>1, <2>2 DEF Next
<1>3. ASSUME LoopWake \/ WatcherCallback \/ PoolLoopExit
      PROVE  Next /\ \A a \in Actors : ~SpuriousWake(a)
  <2>1. pc' = pc \/ invMutex' # invMutex
    BY <1>3, LoopMoves
  <2>2. \A a \in Actors : ~SpuriousWake(a)
    BY <2>1 DEF SpuriousWake, invVars, IInv, TypeOK
  <2> QED
    BY <1>3, <2>2 DEF Next, PoolLoopExit
<1> QED
  BY <1>1, <1>2, <1>3 DEF PoolNext, PoolEnter, poolVars, FFICallAsync,
     AsyncFFICallReturn, FinishAsyncFFICall

LEMMA JobsType ==
  ASSUME JobsOK, [PoolNext]_poolVars
  PROVE  JobsOK'
BY DEF JobsOK, PoolNext, poolVars, FFICallAsync, AsyncFFICallReturn,
   FinishAsyncFFICall

\* The hand-off between the pool's threads and the loop keeps the inductive
\* invariant of CallbackDispatch, and with it all that follows from it.
THEOREM PoolInvariant == PoolSpec => []IInv
<1>1. PoolInit => IInv
  BY InitInv DEF PoolInit
<1>2. IInv /\ [PoolNext]_poolVars => IInv'
  BY PoolStep, NextInv
<1> QED
  BY <1>1, <1>2, PTL DEF PoolSpec, PoolSafety

\* Every variable of the composition keeps its type.
THEOREM PoolTypeCorrect == PoolSpec => []PoolTypeOK
<1>1. PoolInit => JobsOK
  BY DEF PoolInit, JobsOK
<1>2. IInv /\ JobsOK => PoolTypeOK
  BY DEF IInv, JobsOK, PoolTypeOK
<1> QED
  BY <1>1, <1>2, JobsType, PoolInvariant, PTL DEF PoolSpec, PoolSafety
=============================================================================
