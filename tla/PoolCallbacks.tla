---------------------------- MODULE PoolCallbacks ----------------------------
(***************************************************************************)
(* fn.async() composed with ffi.Callback(): the foreign threads are those  *)
(* of libuv's pool, and execute the function pointer only from the C       *)
(* function of an asynchronous call (test/callback.js, "async").  The call *)
(* is a libuv request until its completion is delivered on the loop, which *)
(* keeps the loop alive whatever the races on the handle's count do.       *)
(*                                                                         *)
(* No wait is taken to end without its signal, no other handle comes or    *)
(* goes, and JavaScript makes no synchronous calls: CallbackDispatch shows *)
(* what these do.                                                          *)
(*                                                                         *)
(* AsyncCall models the calls themselves; here each thread has at most one *)
(* at a time, and its stages are those at which the two components meet.   *)
(***************************************************************************)
EXTENDS CallbackDispatch

VARIABLE job         \* of each thread: "idle", "running" or "done"

poolVars == <<vars, job>>

\* The only requests are the jobs.
PoolInit == Init /\ ~request /\ job = [t \in Threads |-> "idle"]

\* JavaScript calls fn.async, and the pool gives the request to thread t.
FFICallAsync(t) ==
  /\ CanRunJS
  /\ job[t] = "idle"
  /\ job' = [job EXCEPT ![t] = "running"]
  /\ UNCHANGED vars

\* The C function returns from its last callback and then to AsyncFFICall.
AsyncFFICallReturn(t) ==
  /\ job[t] = "running"
  /\ pc[t] = "native"
  /\ job' = [job EXCEPT ![t] = "done"]
  /\ UNCHANGED vars

\* FinishAsyncFFICall, on the loop: the request is over.
FinishAsyncFFICall(t) ==
  /\ MainFree
  /\ mpc = "loop"
  /\ job[t] = "done"
  /\ job' = [job EXCEPT ![t] = "idle"]
  /\ UNCHANGED vars

\* uv_run returns only if there is no active request either.
PoolLoopExit == LoopExit /\ \A t \in Threads : job[t] = "idle"

\* Only a thread whose C function runs executes the function pointer.
PoolEnter(t) == Enter(t) /\ job[t] = "running"

PoolNext ==
  \/ \E t \in Threads :
       FFICallAsync(t) \/ AsyncFFICallReturn(t) \/ FinishAsyncFFICall(t)
  \/ /\ UNCHANGED job
     /\ \/ \E t \in Threads : PoolEnter(t) \/ Invoke(t)
        \/ LoopWake \/ WatcherCallback \/ PoolLoopExit

PoolSafety == PoolInit /\ [][PoolNext]_poolVars

\* As in CallbackDispatch, and each C function returns in the end.
PoolFairness ==
  /\ SF_poolVars((LoopWake \/ WatcherCallback) /\ UNCHANGED job)
  /\ \A t \in Threads :
       /\ SF_poolVars(Invoke(t) /\ UNCHANGED job)
       /\ SF_poolVars(AsyncFFICallReturn(t))
       /\ SF_poolVars(FinishAsyncFFICall(t))

PoolSpec == PoolSafety /\ PoolFairness

-----------------------------------------------------------------------------
(* Properties.                                                             *)

\* Each thread's job has its type, beside the variables of CallbackDispatch.
PoolTypeOK == TypeOK /\ job \in [Threads -> {"idle", "running", "done"}]

=============================================================================
