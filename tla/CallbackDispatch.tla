-------------------------- MODULE CallbackDispatch --------------------------
(***************************************************************************)
(* How a C function pointer made by ffi.Callback() runs its JavaScript     *)
(* function (src/src/callback_info.cc, threaded_callback_invokation.cc).   *)
(*                                                                         *)
(* The closure's entry point is Invoke.  On the event loop's own thread it *)
(* calls the function directly.  On any other thread it refs the loop's    *)
(* uv_async_t, pushes a ThreadedCallbackInvokation living on its own stack *)
(* to InstanceData::queue, wakes the loop and sleeps on the invocation's   *)
(* condition variable; WatcherCallback, on the loop, drains the queue,     *)
(* runs each function while it holds InstanceData::mutex, and signals.     *)
(*                                                                         *)
(* uv_ref and uv_unref are not thread-safe.  Each is a test of the         *)
(* handle's REF flag, a write of the flag and an update of the loop's      *)
(* count of active handles, and here each of these is a step of its own.   *)
(***************************************************************************)
EXTENDS Integers, Sequences, Functions

CONSTANTS
  Threads,           \* threads other than the loop's that run C code
  Main,              \* the event loop's thread (InstanceData::thread)
  Nobody,            \* no thread: the owner of a free mutex
  SpuriousWakeups,   \* may uv_cond_wait return without a signal?
  RequestMayEnd,     \* may the loop's outstanding request complete?
  OtherHandles,      \* bound on active referenced handles that are not ours
  HandlesChurn,      \* does the program start and stop such handles?
  HandleModulus      \* active_handles is an unsigned of this modulus

Actors == Threads \union {Main}

ASSUME ActorsAssumption ==
  /\ Main \notin Threads
  /\ Nobody \notin Actors
ASSUME FlagsAssumption ==
  /\ SpuriousWakeups \in BOOLEAN
  /\ RequestMayEnd \in BOOLEAN
  /\ HandlesChurn \in BOOLEAN
ASSUME HandlesAssumption ==
  /\ HandleModulus \in Nat
  /\ OtherHandles \in Nat
  /\ OtherHandles + 1 < HandleModulus

VARIABLES
  pc,                \* where each thread is in Invoke
  dispatches,        \* how often DispatchToV8 ran for its current call
  outcome,           \* what its current call produced so far
  live,              \* does its ThreadedCallbackInvokation exist?
  invMutex,          \* owner of that object's m_mutex
  queue,             \* InstanceData::queue; an entry is its owner's name
  mutex,             \* owner of InstanceData::mutex
  asyncPending,      \* uv_async_send happened, the loop has not seen it
  mpc,               \* where the loop is in WatcherCallback
  cur,               \* the invocation it popped
  inC,               \* is the loop's thread inside a synchronous ffi call?
  exception,         \* does it have a pending JavaScript exception?
  request,           \* is a request (an async ffi call) outstanding?
  refd,              \* UV_HANDLE_REF of InstanceData::async
  activeHandles,     \* the loop's active_handles
  loaded,            \* the value a thread loaded from it
  others,            \* how many other handles are active
  churn              \* the update of the count the loop's thread is amid

invokeVars == <<pc, dispatches, outcome>>
invVars    == <<live, invMutex>>
queueVars  == <<queue, mutex>>
loopVars   == <<mpc, cur>>
mainVars   == <<inC, exception>>
otherVars  == <<others, churn>>
refVars    == <<refd, activeHandles, loaded, otherVars>>
vars == <<invokeVars, invVars, queueVars, asyncPending, loopVars, mainVars,
          request, refVars>>

Outcomes == {"value", "error", "skipped"}

\* Steps of Invoke on a foreign thread: before the function has run for it,
\* and after its wait has ended.
Parked == {"send", "wait", "waiting"}
Before == {"refTest", "refSet", "refAdd", "construct", "lockQueue", "push"}
After  == {"unrefTest", "unrefClear", "unrefSub", "destroy"}

Add(n, k) == (n + k) % HandleModulus

-----------------------------------------------------------------------------
\* CallbackInfo::Initialize has run: the handle is active but unreferenced.  (A
\* request that may end may have ended before.)
Init ==
  /\ pc = [a \in Actors |-> "native"]
  /\ dispatches = [a \in Actors |-> 0]
  /\ outcome = [a \in Actors |-> "none"]
  /\ live = [a \in Actors |-> FALSE]
  /\ invMutex = [a \in Actors |-> Nobody]
  /\ queue = <<>>
  /\ mutex = Nobody
  /\ asyncPending = FALSE
  /\ mpc = "loop"
  /\ cur = Nobody
  /\ inC = FALSE
  /\ exception = FALSE
  /\ request \in {TRUE, ~RequestMayEnd}
  /\ refd = FALSE
  /\ others \in 0..OtherHandles
  /\ activeHandles = others
  /\ loaded = [a \in Actors |-> 0]
  /\ churn = 0

-----------------------------------------------------------------------------
(* JavaScript on the loop's thread makes a synchronous ffi call, either    *)
(* from an event of its own or from a callback being dispatched.           *)

\* With an exception pending MakeCallback runs nothing for WatcherCallback.
CanRunJS ==
  /\ mpc = "loop" \/ (mpc = "dispatch" /\ ~exception)
  /\ ~inC
  /\ churn = 0

FFICall ==
  /\ CanRunJS
  /\ inC' = TRUE
  /\ UNCHANGED <<invokeVars, invVars, queueVars, asyncPending, loopVars,
                 exception, request, refVars>>

\* ffi_call returns, and whatever exception is pending is thrown to JavaScript
\* as its result (as any function of the binding does on its return).
FFICallReturn ==
  /\ inC
  /\ pc[Main] = "native"
  /\ inC' = FALSE
  /\ exception' = FALSE
  /\ UNCHANGED <<invokeVars, invVars, queueVars, asyncPending, loopVars,
                 request, refVars>>

-----------------------------------------------------------------------------
(* CallbackInfo::Invoke, by thread a.                                      *)

\* uv_thread_equal(&self_thread, &data->thread)
OnLoopThread(a) == a = Main

\* The C code executes the function pointer.
Enter(a) ==
  /\ pc[a] = "native"
  /\ a = Main => inC
  /\ pc' = [pc EXCEPT ![a] = IF OnLoopThread(a) THEN "direct" ELSE "refTest"]
  /\ dispatches' = [dispatches EXCEPT ![a] = 0]
  /\ outcome' = [outcome EXCEPT ![a] = "none"]
  /\ UNCHANGED <<invVars, queueVars, asyncPending, loopVars, mainVars,
                 request, refVars>>

\* DispatchToV8 for thread a.  MakeCallback does not run the function when an
\* exception is already pending, and the catch block makes that one pending
\* again.  An error of the function goes to the caller's JavaScript as an
\* exception, or, dispatched, to errorReportCallback and process.nextTick.  But
\* a dispatched MakeCallback also runs the tick queue, where such an error is
\* thrown: it fails, and the catch block leaves an exception pending after all.
DispatchToV8(a, dispatched) ==
  /\ dispatches' = [dispatches EXCEPT ![a] = @ + 1]
  /\ \E o \in Outcomes :
       /\ o = "skipped" <=> exception
       /\ outcome' = [outcome EXCEPT ![a] = o]
       /\ \/ exception' = (exception \/ (o = "error" /\ ~dispatched))
          \/ dispatched /\ exception' = TRUE

DirectDispatch(a) ==
  /\ pc[a] = "direct"
  /\ DispatchToV8(a, FALSE)
  /\ pc' = [pc EXCEPT ![a] = "directDone"]
  /\ UNCHANGED <<invVars, queueVars, asyncPending, loopVars, inC, request,
                 refVars>>

\* The C code gets control back, and the record of the call is forgotten.
CallEnds(a) ==
  /\ pc' = [pc EXCEPT ![a] = "native"]
  /\ dispatches' = [dispatches EXCEPT ![a] = 0]
  /\ outcome' = [outcome EXCEPT ![a] = "none"]

DirectReturn(a) ==
  /\ pc[a] = "directDone"
  /\ CallEnds(a)
  /\ UNCHANGED <<invVars, queueVars, asyncPending, loopVars, mainVars, request,
                 refVars>>

\* Mutant: uv_ref is forgotten.
NoRef(a) ==
  /\ pc[a] = "refTest"
  /\ pc' = [pc EXCEPT ![a] = "construct"]
  /\ UNCHANGED <<dispatches, outcome, invVars, queueVars, asyncPending,
                 loopVars, mainVars, request, refVars>>

\* uv_ref: return if the flag is set ...
RefTest(a) ==
  /\ pc[a] = "refTest"
  /\ pc' = [pc EXCEPT ![a] = IF refd THEN "construct" ELSE "refSet"]
  /\ UNCHANGED <<dispatches, outcome, invVars, queueVars, asyncPending,
                 loopVars, mainVars, request, refVars>>

\* ... else set it and load active_handles ...
RefSet(a) ==
  /\ pc[a] = "refSet"
  /\ refd' = TRUE
  /\ loaded' = [loaded EXCEPT ![a] = activeHandles]
  /\ pc' = [pc EXCEPT ![a] = "refAdd"]
  /\ UNCHANGED <<dispatches, outcome, invVars, queueVars, asyncPending,
                 loopVars, mainVars, request, activeHandles, otherVars>>

\* ... and store the incremented value (the loaded one is then forgotten).
RefAdd(a) ==
  /\ pc[a] = "refAdd"
  /\ activeHandles' = Add(loaded[a], 1)
  /\ loaded' = [loaded EXCEPT ![a] = 0]
  /\ pc' = [pc EXCEPT ![a] = "construct"]
  /\ UNCHANGED <<dispatches, outcome, invVars, queueVars, asyncPending,
                 loopVars, mainVars, request, refd, otherVars>>

\* Mutant: the constructor leaves m_mutex unlocked.
ConstructUnlocked(a) ==
  /\ pc[a] = "construct"
  /\ live' = [live EXCEPT ![a] = TRUE]
  /\ pc' = [pc EXCEPT ![a] = "lockQueue"]
  /\ UNCHANGED <<dispatches, outcome, invMutex, queueVars, asyncPending,
                 loopVars, mainVars, request, refVars>>

\* The invocation's constructor locks its m_mutex.
Construct(a) ==
  /\ pc[a] = "construct"
  /\ live' = [live EXCEPT ![a] = TRUE]
  /\ invMutex' = [invMutex EXCEPT ![a] = a]
  /\ pc' = [pc EXCEPT ![a] = "lockQueue"]
  /\ UNCHANGED <<dispatches, outcome, queueVars, asyncPending, loopVars,
                 mainVars, request, refVars>>

LockQueue(a) ==
  /\ pc[a] = "lockQueue"
  /\ mutex = Nobody
  /\ mutex' = a
  /\ pc' = [pc EXCEPT ![a] = "push"]
  /\ UNCHANGED <<dispatches, outcome, invVars, queue, asyncPending, loopVars,
                 mainVars, request, refVars>>

PushAndUnlock(a) ==
  /\ pc[a] = "push"
  /\ queue' = Append(queue, a)
  /\ mutex' = Nobody
  /\ pc' = [pc EXCEPT ![a] = "send"]
  /\ UNCHANGED <<dispatches, outcome, invVars, asyncPending, loopVars,
                 mainVars, request, refVars>>

\* uv_async_send: sends that the loop has not seen yet coalesce.
Send(a) ==
  /\ pc[a] = "send"
  /\ asyncPending' = TRUE
  /\ pc' = [pc EXCEPT ![a] = "wait"]
  /\ UNCHANGED <<dispatches, outcome, invVars, queueVars, loopVars, mainVars,
                 request, refVars>>

\* Mutant: a timed wait whose expiry is taken for completion.
TimedWait(a) ==
  /\ pc[a] = "wait"
  /\ invMutex' = [invMutex EXCEPT ![a] = Nobody]
  /\ \E site \in {"waiting", "wake"} : pc' = [pc EXCEPT ![a] = site]
  /\ UNCHANGED <<dispatches, outcome, live, queueVars, asyncPending,
                 loopVars, mainVars, request, refVars>>

\* WaitForExecution: uv_cond_wait releases m_mutex and sleeps ...
WaitBegin(a) ==
  /\ pc[a] = "wait"
  /\ invMutex' = [invMutex EXCEPT ![a] = Nobody]
  /\ pc' = [pc EXCEPT ![a] = "waiting"]
  /\ UNCHANGED <<dispatches, outcome, live, queueVars, asyncPending,
                 loopVars, mainVars, request, refVars>>

\* ... may wake without a signal where the platform's condition variables do ...
SpuriousWake(a) ==
  /\ SpuriousWakeups
  /\ pc[a] = "waiting"
  /\ pc' = [pc EXCEPT ![a] = "wake"]
  /\ UNCHANGED <<dispatches, outcome, invVars, queueVars, asyncPending,
                 loopVars, mainVars, request, refVars>>

\* ... and returns with m_mutex locked again.  No condition is tested.
WaitReturn(a) ==
  /\ pc[a] = "wake"
  /\ invMutex[a] = Nobody
  /\ invMutex' = [invMutex EXCEPT ![a] = a]
  /\ pc' = [pc EXCEPT ![a] = "unrefTest"]
  /\ UNCHANGED <<dispatches, outcome, live, queueVars, asyncPending,
                 loopVars, mainVars, request, refVars>>

\* Mutant: uv_unref is forgotten.
NoUnref(a) ==
  /\ pc[a] = "unrefTest"
  /\ pc' = [pc EXCEPT ![a] = "destroy"]
  /\ UNCHANGED <<dispatches, outcome, invVars, queueVars, asyncPending,
                 loopVars, mainVars, request, refVars>>

\* uv_unref: return if the flag is clear ...
UnrefTest(a) ==
  /\ pc[a] = "unrefTest"
  /\ pc' = [pc EXCEPT ![a] = IF refd THEN "unrefClear" ELSE "destroy"]
  /\ UNCHANGED <<dispatches, outcome, invVars, queueVars, asyncPending,
                 loopVars, mainVars, request, refVars>>

\* ... else clear it and load active_handles ...
UnrefClear(a) ==
  /\ pc[a] = "unrefClear"
  /\ refd' = FALSE
  /\ loaded' = [loaded EXCEPT ![a] = activeHandles]
  /\ pc' = [pc EXCEPT ![a] = "unrefSub"]
  /\ UNCHANGED <<dispatches, outcome, invVars, queueVars, asyncPending,
                 loopVars, mainVars, request, activeHandles, otherVars>>

\* ... and store the decremented value.
UnrefSub(a) ==
  /\ pc[a] = "unrefSub"
  /\ activeHandles' = Add(loaded[a], -1)
  /\ loaded' = [loaded EXCEPT ![a] = 0]
  /\ pc' = [pc EXCEPT ![a] = "destroy"]
  /\ UNCHANGED <<dispatches, outcome, invVars, queueVars, asyncPending,
                 loopVars, mainVars, request, refd, otherVars>>

\* The unique_ptr leaves scope: the destructor unlocks and frees m_mutex.
Destroy(a) ==
  /\ pc[a] = "destroy"
  /\ live' = [live EXCEPT ![a] = FALSE]
  /\ invMutex' = [invMutex EXCEPT ![a] = Nobody]
  /\ CallEnds(a)
  /\ UNCHANGED <<queueVars, asyncPending, loopVars, mainVars, request,
                 refVars>>

-----------------------------------------------------------------------------
(* WatcherCallback, on the loop's thread.  It runs no further while that   *)
(* thread is inside C code.                                                *)

MainFree == ~inC /\ pc[Main] = "native" /\ churn = 0

\* The loop sees the wake-up, clears it and calls WatcherCallback.
LoopWake ==
  /\ MainFree
  /\ mpc = "loop"
  /\ asyncPending
  /\ asyncPending' = FALSE
  /\ mpc' = "lock"
  /\ UNCHANGED <<invokeVars, invVars, queueVars, cur, mainVars, request,
                 refVars>>

\* Mutant: the queue is drained without its mutex.
WatcherNoLock ==
  /\ mpc = "lock"
  /\ mpc' = "drain"
  /\ UNCHANGED <<invokeVars, invVars, queueVars, asyncPending, cur, mainVars,
                 request, refVars>>

WatcherLock ==
  /\ mpc = "lock"
  /\ mutex = Nobody
  /\ mutex' = Main
  /\ mpc' = "drain"
  /\ UNCHANGED <<invokeVars, invVars, queue, asyncPending, cur, mainVars,
                 request, refVars>>

\* Mutant: the entry is read and never popped.
WatcherPeek ==
  /\ mpc = "drain"
  /\ queue # <<>>
  /\ cur' = Head(queue)
  /\ mpc' = "dispatch"
  /\ UNCHANGED <<invokeVars, invVars, queueVars, asyncPending, mainVars,
                 request, refVars>>

WatcherPop ==
  /\ mpc = "drain"
  /\ queue # <<>>
  /\ cur' = Head(queue)
  /\ queue' = Tail(queue)
  /\ mpc' = "dispatch"
  /\ UNCHANGED <<invokeVars, invVars, mutex, asyncPending, mainVars, request,
                 refVars>>

\* Mutant: a function that failed may be run again.
WatcherDispatchRetry ==
  /\ MainFree
  /\ mpc = "dispatch"
  /\ DispatchToV8(cur, TRUE)
  /\ mpc' = IF outcome'[cur] = "error" THEN "dispatch" ELSE "signal"
  /\ UNCHANGED <<pc, invVars, queueVars, asyncPending, cur, inC, request,
                 refVars>>

WatcherDispatch ==
  /\ MainFree
  /\ mpc = "dispatch"
  /\ DispatchToV8(cur, TRUE)
  /\ mpc' = "signal"
  /\ UNCHANGED <<pc, invVars, queueVars, asyncPending, cur, inC, request,
                 refVars>>

\* SignalDoneExecuting: lock m_mutex and signal whoever waits there ...
SignalDoneExecuting ==
  /\ mpc = "signal"
  /\ invMutex[cur] = Nobody
  /\ invMutex' = [invMutex EXCEPT ![cur] = Main]
  /\ pc' = IF pc[cur] = "waiting" THEN [pc EXCEPT ![cur] = "wake"] ELSE pc
  /\ mpc' = "signalUnlock"
  /\ UNCHANGED <<dispatches, outcome, live, queueVars, asyncPending, cur,
                 mainVars, request, refVars>>

\* ... and unlock it.
SignalUnlock ==
  /\ mpc = "signalUnlock"
  /\ invMutex' = [invMutex EXCEPT ![cur] = Nobody]
  /\ cur' = Nobody
  /\ mpc' = "drain"
  /\ UNCHANGED <<invokeVars, live, queueVars, asyncPending, mainVars,
                 request, refVars>>

\* Mutant: the loop over the queue stops early.
WatcherUnlockEarly ==
  /\ mpc = "drain"
  /\ mutex' = Nobody
  /\ mpc' = "loop"
  /\ UNCHANGED <<invokeVars, invVars, queue, asyncPending, cur, mainVars,
                 request, refVars>>

WatcherUnlock ==
  /\ mpc = "drain"
  /\ queue = <<>>
  /\ mutex' = Nobody
  /\ mpc' = "loop"
  /\ UNCHANGED <<invokeVars, invVars, queue, asyncPending, cur, mainVars,
                 request, refVars>>

-----------------------------------------------------------------------------
(* The event loop around it.                                               *)

RequestEnds ==
  /\ RequestMayEnd
  /\ MainFree
  /\ mpc = "loop"
  /\ request
  /\ request' = FALSE
  /\ UNCHANGED <<invokeVars, invVars, queueVars, asyncPending, loopVars,
                 mainVars, refVars>>

\* uv_run returns once nothing keeps the loop alive.
LoopExit ==
  /\ MainFree
  /\ mpc = "loop"
  /\ ~request
  /\ activeHandles = 0
  /\ mpc' = "exited"
  /\ UNCHANGED <<invokeVars, invVars, queueVars, asyncPending, cur, mainVars,
                 request, refVars>>

\* JavaScript starts (k = 1) or stops (k = -1) a timer, a server or another
\* handle: libuv loads the same count ...
OtherBegin(k) ==
  /\ HandlesChurn
  /\ CanRunJS
  /\ others + k \in 0..OtherHandles
  /\ churn' = k
  /\ others' = others + k
  /\ loaded' = [loaded EXCEPT ![Main] = activeHandles]
  /\ UNCHANGED <<invokeVars, invVars, queueVars, asyncPending, loopVars,
                 mainVars, request, refd, activeHandles>>

\* ... and stores it updated.
OtherEnd ==
  /\ churn # 0
  /\ activeHandles' = Add(loaded[Main], churn)
  /\ loaded' = [loaded EXCEPT ![Main] = 0]
  /\ churn' = 0
  /\ UNCHANGED <<invokeVars, invVars, queueVars, asyncPending, loopVars,
                 mainVars, request, refd, others>>

-----------------------------------------------------------------------------
Ref(a)    == RefTest(a) \/ RefSet(a) \/ RefAdd(a)
Unref(a)  == UnrefTest(a) \/ UnrefClear(a) \/ UnrefSub(a)
Invoke(a) ==
  \/ DirectDispatch(a) \/ DirectReturn(a)
  \/ Ref(a) \/ Construct(a) \/ LockQueue(a) \/ PushAndUnlock(a) \/ Send(a)
  \/ WaitBegin(a) \/ WaitReturn(a)
  \/ Unref(a) \/ Destroy(a)

WatcherCallback ==
  \/ WatcherLock \/ WatcherPop \/ WatcherDispatch
  \/ SignalDoneExecuting \/ SignalUnlock \/ WatcherUnlock

Next ==
  \/ \E a \in Actors : Enter(a) \/ Invoke(a) \/ SpuriousWake(a)
  \/ FFICall \/ FFICallReturn
  \/ LoopWake \/ WatcherCallback
  \/ RequestEnds \/ LoopExit
  \/ OtherBegin(1) \/ OtherBegin(-1) \/ OtherEnd

SafetySpec == Init /\ [][Next]_vars

\* Threads get processor time, and JavaScript functions and C functions called
\* from JavaScript return.  Fairness is strong because a step may be disabled
\* and enabled again: a mutex is taken by others, the loop's thread goes off
\* into C code.  Nobody is obliged to call, and the request need not end.
Fairness ==
  /\ \A a \in Actors : SF_vars(Invoke(a))
  /\ SF_vars(FFICallReturn)
  /\ SF_vars(LoopWake \/ WatcherCallback)
  /\ WF_vars(OtherEnd)

Spec == SafetySpec /\ Fairness

-----------------------------------------------------------------------------
(* Properties.                                                             *)

Sites == {"native", "direct", "directDone", "wake"} \union Before \union Parked \union After
LoopSites == {"loop", "lock", "drain", "dispatch", "signal", "signalUnlock",
              "exited"}

\* Every variable has its type; the count stays within its word.
TypeOK ==
  /\ pc \in [Actors -> Sites]
  /\ dispatches \in [Actors -> Nat]
  /\ outcome \in [Actors -> Outcomes \union {"none"}]
  /\ live \in [Actors -> BOOLEAN]
  /\ invMutex \in [Actors -> Actors \union {Nobody}]
  /\ queue \in Seq(Actors)
  /\ mutex \in Actors \union {Nobody}
  /\ asyncPending \in BOOLEAN
  /\ mpc \in LoopSites
  /\ cur \in Actors \union {Nobody}
  /\ inC \in BOOLEAN
  /\ exception \in BOOLEAN
  /\ request \in BOOLEAN
  /\ refd \in BOOLEAN
  /\ activeHandles \in 0..(HandleModulus - 1)
  /\ loaded \in [Actors -> 0..(HandleModulus - 1)]
  /\ others \in 0..OtherHandles
  /\ churn \in {-1, 0, 1}

\* DispatchToV8 ran for thread a's call, and once.
Dispatched(a) == dispatches[a] = 1 /\ outcome[a] # "none"

\* The order the comment on ThreadedCallbackInvokation promises (ffi.h:100-104):
\* once a wait has returned, the call was dispatched, exactly once.
HandoffOrder == \A a \in Actors : pc[a] \in After => Dispatched(a)

\* The queue and the loop hold bare pointers into other threads' stacks: what
\* they point to exists until the loop is done with it.
NoDanglingInvocation ==
  /\ \A a \in Range(queue) : live[a]
  /\ mpc \in {"dispatch", "signal", "signalUnlock"} => live[cur]

\* Coalesced uv_async_sends lose nobody: while the loop sleeps, whatever is
\* queued has a wake-up pending or about to be sent.
WakeupNotLost ==
  (mpc \in {"loop", "exited"} /\ queue # <<>>) =>
    asyncPending \/ \E a \in Actors : pc[a] = "send"

\* Errors of dispatched calls are for the event loop (lib/callback.js:12-13), and
\* belong to nobody on the loop's stack: an exception is pending only while
\* JavaScript waits for a C function.  This fails: see DispatchToV8.
NoStrayException == exception => inC

\* C code gets a value from JavaScript or JavaScript an error, whoever calls.
\* This fails too: after an exception a call may return with no function run
\* for it and no value written.
EveryCallRuns == \A a \in Actors : outcome[a] # "skipped"

-----------------------------------------------------------------------------
(* The inductive invariant behind the safety properties, in parts.  It     *)
(* holds as long as no condition variable wakes spuriously.                *)

InQueue(a) == \E i \in DOMAIN queue : queue[i] = a

\* The loop's thread never takes the foreign path, and is in one place.
MainInv ==
  /\ pc[Main] \in {"native", "direct", "directDone"}
  /\ \A a \in Threads : pc[a] \notin {"direct", "directDone"}
  /\ pc[Main] # "native" => inC
  /\ inC => mpc \in {"loop", "dispatch"}

\* InstanceData::mutex is held around the drain, or by a thread that pushes.
MutexInv ==
  /\ mutex = Main <=> mpc \in {"drain", "dispatch", "signal", "signalUnlock"}
  /\ \A a \in Threads : mutex = a <=> pc[a] = "push"

\* A parked thread has one entry, in the queue or in the loop's hands.
QueueInv ==
  /\ \A i \in DOMAIN queue :
       queue[i] \in Threads /\ pc[queue[i]] \in Parked
                           /\ dispatches[queue[i]] = 0
  /\ \A i, j \in DOMAIN queue : queue[i] = queue[j] => i = j
  /\ mpc \in {"dispatch", "signal"} => ~InQueue(cur)
  /\ \A a \in Threads : pc[a] \in Parked =>
       InQueue(a) \/ (mpc \in {"dispatch", "signal"} /\ cur = a)

\* What the loop holds is dispatched once and signalled while it waits.
CurInv ==
  /\ mpc \in {"dispatch", "signal"} => cur \in Threads /\ pc[cur] \in Parked
  /\ mpc = "dispatch" => dispatches[cur] = 0
  /\ mpc = "signal" => Dispatched(cur)
  /\ mpc = "signalUnlock" => cur \in Threads /\ pc[cur] = "wake"

\* A thread's call has been dispatched exactly if its wait is over.
CallInv ==
  /\ \A a \in Actors :
       pc[a] = "native" => dispatches[a] = 0 /\ outcome[a] = "none"
  /\ \A a \in Threads :
       /\ pc[a] \in Before => dispatches[a] = 0
       /\ pc[a] \in After \union {"wake"} => Dispatched(a)
  /\ pc[Main] = "direct" => dispatches[Main] = 0
  /\ pc[Main] = "directDone" => dispatches[Main] = 1

\* The invocation exists, and its m_mutex is locked, from the constructor to
\* the destructor except while its thread sleeps or the loop signals it.
InvocationInv ==
  \A a \in Threads :
    /\ live[a] <=> pc[a] \in {"lockQueue", "push", "wake"} \union Parked
                               \union After
    /\ pc[a] \in {"lockQueue", "push", "send", "wait"} \union After =>
         invMutex[a] = a
    /\ pc[a] = "waiting" => invMutex[a] = Nobody
    /\ pc[a] = "wake" =>
         invMutex[a] = IF mpc = "signalUnlock" /\ cur = a THEN Main ELSE Nobody

\* No wait ends without its signal.  Nothing sees to that: uv_cond_wait may
\* return spuriously, and WaitForExecution tests no condition.
NoSpuriousWake == [][\A a \in Actors : ~SpuriousWake(a)]_vars

IInv ==
  /\ TypeOK /\ MainInv /\ MutexInv /\ QueueInv /\ CurInv /\ CallInv
  /\ InvocationInv /\ WakeupNotLost

-----------------------------------------------------------------------------
(* Properties of the handle's references, and liveness.                    *)

\* The comment in Invoke: the event loop is held open while a foreign thread's
\* call is executing (callback_info.cc:162), so it never gives up in mid-call.
Executing == {"construct", "lockQueue", "push", "wake"} \union Parked
LoopHeldOpen ==
  [][mpc' = "exited" /\ mpc # "exited"
       => \A a \in Actors : pc[a] \notin Executing]_vars

\* The comment in Initialize: when no call is executing, our handle does not
\* keep the loop alive, nor does it take away from the other handles.
LoopReleased ==
  (\A a \in Actors : pc[a] = "native") /\ churn = 0 => activeHandles = others

-----------------------------------------------------------------------------
(* What the function pointer promises to C code, see CallbackRPC.          *)

phaseOf ==
  [a \in Actors |-> IF pc[a] = "native" THEN "idle"
                    ELSE IF dispatches[a] = 0 THEN "called" ELSE "run"]
outcomeOf ==
  [a \in Actors |-> IF outcome[a] = "skipped" THEN "error" ELSE outcome[a]]

RPC == INSTANCE CallbackRPC
         WITH Callers <- Actors, phase <- phaseOf, outcome <- outcomeOf

\* Every step is a step of the remote procedure call or invisible to C code.
RPCSafety == RPC!SafetySpec
\* ... and the calls make progress: each function is dispatched in the end and
\* each thread that executes the pointer gets control back.
RPCSpec == RPC!Spec
=============================================================================
