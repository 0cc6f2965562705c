------------------------------ MODULE AsyncCall ------------------------------
(***************************************************************************)
(* fn.async(): src/lib/_foreign_function.js (proxy.async) and src/src/     *)
(* ffi.cc (FFICallAsync, AsyncFFICall, FinishAsyncFFICall).                *)
(*                                                                         *)
(* The loop's thread marshals the arguments and hands an AsyncCallParams   *)
(* to libuv's thread pool; a worker makes the C call; the loop's thread    *)
(* gives the answer to the callback and deletes the params.  The Buffers   *)
(* the worker reads and writes are kept alive by nothing but the closure   *)
(* that the params hold, so the garbage collector is part of the model.    *)
(***************************************************************************)
EXTENDS FiniteSets, Sequences, Functions

CONSTANTS
  Calls,                \* calls of proxy.async
  Workers,              \* threads of libuv's pool
  NoCall,               \* not a call
  NativeMayThrow,       \* may the C function leave by a std::exception?
  CallbackMayThrow,     \* may the user's callback throw?
  ResultMayThrow        \* may reading the result, result.deref(), throw?

ASSUME CallsAssumption == NoCall \notin Calls
ASSUME FlagsAssumption ==
  {NativeMayThrow, CallbackMayThrow, ResultMayThrow} \subseteq BOOLEAN

VARIABLES
  turn,        \* what the loop's thread does: "js", "ticks" or "poll"
  ticks,       \* the process.nextTick queue, as calls to be told their error
  poolQueue,   \* requests no worker has taken
  running,     \* the request of each worker
  doneQueue,   \* requests whose work is done, for the loop
  finishing,   \* the request FinishAsyncFFICall is working on
  params,      \* calls whose AsyncCallParams exist
  err,         \* calls whose AsyncCallParams::err is set
  fate,        \* what became of each call
  answer,      \* what its callback was told, each time it was called
  holds,       \* does the program still hold the ForeignFunction?
  alive        \* Buffers that have not been collected

queues == <<ticks, poolQueue, doneQueue>>
heap == <<holds, alive>>
vars == <<turn, queues, running, finishing, params, err, fate, answer, heap>>

\* The Buffers of a ForeignFunction and of one call.
Shared == {<<"cif", NoCall>>, <<"funcPtr", NoCall>>}
Own(c) == {<<"result", c>>, <<"argsList", c>>}
Needs(c) == Shared \union Own(c)

\* Mutant: the closure does not mention the other three Buffers.
CapturedForAnswer(c) == {<<"result", c>>}

\* The variables the callback given to ffi_call_async closes over: result for
\* the answer and the other three for this purpose alone.
Captured(c) == Shared \union Own(c)

\* FFI_OK: no code stores another status in AsyncCallParams::result.
ResultOK(c) == TRUE

Init ==
  /\ turn = "js"
  /\ ticks = <<>> /\ poolQueue = <<>> /\ doneQueue = <<>>
  /\ running = [w \in Workers |-> NoCall]
  /\ finishing = NoCall
  /\ params = {}
  /\ err = {}
  /\ fate = [c \in Calls |-> "idle"]
  /\ answer = [c \in Calls |-> <<>>]
  /\ holds = TRUE
  /\ alive = Shared

Tell(c, a) == answer' = [answer EXCEPT ![c] = Append(@, a)]

-----------------------------------------------------------------------------
(* proxy.async, called by JavaScript that holds the function.              *)

MayCall(c) == turn = "js" /\ holds /\ fate[c] = "idle"

\* The wrong number of arguments, or no callback: TypeError.
AsyncRejects(c) ==
  /\ MayCall(c)
  /\ fate' = [fate EXCEPT ![c] = "rejected"]
  /\ UNCHANGED <<turn, queues, running, finishing, params, err, answer, heap>>

\* Mutant: no return after the error is scheduled, the call is made as well.
AsyncFallsThrough(c) ==
  /\ MayCall(c)
  /\ fate' = [fate EXCEPT ![c] = "badArgument"]
  /\ ticks' = Append(ticks, c)
  /\ params' = params \union {c}
  /\ poolQueue' = Append(poolQueue, c)
  /\ alive' = alive \union Own(c)
  /\ UNCHANGED <<turn, doneQueue, running, finishing, err, answer, holds>>

\* An argument cannot be converted: the callback is told on the next tick.
AsyncBadArgument(c) ==
  /\ MayCall(c)
  /\ fate' = [fate EXCEPT ![c] = "badArgument"]
  /\ ticks' = Append(ticks, c)
  /\ UNCHANGED <<turn, poolQueue, doneQueue, running, finishing, params, err,
                 answer, heap>>

\* FFICallAsync: the params take a strong reference to the callback.
FFICallAsync(c) ==
  /\ MayCall(c)
  /\ fate' = [fate EXCEPT ![c] = "queued"]
  /\ params' = params \union {c}
  /\ poolQueue' = Append(poolQueue, c)
  /\ alive' = alive \union Own(c)
  /\ UNCHANGED <<turn, ticks, doneQueue, running, finishing, err, answer,
                 holds>>

-----------------------------------------------------------------------------
(* Workers.                                                                *)

Take(w) ==
  /\ running[w] = NoCall
  /\ poolQueue # <<>>
  /\ running' = [running EXCEPT ![w] = Head(poolQueue)]
  /\ poolQueue' = Tail(poolQueue)
  /\ UNCHANGED <<turn, ticks, doneQueue, finishing, params, err, fate, answer,
                 heap>>

\* AsyncFFICall: a std::exception is caught and its text stored, no more.
AsyncFFICall(w) ==
  LET c == running[w] IN
  /\ c # NoCall
  /\ \/ /\ fate' = [fate EXCEPT ![c] = "returned"]
        /\ err' = err
     \/ /\ NativeMayThrow
        /\ fate' = [fate EXCEPT ![c] = "threw"]
        /\ err' = err \union {c}
  /\ running' = [running EXCEPT ![w] = NoCall]
  /\ doneQueue' = Append(doneQueue, c)
  /\ UNCHANGED <<turn, ticks, poolQueue, finishing, params, answer, heap>>

-----------------------------------------------------------------------------
(* The event loop.  JavaScript runs in a turn, then the tick queue is      *)
(* emptied, then the loop looks for work; callbacks start another turn.    *)

\* A script, timer or other event of the program's own.
RunEvent ==
  /\ turn = "poll"
  /\ finishing = NoCall
  /\ turn' = "js"
  /\ UNCHANGED <<queues, running, finishing, params, err, fate, answer, heap>>

EndJS ==
  /\ turn = "js"
  /\ turn' = "ticks"
  /\ UNCHANGED <<queues, running, finishing, params, err, fate, answer, heap>>

\* Mutant: the error is not bound as the callback's first argument.
RunTickUnbound ==
  /\ turn = "ticks"
  /\ ticks # <<>>
  /\ ticks' = Tail(ticks)
  /\ Tell(Head(ticks), "value")
  /\ turn' = "js"
  /\ UNCHANGED <<poolQueue, doneQueue, running, finishing, params, err, fate,
                 heap>>

RunTick ==
  /\ turn = "ticks"
  /\ ticks # <<>>
  /\ ticks' = Tail(ticks)
  /\ Tell(Head(ticks), "error")
  /\ turn' = "js"
  /\ UNCHANGED <<poolQueue, doneQueue, running, finishing, params, err, fate,
                 heap>>

TicksDone ==
  /\ turn = "ticks"
  /\ ticks = <<>>
  /\ turn' = "poll"
  /\ UNCHANGED <<queues, running, finishing, params, err, fate, answer, heap>>

\* FinishAsyncFFICall: the callback gets an error if the result says so, and
\* else the value that result.deref() reads ...
FinishAsyncFFICall ==
  /\ turn = "poll"
  /\ finishing = NoCall
  /\ doneQueue # <<>>
  /\ LET c == Head(doneQueue) IN
       /\ finishing' = c
       /\ Tell(c, IF ResultOK(c) THEN "value" ELSE "error")
  /\ doneQueue' = Tail(doneQueue)
  /\ turn' = "js"
  /\ UNCHANGED <<ticks, poolQueue, running, params, err, fate, heap>>

\* Mutant: the params are not deleted.
KeepParams ==
  /\ turn = "poll"
  /\ finishing # NoCall
  /\ finishing' = NoCall
  /\ UNCHANGED <<turn, queues, running, params, err, fate, answer, heap>>

\* ... and once it has returned, and the ticks it left are run, the params go.
DeleteParams ==
  /\ turn = "poll"
  /\ finishing # NoCall
  /\ params' = params \ {finishing}
  /\ err' = err \ {finishing}
  /\ finishing' = NoCall
  /\ UNCHANGED <<turn, queues, running, fate, answer, heap>>

\* Mutant: the closure calls callback(e) for whatever callback(null, ...) throws.
CallbackToldAgain ==
  /\ CallbackMayThrow
  /\ turn = "js"
  /\ finishing # NoCall
  /\ Tell(finishing, "error")
  /\ UNCHANGED <<turn, queues, running, finishing, params, err, fate, heap>>

\* A callback that throws: MakeCallback reports it by a C++ exception, which
\* FinishAsyncFFICall does not catch and libuv's C frames cannot, so the
\* process is terminated.
CallbackThrows ==
  /\ CallbackMayThrow
  /\ turn = "js"
  /\ finishing # NoCall
  /\ turn' = "terminated"
  /\ UNCHANGED <<queues, running, finishing, params, err, fate, answer, heap>>

\* The same, before there was an answer: the result could not be read.
ResultThrows ==
  /\ ResultMayThrow
  /\ turn = "poll"
  /\ finishing = NoCall
  /\ doneQueue # <<>>
  /\ ResultOK(Head(doneQueue))
  /\ finishing' = Head(doneQueue)
  /\ doneQueue' = Tail(doneQueue)
  /\ turn' = "terminated"
  /\ UNCHANGED <<ticks, poolQueue, running, params, err, fate, answer, heap>>

\* The program forgets the function.
DropFunction ==
  /\ turn = "js"
  /\ holds
  /\ holds' = FALSE
  /\ UNCHANGED <<turn, queues, running, finishing, params, err, fate, answer,
                 alive>>

Reachable ==
  (IF holds THEN Shared ELSE {}) \union UNION {Captured(c) : c \in params}

\* The garbage collector runs on the loop's thread.
Collect ==
  /\ turn = "js"
  /\ alive' = alive \intersect Reachable
  /\ UNCHANGED <<turn, queues, running, finishing, params, err, fate, answer,
                 holds>>

-----------------------------------------------------------------------------
Loop == EndJS \/ RunTick \/ TicksDone \/ FinishAsyncFFICall \/ DeleteParams
Worker(w) == turn # "terminated" /\ (Take(w) \/ AsyncFFICall(w))

Next ==
  \/ \E c \in Calls :
       AsyncRejects(c) \/ AsyncBadArgument(c) \/ FFICallAsync(c)
  \/ \E w \in Workers : Worker(w)
  \/ Loop \/ RunEvent \/ CallbackThrows \/ ResultThrows
  \/ DropFunction \/ Collect

SafetySpec == Init /\ [][Next]_vars

\* JavaScript turns end, C functions return, the pool schedules its workers
\* and the loop serves what is done.
Fairness ==
  /\ \A w \in Workers : WF_vars(Worker(w))
  /\ WF_vars(EndJS) /\ WF_vars(RunTick) /\ WF_vars(TicksDone)
  /\ WF_vars(DeleteParams) /\ SF_vars(FinishAsyncFFICall)

Spec == SafetySpec /\ Fairness

-----------------------------------------------------------------------------
(* Properties.                                                             *)

Fates == {"idle", "rejected", "badArgument", "queued", "returned", "threw"}

\* Every variable has its type: above all, a callback is called once at most.
TypeOK ==
  /\ turn \in {"js", "ticks", "poll", "terminated"}
  /\ {ticks, poolQueue, doneQueue} \subseteq Seq(Calls)
  /\ running \in [Workers -> Calls \union {NoCall}]
  /\ finishing \in Calls \union {NoCall}
  /\ params \subseteq Calls /\ err \subseteq Calls
  /\ fate \in [Calls -> Fates]
  /\ answer \in [Calls -> {<<>>, <<"value">>, <<"error">>}]
  /\ holds \in BOOLEAN
  /\ alive \subseteq Shared \union UNION {Own(c) : c \in Calls}

InFlight ==
  (Range(poolQueue) \union Range(running) \union Range(doneQueue)
     \union {finishing}) \ {NoCall}

\* The params that queues and workers point to exist, and no others do.
ParamsLifetime == params = InFlight /\ err \subseteq params

\* Whatever the program forgets and however often the collector runs, a worker
\* reads and writes Buffers that exist, and so does the answer (the comment in
\* proxy.async, _foreign_function.js:106-107).
NoUseAfterFree ==
  /\ \A w \in Workers : running[w] # NoCall => Needs(running[w]) \subseteq alive
  /\ \A c \in Range(doneQueue) : <<"result", c>> \in alive

\* An answer never comes before the C function is done, and an error is told
\* only of calls that were not made.
AnswerFollowsWork ==
  \A c \in Calls : answer[c] # <<>> =>
    fate[c] \in IF Head(answer[c]) = "value" THEN {"returned", "threw"}
               ELSE {"badArgument"}

\* The callback tests its err argument (_foreign_function.js:111): it is told of
\* a value exactly if the C function returned one.
AnswerTells ==
  \A c \in Calls : answer[c] # <<>> =>
    (Head(answer[c]) = "value" <=> fate[c] = "returned")

\* The promise sees each answer; of a call before that, whether it was accepted.
stateOf ==
  [c \in Calls |-> IF fate[c] \in {"idle", "rejected"} THEN fate[c] ELSE "accepted"]
Promise == INSTANCE AsyncPromise
             WITH state <- stateOf, told <- answer, up <- turn # "terminated"

\* Each accepted call is answered, and once, unless the process is terminated.
KeepsPromise == Promise!Spec
=============================================================================
