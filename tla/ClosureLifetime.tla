--------------------------- MODULE ClosureLifetime ---------------------------
(***************************************************************************)
(* The life of an ffi.Callback() pointer (src/lib/callback.js and          *)
(* CallbackInfo::Callback, closure_pointer_cb and DispatchToV8 in          *)
(* src/src/callback_info.cc): who owns the closure's memory, the ffi_cif   *)
(* it refers to and the JavaScript function, from ffi_closure_alloc to the *)
(* finalizer, while C code may execute the pointer on any thread.          *)
(*                                                                         *)
(* A slot is a piece of libffi's executable memory.  It is given out again *)
(* once it is freed, so a pointer that outlives its callback may run       *)
(* another callback's function.  How a call gets from a foreign thread to  *)
(* the loop is CallbackDispatch; here it has entered, runs, and returns.   *)
(***************************************************************************)
CONSTANTS
  Callbacks,       \* calls of ffi.Callback()
  Slots,           \* what ffi_closure_alloc can give out
  Threads,         \* threads other than the loop's that run C code
  Main,            \* the event loop's thread
  Nothing,         \* no callback, no slot, no call
  Kept             \* callbacks whose Buffer is kept while C has the pointer

Actors == Threads \union {Main}

ASSUME NamesAssumption ==
  /\ Nothing \notin Callbacks \union Slots
  /\ Main \notin Threads
ASSUME KeptAssumption == Kept \subseteq Callbacks

VARIABLES
  buffer,          \* the state of each callback's Buffer
  cifs,            \* callbacks whose ffi_cif Buffer has not been collected
  pinned,          \* callbacks whose function a napi Reference holds
  slotOf,          \* the slot each pointer points to
  info,            \* whose callback_info each slot holds
  registered,      \* callbacks whose pointer C code has
  call,            \* the callback whose pointer each thread is executing
  stage,           \* how far that execution is
  saw              \* what it has come to

heapVars == <<buffer, cifs, pinned, slotOf, info>>
callVars == <<call, stage, saw>>
vars == <<heapVars, registered, callVars>>

Init ==
  /\ buffer = [k \in Callbacks |-> "none"]
  /\ cifs = {}
  /\ pinned = {}
  /\ slotOf = [k \in Callbacks |-> Nothing]
  /\ info = [s \in Slots |-> Nothing]
  /\ registered = {}
  /\ call = [a \in Actors |-> Nothing]
  /\ stage = [a \in Actors |-> "idle"]
  /\ saw = [a \in Actors |-> "own"]

\* JavaScript runs on the loop's thread unless that is inside C code.
MainInJS == stage[Main] \in {"idle", "running"}

-----------------------------------------------------------------------------
(* ffi.Callback().                                                         *)

\* Mutant: the Reference to the function is weak, and the function goes.
CallbackWeak(k, s) ==
  /\ MainInJS
  /\ buffer[k] = "none"
  /\ info[s] = Nothing
  /\ buffer' = [buffer EXCEPT ![k] = "held"]
  /\ cifs' = cifs \union {k}
  /\ slotOf' = [slotOf EXCEPT ![k] = s]
  /\ info' = [info EXCEPT ![s] = k]
  /\ UNCHANGED <<pinned, registered, callVars>>

\* A closure is allocated and prepared, and its Buffer gets the finalizer and
\* the reference to the cif.  (Without a free slot nothing changes.)
Callback(k, s) ==
  /\ MainInJS
  /\ buffer[k] = "none"
  /\ info[s] = Nothing
  /\ buffer' = [buffer EXCEPT ![k] = "held"]
  /\ cifs' = cifs \union {k}
  /\ pinned' = pinned \union {k}
  /\ slotOf' = [slotOf EXCEPT ![k] = s]
  /\ info' = [info EXCEPT ![s] = k]
  /\ UNCHANGED <<registered, callVars>>

\* ffi_prep_closure_loc fails: the memory is freed, but not by the destructor,
\* so the References stay.
CallbackFails(k) ==
  /\ MainInJS
  /\ buffer[k] = "none"
  /\ \E s \in Slots : info[s] = Nothing
  /\ buffer' = [buffer EXCEPT ![k] = "failed"]
  /\ pinned' = pinned \union {k}
  /\ UNCHANGED <<cifs, slotOf, info, registered, callVars>>

-----------------------------------------------------------------------------
(* The program.                                                            *)

\* Buffers are passed to a C function, which keeps the pointers ...
Register(K) ==
  /\ MainInJS
  /\ \A k \in K : buffer[k] = "held"
  /\ registered' = registered \union K
  /\ UNCHANGED <<heapVars, callVars>>

\* ... and forgets each some day.
Forget(k) ==
  /\ k \in registered
  /\ registered' = registered \ {k}
  /\ UNCHANGED <<heapVars, callVars>>

\* The last references to some Buffers go at once.
Drop(K) ==
  /\ MainInJS
  /\ \A k \in K : buffer[k] = "held"
  /\ \A k \in K \intersect Kept :
       k \notin registered /\ \A a \in Actors : call[a] # k
  /\ buffer' = [k \in Callbacks |-> IF k \in K THEN "dropped" ELSE buffer[k]]
  /\ UNCHANGED <<cifs, pinned, slotOf, info, registered, callVars>>

-----------------------------------------------------------------------------
(* The collector, which runs where JavaScript does and may take any object *)
(* that is unreachable at any time.                                        *)

\* Mutant: the Buffer does not refer to the cif.
ReachableCifsNone == {}

\* callback._cif = cif
ReachableCifs == {k \in Callbacks : buffer[k] = "held"}

CollectCif(k) ==
  /\ MainInJS
  /\ k \in cifs \ ReachableCifs
  /\ cifs' = cifs \ {k}
  /\ UNCHANGED <<buffer, pinned, slotOf, info, registered, callVars>>

CollectBuffer(k) ==
  /\ MainInJS
  /\ buffer[k] = "dropped"
  /\ buffer' = [buffer EXCEPT ![k] = "collected"]
  /\ UNCHANGED <<cifs, pinned, slotOf, info, registered, callVars>>

\* Mutant: the memory is freed without running the destructor.
FinalizeNoDestructor(k) ==
  /\ MainInJS
  /\ buffer[k] = "collected"
  /\ buffer' = [buffer EXCEPT ![k] = "finalized"]
  /\ info' = [info EXCEPT ![slotOf[k]] = Nothing]
  /\ UNCHANGED <<cifs, pinned, slotOf, registered, callVars>>

\* closure_pointer_cb
Finalize(k) ==
  /\ MainInJS
  /\ buffer[k] = "collected"
  /\ buffer' = [buffer EXCEPT ![k] = "finalized"]
  /\ pinned' = pinned \ {k}
  /\ info' = [info EXCEPT ![slotOf[k]] = Nothing]
  /\ UNCHANGED <<cifs, slotOf, registered, callVars>>

-----------------------------------------------------------------------------
(* C code executes the pointer.                                            *)

\* What the pointer of k leads to now.  Freed memory and a collected cif make
\* the behaviour undefined; a slot given out again leads to its new owner.
Sees(k) ==
  LET owner == info[slotOf[k]] IN
  IF owner = Nothing \/ owner \notin cifs THEN "undefined"
  ELSE IF owner # k THEN "another"
  ELSE IF k \in pinned THEN "own" ELSE "reported"

\* The trampoline reads the closure and its cif, and enters Invoke.
Execute(a, k) ==
  /\ stage[a] = "idle"
  /\ k \in registered
  /\ call' = [call EXCEPT ![a] = k]
  /\ stage' = [stage EXCEPT ![a] = "entered"]
  /\ saw' = [saw EXCEPT ![a] = Sees(k)]
  /\ UNCHANGED <<heapVars, registered>>

\* A call goes on from where it is: having gone wrong once, it stays wrong.
SeesAgain(a) == IF saw[a] = "own" THEN Sees(call[a]) ELSE saw[a]

\* DispatchToV8 tests info->function and calls it: on the loop's own thread
\* at once, for another thread from WatcherCallback, one at a time.
DispatchToV8(a) ==
  /\ stage[a] = "entered"
  /\ a \in Threads =>
       stage[Main] = "idle" /\ \A t \in Threads : stage[t] # "running"
  /\ stage' = [stage EXCEPT ![a] = "running"]
  /\ saw' = [saw EXCEPT ![a] = SeesAgain(a)]
  /\ UNCHANGED <<heapVars, registered, call>>

\* The function returns.  If it failed and was dispatched for another thread,
\* info->errorFunction is read after it.
Return(a) ==
  /\ stage[a] = "running"
  /\ a \in Threads => stage[Main] = "idle"
  /\ \E failed \in BOOLEAN :
       saw' = [saw EXCEPT ![a] = IF failed /\ a \in Threads THEN SeesAgain(a)
                                 ELSE @]
  /\ stage' = [stage EXCEPT ![a] = "returned"]
  /\ UNCHANGED <<heapVars, registered, call>>

\* The C code has control again.
Leave(a) ==
  /\ stage[a] = "returned"
  /\ call' = [call EXCEPT ![a] = Nothing]
  /\ stage' = [stage EXCEPT ![a] = "idle"]
  /\ saw' = [saw EXCEPT ![a] = "own"]
  /\ UNCHANGED <<heapVars, registered>>

Next ==
  \/ \E k \in Callbacks :
       \/ \E s \in Slots : Callback(k, s)
       \/ CallbackFails(k) \/ Forget(k)
       \/ CollectCif(k) \/ CollectBuffer(k) \/ Finalize(k)
       \/ \E a \in Actors : Execute(a, k)
  \/ \E K \in SUBSET Callbacks : Register(K) \/ Drop(K)
  \/ \E a \in Actors : DispatchToV8(a) \/ Return(a) \/ Leave(a)

Spec == Init /\ [][Next]_vars

-----------------------------------------------------------------------------
(* Properties.                                                             *)

Live(k) == buffer[k] \in {"held", "dropped", "collected"}

\* Every variable has its type, and a closure's pointer is that of its slot.
TypeOK ==
  /\ \A s \in Slots : info[s] # Nothing => slotOf[info[s]] = s
  /\ buffer \in [Callbacks -> {"none", "held", "dropped", "collected",
                               "finalized", "failed"}]
  /\ cifs \subseteq Callbacks /\ pinned \subseteq Callbacks
  /\ slotOf \in [Callbacks -> Slots \union {Nothing}]
  /\ info \in [Slots -> Callbacks \union {Nothing}]
  /\ registered \subseteq Callbacks
  /\ call \in [Actors -> Callbacks \union {Nothing}]
  /\ stage \in [Actors -> {"idle", "entered", "running", "returned"}]
  /\ saw \in [Actors -> {"own", "another", "reported", "undefined"}]

\* A program that holds the Buffer of a callback can rely on its pointer,
\* whatever other callbacks are dropped, collected and created meanwhile.
HeldCallbackWorks == \A k \in Callbacks : buffer[k] = "held" => Sees(k) = "own"

\* A function is kept from the collector exactly as long as its closure exists;
\* the one exception is that of a closure that could not be prepared.
FunctionsReleased ==
  \A k \in Callbacks : k \in pinned <=> Live(k) \/ buffer[k] = "failed"

\* Every execution of the pointer of a callback that the program keeps runs that
\* callback's function, from its entry on a C thread to its return, on whichever
\* thread it began and whatever the program does with its other callbacks.
RunsOwnFunction == \A a \in Actors : call[a] \in Kept => saw[a] = "own"

\* The comment in DispatchToV8 (callback_info.cc:36): an execution after the
\* callback has been collected throws an error "instead of segfaulting".
GoneIsReported ==
  \A a \in Actors :
    stage[a] # "idle" /\ buffer[call[a]] = "finalized" =>
      saw[a] \in {"own", "reported"}
=============================================================================
