------------------------ MODULE FunctionPointer_proof ------------------------
(***************************************************************************)
(* The invariants of ClosureLifetime, and of FunctionPointer, every step   *)
(* of which is one of ClosureLifetime, for any number of callbacks, slots  *)
(* and threads.                                                            *)
(***************************************************************************)
EXTENDS FunctionPointer, TLAPS

USE NamesAssumption, KeptAssumption

-----------------------------------------------------------------------------
(* ClosureLifetime: the inductive invariant.                               *)

\* A closure and its slot belong to each other until the finalizer has run.
OwnersAgree ==
  /\ \A k \in Callbacks : Live(k) => slotOf[k] \in Slots /\ info[slotOf[k]] = k
  /\ \A s \in Slots : info[s] # Nothing => Live(info[s]) /\ slotOf[info[s]] = s

HeldHasCif == \A k \in Callbacks : buffer[k] = "held" => k \in cifs

\* What C code has or executes was once a closure.
UsedExists ==
  /\ \A k \in registered : buffer[k] \notin {"none", "failed"}
  /\ \A a \in Actors : call[a] # Nothing => buffer[call[a]] \notin {"none", "failed"}

\* The program keeps what it has promised to keep.
KeptIsHeld ==
  /\ \A k \in registered \intersect Kept : buffer[k] = "held"
  /\ \A a \in Actors : call[a] \in Kept => buffer[call[a]] = "held"

\* What is held now has been held since an execution of it began.
HeldRunsOwn ==
  \A a \in Actors :
    call[a] # Nothing /\ buffer[call[a]] = "held" => saw[a] = "own"

LInv == /\ TypeOK /\ OwnersAgree /\ FunctionsReleased /\ HeldHasCif
        /\ UsedExists /\ KeptIsHeld /\ HeldRunsOwn

-----------------------------------------------------------------------------
(* What a pointer leads to.                                                *)

LEMMA SeesType == \A k : Sees(k) \in {"own", "another", "reported", "undefined"}
BY DEF Sees

LEMMA HeldSeesOwn ==
  ASSUME OwnersAgree, FunctionsReleased, HeldHasCif,
         NEW k \in Callbacks, buffer[k] = "held"
  PROVE  Sees(k) = "own"
BY DEF OwnersAgree, FunctionsReleased, HeldHasCif, Live, Sees

LEMMA InitInv == Init => LInv
BY DEF Init, LInv, TypeOK, OwnersAgree, FunctionsReleased, HeldHasCif,
       UsedExists, KeptIsHeld, HeldRunsOwn, Live

-----------------------------------------------------------------------------
(* Steps of the heap.                                                      *)

LEMMA CallbackInv ==
  ASSUME LInv, NEW k \in Callbacks, NEW s \in Slots, Callback(k, s)
  PROVE  LInv'
<1> USE DEF LInv, Callback, heapVars, callVars
<1>1. TypeOK'
  BY DEF TypeOK, OwnersAgree, Live
<1>2. OwnersAgree'
  BY DEF TypeOK, OwnersAgree, Live
<1>3. FunctionsReleased'
  BY DEF TypeOK, FunctionsReleased, Live
<1>4. HeldHasCif'
  BY DEF TypeOK, HeldHasCif
<1>5. UsedExists'
  BY DEF TypeOK, UsedExists
<1>6. KeptIsHeld'
  BY DEF TypeOK, KeptIsHeld
<1>7. HeldRunsOwn'
  BY DEF TypeOK, UsedExists, HeldRunsOwn
<1> QED
  BY <1>1, <1>2, <1>3, <1>4, <1>5, <1>6, <1>7

LEMMA CallbackFailsInv ==
  ASSUME LInv, NEW k \in Callbacks, CallbackFails(k)
  PROVE  LInv'
<1> USE DEF LInv, CallbackFails, heapVars, callVars
<1>1. TypeOK'
  BY DEF TypeOK
<1>2. OwnersAgree'
  BY DEF TypeOK, OwnersAgree, Live
<1>3. FunctionsReleased'
  BY DEF TypeOK, FunctionsReleased, Live
<1>4. HeldHasCif' /\ UsedExists' /\ KeptIsHeld'
  BY DEF TypeOK, HeldHasCif, UsedExists, KeptIsHeld
<1>5. HeldRunsOwn'
  BY DEF TypeOK, HeldRunsOwn
<1> QED
  BY <1>1, <1>2, <1>3, <1>4, <1>5

LEMMA DropInv ==
  ASSUME LInv, NEW K \in SUBSET Callbacks, Drop(K)
  PROVE  LInv'
<1> USE DEF LInv, Drop, heapVars, callVars
<1>1. TypeOK'
  BY DEF TypeOK
<1>2. \A k \in Callbacks : Live(k)' <=> Live(k)
  BY DEF TypeOK, Live
<1>3. OwnersAgree' /\ FunctionsReleased'
  BY <1>2 DEF TypeOK, OwnersAgree, FunctionsReleased, Live
<1>4. HeldHasCif' /\ UsedExists' /\ HeldRunsOwn'
  BY DEF TypeOK, HeldHasCif, UsedExists, HeldRunsOwn
<1>5. KeptIsHeld'
  BY DEF TypeOK, KeptIsHeld
<1> QED
  BY <1>1, <1>3, <1>4, <1>5

LEMMA CollectCifInv ==
  ASSUME LInv, NEW k \in Callbacks, CollectCif(k)
  PROVE  LInv'
<1> USE DEF LInv, CollectCif, ReachableCifs, heapVars, callVars
<1>1. HeldHasCif'
  BY DEF TypeOK, HeldHasCif
<1>2. TypeOK' /\ OwnersAgree' /\ FunctionsReleased'
  BY DEF TypeOK, OwnersAgree, FunctionsReleased, Live
<1>3. UsedExists' /\ KeptIsHeld' /\ HeldRunsOwn'
  BY DEF UsedExists, KeptIsHeld, HeldRunsOwn
<1> QED
  BY <1>1, <1>2, <1>3

LEMMA CollectBufferInv ==
  ASSUME LInv, NEW k \in Callbacks, CollectBuffer(k)
  PROVE  LInv'
<1> USE DEF LInv, CollectBuffer, heapVars, callVars
<1>1. TypeOK'
  BY DEF TypeOK
<1>2. \A j \in Callbacks : Live(j)' <=> Live(j)
  BY DEF TypeOK, Live
<1>3. OwnersAgree' /\ FunctionsReleased'
  BY <1>2 DEF TypeOK, OwnersAgree, FunctionsReleased, Live
<1>4. HeldHasCif' /\ UsedExists' /\ KeptIsHeld' /\ HeldRunsOwn'
  BY DEF TypeOK, HeldHasCif, UsedExists, KeptIsHeld, HeldRunsOwn
<1> QED
  BY <1>1, <1>3, <1>4

\* The slot that a finalizer frees was that callback's and nobody else's.
LEMMA FinalizeInv ==
  ASSUME LInv, NEW k \in Callbacks, Finalize(k)
  PROVE  LInv'
<1> USE DEF LInv, Finalize, heapVars, callVars
<1>1. slotOf[k] \in Slots /\ info[slotOf[k]] = k
  BY DEF OwnersAgree, Live
<1>2. TypeOK'
  BY DEF TypeOK
<1>3. OwnersAgree'
  BY <1>1 DEF TypeOK, OwnersAgree, Live
<1>4. FunctionsReleased'
  BY DEF TypeOK, FunctionsReleased, Live
<1>5. HeldHasCif' /\ UsedExists' /\ KeptIsHeld' /\ HeldRunsOwn'
  BY DEF TypeOK, HeldHasCif, UsedExists, KeptIsHeld, HeldRunsOwn
<1> QED
  BY <1>2, <1>3, <1>4, <1>5

-----------------------------------------------------------------------------
(* Steps of C code, which leave the heap alone.                            *)

LEMMA HeapUnchanged ==
  ASSUME LInv, UNCHANGED heapVars
  PROVE  OwnersAgree' /\ FunctionsReleased' /\ HeldHasCif'
BY DEF LInv, heapVars, OwnersAgree, FunctionsReleased, HeldHasCif, Live

LEMMA RegisterInv ==
  ASSUME LInv, NEW K \in SUBSET Callbacks, Register(K)
  PROVE  LInv'
<1> USE DEF Register, heapVars, callVars
<1>1. TypeOK' /\ UsedExists' /\ KeptIsHeld' /\ HeldRunsOwn'
  BY DEF LInv, TypeOK, UsedExists, KeptIsHeld, HeldRunsOwn
<1> QED
  BY <1>1, HeapUnchanged DEF LInv

LEMMA ForgetInv ==
  ASSUME LInv, NEW k \in Callbacks, Forget(k)
  PROVE  LInv'
<1> USE DEF Forget, heapVars, callVars
<1>1. TypeOK' /\ UsedExists' /\ KeptIsHeld' /\ HeldRunsOwn'
  BY DEF LInv, TypeOK, UsedExists, KeptIsHeld, HeldRunsOwn
<1> QED
  BY <1>1, HeapUnchanged DEF LInv

LEMMA ExecuteInv ==
  ASSUME LInv, NEW a \in Actors, NEW k \in Callbacks, Execute(a, k)
  PROVE  LInv'
<1> USE DEF Execute, heapVars
<1>1. TypeOK'
  BY SeesType DEF LInv, TypeOK
<1>2. UsedExists' /\ KeptIsHeld'
  BY DEF LInv, TypeOK, UsedExists, KeptIsHeld
<1>3. HeldRunsOwn'
  BY HeldSeesOwn DEF LInv, TypeOK, HeldRunsOwn
<1> QED
  BY <1>1, <1>2, <1>3, HeapUnchanged DEF LInv

\* A call that comes back to its callback finds what it found before.
LEMMA SeesAgainOwn ==
  ASSUME LInv, NEW a \in Actors, call[a] # Nothing, buffer[call[a]] = "held"
  PROVE  SeesAgain(a) = "own"
BY HeldSeesOwn DEF LInv, TypeOK, HeldRunsOwn, SeesAgain

LEMMA DispatchInv ==
  ASSUME LInv, NEW a \in Actors, DispatchToV8(a)
  PROVE  LInv'
<1> USE DEF DispatchToV8, heapVars
<1>1. TypeOK'
  BY SeesType DEF LInv, TypeOK, SeesAgain
<1>2. UsedExists' /\ KeptIsHeld'
  BY DEF LInv, UsedExists, KeptIsHeld
<1>3. HeldRunsOwn'
  BY SeesAgainOwn DEF LInv, TypeOK, HeldRunsOwn
<1> QED
  BY <1>1, <1>2, <1>3, HeapUnchanged DEF LInv

LEMMA ReturnInv ==
  ASSUME LInv, NEW a \in Actors, Return(a)
  PROVE  LInv'
<1> USE DEF Return, heapVars
<1>1. PICK failed \in BOOLEAN :
        saw' = [saw EXCEPT ![a] = IF failed /\ a \in Threads THEN SeesAgain(a)
                                  ELSE @]
  BY Zenon
<1>2. saw' = saw \/ saw' = [saw EXCEPT ![a] = SeesAgain(a)]
  BY <1>1 DEF LInv, TypeOK
<1>3. TypeOK'
  BY <1>2, SeesType DEF LInv, TypeOK, SeesAgain
<1>4. UsedExists' /\ KeptIsHeld'
  BY DEF LInv, UsedExists, KeptIsHeld
<1>5. HeldRunsOwn'
  BY <1>2, SeesAgainOwn DEF LInv, TypeOK, HeldRunsOwn
<1> QED
  BY <1>3, <1>4, <1>5, HeapUnchanged DEF LInv

LEMMA LeaveInv ==
  ASSUME LInv, NEW a \in Actors, Leave(a)
  PROVE  LInv'
<1> USE DEF Leave, heapVars
<1>1. TypeOK' /\ UsedExists' /\ KeptIsHeld' /\ HeldRunsOwn'
  BY DEF LInv, TypeOK, UsedExists, KeptIsHeld, HeldRunsOwn
<1> QED
  BY <1>1, HeapUnchanged DEF LInv

-----------------------------------------------------------------------------
(* The theorems.                                                           *)

LEMMA NextInv == LInv /\ [Next]_vars => LInv'
<1> SUFFICES ASSUME LInv, [Next]_vars PROVE LInv'
  OBVIOUS
<1>1. CASE \E k \in Callbacks, s \in Slots : Callback(k, s)
  BY <1>1, CallbackInv
<1>2. CASE \E k \in Callbacks : CallbackFails(k) \/ Forget(k)
  BY <1>2, CallbackFailsInv, ForgetInv
<1>3. CASE \E k \in Callbacks : CollectCif(k) \/ CollectBuffer(k) \/ Finalize(k)
  BY <1>3, CollectCifInv, CollectBufferInv, FinalizeInv
<1>4. CASE \E k \in Callbacks, a \in Actors : Execute(a, k)
  BY <1>4, ExecuteInv
<1>5. CASE \E K \in SUBSET Callbacks : Register(K) \/ Drop(K)
  BY <1>5, RegisterInv, DropInv
<1>6. CASE \E a \in Actors : DispatchToV8(a) \/ Return(a) \/ Leave(a)
  BY <1>6, DispatchInv, ReturnInv, LeaveInv
<1>7. CASE UNCHANGED vars
  BY <1>7 DEF vars, heapVars, callVars, LInv, TypeOK, OwnersAgree,
     FunctionsReleased, HeldHasCif, UsedExists, KeptIsHeld, HeldRunsOwn, Live
<1> QED
  BY <1>1, <1>2, <1>3, <1>4, <1>5, <1>6, <1>7 DEF Next

\* Types are kept, and a closure's pointer is that of its slot.
THEOREM TypeCorrect == Spec => []TypeOK
<1>1. LInv => TypeOK
  BY DEF LInv
<1> QED
  BY <1>1, InitInv, NextInv, PTL DEF Spec

\* A callback that the program holds works, for any number of callbacks that
\* come and go, and however few pieces of memory they share.
THEOREM HeldWorks == Spec => []HeldCallbackWorks
<1>1. LInv => HeldCallbackWorks
  BY HeldSeesOwn DEF LInv, HeldCallbackWorks
<1> QED
  BY <1>1, InitInv, NextInv, PTL DEF Spec

\* The collector may take a function as soon as, and not before, its closure
\* has been finalized.
THEOREM Released == Spec => []FunctionsReleased
<1>1. LInv => FunctionsReleased
  BY DEF LInv
<1> QED
  BY <1>1, InitInv, NextInv, PTL DEF Spec

\* What a kept callback's pointer runs is its own function, on any number of
\* threads at a time.
THEOREM RunsOwn == Spec => []RunsOwnFunction
<1>1. LInv => RunsOwnFunction
  BY DEF LInv, KeptIsHeld, HeldRunsOwn, RunsOwnFunction
<1> QED
  BY <1>1, InitInv, NextInv, PTL DEF Spec

\* Whatever is held runs its own function while it is.
THEOREM HeldRuns == Spec => []HeldRunsOwn
<1>1. LInv => HeldRunsOwn
  BY DEF LInv
<1> QED
  BY <1>1, InitInv, NextInv, PTL DEF Spec

-----------------------------------------------------------------------------
(* FunctionPointer: the Buffers held are those that something refers to.   *)

Held == {k \in Callbacks : buffer[k] = "held"}

FInv == LInv /\ FTypeOK

-----------------------------------------------------------------------------
(* Every step is a step of ClosureLifetime, or none.                       *)

LEMMA ReleaseDrops == Release => \E K \in SUBSET Callbacks : Drop(K)
BY Zenon DEF Release

LEMMA StepRefines == FTypeOK /\ [FNext]_allVars => [Next]_vars
<1> SUFFICES ASSUME FTypeOK, [FNext]_allVars PROVE [Next]_vars
  OBVIOUS
<1>1. ASSUME NEW k \in Callbacks, NEW s \in Slots,
             toPointer(k, s) \/ SetFunction(k, s) \/ WriteArgument(k, s)
      PROVE  Next
  BY <1>1 DEF toPointer, SetFunction, WriteArgument, Next
<1>2. ASSUME NEW k \in Callbacks, toPointerFails(k) \/ WriteArgumentFails(k)
      PROVE  Next
  BY <1>2 DEF toPointerFails, WriteArgumentFails, Next
<1>3. ASSUME NEW k \in Callbacks, Pass(k) \/ Get(k) PROVE Next
  <2>1. Register({k}) /\ {k} \in SUBSET Callbacks
    BY <1>3 DEF Pass, Get
  <2> QED
    BY <2>1, Zenon DEF Next
<1>4. ASSUME FFICall PROVE Next
  <2>1. Register(argsList) /\ argsList \in SUBSET Callbacks
    BY <1>4 DEF FFICall, FTypeOK
  <2> QED
    BY <2>1, Zenon DEF Next
<1>5. ASSUME \/ \E k \in Callbacks : ProgramDrops(k)
             \/ DropMemory \/ ArgumentThrows \/ FFICallReturns
      PROVE  Next
  <2>1. Release
    BY <1>5 DEF ProgramDrops, DropMemory, ArgumentThrows, FFICallReturns
  <2> QED
    BY <2>1, ReleaseDrops, Zenon DEF Next
<1>6. ASSUME NEW k \in Callbacks, SetBuffer(k) PROVE UNCHANGED vars
  BY <1>6 DEF SetBuffer
<1>7. ASSUME Collector PROVE Next
  BY <1>7 DEF Collector, Next
<1>8. ASSUME CCode PROVE Next
  BY <1>8 DEF CCode, Next
<1>9. ASSUME UNCHANGED allVars PROVE UNCHANGED vars
  BY <1>9 DEF allVars
<1> QED
  BY <1>1, <1>2, <1>3, <1>4, <1>5, <1>6, <1>7, <1>8, <1>9 DEF FNext

-----------------------------------------------------------------------------
(* The Buffers in use are those that something refers to.                  *)

LEMMA HeldAfterCallback ==
  ASSUME LInv, NEW k \in Callbacks, NEW s \in Slots, Callback(k, s)
  PROVE  Held' = Held \union {k}
BY DEF LInv, TypeOK, Callback, Held

LEMMA HeldAfterFailure ==
  ASSUME LInv, NEW k \in Callbacks, CallbackFails(k)
  PROVE  Held' = Held
BY DEF LInv, TypeOK, CallbackFails, Held

\* Giving up references can only take Buffers out of use.
LEMMA HeldAfterRelease ==
  ASSUME LInv, Release, HeldBy(program', argsList', memory') \subseteq Held
  PROVE  Held' = HeldBy(program', argsList', memory')
<1> DEFINE held == HeldBy(program', argsList', memory')
           K == {k \in Callbacks : buffer[k] = "held" /\ k \notin held}
<1>1. Drop(K)
  BY DEF Release
<1>2. buffer' = [k \in Callbacks |-> IF k \in K THEN "dropped" ELSE buffer[k]]
  BY <1>1 DEF Drop
<1>3. \A k \in Callbacks : buffer'[k] = "held" <=> buffer[k] = "held" /\ k \notin K
  BY <1>2
<1> QED
  BY <1>3 DEF Held

LEMMA FTypeAfterCallback ==
  ASSUME FInv, NEW k \in Callbacks, NEW s \in Slots,
         toPointer(k, s) \/ SetFunction(k, s) \/ WriteArgument(k, s)
  PROVE  FTypeOK'
<1>1. Held' = Held \union {k}
  BY HeldAfterCallback DEF FInv, toPointer, SetFunction, WriteArgument
<1>2. FTypeOK' <=>
        /\ (program \union argsList \union memory \subseteq Callbacks)'
        /\ proxy' \in {"idle", "writing", "throwing", "calling"}
        /\ proxy' = "idle" => argsList' = {}
        /\ HeldBy(program', argsList', memory') = Held'
  BY DEF FTypeOK, Held
<1>3. CASE toPointer(k, s)
  BY <1>1, <1>2, <1>3 DEF FInv, FTypeOK, Held, HeldBy, toPointer
<1>4. CASE SetFunction(k, s)
  BY <1>1, <1>2, <1>4 DEF FInv, FTypeOK, Held, HeldBy, SetFunction
<1>5. CASE WriteArgument(k, s)
  BY <1>1, <1>2, <1>5 DEF FInv, FTypeOK, Held, HeldBy, WriteArgument
<1> QED
  BY <1>3, <1>4, <1>5

LEMMA FTypeAfterFailure ==
  ASSUME FInv, NEW k \in Callbacks, toPointerFails(k) \/ WriteArgumentFails(k)
  PROVE  FTypeOK'
<1>1. Held' = Held
  BY HeldAfterFailure DEF FInv, toPointerFails, WriteArgumentFails
<1> QED
  BY <1>1 DEF FInv, FTypeOK, Held, HeldBy, toPointerFails, WriteArgumentFails,
     functionVars

LEMMA FTypeAfterRelease ==
  ASSUME FInv,
         \/ \E k \in Callbacks : ProgramDrops(k)
         \/ DropMemory \/ ArgumentThrows \/ FFICallReturns
  PROVE  FTypeOK'
<1> USE DEF ProgramDrops, DropMemory, ArgumentThrows, FFICallReturns
<1>1. /\ program' \subseteq program /\ argsList' \subseteq argsList
      /\ memory' \subseteq memory
  OBVIOUS
<1>2. HeldBy(program', argsList', memory') \subseteq Held
  BY <1>1 DEF FInv, FTypeOK, HeldBy, Held
<1>3. Held' = HeldBy(program', argsList', memory')
  BY <1>2, HeldAfterRelease DEF FInv
<1>4. /\ proxy' \in {"idle", "writing", "throwing", "calling"}
      /\ proxy' = "idle" => argsList' = {}
  BY DEF FInv, FTypeOK
<1> QED
  BY <1>1, <1>3, <1>4 DEF FInv, FTypeOK, Held

LEMMA FTypeAfterRest ==
  ASSUME FInv, \/ \E k \in Callbacks : Pass(k) \/ SetBuffer(k) \/ Get(k)
               \/ FFICall \/ Collector \/ CCode \/ UNCHANGED allVars
  PROVE  FTypeOK'
<1> USE DEF FInv, FTypeOK, HeldBy, vars, heapVars, functionVars
<1>1. ASSUME NEW k \in Callbacks, Pass(k) \/ Get(k) PROVE FTypeOK'
  BY <1>1 DEF Pass, Get, Register
<1>2. ASSUME NEW k \in Callbacks, SetBuffer(k) PROVE FTypeOK'
  BY <1>2 DEF SetBuffer
<1>3. ASSUME FFICall PROVE FTypeOK'
  BY <1>3 DEF FFICall, Register
<1>4. ASSUME Collector PROVE FTypeOK'
  <2>1. \A k \in Callbacks : buffer'[k] = "held" <=> buffer[k] = "held"
    BY <1>4 DEF Collector, CollectCif, CollectBuffer, Finalize, LInv, TypeOK
  <2> QED
    BY <1>4, <2>1 DEF Collector
<1>5. ASSUME CCode PROVE FTypeOK'
  <2>1. UNCHANGED buffer
    BY <1>5 DEF CCode, Execute, DispatchToV8, Return, Leave, Forget
  <2> QED
    BY <1>5, <2>1 DEF CCode
<1>6. ASSUME UNCHANGED allVars PROVE FTypeOK'
  BY <1>6 DEF allVars
<1> QED
  BY <1>1, <1>2, <1>3, <1>4, <1>5, <1>6

-----------------------------------------------------------------------------
(* The theorems.                                                           *)

LEMMA FInitInv == FInit => FInv
<1> SUFFICES ASSUME FInit PROVE FInv
  OBVIOUS
<1>1. LInv
  BY InitInv DEF FInit
<1>2. FTypeOK
  BY DEF FInit, Init, FTypeOK, HeldBy
<1> QED
  BY <1>1, <1>2 DEF FInv

LEMMA FNextInv == FInv /\ [FNext]_allVars => FInv'
<1> SUFFICES ASSUME FInv, [FNext]_allVars PROVE FInv'
  OBVIOUS
<1>1. LInv'
  BY StepRefines, NextInv DEF FInv
<1>2. FTypeOK'
  BY FTypeAfterCallback, FTypeAfterFailure, FTypeAfterRelease, FTypeAfterRest
     DEF FNext
<1> QED
  BY <1>1, <1>2 DEF FInv

\* The Buffers in use are those that the program, its memory or the arguments
\* of a call refer to, after any sequence of calls, failures and collections.
THEOREM FTypeCorrect == FSpec => []FTypeOK
<1>1. FInv => FTypeOK
  BY DEF FInv
<1> QED
  BY <1>1, FInitInv, FNextInv, PTL DEF FSpec

\* A function given as an argument or written to memory runs when its pointer
\* is executed, for any number of functions, threads and pieces of memory.
THEOREM WrittenRuns == FSpec => []WrittenFunctionRuns
<1>1. FInv => WrittenFunctionRuns
  <2> SUFFICES ASSUME FInv, NEW a \in Actors, call[a] \in argsList \union memory
               PROVE  saw[a] = "own"
    BY DEF WrittenFunctionRuns
  <2>1. call[a] \in Callbacks /\ buffer[call[a]] = "held"
    BY DEF FInv, FTypeOK, HeldBy
  <2> QED
    BY <2>1, NamesAssumption DEF FInv, LInv, HeldRunsOwn
<1> QED
  BY <1>1, FInitInv, FNextInv, PTL DEF FSpec
=============================================================================
