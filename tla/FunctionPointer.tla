--------------------------- MODULE FunctionPointer ---------------------------
(***************************************************************************)
(* ffi.Function types (src/lib/function.js): JavaScript functions written  *)
(* to memory as C function pointers, and pointers read back as functions,  *)
(* together with the synchronous call (_ForeignFunction in                 *)
(* src/lib/_foreign_function.js), whose argument Buffers are one such      *)
(* memory.  Composed with ClosureLifetime: each function written becomes a *)
(* callback that nobody refers to but the memory.                          *)
(*                                                                         *)
(* A call with functions as arguments is shown in its steps, and at most   *)
(* one is in progress; any other call in which C executes a pointer is one *)
(* Execute, as in ClosureLifetime, also that of a function read back.      *)
(***************************************************************************)
EXTENDS ClosureLifetime

VARIABLES
  program,         \* callbacks whose Buffer a JavaScript variable refers to
  argsList,        \* those that were made for arguments of the call
  memory,          \* those whose pointer is in a Buffer of the program
  proxy            \* "idle", "writing" arguments, "throwing", or "calling"

functionVars == <<program, argsList, memory, proxy>>
allVars == <<vars, functionVars>>

FInit ==
  /\ Init
  /\ program = {} /\ argsList = {} /\ memory = {}
  /\ proxy = "idle"

\* Mutant: writePointer() does not make argsList refer to the argument.
HeldByOthers(p, a, m) == p \union m

\* The callbacks in use, given who refers to which: writePointer() makes the
\* Buffer written to refer to what is written.
HeldBy(p, a, m) == p \union a \union m

\* Buffers that nobody refers to any longer are dropped.
Release ==
  LET held == HeldBy(program', argsList', memory') IN
  Drop({k \in Callbacks : buffer[k] = "held" /\ k \notin held})

\* JavaScript of the program runs: not in C code, nor inside the proxy.
InProgram ==
  /\ MainInJS
  /\ proxy = "idle" \/ (proxy = "calling" /\ stage[Main] = "running")

\* The loop is not inside a call.
LoopIdle == stage[Main] = "idle" /\ proxy = "idle"

-----------------------------------------------------------------------------
(* The program's own callbacks, and its memory.                            *)

toPointer(k, s) ==
  /\ InProgram
  /\ Callback(k, s)
  /\ program' = program \union {k}
  /\ UNCHANGED <<argsList, memory, proxy>>

toPointerFails(k) ==
  /\ InProgram
  /\ CallbackFails(k)
  /\ UNCHANGED functionVars

Pass(k) ==
  /\ InProgram
  /\ k \in program
  /\ Register({k})
  /\ UNCHANGED functionVars

ProgramDrops(k) ==
  /\ InProgram
  /\ k \in program
  /\ program' = program \ {k}
  /\ UNCHANGED <<argsList, memory, proxy>>
  /\ Release

\* set() of a function makes a callback, which only the memory refers to.
SetFunction(k, s) ==
  /\ InProgram
  /\ k \notin Kept
  /\ Callback(k, s)
  /\ memory' = memory \union {k}
  /\ UNCHANGED <<program, argsList, proxy>>

\* set() of a Buffer writes it as it is.
SetBuffer(k) ==
  /\ InProgram
  /\ k \in program
  /\ memory' = memory \union {k}
  /\ UNCHANGED <<vars, program, argsList, proxy>>

DropMemory ==
  /\ InProgram
  /\ memory' = {}
  /\ UNCHANGED <<program, argsList, proxy>>
  /\ Release

\* get(): readPointer() and toFunction(), a function that calls the pointer
\* but refers to neither the memory nor the callback.
Get(k) ==
  /\ InProgram
  /\ k \in memory
  /\ Register({k})
  /\ UNCHANGED functionVars

-----------------------------------------------------------------------------
(* The proxy of a ForeignFunction with functions among its arguments.      *)

\* ref.alloc() of an argument calls set(), and argsList gets its Buffer.
WriteArgument(k, s) ==
  /\ LoopIdle \/ proxy = "writing"
  /\ k \notin Kept
  /\ Callback(k, s)
  /\ argsList' = argsList \union {k}
  /\ proxy' = "writing"
  /\ UNCHANGED <<program, memory>>

WriteArgumentFails(k) ==
  /\ LoopIdle \/ proxy = "writing"
  /\ CallbackFails(k)
  /\ proxy' = "throwing"
  /\ UNCHANGED <<program, argsList, memory>>

\* Mutant: the storage is allocated once, and not for every call.
ArgumentThrowsKeeps ==
  /\ proxy \in {"writing", "throwing"}
  /\ proxy' = "idle"
  /\ UNCHANGED <<vars, program, argsList, memory>>

\* After that, or for any other argument that cannot be written, the proxy
\* throws, and its Buffers go.
ArgumentThrows ==
  /\ proxy \in {"writing", "throwing"}
  /\ argsList' = {}
  /\ proxy' = "idle"
  /\ UNCHANGED <<program, memory>>
  /\ Release

\* ffi_call(): C code has the pointers.
FFICall ==
  /\ proxy = "writing"
  /\ proxy' = "calling"
  /\ Register(argsList)
  /\ UNCHANGED <<program, argsList, memory>>

\* It returns, and so does the proxy: its Buffers go.
FFICallReturns ==
  /\ proxy = "calling"
  /\ stage[Main] = "idle"
  /\ proxy' = "idle"
  /\ argsList' = {}
  /\ UNCHANGED <<program, memory>>
  /\ Release

-----------------------------------------------------------------------------
(* The other steps of ClosureLifetime.                                     *)

\* The collector runs where JavaScript does, also inside the proxy.
Collector ==
  /\ InProgram \/ proxy \in {"writing", "throwing"}
  /\ \E k \in Callbacks : CollectCif(k) \/ CollectBuffer(k) \/ Finalize(k)
  /\ UNCHANGED functionVars

\* C code on the loop's thread needs a call of that thread; a function that
\* runs for another thread needs the loop.
CCode ==
  /\ \/ \E a \in Actors, k \in Callbacks :
          Execute(a, k) /\ (a = Main => proxy \in {"idle", "calling"})
     \/ \E a \in Actors :
          \/ (DispatchToV8(a) \/ Return(a)) /\ (a # Main => LoopIdle)
          \/ Leave(a)
     \/ \E k \in Callbacks : Forget(k)
  /\ UNCHANGED functionVars

FNext ==
  \/ \E k \in Callbacks :
       \/ \E s \in Slots :
            toPointer(k, s) \/ SetFunction(k, s) \/ WriteArgument(k, s)
       \/ toPointerFails(k) \/ Pass(k) \/ ProgramDrops(k)
       \/ SetBuffer(k) \/ Get(k) \/ WriteArgumentFails(k)
  \/ DropMemory \/ ArgumentThrows \/ FFICall \/ FFICallReturns
  \/ Collector \/ CCode

FSpec == FInit /\ [][FNext]_allVars

-----------------------------------------------------------------------------
(* Properties.                                                             *)

\* Every variable has its type, and the Buffers in use are those referred to.
FTypeOK ==
  /\ program \union argsList \union memory \subseteq Callbacks
  /\ proxy \in {"idle", "writing", "throwing", "calling"}
  /\ proxy = "idle" => argsList = {}
  /\ HeldBy(program, argsList, memory) = {k \in Callbacks : buffer[k] = "held"}

\* A function passed to a C function, or written to memory that the program
\* has, runs whenever its pointer is executed while the call lasts or the
\* memory is there, by C code or as a function read back, although the program
\* does not keep its callback.
WrittenFunctionRuns ==
  \A a \in Actors : call[a] \in argsList \union memory => saw[a] = "own"
=============================================================================
