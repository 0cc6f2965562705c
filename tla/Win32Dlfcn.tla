----------------------------- MODULE Win32Dlfcn -----------------------------
(***************************************************************************)
(* The emulation of dlopen, dlsym, dlclose and dlerror on Windows          *)
(* (src/src/win32-dlfcn.cc) as DynamicLibrary (src/lib/dynamic_library.js) *)
(* calls it, on the threads of several environments: worker threads load   *)
(* the addon once each, and share its static variables.                    *)
(*                                                                         *)
(* dlopen sets the process's error mode and restores it.  Error codes go   *)
(* to the static lastError, from there to the text in the static           *)
(* errorMessage, and from there into the Error that JavaScript throws.     *)
(* Each access to what the process shares is a step.                       *)
(***************************************************************************)
CONSTANTS
  Threads,         \* the threads that run JavaScript
  MayOverlap,      \* may they open, get and close libraries concurrently?
  Flags,           \* flags of the process's error mode
  FailCritical,    \* SEM_FAILCRITICALERRORS
  ProgramMode,     \* the error mode the program runs in
  Codes,           \* Win32 error codes
  Critical,        \* those for which Windows may ask the user first
  NoError,         \* 0, the code of success
  Null             \* what dlerror returns when there is no error

ASSUME ModesAssumption ==
  FailCritical \in Flags /\ ProgramMode \subseteq Flags
ASSUME CodesAssumption ==
  /\ Critical \subseteq Codes
  /\ NoError \notin Codes /\ Null \notin Codes \union {NoError}
ASSUME OverlapAssumption == MayOverlap \in BOOLEAN

VARIABLES
  mode,            \* the error mode, one for the process
  lastError,       \* static DWORD lastError
  errorMessage,    \* static char errorMessage[64], as the code it spells
  asked,           \* has Windows shown an error message of its own?
  pc,              \* where each thread is
  saved,           \* dlopen's errorMode
  failed,          \* what the thread's operation has to report: GetLastError()
  thrown           \* what the JavaScript Error for it, or error(), says

threadVars == <<saved, failed, thrown>>
vars == <<mode, lastError, errorMessage, asked, pc, threadVars>>

Init ==
  /\ mode = ProgramMode
  /\ lastError = NoError
  /\ errorMessage = NoError
  /\ asked = FALSE
  /\ pc = [t \in Threads |-> "js"]
  /\ saved = [t \in Threads |-> ProgramMode]
  /\ failed = [t \in Threads |-> NoError]
  /\ thrown = [t \in Threads |-> NoError]

Goto(t, site) == pc' = [pc EXCEPT ![t] = site]

\* JavaScript begins an operation.  It is synchronous: only other threads can
\* come between its steps.
MayBegin(t) ==
  /\ pc[t] = "js"
  /\ MayOverlap \/ \A u \in Threads : pc[u] = "js"

\* The operation has code e, or NoError; nothing has been thrown for it yet.
Ends(t, e) ==
  /\ failed' = [failed EXCEPT ![t] = e]
  /\ thrown' = [thrown EXCEPT ![t] = NoError]

-----------------------------------------------------------------------------
(* dlopen.                                                                 *)

Dlopen(t) ==
  /\ MayBegin(t)
  /\ Ends(t, NoError)
  /\ Goto(t, "getMode")
  /\ UNCHANGED <<mode, lastError, errorMessage, asked, saved>>

\* Mutant: the early return forgets the code.
DlopenUnrecorded(t) ==
  /\ MayBegin(t)
  /\ \E e \in Codes : Ends(t, e)
  /\ Goto(t, "test")
  /\ UNCHANGED <<mode, lastError, errorMessage, asked, saved>>

\* The path cannot be converted, and the mode is left alone.
DlopenUnconverted(t) ==
  /\ MayBegin(t)
  /\ \E e \in Codes : Ends(t, e) /\ lastError' = e
  /\ Goto(t, "test")
  /\ UNCHANGED <<mode, errorMessage, asked, saved>>

GetErrorMode(t) ==
  /\ pc[t] = "getMode"
  /\ saved' = [saved EXCEPT ![t] = mode]
  /\ Goto(t, "setMode")
  /\ UNCHANGED <<mode, lastError, errorMessage, asked, failed, thrown>>

\* Mutants: the flags that were set are lost; the new one is not set.
SetErrorModeAlone(t) ==
  /\ pc[t] = "setMode"
  /\ mode' = {FailCritical}
  /\ Goto(t, "load")
  /\ UNCHANGED <<lastError, errorMessage, asked, threadVars>>
SetErrorModeAsBefore(t) ==
  /\ pc[t] = "setMode"
  /\ mode' = saved[t]
  /\ Goto(t, "load")
  /\ UNCHANGED <<lastError, errorMessage, asked, threadVars>>

SetErrorMode(t) ==
  /\ pc[t] = "setMode"
  /\ mode' = saved[t] \union {FailCritical}
  /\ Goto(t, "load")
  /\ UNCHANGED <<lastError, errorMessage, asked, threadVars>>

LoadLibrary(t) ==
  /\ pc[t] = "load"
  /\ Goto(t, "restore")
  /\ UNCHANGED <<mode, lastError, errorMessage, asked, threadVars>>

LoadLibraryFails(t) ==
  /\ pc[t] = "load"
  /\ \E e \in Codes :
       /\ failed' = [failed EXCEPT ![t] = e]
       /\ asked' = (asked \/ (e \in Critical /\ FailCritical \notin mode))
  /\ Goto(t, "record")
  /\ UNCHANGED <<mode, lastError, errorMessage, saved, thrown>>

\* Mutant: a return before the mode is restored.
RecordAndReturn(t) ==
  /\ pc[t] = "record"
  /\ lastError' = failed[t]
  /\ Goto(t, "test")
  /\ UNCHANGED <<mode, errorMessage, asked, threadVars>>

RecordError(t) ==
  /\ pc[t] = "record"
  /\ lastError' = failed[t]
  /\ Goto(t, "restore")
  /\ UNCHANGED <<mode, errorMessage, asked, threadVars>>

\* The constructor goes on to this.error() if the handle is null.
RestoreErrorMode(t) ==
  /\ pc[t] = "restore"
  /\ mode' = saved[t]
  /\ Goto(t, IF failed[t] = NoError THEN "js" ELSE "test")
  /\ UNCHANGED <<lastError, errorMessage, asked, threadVars>>

-----------------------------------------------------------------------------
(* dlsym, dlclose and dlerror.                                             *)

\* DynamicLibrary.prototype.get: null if there is no such symbol.
DlsymFails(t) ==
  /\ MayBegin(t)
  /\ \E e \in Codes : Ends(t, e) /\ lastError' = e
  /\ Goto(t, "test")
  /\ UNCHANGED <<mode, errorMessage, asked, saved>>

\* DynamicLibrary.prototype.close returns the status, and asks for no message:
\* the code stays in lastError.
DlcloseFails(t) ==
  /\ MayBegin(t)
  /\ Ends(t, NoError)
  /\ lastError' \in Codes
  /\ UNCHANGED <<mode, errorMessage, asked, pc, saved>>

\* A symbol is found, or a library closed.
CallSucceeds(t) ==
  /\ MayBegin(t)
  /\ Ends(t, NoError)
  /\ UNCHANGED <<mode, lastError, errorMessage, asked, pc, saved>>

\* DynamicLibrary.prototype.error, called by the program: it has to report
\* the last error that nobody asked for, be it another thread's, or none.
AskError(t) ==
  /\ MayBegin(t)
  /\ Ends(t, IF lastError = NoError THEN Null ELSE lastError)
  /\ Goto(t, "test")
  /\ UNCHANGED <<mode, lastError, errorMessage, asked, saved>>

\* dlerror: no error, so JavaScript gets null ...
DlerrorNull(t) ==
  /\ pc[t] = "test"
  /\ lastError = NoError
  /\ thrown' = [thrown EXCEPT ![t] = Null]
  /\ Goto(t, "js")
  /\ UNCHANGED <<mode, lastError, errorMessage, asked, saved, failed>>

DlerrorTest(t) ==
  /\ pc[t] = "test"
  /\ lastError # NoError
  /\ Goto(t, "format")
  /\ UNCHANGED <<mode, lastError, errorMessage, asked, threadVars>>

\* ... or an error, whose code is written out ...
DlerrorFormat(t) ==
  /\ pc[t] = "format"
  /\ errorMessage' = lastError
  /\ Goto(t, "clear")
  /\ UNCHANGED <<mode, lastError, asked, threadVars>>

\* ... and forgotten.
DlerrorClear(t) ==
  /\ pc[t] = "clear"
  /\ lastError' = NoError
  /\ Goto(t, "read")
  /\ UNCHANGED <<mode, errorMessage, asked, threadVars>>

\* JavaScript reads the text at the address that dlerror returned, and throws it.
\* It names no .so file, so no linker script is looked for.
ReadMessage(t) ==
  /\ pc[t] = "read"
  /\ thrown' = [thrown EXCEPT ![t] = errorMessage]
  /\ Goto(t, "js")
  /\ UNCHANGED <<mode, lastError, errorMessage, asked, saved, failed>>

-----------------------------------------------------------------------------
Open(t) ==
  \/ Dlopen(t) \/ DlopenUnconverted(t)
  \/ GetErrorMode(t) \/ SetErrorMode(t)
  \/ LoadLibrary(t) \/ LoadLibraryFails(t) \/ RecordError(t)
  \/ RestoreErrorMode(t)

Error(t) ==
  \/ DlerrorNull(t)
  \/ DlerrorTest(t) \/ DlerrorFormat(t) \/ DlerrorClear(t)
  \/ ReadMessage(t)

Next ==
  \E t \in Threads :
    \/ Open(t) \/ DlsymFails(t) \/ DlcloseFails(t) \/ CallSucceeds(t)
    \/ AskError(t) \/ Error(t)

Spec == Init /\ [][Next]_vars

-----------------------------------------------------------------------------
(* Properties.                                                             *)

OpenSites == {"getMode", "setMode", "load", "record", "restore"}
ErrorSites == {"test", "format", "clear", "read"}

Modes == {ProgramMode, ProgramMode \union {FailCritical}}

\* Every variable has its type: dlopen never takes a flag away and never sets
\* another than its own.
TypeOK ==
  /\ mode \in Modes
  /\ lastError \in Codes \union {NoError}
  /\ errorMessage \in Codes \union {NoError}
  /\ asked \in BOOLEAN
  /\ pc \in [Threads -> {"js"} \union OpenSites \union ErrorSites]
  /\ saved \in [Threads -> Modes]
  /\ failed \in [Threads -> Codes \union {NoError, Null}]
  /\ thrown \in [Threads -> Codes \union {NoError, Null}]

\* The comment in dlopen (win32-dlfcn.cc:98): a library that cannot be loaded
\* makes it return NULL, without a message from Windows.
NoErrorDialog == ~asked

\* Whatever the ways the calls end, the process is left in the program's mode.
ErrorModeKept == (\A t \in Threads : pc[t] = "js") => mode = ProgramMode

\* An Error that DynamicLibrary throws names the code of the call that failed:
\* not an older one that nobody asked for, and not none.  Asked by the program,
\* dlerror gives the last error (win32-dlfcn.cc:152), and gives it once.
ReportsOwnError == \A t \in Threads : pc[t] = "js" => thrown[t] = failed[t]

-----------------------------------------------------------------------------
(* The inductive invariant where operations do not overlap.                *)

Alone == \A t, u \in Threads : pc[t] # "js" /\ pc[u] # "js" => t = u

\* The mode and the static variables belong to the thread at work.
WorkOf(t) ==
  /\ pc[t] \in {"getMode", "setMode"} \union ErrorSites => mode = ProgramMode
  /\ pc[t] \in {"setMode", "load", "record", "restore"} => saved[t] = ProgramMode
  /\ pc[t] = "load" => FailCritical \in mode
  /\ pc[t] \in {"getMode", "setMode", "load"} => failed[t] = NoError
  /\ pc[t] = "record" => failed[t] # NoError
  /\ pc[t] \in OpenSites => failed[t] # Null
  /\ pc[t] \in OpenSites => thrown[t] = NoError
  /\ pc[t] = "restore" /\ failed[t] # NoError => lastError = failed[t]
  /\ pc[t] = "test" =>
       lastError = IF failed[t] = Null THEN NoError ELSE failed[t]
  /\ pc[t] \in {"format", "clear"} => lastError = failed[t]
  /\ pc[t] \in ErrorSites => failed[t] # NoError
  /\ pc[t] \in {"clear", "read"} => errorMessage = failed[t]
WorkInv == \A t \in Threads : WorkOf(t)

WInv ==
  TypeOK /\ Alone /\ WorkInv /\ NoErrorDialog /\ ErrorModeKept /\ ReportsOwnError
=============================================================================
