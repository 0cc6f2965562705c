-------------------------- MODULE Win32Dlfcn_proof --------------------------
(***************************************************************************)
(* Win32Dlfcn for any number of threads: type correctness whether or not   *)
(* their operations overlap, the other properties where they do not.       *)
(***************************************************************************)
EXTENDS Win32Dlfcn, TLAPS

USE ModesAssumption, CodesAssumption, OverlapAssumption

LEMMA InitInv == Init => WInv
BY DEF Init, WInv, TypeOK, Modes, Alone, WorkInv, WorkOf, NoErrorDialog, ErrorModeKept,
   ReportsOwnError, OpenSites, ErrorSites

\* What dlopen records is a code: null is only ever what error() has to report.
OpenReports == \A t \in Threads : pc[t] \in OpenSites => failed[t] # Null
TInv == TypeOK /\ OpenReports

LEMMA NextType == TInv /\ [Next]_vars => TInv'
<1> SUFFICES ASSUME TInv, [Next]_vars PROVE TInv'
  OBVIOUS
<1> USE DEF TInv, OpenReports, TypeOK, Modes, OpenSites, ErrorSites, Goto, Ends, threadVars
<1>1. CASE UNCHANGED vars
  BY <1>1 DEF vars
<1>2. ASSUME NEW t \in Threads, Open(t) PROVE TInv'
  <2>1. CASE Dlopen(t) \/ DlopenUnconverted(t)
    BY <2>1 DEF Dlopen, DlopenUnconverted
  <2>2. CASE GetErrorMode(t) \/ SetErrorMode(t) \/ RestoreErrorMode(t)
    BY <2>2 DEF GetErrorMode, SetErrorMode, RestoreErrorMode
  <2>3. CASE LoadLibrary(t)
    BY <2>3 DEF LoadLibrary
  <2>4. CASE LoadLibraryFails(t)
    <3>1. PICK e \in Codes :
            /\ failed' = [failed EXCEPT ![t] = e]
            /\ asked' = (asked \/ (e \in Critical /\ FailCritical \notin mode))
      BY <2>4 DEF LoadLibraryFails
    <3>2. TypeOK'
      BY <2>4, <3>1 DEF LoadLibraryFails
    <3>3. OpenReports'
      BY <2>4, <3>1 DEF LoadLibraryFails
    <3> QED
      BY <3>2, <3>3
  <2>5. CASE RecordError(t)
    <3>1. failed[t] \in Codes \union {NoError}
      BY <2>5 DEF RecordError
    <3> QED
      BY <2>5, <3>1 DEF RecordError
  <2> QED
    BY <1>2, <2>1, <2>2, <2>3, <2>4, <2>5 DEF Open
<1>3. ASSUME NEW t \in Threads,
             DlsymFails(t) \/ DlcloseFails(t) \/ CallSucceeds(t) \/ AskError(t)
      PROVE TInv'
  BY <1>3 DEF DlsymFails, DlcloseFails, CallSucceeds, AskError
<1>4. ASSUME NEW t \in Threads, Error(t) PROVE TInv'
  BY <1>4 DEF Error, DlerrorNull, DlerrorTest, DlerrorFormat, DlerrorClear, ReadMessage
<1> QED
  BY <1>1, <1>2, <1>3, <1>4 DEF Next

\* Without overlap a step is taken by a thread that is alone at work.
LEMMA OthersIdle ==
  ASSUME MayOverlap = FALSE, Alone, NEW t \in Threads,
         MayBegin(t) \/ pc[t] # "js"
  PROVE  \A u \in Threads : u # t => pc[u] = "js"
BY DEF Alone, MayBegin

\* What remains to be shown of a step is what it does to its own thread.
Rest(t) == pc[t] = "js" => mode = ProgramMode /\ thrown[t] = failed[t]

LEMMA OwnStep ==
  ASSUME MayOverlap = FALSE, WInv, TypeOK', NEW t \in Threads,
         MayBegin(t) \/ pc[t] # "js",
         \A u \in Threads : u # t => /\ pc'[u] = pc[u]
                                     /\ failed'[u] = failed[u]
                                     /\ thrown'[u] = thrown[u],
         WorkOf(t)', Rest(t)', ~asked'
  PROVE  WInv'
<1>1. \A u \in Threads : u # t => pc[u] = "js" /\ pc'[u] = "js"
  BY OthersIdle DEF WInv
<1>2. Alone'
  BY <1>1 DEF Alone
<1>3. WorkInv'
  <2> SUFFICES ASSUME NEW u \in Threads PROVE WorkOf(u)'
    BY DEF WorkInv
  <2>1. CASE u = t
    BY <2>1
  <2>2. CASE u # t
    BY <1>1, <2>2 DEF WorkOf, OpenSites, ErrorSites
  <2> QED
    BY <2>1, <2>2
<1>4. ErrorModeKept' /\ NoErrorDialog'
  BY DEF ErrorModeKept, NoErrorDialog, Rest
<1>5. ReportsOwnError'
  BY <1>1 DEF ReportsOwnError, WInv, Rest
<1> QED
  BY <1>2, <1>3, <1>4, <1>5 DEF WInv

LEMMA NextInv ==
  ASSUME MayOverlap = FALSE
  PROVE  WInv /\ [Next]_vars => WInv'
<1> SUFFICES ASSUME WInv, [Next]_vars PROVE WInv'
  OBVIOUS
<1>1. TypeOK'
  BY NextType DEF WInv, WorkInv, WorkOf, TInv, OpenReports
<1>2. CASE UNCHANGED vars
  BY <1>1, <1>2 DEF vars, threadVars, WInv, Alone, WorkInv, WorkOf, NoErrorDialog,
     ErrorModeKept, ReportsOwnError
<1>3. ASSUME NEW t \in Threads,
             \/ Open(t) \/ DlsymFails(t) \/ DlcloseFails(t) \/ CallSucceeds(t)
             \/ AskError(t) \/ Error(t)
      PROVE  WInv'
  <2> USE DEF Goto, Ends, threadVars
  <2>1. /\ pc \in [Threads -> {"js"} \union OpenSites \union ErrorSites]
        /\ saved \in [Threads -> Modes]
        /\ failed \in [Threads -> Codes \union {NoError, Null}]
        /\ thrown \in [Threads -> Codes \union {NoError, Null}]
    BY DEF WInv, TypeOK
  <2>2. \A u \in Threads : u # t => /\ pc'[u] = pc[u]
                                    /\ failed'[u] = failed[u]
                                    /\ thrown'[u] = thrown[u]
    BY <1>3, <2>1 DEF Open, Dlopen, DlopenUnconverted, GetErrorMode, SetErrorMode,
       LoadLibrary, LoadLibraryFails, RecordError, RestoreErrorMode, DlsymFails,
       DlcloseFails, CallSucceeds, AskError, Error, DlerrorNull, DlerrorTest, DlerrorFormat,
       DlerrorClear, ReadMessage
  <2>3. MayBegin(t) \/ pc[t] # "js"
    BY <1>3 DEF Open, Dlopen, DlopenUnconverted, GetErrorMode, SetErrorMode,
       LoadLibrary, LoadLibraryFails, RecordError, RestoreErrorMode, DlsymFails,
       DlcloseFails, CallSucceeds, AskError, Error, DlerrorNull, DlerrorTest, DlerrorFormat,
       DlerrorClear, ReadMessage
  <2>4. /\ pc[t] \in {"js"} \union OpenSites \union ErrorSites
        /\ ~asked /\ WorkOf(t) /\ Rest(t)
        /\ MayBegin(t) => mode = ProgramMode
    BY <2>3 DEF WInv, TypeOK, ErrorModeKept, NoErrorDialog, WorkInv, ReportsOwnError,
       MayBegin, Rest
  <2> USE DEF WorkOf, Rest, OpenSites, ErrorSites
  <2>5. ASSUME \/ Dlopen(t) \/ DlopenUnconverted(t)
               \/ DlsymFails(t) \/ DlcloseFails(t) \/ CallSucceeds(t)
               \/ AskError(t)
        PROVE  WorkOf(t)' /\ Rest(t)' /\ ~asked'
    <3>1. MayBegin(t) /\ pc[t] = "js"
      BY <2>5 DEF Dlopen, DlopenUnconverted, DlsymFails, DlcloseFails, CallSucceeds,
         AskError, MayBegin
    <3> QED
      BY <2>4, <2>1, <2>5, <3>1 DEF Dlopen, DlopenUnconverted, DlsymFails, DlcloseFails,
         CallSucceeds, AskError, WInv, TypeOK
  <2>6. CASE GetErrorMode(t) \/ SetErrorMode(t) \/ LoadLibrary(t)
    <3>1. WorkOf(t)' /\ Rest(t)' /\ ~asked'
      BY <2>4, <2>1, <2>6 DEF GetErrorMode, SetErrorMode, LoadLibrary
    <3> QED
      BY <1>1, <2>2, <2>3, <3>1, OwnStep
  <2>7. CASE LoadLibraryFails(t) \/ RecordError(t) \/ RestoreErrorMode(t)
    <3>1. WorkOf(t)' /\ Rest(t)' /\ ~asked'
      BY <2>4, <2>1, <2>7 DEF LoadLibraryFails, RecordError, RestoreErrorMode
    <3> QED
      BY <1>1, <2>2, <2>3, <3>1, OwnStep
  <2>8. CASE Error(t)
    <3>1. WorkOf(t)' /\ Rest(t)' /\ ~asked'
      BY <2>4, <2>1, <2>8 DEF Error, DlerrorNull, DlerrorTest, DlerrorFormat,
         DlerrorClear, ReadMessage
    <3> QED
      BY <1>1, <2>2, <2>3, <3>1, OwnStep
  <2> QED
    BY <1>1, <1>3, <2>2, <2>3, <2>5, <2>6, <2>7, <2>8, OwnStep DEF Open
<1> QED
  BY <1>2, <1>3 DEF Next

-----------------------------------------------------------------------------
\* Whatever threads do at once, the error mode is the program's with or without
\* dlopen's flag, and every variable has its type.
THEOREM TypeCorrect == Spec => []TypeOK
<1>1. Init => TInv
  BY InitInv DEF WInv, WorkInv, WorkOf, TInv, OpenReports
<1>2. TInv => TypeOK
  BY DEF TInv
<1> QED
  BY <1>1, <1>2, NextType, PTL DEF Spec

\* Operations that do not overlap never lead to a message from Windows,
THEOREM NoDialog ==
  ASSUME MayOverlap = FALSE
  PROVE  Spec => []NoErrorDialog
<1>1. WInv => NoErrorDialog
  BY DEF WInv
<1> QED
  BY <1>1, InitInv, NextInv, PTL DEF Spec

\* ... leave the process in the program's error mode,
THEOREM ModeKept ==
  ASSUME MayOverlap = FALSE
  PROVE  Spec => []ErrorModeKept
<1>1. WInv => ErrorModeKept
  BY DEF WInv
<1> QED
  BY <1>1, InitInv, NextInv, PTL DEF Spec

\* ... and throw an Error that names their own code.
THEOREM OwnError ==
  ASSUME MayOverlap = FALSE
  PROVE  Spec => []ReportsOwnError
<1>1. WInv => ReportsOwnError
  BY DEF WInv
<1> QED
  BY <1>1, InitInv, NextInv, PTL DEF Spec
=============================================================================
