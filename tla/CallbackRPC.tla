----------------------------- MODULE CallbackRPC -----------------------------
(***************************************************************************)
(* What an ffi.Callback() function pointer promises the C code that calls  *)
(* it, on whichever thread: a call is a synchronous remote procedure call  *)
(* to the JavaScript function.  The caller blocks, the function is         *)
(* dispatched exactly once for that call, it either writes a return value  *)
(* or fails, and only then does the C code get control back.               *)
(*                                                                         *)
(* CallbackDispatch implements this with a queue, two mutexes, a condition *)
(* variable and a uv_async_t.                                              *)
(***************************************************************************)

CONSTANT Callers          \* threads that may execute the function pointer

VARIABLES
  phase,                  \* where each caller is in its call
  outcome                 \* what its call has produced so far

vars == <<phase, outcome>>

Outcomes == {"value", "error"}

Init ==
  /\ phase = [c \in Callers |-> "idle"]
  /\ outcome = [c \in Callers |-> "none"]

\* The C code executes the function pointer.
Call(c) ==
  /\ phase[c] = "idle"
  /\ phase' = [phase EXCEPT ![c] = "called"]
  /\ UNCHANGED outcome

\* The JavaScript function runs, once, while the caller is blocked.
Run(c) ==
  /\ phase[c] = "called"
  /\ phase' = [phase EXCEPT ![c] = "run"]
  /\ \E o \in Outcomes : outcome' = [outcome EXCEPT ![c] = o]

\* The C code gets control back, and the outcome with it.
Return(c) ==
  /\ phase[c] = "run"
  /\ phase' = [phase EXCEPT ![c] = "idle"]
  /\ outcome' = [outcome EXCEPT ![c] = "none"]

Next == \E c \in Callers : Call(c) \/ Run(c) \/ Return(c)

SafetySpec == Init /\ [][Next]_vars

Fairness == \A c \in Callers : WF_vars(Run(c)) /\ WF_vars(Return(c))

Spec == SafetySpec /\ Fairness

=============================================================================
