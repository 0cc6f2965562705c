---------------------------- MODULE AsyncPromise ----------------------------
(***************************************************************************)
(* What fn.async(..., callback) promises its caller: an accepted call is   *)
(* answered, once, later, with a value or with an error, as long as the    *)
(* process is up.  A callback that throws ends the process, and so does a  *)
(* result that cannot be read.                                             *)
(***************************************************************************)

CONSTANT Calls

VARIABLES
  state,       \* of each call: "idle", "accepted" or "rejected"
  told,        \* what its callback was told, each time it was called
  up           \* is the process running?

vars == <<state, told, up>>

Init ==
  /\ state = [c \in Calls |-> "idle"]
  /\ told = [c \in Calls |-> <<>>]
  /\ up = TRUE

\* The call is made; a wrong number of arguments is a TypeError on the spot.
Request(c) ==
  /\ up /\ state[c] = "idle"
  /\ \E s \in {"accepted", "rejected"} : state' = [state EXCEPT ![c] = s]
  /\ UNCHANGED <<told, up>>

\* No callback is called twice, nor for a call that was not accepted.
Answer(c) ==
  /\ up /\ state[c] = "accepted" /\ told[c] = <<>>
  /\ \E a \in {"value", "error"} : told' = [told EXCEPT ![c] = <<a>>]
  /\ UNCHANGED <<state, up>>

\* It takes an accepted call to end the process.
Terminate ==
  /\ up /\ \E c \in Calls : state[c] = "accepted"
  /\ up' = FALSE
  /\ UNCHANGED <<state, told>>

Next == Terminate \/ \E c \in Calls : Request(c) \/ Answer(c)

Spec == Init /\ [][Next]_vars /\ \A c \in Calls : WF_vars(Answer(c))

=============================================================================
