--------------------------- MODULE AsyncCall_proof ---------------------------
(***************************************************************************)
(* The safety properties of AsyncCall for any number of calls and workers. *)
(***************************************************************************)
EXTENDS AsyncCall, TLAPS, SequenceTheorems

USE CallsAssumption

-----------------------------------------------------------------------------
(* The inductive invariant.                                                *)

NoRepeat(q) == \A i, j \in 1..Len(q) : q[i] = q[j] => i = j

\* A call is at one place of one queue, or with one worker.
Distinct ==
  /\ NoRepeat(ticks) /\ NoRepeat(poolQueue) /\ NoRepeat(doneQueue)
  /\ \A v, w \in Workers : running[v] = running[w] /\ running[v] # NoCall => v = w
  /\ \A w \in Workers : running[w] \notin Range(poolQueue)
  /\ finishing \notin Range(doneQueue)

\* Where a call is tells how far it has come, and what its callback knows.
Stages ==
  /\ \A c \in Range(ticks) : fate[c] = "badArgument" /\ answer[c] = <<>>
  /\ \A c \in Range(poolQueue) : fate[c] = "queued" /\ answer[c] = <<>>
  /\ \A w \in Workers :
       running[w] # NoCall =>
         fate[running[w]] = "queued" /\ answer[running[w]] = <<>>
  /\ \A c \in Range(doneQueue) :
       fate[c] \in {"returned", "threw"} /\ answer[c] = <<>>
  /\ finishing # NoCall =>
       fate[finishing] \in {"returned", "threw"}

\* No callback is called twice, and each as its call deserves.
AnsweredOnce ==
  \A c \in Calls :
    \/ answer[c] = <<>>
    \/ answer[c] = <<"value">> /\ fate[c] \in {"returned", "threw"}
    \/ answer[c] = <<"error">> /\ fate[c] = "badArgument"

\* Whoever has a claim on a Buffer finds it.
Claims ==
  /\ holds => Shared \subseteq alive
  /\ \A c \in params : Captured(c) \subseteq alive

AInv == TypeOK /\ Distinct /\ Stages /\ AnsweredOnce /\ ParamsLifetime /\ Claims

-----------------------------------------------------------------------------
(* Queues.                                                                 *)

LEMMA RangeEmpty == Range(<<>>) = {}
BY DEF Range

LEMMA AppendRange ==
  ASSUME NEW S, NEW q \in Seq(S), NEW e \in S
  PROVE  Range(Append(q, e)) = Range(q) \union {e}
<1>1. DOMAIN Append(q, e) = 1..(Len(q) + 1) /\ DOMAIN q = 1..Len(q)
      /\ Len(q) \in Nat
  BY AppendProperties, LenProperties
<1>2. \A i \in 1..(Len(q) + 1) :
        Append(q, e)[i] = IF i = Len(q) + 1 THEN e ELSE q[i]
  BY AppendProperties
<1>3. ASSUME NEW x \in Range(Append(q, e)) PROVE x \in Range(q) \union {e}
  BY <1>1, <1>2 DEF Range
<1>4. ASSUME NEW x \in Range(q) PROVE x \in Range(Append(q, e))
  BY <1>1, <1>2 DEF Range
<1>5. e \in Range(Append(q, e))
  BY <1>1, <1>2 DEF Range
<1> QED
  BY <1>3, <1>4, <1>5

LEMMA AppendNoRepeat ==
  ASSUME NEW S, NEW q \in Seq(S), NEW e \in S, NoRepeat(q), e \notin Range(q)
  PROVE  NoRepeat(Append(q, e))
<1>1. Len(Append(q, e)) = Len(q) + 1 /\ DOMAIN q = 1..Len(q) /\ Len(q) \in Nat
  BY AppendProperties, LenProperties
<1>2. \A i \in 1..(Len(q) + 1) :
        Append(q, e)[i] = IF i = Len(q) + 1 THEN e ELSE q[i]
  BY AppendProperties
<1>3. \A i \in 1..Len(q) : q[i] # e
  BY <1>1 DEF Range
<1> QED
  BY <1>1, <1>2, <1>3 DEF NoRepeat

LEMMA TailRange ==
  ASSUME NEW S, NEW q \in Seq(S), q # <<>>, NoRepeat(q)
  PROVE  /\ Head(q) \in S /\ Head(q) \in Range(q) /\ Tail(q) \in Seq(S)
         /\ Range(Tail(q)) = Range(q) \ {Head(q)}
         /\ NoRepeat(Tail(q))
<1>1. /\ Head(q) \in S /\ Tail(q) \in Seq(S) /\ Len(Tail(q)) = Len(q) - 1
      /\ \A i \in 1..Len(Tail(q)) : Tail(q)[i] = q[i + 1]
  BY HeadTailProperties
<1>2. DOMAIN q = 1..Len(q) /\ Len(q) \in Nat \ {0} /\ Head(q) = q[1]
      /\ DOMAIN Tail(q) = 1..(Len(q) - 1)
  BY <1>1, EmptySeq, LenProperties
<1>3. Head(q) \in Range(q)
  BY <1>2 DEF Range
<1>4. ASSUME NEW x \in Range(Tail(q)) PROVE x \in Range(q) \ {Head(q)}
  <2>1. PICK i \in 1..(Len(q) - 1) : x = Tail(q)[i]
    BY <1>2 DEF Range
  <2>2. x = q[i + 1] /\ i + 1 \in 1..Len(q) /\ i + 1 # 1 /\ 1 \in 1..Len(q)
    BY <2>1, <1>1, <1>2
  <2> QED
    BY <2>2, <1>2 DEF Range, NoRepeat
<1>5. ASSUME NEW x \in Range(q), x # Head(q) PROVE x \in Range(Tail(q))
  <2>1. PICK i \in 1..Len(q) : x = q[i]
    BY <1>2 DEF Range
  <2>2. i # 1 /\ i - 1 \in 1..(Len(q) - 1)
    BY <2>1, <1>5, <1>2
  <2>3. x = Tail(q)[i - 1]
    BY <2>1, <2>2, <1>1, <1>2
  <2> QED
    BY <2>2, <2>3, <1>2 DEF Range
<1>6. NoRepeat(Tail(q))
  BY <1>1, <1>2 DEF NoRepeat
<1> QED
  BY <1>1, <1>3, <1>4, <1>5, <1>6

LEMMA RangeInSet ==
  ASSUME NEW S, NEW q \in Seq(S)
  PROVE  Range(q) \subseteq S
BY ElementOfSeq, LenProperties DEF Range

\* The first answer of a call.
LEMMA FirstAnswer ==
  ASSUME TypeOK, NEW c \in Calls, answer[c] = <<>>,
         NEW a \in {"value", "error"}, Tell(c, a)
  PROVE  /\ answer' = [answer EXCEPT ![c] = <<a>>]
         /\ answer' \in [Calls -> {<<>>, <<"value">>, <<"error">>}]
         /\ <<a>> # <<>>
<1>1. Append(<<>>, a) = <<a>> /\ <<a>> # <<>>
  OBVIOUS
<1>2. answer' = [answer EXCEPT ![c] = <<a>>]
  BY <1>1 DEF Tell, TypeOK
<1>3. <<a>> \in {<<"value">>, <<"error">>}
  OBVIOUS
<1> QED
  BY <1>1, <1>2, <1>3 DEF TypeOK

LEMMA InitInv == Init => AInv
<1> SUFFICES ASSUME Init PROVE AInv
  OBVIOUS
<1>1. <<>> \in Seq(Calls) /\ Len(<<>>) = 0
  OBVIOUS
<1>2. TypeOK
  <2>1. Shared \subseteq Shared \union UNION {Own(c) : c \in Calls}
    OBVIOUS
  <2> QED
    BY <1>1, <2>1 DEF Init, TypeOK, Fates
<1>3. Distinct
  BY <1>1, RangeEmpty DEF Init, Distinct, NoRepeat
<1>4. Stages
  BY RangeEmpty DEF Init, Stages
<1>5. AnsweredOnce
  BY DEF Init, AnsweredOnce
<1>6. Range(running) \subseteq {NoCall}
  BY DEF Init, Range
<1>7. ParamsLifetime
  BY <1>6, RangeEmpty DEF Init, ParamsLifetime, InFlight
<1>8. Claims
  BY DEF Init, Claims
<1> QED
  BY <1>2, <1>3, <1>4, <1>5, <1>7, <1>8 DEF AInv

-----------------------------------------------------------------------------
(* Calls of proxy.async.                                                   *)

\* A call that has not been made is nowhere.
LEMMA IdleIsNowhere ==
  ASSUME AInv, NEW c \in Calls, fate[c] = "idle"
  PROVE  /\ c \notin Range(ticks) /\ c \notin Range(poolQueue)
         /\ c \notin Range(doneQueue) /\ c # finishing
         /\ \A w \in Workers : running[w] # c
         /\ c \notin params /\ answer[c] = <<>>
<1>1. /\ c \notin Range(ticks) /\ c \notin Range(poolQueue)
      /\ c \notin Range(doneQueue) /\ c # finishing
      /\ \A w \in Workers : running[w] # c
  BY DEF AInv, Stages
<1>2. c \notin params
  BY <1>1 DEF AInv, TypeOK, ParamsLifetime, InFlight, Range
<1>3. answer[c] = <<>>
  BY DEF AInv, AnsweredOnce
<1> QED
  BY <1>1, <1>2, <1>3

LEMMA RejectsInv ==
  ASSUME AInv, NEW c \in Calls, AsyncRejects(c)
  PROVE  AInv'
<1> USE DEF AsyncRejects, MayCall, queues, heap
<1>1. TypeOK'
  BY DEF AInv, TypeOK, Fates
<1>2. Distinct'
  BY DEF AInv, Distinct
<1>3. Stages'
  BY IdleIsNowhere DEF AInv, Stages, TypeOK
<1>4. AnsweredOnce'
  BY IdleIsNowhere DEF AInv, AnsweredOnce, TypeOK
<1>5. ParamsLifetime' /\ Claims'
  BY DEF AInv, ParamsLifetime, InFlight, Claims
<1> QED
  BY <1>1, <1>2, <1>3, <1>4, <1>5 DEF AInv

LEMMA BadArgumentInv ==
  ASSUME AInv, NEW c \in Calls, AsyncBadArgument(c)
  PROVE  AInv'
<1> USE DEF AsyncBadArgument, MayCall, queues, heap
<1>1. /\ Range(ticks') = Range(ticks) \union {c} /\ NoRepeat(ticks')
      /\ ticks' \in Seq(Calls)
  BY IdleIsNowhere, AppendRange, AppendNoRepeat, AppendProperties
     DEF AInv, TypeOK, Distinct
<1>2. TypeOK'
  BY <1>1 DEF AInv, TypeOK, Fates
<1>3. Distinct'
  BY <1>1 DEF AInv, Distinct
<1>4. Stages'
  BY <1>1, IdleIsNowhere DEF AInv, Stages, TypeOK
<1>5. AnsweredOnce'
  BY IdleIsNowhere DEF AInv, AnsweredOnce, TypeOK
<1>6. ParamsLifetime' /\ Claims'
  BY DEF AInv, ParamsLifetime, InFlight, Claims
<1> QED
  BY <1>2, <1>3, <1>4, <1>5, <1>6 DEF AInv

LEMMA FFICallAsyncInv ==
  ASSUME AInv, NEW c \in Calls, FFICallAsync(c)
  PROVE  AInv'
<1> USE DEF FFICallAsync, MayCall
<1>1. /\ Range(poolQueue') = Range(poolQueue) \union {c} /\ NoRepeat(poolQueue')
      /\ poolQueue' \in Seq(Calls)
  BY IdleIsNowhere, AppendRange, AppendNoRepeat, AppendProperties
     DEF AInv, TypeOK, Distinct
<1>2. TypeOK'
  BY <1>1 DEF AInv, TypeOK, Fates
<1>3. Distinct'
  BY <1>1, IdleIsNowhere DEF AInv, Distinct
<1>4. Stages'
  BY <1>1, IdleIsNowhere DEF AInv, Stages, TypeOK
<1>5. AnsweredOnce'
  BY IdleIsNowhere DEF AInv, AnsweredOnce, TypeOK
<1>6. ParamsLifetime'
  BY <1>1, c # NoCall DEF AInv, ParamsLifetime, InFlight
<1>7. Claims'
  BY DEF AInv, Claims, Captured
<1> QED
  BY <1>2, <1>3, <1>4, <1>5, <1>6, <1>7 DEF AInv

-----------------------------------------------------------------------------
(* Workers.                                                                *)

\* Giving worker w another request.
LEMMA RunningRange ==
  ASSUME TypeOK, Distinct, NEW w \in Workers, NEW d \in Calls \union {NoCall},
         running' = [running EXCEPT ![w] = d]
  PROVE  Range(running') \ {NoCall} =
           ((Range(running) \ {running[w]}) \union {d}) \ {NoCall}
<1>1. DOMAIN running = Workers /\ DOMAIN running' = Workers
  BY DEF TypeOK
<1>2. \A v \in Workers : running'[v] = IF v = w THEN d ELSE running[v]
  BY <1>1
<1>3. ASSUME NEW x \in Range(running'), x # NoCall
      PROVE  x = d \/ (x \in Range(running) /\ x # running[w])
  <2>1. PICK v \in Workers : x = running'[v]
    BY <1>1 DEF Range
  <2> QED
    BY <2>1, <1>1, <1>2, <1>3 DEF Distinct, Range
<1>4. ASSUME NEW x \in Range(running), x # running[w] PROVE x \in Range(running')
  <2>1. PICK v \in Workers : x = running[v]
    BY <1>1 DEF Range
  <2> QED
    BY <2>1, <1>1, <1>2, <1>4 DEF Range
<1>5. d \in Range(running')
  BY <1>1, <1>2 DEF Range
<1> QED
  BY <1>3, <1>4, <1>5

LEMMA TakeInv ==
  ASSUME AInv, NEW w \in Workers, Take(w)
  PROVE  AInv'
<1> USE DEF Take, heap
<1> DEFINE c == Head(poolQueue)
<1>1. /\ c \in Calls /\ c \in Range(poolQueue) /\ poolQueue' \in Seq(Calls)
      /\ Range(poolQueue') = Range(poolQueue) \ {c} /\ NoRepeat(poolQueue')
  BY TailRange DEF AInv, TypeOK, Distinct
<1> HIDE DEF c
<1>2. running' = [running EXCEPT ![w] = c]
  BY DEF c
<1>3. \A v \in Workers : running'[v] = IF v = w THEN c ELSE running[v]
  BY <1>2 DEF AInv, TypeOK
<1>4. TypeOK'
  BY <1>1, <1>2 DEF AInv, TypeOK
<1>5. Distinct'
  BY <1>1, <1>3 DEF AInv, Distinct
<1>6. Stages'
  BY <1>1, <1>3 DEF AInv, Stages
<1>7. AnsweredOnce' /\ Claims'
  BY DEF AInv, AnsweredOnce, Claims
<1>8. Range(running') \ {NoCall} = (Range(running) \union {c}) \ {NoCall}
  <2>1. c \in Calls \union {NoCall} /\ TypeOK /\ Distinct
    BY <1>1 DEF AInv
  <2>2. Range(running') \ {NoCall} =
          ((Range(running) \ {running[w]}) \union {c}) \ {NoCall}
    BY <2>1, <1>2, RunningRange, Zenon
  <2> QED
    BY <2>2
<1>9. ParamsLifetime'
  BY <1>1, <1>8, ZenonT(40) DEF AInv, ParamsLifetime, InFlight
<1> QED
  BY <1>4, <1>5, <1>6, <1>7, <1>9 DEF AInv

LEMMA AsyncFFICallInv ==
  ASSUME AInv, NEW w \in Workers, AsyncFFICall(w)
  PROVE  AInv'
<1> DEFINE c == running[w]
<1>1. c \in Calls /\ c # NoCall /\ fate[c] = "queued" /\ answer[c] = <<>>
  BY DEF AInv, TypeOK, Stages, AsyncFFICall
<1>2. /\ c \notin Range(ticks) /\ c \notin Range(poolQueue)
      /\ c \notin Range(doneQueue) /\ c # finishing
      /\ c \in params
  <2>1. /\ c \notin Range(ticks) /\ c \notin Range(poolQueue)
        /\ c \notin Range(doneQueue) /\ c # finishing
    BY <1>1 DEF AInv, Stages, Distinct
  <2>2. c \in Range(running)
    BY DEF AInv, TypeOK, Range
  <2> QED
    BY <1>1, <2>1, <2>2 DEF AInv, ParamsLifetime, InFlight
<1>3. /\ Range(doneQueue') = Range(doneQueue) \union {c} /\ NoRepeat(doneQueue')
      /\ doneQueue' \in Seq(Calls)
  BY <1>1, <1>2, AppendRange, AppendNoRepeat, AppendProperties
     DEF AInv, TypeOK, Distinct, AsyncFFICall
<1>4. running' = [running EXCEPT ![w] = NoCall]
  BY DEF AsyncFFICall
<1>5. \A v \in Workers : running'[v] = IF v = w THEN NoCall ELSE running[v]
  BY <1>4 DEF AInv, TypeOK
<1>6. PICK f \in {"returned", "threw"} :
        fate' = [fate EXCEPT ![c] = f] /\ err' \in {err, err \union {c}}
  BY DEF AsyncFFICall
<1>7. UNCHANGED <<turn, ticks, poolQueue, finishing, params, answer, holds, alive>>
  BY DEF AsyncFFICall, heap
<1> HIDE DEF c
<1>8. TypeOK'
  BY <1>1, <1>3, <1>4, <1>6, <1>7 DEF AInv, TypeOK, Fates
<1>9. Distinct'
  <2>1. \A v \in Workers : running'[v] \notin Range(poolQueue)
    <3>1. NoCall \notin Range(poolQueue)
      BY RangeInSet DEF AInv, TypeOK
    <3> QED
      BY <3>1, <1>5 DEF AInv, Distinct
  <2> QED
    BY <2>1, <1>2, <1>3, <1>5, <1>7 DEF AInv, Distinct
<1>10. Stages'
  <2>1. \A d \in Calls : d # c => fate'[d] = fate[d]
    BY <1>6 DEF AInv, TypeOK
  <2>2. fate'[c] \in {"returned", "threw"}
    BY <1>1, <1>6 DEF AInv, TypeOK
  <2>3. \A v \in Workers : v # w => running[v] # c
    BY <1>1 DEF AInv, Distinct, c
  <2>4. /\ Range(ticks) \subseteq Calls /\ Range(poolQueue) \subseteq Calls
        /\ Range(doneQueue) \subseteq Calls
        /\ running \in [Workers -> Calls \union {NoCall}]
        /\ finishing \in Calls \union {NoCall}
    BY RangeInSet DEF AInv, TypeOK
  <2>5. \A d \in Range(doneQueue') :
          fate'[d] \in {"returned", "threw"} /\ answer[d] = <<>>
    BY <1>1, <1>3, <2>1, <2>2, <2>4 DEF AInv, Stages
  <2>6. \A v \in Workers : running'[v] # NoCall =>
          fate'[running'[v]] = "queued" /\ answer[running'[v]] = <<>>
    BY <1>5, <2>1, <2>3, <2>4 DEF AInv, Stages
  <2>7. finishing # NoCall =>
          fate'[finishing] \in {"returned", "threw"}
    BY <1>2, <2>1, <2>4 DEF AInv, Stages
  <2>8. /\ \A d \in Range(ticks) : fate'[d] = "badArgument" /\ answer[d] = <<>>
        /\ \A d \in Range(poolQueue) : fate'[d] = "queued" /\ answer[d] = <<>>
    BY <1>2, <2>1, <2>4 DEF AInv, Stages
  <2> QED
    BY <2>5, <2>6, <2>7, <2>8, <1>7 DEF Stages
<1>11. AnsweredOnce'
  BY <1>1, <1>6, <1>7 DEF AInv, AnsweredOnce, TypeOK
<1>12. ParamsLifetime'
  <2>1. Range(running') \ {NoCall} = (Range(running) \ {c}) \ {NoCall}
    BY <1>4, RunningRange DEF AInv, c
  <2>2. c \in Range(running)
    BY DEF AInv, TypeOK, Range, c
  <2>3. InFlight' = InFlight
    BY <2>1, <2>2, <1>1, <1>3, <1>7 DEF InFlight
  <2> QED
    BY <2>3, <1>2, <1>6, <1>7 DEF AInv, ParamsLifetime
<1>13. Claims'
  BY <1>7 DEF AInv, Claims
<1> QED
  BY <1>8, <1>9, <1>10, <1>11, <1>12, <1>13 DEF AInv

-----------------------------------------------------------------------------
(* The event loop.                                                         *)

\* Turns of the loop, and the end of the process, leave all else alone.
LEMMA TurnInv ==
  ASSUME AInv,
         RunEvent \/ EndJS \/ TicksDone \/ CallbackThrows \/ UNCHANGED vars
  PROVE  AInv'
<1>1. UNCHANGED <<queues, running, finishing, params, err, fate, answer, heap>>
      /\ turn' \in {turn, "js", "ticks", "poll", "terminated"}
  BY DEF RunEvent, EndJS, TicksDone, CallbackThrows, vars
<1> QED
  BY <1>1 DEF AInv, TypeOK, Distinct, Stages, AnsweredOnce, ParamsLifetime,
     InFlight, Claims, queues, heap

LEMMA RunTickInv ==
  ASSUME AInv, RunTick
  PROVE  AInv'
<1> DEFINE c == Head(ticks)
<1>1. /\ c \in Calls /\ c \in Range(ticks) /\ ticks' \in Seq(Calls)
      /\ Range(ticks') = Range(ticks) \ {c} /\ NoRepeat(ticks')
  BY TailRange DEF AInv, TypeOK, Distinct, RunTick
<1>2. fate[c] = "badArgument" /\ answer[c] = <<>>
  BY <1>1 DEF AInv, Stages
<1>3. /\ answer' = [answer EXCEPT ![c] = <<"error">>]
      /\ answer' \in [Calls -> {<<>>, <<"value">>, <<"error">>}]
  BY <1>1, <1>2, FirstAnswer DEF AInv, RunTick
<1>4. turn' = "js" /\ UNCHANGED <<poolQueue, doneQueue, running, finishing,
                                  params, err, fate, holds, alive>>
  BY DEF RunTick, heap
<1> HIDE DEF c
<1>5. \A d \in Calls : answer'[d] = IF d = c THEN <<"error">> ELSE answer[d]
  BY <1>3 DEF AInv, TypeOK
<1>6. TypeOK'
  BY <1>1, <1>3, <1>4 DEF AInv, TypeOK
<1>7. Distinct'
  BY <1>1, <1>4 DEF AInv, Distinct
<1>8. Stages'
  <2>1. /\ Range(ticks) \subseteq Calls /\ Range(poolQueue) \subseteq Calls
        /\ Range(doneQueue) \subseteq Calls
        /\ running \in [Workers -> Calls \union {NoCall}]
        /\ finishing \in Calls \union {NoCall}
    BY RangeInSet DEF AInv, TypeOK
  <2> QED
    BY <1>1, <1>2, <1>4, <1>5, <2>1 DEF AInv, Stages
<1>9. AnsweredOnce'
  BY <1>2, <1>4, <1>5 DEF AInv, AnsweredOnce
<1>10. ParamsLifetime' /\ Claims'
  BY <1>4 DEF AInv, ParamsLifetime, InFlight, Claims
<1> QED
  BY <1>6, <1>7, <1>8, <1>9, <1>10 DEF AInv

\* Both ways of ending a request take the first one that is done.
LEMMA FinishInv ==
  ASSUME AInv, FinishAsyncFFICall \/ ResultThrows
  PROVE  AInv'
<1> DEFINE c == Head(doneQueue)
<1>1. /\ c \in Calls /\ c \in Range(doneQueue) /\ doneQueue' \in Seq(Calls)
      /\ Range(doneQueue') = Range(doneQueue) \ {c} /\ NoRepeat(doneQueue')
  <2>1. doneQueue \in Seq(Calls) /\ NoRepeat(doneQueue)
    BY DEF AInv, TypeOK, Distinct
  <2>2. doneQueue # <<>> /\ doneQueue' = Tail(doneQueue)
    BY DEF FinishAsyncFFICall, ResultThrows
  <2> QED
    BY <2>1, <2>2, TailRange
<1>2. fate[c] \in {"returned", "threw"} /\ answer[c] = <<>>
  BY <1>1 DEF AInv, Stages
<1>3. PICK x \in {<<>>, <<"value">>} : answer' = [answer EXCEPT ![c] = x]
  <2>1. CASE FinishAsyncFFICall
    <3>1. Tell(c, "value")
      BY <2>1 DEF FinishAsyncFFICall, ResultOK
    <3> QED
      BY <1>1, <1>2, <3>1, FirstAnswer DEF AInv
  <2>2. CASE ResultThrows
    BY <1>1, <1>2, <2>2 DEF ResultThrows, AInv, TypeOK
  <2> QED
    BY <2>1, <2>2
<1>4. answer' \in [Calls -> {<<>>, <<"value">>, <<"error">>}]
  BY <1>1, <1>3 DEF AInv, TypeOK
<1>5. turn' \in {"js", "terminated"} /\ finishing = NoCall /\ finishing' = c
      /\ UNCHANGED <<ticks, poolQueue, running, params, err, fate, holds, alive>>
  BY DEF FinishAsyncFFICall, ResultThrows, heap
<1> HIDE DEF c
<1>6. \A d \in Calls : answer'[d] = IF d = c THEN x ELSE answer[d]
  BY <1>3 DEF AInv, TypeOK
<1>7. TypeOK'
  BY <1>1, <1>4, <1>5 DEF AInv, TypeOK
<1>8. Distinct'
  BY <1>1, <1>5 DEF AInv, Distinct
<1>9. Stages'
  <2>1. /\ Range(ticks) \subseteq Calls /\ Range(poolQueue) \subseteq Calls
        /\ Range(doneQueue) \subseteq Calls
        /\ running \in [Workers -> Calls \union {NoCall}]
    BY RangeInSet DEF AInv, TypeOK
  <2> QED
    BY <1>1, <1>2, <1>4, <1>5, <1>6, <2>1 DEF AInv, Stages
<1>10. AnsweredOnce'
  BY <1>2, <1>5, <1>6 DEF AInv, AnsweredOnce
<1>11. ParamsLifetime'
  <2>1. InFlight' = InFlight
    BY <1>1, <1>5 DEF InFlight
  <2> QED
    BY <2>1, <1>5 DEF AInv, ParamsLifetime
<1>12. Claims'
  BY <1>5 DEF AInv, Claims
<1> QED
  BY <1>7, <1>8, <1>9, <1>10, <1>11, <1>12 DEF AInv

LEMMA DeleteInv ==
  ASSUME AInv, DeleteParams
  PROVE  AInv'
<1> USE DEF DeleteParams, queues, heap
<1>1. finishing \in Calls
  BY DEF AInv, TypeOK
<1>2. /\ finishing \notin Range(poolQueue) /\ finishing \notin Range(doneQueue)
      /\ finishing \notin Range(running)
  <2>1. finishing \notin Range(poolQueue)
    BY DEF AInv, Stages
  <2>2. \A w \in Workers : running[w] # finishing
    BY DEF AInv, Stages
  <2> QED
    BY <2>1, <2>2 DEF AInv, Distinct, TypeOK, Range
<1>3. TypeOK' /\ Distinct' /\ Stages' /\ AnsweredOnce'
  <2>1. NoCall \notin Range(doneQueue)
    BY RangeInSet DEF AInv, TypeOK
  <2> QED
    BY <2>1 DEF AInv, TypeOK, Distinct, Stages, AnsweredOnce
<1>4. ParamsLifetime'
  <2>1. InFlight' = InFlight \ {finishing}
    BY <1>1, <1>2 DEF InFlight
  <2> QED
    BY <2>1 DEF AInv, ParamsLifetime
<1>5. Claims'
  BY DEF AInv, Claims
<1> QED
  BY <1>3, <1>4, <1>5 DEF AInv

\* The collector spares what the program or a request has a claim on.
LEMMA HeapInv ==
  ASSUME AInv, DropFunction \/ Collect
  PROVE  AInv'
<1> USE DEF queues
<1>1. UNCHANGED <<turn, queues, running, finishing, params, err, fate, answer>>
  BY DEF DropFunction, Collect
<1>2. TypeOK'
  BY DEF AInv, TypeOK, DropFunction, Collect
<1>3. Distinct' /\ Stages' /\ AnsweredOnce'
  BY <1>1 DEF AInv, Distinct, Stages, AnsweredOnce
<1>4. ParamsLifetime'
  BY <1>1 DEF AInv, ParamsLifetime, InFlight
<1>5. Claims'
  <2>1. CASE DropFunction
    BY <2>1 DEF AInv, Claims, DropFunction
  <2>2. CASE Collect
    <3>1. holds => Shared \subseteq Reachable
      BY DEF Reachable
    <3>2. \A c \in params : Captured(c) \subseteq Reachable
      BY DEF Reachable
    <3> QED
      BY <2>2, <3>1, <3>2 DEF AInv, Claims, Collect
  <2> QED
    BY <2>1, <2>2
<1> QED
  BY <1>2, <1>3, <1>4, <1>5 DEF AInv

-----------------------------------------------------------------------------
(* The theorems.                                                           *)

LEMMA NextInv == AInv /\ [Next]_vars => AInv'
<1> SUFFICES ASSUME AInv, [Next]_vars PROVE AInv'
  OBVIOUS
<1>1. CASE \E c \in Calls : AsyncRejects(c) \/ AsyncBadArgument(c) \/ FFICallAsync(c)
  BY <1>1, RejectsInv, BadArgumentInv, FFICallAsyncInv
<1>2. CASE \E w \in Workers : Worker(w)
  BY <1>2, TakeInv, AsyncFFICallInv DEF Worker
<1>3. CASE Loop
  BY <1>3, TurnInv, RunTickInv, FinishInv, DeleteInv DEF Loop
<1>4. CASE RunEvent \/ CallbackThrows \/ ResultThrows \/ UNCHANGED vars
  BY <1>4, TurnInv, FinishInv
<1>5. CASE DropFunction \/ Collect
  BY <1>5, HeapInv
<1> QED
  BY <1>1, <1>2, <1>3, <1>4, <1>5 DEF Next

\* Types are kept with any number of calls and workers.
THEOREM TypeCorrect == Spec => []TypeOK
<1>1. AInv => TypeOK
  BY DEF AInv
<1> QED
  BY <1>1, InitInv, NextInv, PTL DEF Spec, SafetySpec

\* AsyncCallParams exist as long as libuv, a worker or the loop points to them.
THEOREM ParamsLive == Spec => []ParamsLifetime
<1>1. AInv => ParamsLifetime
  BY DEF AInv
<1> QED
  BY <1>1, InitInv, NextInv, PTL DEF Spec, SafetySpec

\* The closure given to ffi_call_async is enough to keep every Buffer that the
\* worker uses from the collector.
THEOREM BuffersLive == Spec => []NoUseAfterFree
<1>1. AInv => NoUseAfterFree
  <2> SUFFICES ASSUME AInv PROVE NoUseAfterFree
    OBVIOUS
  <2>1. ASSUME NEW w \in Workers, running[w] # NoCall
        PROVE  Needs(running[w]) \subseteq alive
    <3>1. running[w] \in params
      BY <2>1 DEF AInv, TypeOK, ParamsLifetime, InFlight, Range
    <3> QED
      BY <3>1 DEF AInv, Claims, Captured, Needs
  <2>2. ASSUME NEW c \in Range(doneQueue) PROVE <<"result", c>> \in alive
    <3>1. c \in params
      BY RangeInSet DEF AInv, TypeOK, ParamsLifetime, InFlight
    <3> QED
      BY <3>1 DEF AInv, Claims, Captured, Own
  <2> QED
    BY <2>1, <2>2 DEF NoUseAfterFree
<1> QED
  BY <1>1, InitInv, NextInv, PTL DEF Spec, SafetySpec

\* No answer comes before its C function is done.
THEOREM AnswersFollow == Spec => []AnswerFollowsWork
<1>1. AInv => AnswerFollowsWork
  <2>1. Head(<<"value">>) = "value" /\ Head(<<"error">>) = "error"
    OBVIOUS
  <2> QED
    BY <2>1 DEF AInv, AnsweredOnce, AnswerFollowsWork
<1> QED
  BY <1>1, InitInv, NextInv, PTL DEF Spec, SafetySpec

-----------------------------------------------------------------------------
(* The safety part of KeepsPromise.                                        *)

StepsKeepPromise == Promise!Init /\ [][Promise!Next]_(Promise!vars)

\* A step in which the loop takes a turn, or a worker or the collector acts.
LEMMA Unseen ==
  ASSUME AInv, AInv', UNCHANGED answer, turn # "terminated", turn' # "terminated",
         \A c \in Calls :
           \/ fate'[c] = fate[c]
           \/ /\ fate[c] \notin {"idle", "rejected"}
              /\ fate'[c] \notin {"idle", "rejected"}
  PROVE  UNCHANGED Promise!vars
<1>1. \A c \in Calls : stateOf'[c] = stateOf[c]
  BY DEF stateOf
<1>2. stateOf' = stateOf
  BY <1>1 DEF stateOf
<1> QED
  BY <1>2 DEF Promise!vars

LEMMA RequestSeen ==
  ASSUME AInv, AInv', NEW c \in Calls,
         AsyncRejects(c) \/ AsyncBadArgument(c) \/ FFICallAsync(c)
  PROVE  Promise!Next
<1> USE DEF AsyncRejects, AsyncBadArgument, FFICallAsync, MayCall, queues, heap
<1>1. /\ turn = "js" /\ turn' = "js" /\ fate[c] = "idle" /\ UNCHANGED answer
      /\ fate' \in {[fate EXCEPT ![c] = f] : f \in {"rejected", "badArgument", "queued"}}
  OBVIOUS
<1>3. /\ fate'[c] \in {"rejected", "badArgument", "queued"}
      /\ \A d \in Calls : d # c => fate'[d] = fate[d]
  BY <1>1 DEF AInv, TypeOK
<1>4. stateOf[c] = "idle" /\ stateOf'[c] \in {"accepted", "rejected"}
  BY <1>1, <1>3 DEF stateOf
<1>5. stateOf' = [stateOf EXCEPT ![c] = stateOf'[c]]
  BY <1>3 DEF stateOf
<1>6. Promise!Request(c)
  BY <1>1, <1>4, <1>5 DEF Promise!Request
<1> QED
  BY <1>6 DEF Promise!Next

\* A callback is told something, for the first time: the promise's answer.
LEMMA AnswerSeen ==
  ASSUME NEW c \in Calls, NEW a \in {"value", "error"},
         answer[c] = <<>>, fate[c] \notin {"idle", "rejected"}, UNCHANGED fate,
         answer' = [answer EXCEPT ![c] = <<a>>],
         turn # "terminated", turn' # "terminated"
  PROVE  Promise!Next
<1>1. stateOf[c] = "accepted" /\ stateOf' = stateOf
  BY DEF stateOf
<1>2. Promise!Answer(c)
  BY <1>1 DEF Promise!Answer
<1> QED
  BY <1>2 DEF Promise!Next

\* The process ends: an accepted call was about to be answered, or just was.
LEMMA EndSeen ==
  ASSUME NEW c \in Calls, fate[c] \notin {"idle", "rejected"},
         UNCHANGED <<fate, answer>>, turn # "terminated", turn' = "terminated"
  PROVE  Promise!Next
<1>1. stateOf[c] = "accepted" /\ stateOf' = stateOf
  BY DEF stateOf
<1>2. Promise!Terminate
  BY <1>1 DEF Promise!Terminate
<1> QED
  BY <1>2 DEF Promise!Next

LEMMA NextPromise == AInv /\ AInv' /\ [Next]_vars => [Promise!Next]_(Promise!vars)
<1> SUFFICES ASSUME AInv, AInv', [Next]_vars PROVE [Promise!Next]_(Promise!vars)
  OBVIOUS
<1>1. CASE \E c \in Calls : AsyncRejects(c) \/ AsyncBadArgument(c) \/ FFICallAsync(c)
  BY <1>1, RequestSeen
<1>2. ASSUME NEW w \in Workers, Worker(w) PROVE UNCHANGED Promise!vars
  <2>1. CASE Take(w)
    BY <1>2, <2>1, Unseen DEF Worker, Take
  <2>2. CASE AsyncFFICall(w)
    <3>1. running[w] \in Calls /\ fate[running[w]] = "queued"
      BY <2>2 DEF AsyncFFICall, AInv, TypeOK, Stages
    <3>2. PICK f \in {"returned", "threw"} :
            fate' = [fate EXCEPT ![running[w]] = f]
      BY <2>2 DEF AsyncFFICall
    <3>3. \A c \in Calls :
            \/ fate'[c] = fate[c]
            \/ /\ fate[c] \notin {"idle", "rejected"}
               /\ fate'[c] \notin {"idle", "rejected"}
      BY <3>1, <3>2 DEF AInv, TypeOK
    <3> QED
      BY <1>2, <2>2, <3>3, Unseen DEF Worker, AsyncFFICall
  <2> QED
    BY <1>2, <2>1, <2>2 DEF Worker
<1>3. CASE RunTick
  <2>1. /\ Head(ticks) \in Calls /\ fate[Head(ticks)] = "badArgument"
        /\ answer[Head(ticks)] = <<>>
    BY <1>3, TailRange DEF RunTick, AInv, TypeOK, Distinct, Stages
  <2>2. answer' = [answer EXCEPT ![Head(ticks)] = <<"error">>]
    BY <1>3, <2>1, FirstAnswer DEF RunTick, AInv
  <2> QED
    BY <1>3, <2>1, <2>2, AnswerSeen DEF RunTick
<1>4. CASE FinishAsyncFFICall
  <2>1. /\ Head(doneQueue) \in Calls
        /\ fate[Head(doneQueue)] \in {"returned", "threw"}
        /\ answer[Head(doneQueue)] = <<>>
    BY <1>4, TailRange DEF FinishAsyncFFICall, AInv, TypeOK, Distinct, Stages
  <2>2. answer' = [answer EXCEPT ![Head(doneQueue)] = <<"value">>]
    BY <1>4, <2>1, FirstAnswer DEF FinishAsyncFFICall, ResultOK, AInv
  <2> QED
    BY <1>4, <2>1, <2>2, AnswerSeen DEF FinishAsyncFFICall
<1>5. CASE CallbackThrows
  <2>1. finishing \in Calls /\ fate[finishing] \in {"returned", "threw"}
    BY <1>5 DEF CallbackThrows, AInv, TypeOK, Stages
  <2> QED
    BY <1>5, <2>1, EndSeen DEF CallbackThrows
<1>5a. CASE ResultThrows
  <2>1. /\ Head(doneQueue) \in Calls
        /\ fate[Head(doneQueue)] \in {"returned", "threw"}
    BY <1>5a, TailRange DEF ResultThrows, AInv, TypeOK, Distinct, Stages
  <2> QED
    BY <1>5a, <2>1, EndSeen DEF ResultThrows
<1>6. CASE EndJS \/ TicksDone \/ DeleteParams \/ RunEvent \/ DropFunction \/ Collect
  BY <1>6, Unseen DEF EndJS, TicksDone, DeleteParams, RunEvent, DropFunction, Collect
<1>7. CASE UNCHANGED vars
  BY <1>7 DEF vars, Promise!vars, stateOf
<1> QED
  BY <1>1, <1>2, <1>3, <1>4, <1>5, <1>5a, <1>6, <1>7 DEF Next, Loop

\* Each step of fn.async is one its promise allows, so no callback is called
\* twice, or for a call that was rejected.  That it is called is left to TLC.
THEOREM StepsKeep == Spec => StepsKeepPromise
<1>1. Init => Promise!Init
  BY DEF Init, Promise!Init, stateOf
<1> QED
  BY <1>1, NextPromise, InitInv, NextInv, PTL
     DEF Spec, SafetySpec, StepsKeepPromise
=============================================================================
