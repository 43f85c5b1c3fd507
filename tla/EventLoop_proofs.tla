--------------------------- MODULE EventLoop_proofs ---------------------------
(***************************************************************************)
(* For any threads, signals, handlers and numbers of messages: the queues  *)
(* keep their types, the lock is held by one thread, messages arrive once  *)
(* and in order, which makes the queues an implementation of MsgFifo, a    *)
(* signal becomes one message, and a loop that nobody asked to end has     *)
(* delivered what its objects have sent.                                   *)
(***************************************************************************)
EXTENDS EventLoop, SequenceTheorems, TLAPS

-----------------------------------------------------------------------------
(* The threads and the lock *)

\* casycom_queue_message is called at four places, and goes back to them.
Returns == {"init", "start", "handle", "signalled", "check"}

\* Only the loop exchanges the queues, when all of the input is delivered; a
\* thread that has made room for a message finds the room there when it writes.
Control ==
    /\ pc[Loop] \in LoopLabel \cup SendLabel
    /\ \A t \in Producers : pc[t] \in SendLabel \cup {"run"}
    /\ ret \in Returns
    /\ pc[Loop] \in {"swap", "swapping"} => inq = <<>>
    /\ \A t \in Thread : pc[t] = "emplaced" => outq # <<>>

\* LockHeldByOne is inductive only with the places where threads can be.
LockInv == TypeOK /\ Control /\ LockHeldByOne

\* The three steps of casycom_queue_message, in any thread.
LEMMA SendingLockOK ==
    ASSUME LockInv, NEW t \in Thread, Sending(t), UNCHANGED stopped
    PROVE  LockInv'
<1> USE EventLoopAssumption DEF LockInv, Control, Holding, Thread, SendLabel, LoopLabel,
        Returns, Goto, sendVars, loopVars
<1>0. t = Loop \/ t \in Producers
  OBVIOUS
<1>1. CASE acquire_lock(t)
  <2>1. TypeOK' /\ Control'
    BY <1>1 DEF acquire_lock, TypeOK
  <2>2. LockHeldByOne'
    BY <1>1 DEF acquire_lock, LockHeldByOne, TypeOK
  <2> QED
    BY <2>1, <2>2
<1>2. CASE vector_emplace(t)
  <2>1. TypeOK'
    BY <1>2 DEF vector_emplace, TypeOK
  <2>2. Control'
    BY <1>2 DEF vector_emplace, TypeOK
  <2>3. LockHeldByOne'
    BY <1>2 DEF vector_emplace, LockHeldByOne, TypeOK
  <2> QED
    BY <2>1, <2>2, <2>3
<1>3. CASE WriteAndRelease(t)
  <2>0. /\ outq' \in Seq(Msg \cup {NoMsg}) /\ sent' \in Seq(Msg)
        /\ arg[t] \in Msg /\ outq # <<>>
    <3>1. arg[t] \in Msg /\ outq # <<>> /\ outq \in Seq(Msg \cup {NoMsg}) /\ sent \in Seq(Msg)
      BY <1>3 DEF WriteAndRelease, TypeOK
    <3>2. Len(outq) \in 1 .. Len(outq)
      BY <3>1
    <3> QED
      BY <1>3, <3>1, <3>2 DEF WriteAndRelease
  <2>1. TypeOK'
    <3>1. pc' \in [Thread -> LoopLabel \cup SendLabel \cup {"run"}]
      <4>1. /\ pc \in [Thread -> LoopLabel \cup SendLabel \cup {"run"}]
            /\ ret \in LoopLabel
        BY DEF TypeOK
      <4>2. pc' = [pc EXCEPT ![t] = IF t = Loop THEN ret ELSE "run"]
        BY <1>3 DEF WriteAndRelease
      <4> QED
        BY <4>1, <4>2
    <3>2. lock' = FALSE /\ UNCHANGED <<inq, at, delivered, failed, sendVars, loopVars>>
      BY <1>3 DEF WriteAndRelease
    <3>3. UNCHANGED <<inq, at, delivered, failed, ret, arg, count, last_signal, fired, quitting,
                      exit_code, asked, waittime, timers, alarm, stopped>>
      BY <3>2
    <3> QED
      BY <2>0, <3>1, <3>2, <3>3 DEF TypeOK
  <2>2. Control'
    BY <1>3 DEF WriteAndRelease, TypeOK, LockHeldByOne
  <2>3. LockHeldByOne'
    BY <1>3 DEF WriteAndRelease, LockHeldByOne, TypeOK
  <2> QED
    BY <2>1, <2>2, <2>3
<1> QED
  BY <1>1, <1>2, <1>3 DEF Sending

\* A thread that does not hold the lock may begin to send.
LEMMA CallLockOK ==
    ASSUME LockInv, NEW t \in Thread, NEW back \in Returns, CallNext(t, back),
           pc[t] \notin {"locked", "emplaced", "swapping", "swapped"}
    PROVE  /\ Control' /\ LockHeldByOne'
           /\ pc' \in [Thread -> LoopLabel \cup SendLabel \cup {"run"}]
           /\ ret' \in LoopLabel /\ arg' \in [Thread -> Msg]
           /\ count' \in [Thread -> 0 .. MaxSend]
<1> USE EventLoopAssumption DEF LockInv, Control, Thread, SendLabel, LoopLabel, Returns, Goto
<1>1. <<t, count[t] + 1>> \in Msg /\ count[t] + 1 \in 0 .. MaxSend
  BY DEF CallNext, TypeOK, Msg
<1>2. /\ pc' \in [Thread -> LoopLabel \cup SendLabel \cup {"run"}]
      /\ ret' \in LoopLabel /\ arg' \in [Thread -> Msg]
      /\ count' \in [Thread -> 0 .. MaxSend]
  BY <1>1 DEF CallNext, Call, TypeOK
<1>3. Control'
  BY DEF CallNext, Call, TypeOK, queueVars
<1>4. LockHeldByOne'
  BY DEF CallNext, Call, TypeOK, queueVars, LockHeldByOne, Holding
<1> QED
  BY <1>2, <1>3, <1>4

\* The steps of the loop that use no queue.
LEMMA PlaceLockOK ==
    ASSUME LockInv, UNCHANGED stopped,
           \/ casycom_main \/ Test \/ AllDelivered \/ HandlerReturns \/ SignalSent
           \/ ChooseWait \/ Timer_run_timer \/ PollTimesOut \/ CheckEmpty
           \/ HandlerWatches \/ HandlerQuits \/ \E sig \in Signals : casycom_on_msg_signal(sig)
    PROVE  LockInv'
<1> USE EventLoopAssumption DEF Thread, SendLabel, LoopLabel, Goto, queueVars, sendVars
<1>0. TypeOK /\ Control /\ LockHeldByOne
  BY DEF LockInv
<1>1. CASE casycom_main
  <2>0. quitting' \in BOOLEAN
    BY <1>1 DEF casycom_main
  <2>1. TypeOK'
    BY <1>1, <1>0, <2>0 DEF casycom_main, TypeOK
  <2>2. Control' /\ LockHeldByOne'
    BY <1>1, <1>0 DEF casycom_main, TypeOK, Control, LockHeldByOne, Holding
  <2> QED
    BY <2>1, <2>2 DEF LockInv
<1>2. CASE Test
  <2>1. TypeOK'
    BY <1>2, <1>0 DEF Test, loopVars, TypeOK
  <2>2. Control' /\ LockHeldByOne'
    BY <1>2, <1>0 DEF Test, TypeOK, Control, LockHeldByOne, Holding
  <2> QED
    BY <2>1, <2>2 DEF LockInv
<1>3. CASE AllDelivered
  <2>1. TypeOK'
    BY <1>3, <1>0 DEF AllDelivered, loopVars, TypeOK
  <2>2. Control' /\ LockHeldByOne'
    BY <1>3, <1>0 DEF AllDelivered, TypeOK, Control, LockHeldByOne, Holding
  <2> QED
    BY <2>1, <2>2 DEF LockInv
<1>4. CASE HandlerReturns
  <2>1. TypeOK'
    BY <1>4, <1>0 DEF HandlerReturns, loopVars, TypeOK
  <2>2. Control' /\ LockHeldByOne'
    BY <1>4, <1>0 DEF HandlerReturns, TypeOK, Control, LockHeldByOne, Holding
  <2> QED
    BY <2>1, <2>2 DEF LockInv
<1>5. CASE SignalSent
  <2>1. TypeOK'
    BY <1>5, <1>0 DEF SignalSent, loopVars, TypeOK
  <2>2. Control' /\ LockHeldByOne'
    BY <1>5, <1>0 DEF SignalSent, TypeOK, Control, LockHeldByOne, Holding
  <2> QED
    BY <2>1, <2>2 DEF LockInv
<1>6. CASE ChooseWait
  <2>1. TypeOK'
    BY <1>6, <1>0 DEF ChooseWait, loopVars, TypeOK
  <2>2. Control' /\ LockHeldByOne'
    BY <1>6, <1>0 DEF ChooseWait, TypeOK, Control, LockHeldByOne, Holding
  <2> QED
    BY <2>1, <2>2 DEF LockInv
<1>7. CASE Timer_run_timer
  <2>1. TypeOK'
    BY <1>7, <1>0 DEF Timer_run_timer, loopVars, TypeOK
  <2>2. Control' /\ LockHeldByOne'
    BY <1>7, <1>0 DEF Timer_run_timer, TypeOK, Control, LockHeldByOne, Holding
  <2> QED
    BY <2>1, <2>2 DEF LockInv
<1>8. CASE PollTimesOut
  <2>1. TypeOK'
    BY <1>8, <1>0 DEF PollTimesOut, loopVars, TypeOK
  <2>2. Control' /\ LockHeldByOne'
    BY <1>8, <1>0 DEF PollTimesOut, TypeOK, Control, LockHeldByOne, Holding
  <2> QED
    BY <2>1, <2>2 DEF LockInv
<1>9. CASE CheckEmpty
  <2>0. quitting' \in BOOLEAN /\ exit_code' \in Nat
    <3>1. quitting \in BOOLEAN /\ exit_code \in Nat /\ EXIT_SUCCESS \in Nat
      BY <1>0 DEF TypeOK, EXIT_SUCCESS
    <3>2. \/ quitting' = TRUE /\ exit_code' = EXIT_SUCCESS
          \/ quitting' = quitting /\ exit_code' = exit_code
      BY <1>9 DEF CheckEmpty, casycom_quit
    <3> QED
      BY <3>1, <3>2
  <2>1. TypeOK'
    BY <1>9, <1>0, <2>0 DEF CheckEmpty, TypeOK
  <2>2. Control' /\ LockHeldByOne'
    BY <1>9, <1>0 DEF CheckEmpty, TypeOK, Control, LockHeldByOne, Holding
  <2> QED
    BY <2>1, <2>2 DEF LockInv
<1>10. CASE HandlerWatches
  <2>1. TypeOK'
    BY <1>10, <1>0 DEF HandlerWatches, loopVars, TypeOK
  <2>2. Control' /\ LockHeldByOne'
    BY <1>10, <1>0 DEF HandlerWatches, TypeOK, Control, LockHeldByOne, Holding
  <2> QED
    BY <2>1, <2>2 DEF LockInv
<1>11. CASE HandlerQuits
  <2>1. TypeOK'
    BY <1>11, <1>0 DEF HandlerQuits, AskQuit, casycom_quit, EXIT_SUCCESS, EXIT_FAILURE, loopVars, TypeOK
  <2>2. Control' /\ LockHeldByOne'
    BY <1>11, <1>0 DEF HandlerQuits, TypeOK, Control, LockHeldByOne, Holding
  <2> QED
    BY <2>1, <2>2 DEF LockInv
<1>12. ASSUME NEW sig \in Signals, casycom_on_msg_signal(sig)
       PROVE  LockInv'
  <2>1. qc_ShellSignalQuitOffset + sig \in Nat
    BY DEF qc_ShellSignalQuitOffset
  <2>2. quitting' \in BOOLEAN /\ exit_code' \in Nat /\ asked' \in Nat \cup {NoCode}
    BY <1>12, <1>0, <2>1 DEF casycom_on_msg_signal, casycom_quit, TypeOK
  <2>4. TypeOK'
    BY <1>12, <1>0, <2>2 DEF casycom_on_msg_signal, TypeOK
  <2>3. /\ UNCHANGED <<lock, inq, outq, ret>>
        /\ pc' = pc \/ (pc[Loop] = "polling" /\ pc' = [pc EXCEPT ![Loop] = "check"])
    BY <1>12 DEF casycom_on_msg_signal
  <2>5. Control' /\ LockHeldByOne'
    BY SMTT(30), <2>3, <1>0 DEF TypeOK, Control, LockHeldByOne, Holding
  <2> QED
    BY <2>4, <2>5 DEF LockInv
<1> QED
  BY <1>1, <1>2, <1>3, <1>4, <1>5, <1>6, <1>7, <1>8, <1>9, <1>10, <1>11, <1>12

\* The steps of the loop that use the queues.
LEMMA QueueLockOK ==
    ASSUME LockInv, UNCHANGED stopped,
           \/ DeliverMessage \/ HandlerFails \/ ClearInput \/ SwapAcquire \/ SwapIn \/ SwapOut
    PROVE  LockInv'
<1> USE EventLoopAssumption DEF Thread, SendLabel, LoopLabel, Goto, sendVars
<1>0. TypeOK /\ Control /\ LockHeldByOne
  BY DEF LockInv
<1>1. CASE DeliverMessage
  <2>1. inq[at + 1] \in Msg \cup {NoMsg} /\ at + 1 \in 0 .. Len(inq)
    BY <1>1, <1>0 DEF DeliverMessage, TypeOK
  <2>2. delivered' \in Seq(Msg \cup {NoMsg})
    BY <1>1, <1>0, <2>1 DEF DeliverMessage, TypeOK
  <2>3. TypeOK'
    BY <1>1, <1>0, <2>1, <2>2 DEF DeliverMessage, loopVars, TypeOK
  <2>4. Control' /\ LockHeldByOne'
    BY <1>1, <1>0 DEF DeliverMessage, TypeOK, Control, LockHeldByOne, Holding
  <2> QED
    BY <2>3, <2>4 DEF LockInv
<1>2. CASE HandlerFails
  <2>1. TypeOK'
    BY <1>2, <1>0 DEF HandlerFails, AskQuit, casycom_quit, EXIT_FAILURE, loopVars, TypeOK
  <2>2. Control' /\ LockHeldByOne'
    BY <1>2, <1>0 DEF HandlerFails, TypeOK, Control, LockHeldByOne, Holding
  <2> QED
    BY <2>1, <2>2 DEF LockInv
<1>3. CASE ClearInput
  <2>1. TypeOK'
    BY <1>3, <1>0 DEF ClearInput, loopVars, TypeOK
  <2>2. Control' /\ LockHeldByOne'
    BY <1>3, <1>0 DEF ClearInput, TypeOK, Control, LockHeldByOne, Holding
  <2> QED
    BY <2>1, <2>2 DEF LockInv
<1>4. CASE SwapAcquire
  <2>1. TypeOK'
    BY <1>4, <1>0 DEF SwapAcquire, loopVars, TypeOK
  <2>2. Control' /\ LockHeldByOne'
    BY <1>4, <1>0 DEF SwapAcquire, TypeOK, Control, LockHeldByOne, Holding
  <2> QED
    BY <2>1, <2>2 DEF LockInv
<1>5. CASE SwapIn
  <2>0. inq' \in Seq(Msg \cup {NoMsg}) /\ at' \in 0 .. Len(inq')
    BY <1>5, <1>0 DEF SwapIn, TypeOK, Control
  <2>1. TypeOK'
    BY <1>5, <1>0, <2>0 DEF SwapIn, loopVars, TypeOK
  <2>2. Control'
    BY <1>5, <1>0 DEF SwapIn, TypeOK, Control, LockHeldByOne, Holding
  <2>3. LockHeldByOne'
    BY <1>5, <1>0 DEF SwapIn, TypeOK, Control, LockHeldByOne, Holding
  <2> QED
    BY <2>1, <2>2, <2>3 DEF LockInv
<1>6. CASE SwapOut
  <2>0. lock' \in BOOLEAN
    BY <1>6 DEF SwapOut
  <2>1. TypeOK'
    BY <1>6, <1>0, <2>0 DEF SwapOut, loopVars, TypeOK
  <2>2. Control'
    BY <1>6, <1>0 DEF SwapOut, TypeOK, Control, LockHeldByOne, Holding
  <2>3. LockHeldByOne'
    BY <1>6, <1>0 DEF SwapOut, TypeOK, Control, LockHeldByOne, Holding
  <2> QED
    BY <2>1, <2>2, <2>3 DEF LockInv
<1> QED
  BY <1>1, <1>2, <1>3, <1>4, <1>5, <1>6

\* The calls of casycom_queue_message.
LEMMA SendLockOK ==
    ASSUME LockInv, UNCHANGED stopped,
           \/ casycom_framework_init \/ HandlerSends \/ PollReady
           \/ casycom_send_signal_message \/ \E t \in Producers : Produce(t)
    PROVE  LockInv'
<1>0. TypeOK /\ Control /\ LockHeldByOne /\ Loop \in Thread
  BY DEF LockInv, Thread
<1>1. CASE casycom_framework_init
  <2>1. CallNext(Loop, "start") /\ "start" \in Returns /\ pc[Loop] = "init"
    BY <1>1 DEF casycom_framework_init, Returns
  <2> QED
    BY <1>0, <1>1, <2>1, CallLockOK
    DEF LockInv, TypeOK, casycom_framework_init, CallNext, Call, queueVars, loopVars
<1>2. CASE HandlerSends
  <2>1. CallNext(Loop, "handle") /\ "handle" \in Returns /\ pc[Loop] = "handle"
    BY <1>2 DEF HandlerSends, Returns
  <2> QED
    BY <1>0, <1>2, <2>1, CallLockOK
    DEF LockInv, TypeOK, HandlerSends, CallNext, Call, queueVars, loopVars
<1>3. CASE PollReady
  <2>1. CallNext(Loop, "check") /\ "check" \in Returns /\ pc[Loop] = "polling"
    BY <1>3 DEF PollReady, Returns
  <2> QED
    BY <1>0, <1>3, <2>1, CallLockOK
    DEF LockInv, TypeOK, PollReady, CallNext, Call, queueVars
<1>4. CASE casycom_send_signal_message
  <2> USE EventLoopAssumption DEF Thread, SendLabel, LoopLabel, Goto, queueVars
  <2>1. alarm' \in BOOLEAN /\ pc[Loop] = "idle"
    BY <1>4 DEF casycom_send_signal_message
  <2>2. CASE last_signal = 0
    <3>1. TypeOK'
      BY <1>4, <1>0, <2>1, <2>2 DEF casycom_send_signal_message, TypeOK
    <3>2. Goto(Loop, "wait") /\ UNCHANGED <<queueVars, ret, arg>>
      BY <1>4, <2>2 DEF casycom_send_signal_message
    <3>3. Control'
      BY <3>2, <1>0, <2>1 DEF TypeOK, Control
    <3>4. LockHeldByOne'
      BY <3>2, <1>0, <2>1 DEF TypeOK, LockHeldByOne, Holding
    <3> QED
      BY <3>1, <3>3, <3>4 DEF LockInv
  <2>3. CASE last_signal # 0
    <3>1. <<Sig, last_signal>> \in Msg
      BY <1>0 DEF TypeOK, Msg
    <3>2. Call(Loop, <<Sig, last_signal>>, "signalled")
      BY <1>4, <2>3 DEF casycom_send_signal_message
    <3>3. pc' \in [Thread -> LoopLabel \cup SendLabel \cup {"run"}]
          /\ ret' \in LoopLabel /\ arg' \in [Thread -> Msg]
      BY <1>0, <3>1, <3>2 DEF Call, TypeOK
    <3>4. TypeOK'
      BY <1>4, <1>0, <2>1, <3>2, <3>3 DEF casycom_send_signal_message, Call, TypeOK
    <3>5. Control'
      BY <1>0, <2>1, <3>2 DEF Call, TypeOK, Control, Returns
    <3>6. LockHeldByOne'
      BY <1>0, <2>1, <3>2 DEF Call, TypeOK, LockHeldByOne, Holding
    <3> QED
      BY <3>4, <3>5, <3>6 DEF LockInv
  <2> QED
    BY <2>2, <2>3
<1>5. ASSUME NEW t \in Producers, Produce(t)
      PROVE  LockInv'
  <2>1. CallNext(t, "run") /\ t \in Thread /\ t # Loop /\ pc[t] = "run"
    BY <1>5, EventLoopAssumption DEF Produce, Thread
  <2>2. CallNext(t, "check") /\ "check" \in Returns
    BY <2>1 DEF CallNext, Call, Returns
  <2>3. /\ Control' /\ LockHeldByOne'
        /\ pc' \in [Thread -> LoopLabel \cup SendLabel \cup {"run"}]
        /\ ret' \in LoopLabel /\ arg' \in [Thread -> Msg]
        /\ count' \in [Thread -> 0 .. MaxSend]
    BY <2>1, <2>2, CallLockOK
  <2>4. UNCHANGED <<queueVars, loopVars>>
    BY <1>5 DEF Produce, CallNext, Call
  <2>5. TypeOK'
    BY <1>0, <2>3, <2>4 DEF TypeOK, queueVars, loopVars
  <2> QED
    BY <2>3, <2>5 DEF LockInv
<1> QED
  BY <1>1, <1>2, <1>3, <1>4, <1>5

\* Fatal signals move no thread.
LEMMA FatalLockOK ==
    ASSUME LockInv,
           DoubleSignal \/ \E t \in Fatal : casycom_on_fatal_signal(t)
    PROVE  LockInv'
<1>1. TypeOK'
  <2>1. TypeOK
    BY DEF LockInv
  <2>2. alarm' \in BOOLEAN /\ stopped' \subseteq Thread
    BY EventLoopAssumption DEF DoubleSignal, casycom_on_fatal_signal
  <2> QED
    BY <2>1, <2>2
    DEF TypeOK, DoubleSignal, casycom_on_fatal_signal, queueVars, sendVars
<1>2. UNCHANGED <<lock, inq, outq, ret, pc>>
  BY DEF DoubleSignal, casycom_on_fatal_signal, queueVars, sendVars
<1> QED
  BY <1>1, <1>2 DEF LockInv, Control, LockHeldByOne, Holding

\* What a step of the system is, with the thread that makes it.
LEMMA Steps ==
    ASSUME [Next]_vars
    PROVE  \/ /\ UNCHANGED stopped
              /\ \/ \E t \in Thread : Sending(t)
                 \/ casycom_main \/ Test \/ AllDelivered \/ HandlerReturns \/ SignalSent
                 \/ ChooseWait \/ Timer_run_timer \/ PollTimesOut \/ CheckEmpty
                 \/ HandlerWatches \/ HandlerQuits
                 \/ \E sig \in Signals : casycom_on_msg_signal(sig)
                 \/ DeliverMessage \/ HandlerFails \/ ClearInput \/ SwapAcquire \/ SwapIn \/ SwapOut
                 \/ casycom_framework_init \/ HandlerSends \/ PollReady
                 \/ casycom_send_signal_message \/ \E t \in Producers : Produce(t)
           \/ DoubleSignal \/ \E t \in Fatal : casycom_on_fatal_signal(t)
           \/ UNCHANGED vars
<1>1. CASE LoopStep
  BY <1>1 DEF LoopStep, Runs, Thread
<1>2. CASE OtherStep
  BY <1>2 DEF OtherStep, Runs
<1>3. CASE \E t \in Producers : Runs(t) /\ (Produce(t) \/ Sending(t))
  BY <1>3 DEF Runs, Thread
<1> QED
  BY <1>1, <1>2, <1>3 DEF Next

LEMMA InitLockOK == Init => LockInv
<1> SUFFICES ASSUME Init PROVE LockInv
  OBVIOUS
<1>1. \A t \in Thread : <<t, 0>> \in Msg
  BY DEF Msg
<1>2. TypeOK
  <2>1. /\ pc \in [Thread -> LoopLabel \cup SendLabel \cup {"run"}]
        /\ arg \in [Thread -> Msg] /\ count \in [Thread -> 0 .. MaxSend] /\ ret \in LoopLabel
    BY <1>1, EventLoopAssumption DEF Init, LoopLabel
  <2>2. /\ inq \in Seq(Msg \cup {NoMsg}) /\ outq \in Seq(Msg \cup {NoMsg})
        /\ sent \in Seq(Msg) /\ delivered \in Seq(Msg \cup {NoMsg}) /\ at \in 0 .. Len(inq)
    BY DEF Init
  <2>3. lock \in BOOLEAN /\ quitting \in BOOLEAN /\ failed \in BOOLEAN /\ alarm \in BOOLEAN
    BY DEF Init
  <2> QED
    BY <2>1, <2>2, <2>3 DEF Init, TypeOK, EXIT_SUCCESS
<1>3. Control /\ LockHeldByOne
  BY EventLoopAssumption
  DEF Init, Control, LockHeldByOne, Holding, Thread, LoopLabel, SendLabel, Returns
<1> QED
  BY <1>2, <1>3 DEF LockInv

LEMMA LockStepOK == LockInv /\ [Next]_vars => LockInv'
<1> SUFFICES ASSUME LockInv, [Next]_vars PROVE LockInv'
  OBVIOUS
<1>1. CASE UNCHANGED vars
  BY <1>1 DEF vars, queueVars, sendVars, loopVars, LockInv, TypeOK, Control, LockHeldByOne, Holding
<1> QED
  BY <1>1, Steps, SendingLockOK, PlaceLockOK, QueueLockOK, SendLockOK, FatalLockOK

\* The queues and the places of the threads have their types, and the lock of
\* the output queue is held by the one thread between acquire_lock and
\* release_lock (casycom_queue_message, casycom_do_message_queues).
THEOREM Locking == Spec => []LockInv
  BY InitLockOK, LockStepOK, PTL DEF Spec

-----------------------------------------------------------------------------
(* The order of messages *)

\* The input queue is cleared only when all of it has been delivered, and after
\* an error that nobody handles the loop comes to its end and delivers no more.
Progress ==
    /\ pc[Loop] = "clear" /\ ~failed => at = Len(inq)
    /\ failed => /\ quitting
                 /\ pc[Loop] \notin {"init", "start", "deliver", "handle"}
                 /\ pc[Loop] \in SendLabel => ret \in {"signalled", "check"}

OrderInv == InOrder /\ Progress

Entry == Msg \cup {NoMsg}

\* Delivering moves the first remaining message.
LEMMA DeliverConcat ==
    ASSUME NEW S, NEW a \in Seq(S), NEW q \in Seq(S), NEW k \in Nat, k < Len(q)
    PROVE  a \o [i \in 1 .. Len(q) - k |-> q[k + i]] =
           Append(a, q[k + 1]) \o [i \in 1 .. Len(q) - (k + 1) |-> q[k + 1 + i]]
<1> DEFINE rest(j) == [i \in 1 .. Len(q) - j |-> q[j + i]]
<1>1. rest(k) \in Seq(S) /\ Len(rest(k)) = Len(q) - k
  OBVIOUS
<1>2. rest(k + 1) \in Seq(S) /\ Len(rest(k + 1)) = Len(q) - (k + 1)
  OBVIOUS
<1>3. Append(a, q[k + 1]) \in Seq(S) /\ Len(Append(a, q[k + 1])) = Len(a) + 1
      /\ \A i \in 1 .. Len(a) + 1 :
            Append(a, q[k + 1])[i] = IF i <= Len(a) THEN a[i] ELSE q[k + 1]
  OBVIOUS
<1> DEFINE b == Append(a, q[k + 1])
           l == a \o rest(k)
           r == b \o rest(k + 1)
<1>r. /\ \A i \in 1 .. Len(q) - k : rest(k)[i] = q[k + i]
      /\ \A i \in 1 .. Len(q) - (k + 1) : rest(k + 1)[i] = q[k + 1 + i]
  OBVIOUS
<1>b. /\ b \in Seq(S) /\ Len(b) = Len(a) + 1 /\ Len(a) \in Nat
      /\ \A i \in 1 .. Len(a) + 1 : b[i] = IF i <= Len(a) THEN a[i] ELSE q[k + 1]
  BY <1>3
<1> HIDE DEF rest, b
<1>4. /\ l \in Seq(S) /\ Len(l) = Len(a) + (Len(q) - k)
      /\ \A i \in 1 .. Len(l) : l[i] = IF i <= Len(a) THEN a[i] ELSE rest(k)[i - Len(a)]
  BY <1>1, ConcatProperties
<1>5. /\ r \in Seq(S) /\ Len(r) = Len(a) + 1 + (Len(q) - (k + 1))
      /\ \A i \in 1 .. Len(r) : r[i] = IF i <= Len(a) + 1 THEN b[i] ELSE rest(k + 1)[i - (Len(a) + 1)]
  <2>1. /\ r \in Seq(S) /\ Len(r) = Len(b) + Len(rest(k + 1))
        /\ \A i \in 1 .. Len(b) + Len(rest(k + 1)) :
                r[i] = IF i <= Len(b) THEN b[i] ELSE rest(k + 1)[i - Len(b)]
    BY <1>2, <1>b, ConcatProperties
  <2> HIDE DEF r
  <2> QED
    BY <2>1, <1>2, <1>b
<1> HIDE DEF l, r
<1>6. ASSUME NEW i \in 1 .. Len(l)
      PROVE  l[i] = r[i]
  <2>1. i \in 1 .. Len(r) /\ Len(l) = Len(r) /\ Len(a) \in Nat /\ Len(q) \in Nat
    BY <1>4, <1>5
  <2>2. CASE i <= Len(a)
    BY <2>1, <2>2, <1>b, <1>4, <1>5
  <2>3. CASE i = Len(a) + 1
    <3>0. ~(i <= Len(a)) /\ i - Len(a) = 1 /\ i <= Len(a) + 1
      BY <2>1, <2>3
    <3>a. l[i] = rest(k)[i - Len(a)]
      BY <3>0, <1>4
    <3>b. r[i] = b[i]
      BY <2>1, <3>0, <1>5
    <3>1. l[i] = rest(k)[1] /\ r[i] = b[Len(a) + 1]
      BY <2>3, <3>0, <3>a, <3>b
    <3>2. rest(k)[1] = q[k + 1]
      BY <2>1, <1>r
    <3>3. b[Len(a) + 1] = q[k + 1]
      BY <2>1, <1>b
    <3> QED
      BY <3>1, <3>2, <3>3
  <2>4. CASE i > Len(a) + 1
    <3>1. l[i] = rest(k)[i - Len(a)] /\ r[i] = rest(k + 1)[i - (Len(a) + 1)]
      BY <2>1, <2>4, <1>4, <1>5
    <3>2. i - Len(a) \in 1 .. Len(q) - k /\ i - (Len(a) + 1) \in 1 .. Len(q) - (k + 1)
      BY <2>1, <2>4, <1>4
    <3>3. rest(k)[i - Len(a)] = q[k + (i - Len(a))]
          /\ rest(k + 1)[i - (Len(a) + 1)] = q[k + 1 + (i - (Len(a) + 1))]
      BY <3>2, <1>r
    <3>4. k + (i - Len(a)) = k + 1 + (i - (Len(a) + 1))
      BY <2>1
    <3> QED
      BY <3>1, <3>3, <3>4
  <2> QED
    BY <2>1, <2>2, <2>3, <2>4
<1>7. Len(l) = Len(r)
  BY <1>4, <1>5
<1>8. l = r
  BY <1>4, <1>5, <1>6, <1>7, SeqEqual
<1> QED
  BY <1>8 DEF l, r, b, rest

\* What the two queues hold.
LEMMA QueueTypes ==
    ASSUME LockInv
    PROVE  /\ delivered \in Seq(Entry) /\ inq \in Seq(Entry) /\ outq \in Seq(Entry)
           /\ sent \in Seq(Entry)
           /\ Remaining \in Seq(Entry) /\ Len(Remaining) = Len(inq) - at
           /\ Written \in Seq(Entry) /\ delivered \o Remaining \in Seq(Entry)
           /\ at \in 0 .. Len(inq)
<1>1. /\ delivered \in Seq(Entry) /\ inq \in Seq(Entry) /\ outq \in Seq(Entry)
      /\ sent \in Seq(Entry) /\ at \in 0 .. Len(inq)
  <2>1. Seq(Msg) \subseteq Seq(Entry)
    BY DEF Entry
  <2> QED
    BY <2>1 DEF LockInv, TypeOK, Entry
<1>2. Remaining \in Seq(Entry) /\ Len(Remaining) = Len(inq) - at
  BY <1>1 DEF Remaining
<1>3. Written \in Seq(Entry)
  <2>1. outq # <<>> => [i \in 1 .. Len(outq) - 1 |-> outq[i]] \in Seq(Entry)
    BY <1>1
  <2> QED
    BY <1>1, <2>1 DEF Written, Emplaced, LockInv, Control
<1>4. delivered \o Remaining \in Seq(Entry)
  BY <1>1, <1>2, ConcatProperties
<1> QED
  BY <1>1, <1>2, <1>3, <1>4

\* A step that leaves the queues alone, and neither comes to nor leaves the
\* places where what the output queue holds counts differently.
LEMMA SameQueues ==
    ASSUME InOrder, UNCHANGED <<inq, outq, at, sent, delivered, failed>>,
           pc[Loop] = "swapped" <=> pc'[Loop] = "swapped", Emplaced <=> Emplaced'
    PROVE  InOrder'
  BY DEF InOrder, Remaining, Written

\* A thread that goes from one place to another.
LEMMA Moves ==
    ASSUME LockInv, NEW t \in Thread, NEW l, pc' = [pc EXCEPT ![t] = l],
           pc[t] \notin {"emplaced", "swapped"}, l \notin {"emplaced", "swapped"}
    PROVE  /\ pc[Loop] = "swapped" <=> pc'[Loop] = "swapped"
           /\ Emplaced <=> Emplaced'
           /\ pc'[t] = l
           /\ t # Loop => pc'[Loop] = pc[Loop]
  BY DEF LockInv, TypeOK, Emplaced, Thread

LEMMA SendingOrderOK ==
    ASSUME LockInv, OrderInv, NEW t \in Thread, Sending(t)
    PROVE  OrderInv'
<1> USE DEF OrderInv
<1>0. TypeOK /\ Control /\ LockHeldByOne /\ Loop \in Thread
  BY DEF LockInv, Thread
<1>p. Progress'
  <2>1. /\ UNCHANGED <<failed, quitting, at, inq, ret>>
        /\ pc[t] \in SendLabel
        /\ \/ pc' = [pc EXCEPT ![t] = "locked"]
           \/ pc' = [pc EXCEPT ![t] = "emplaced"]
           \/ pc' = [pc EXCEPT ![t] = IF t = Loop THEN ret ELSE "run"]
    BY DEF Sending, acquire_lock, vector_emplace, WriteAndRelease, Goto, SendLabel,
           sendVars, loopVars
  <2> QED
    BY <2>1, <1>0 DEF Progress, TypeOK, Control, SendLabel, Returns
<1>1. CASE acquire_lock(t)
  <2>1. UNCHANGED <<inq, outq, at, sent, delivered, failed>> /\ pc[t] = "acquire"
        /\ pc' = [pc EXCEPT ![t] = "locked"]
    BY <1>1 DEF acquire_lock, Goto
  <2> QED
    BY <1>0, <1>p, <2>1, Moves, SameQueues
<1>2. CASE vector_emplace(t)
  <2>1. /\ outq' = Append(outq, NoMsg) /\ pc[t] = "locked"
        /\ pc' = [pc EXCEPT ![t] = "emplaced"]
        /\ UNCHANGED <<inq, at, sent, delivered, failed>>
    BY <1>2 DEF vector_emplace, Goto
  <2>2. pc[Loop] # "swapped" /\ ~Emplaced
    BY <2>1, <1>0 DEF LockHeldByOne, Holding, Emplaced
  <2>3. pc'[Loop] # "swapped" /\ Emplaced'
    BY <2>1, <2>2, <1>0 DEF TypeOK, Emplaced
  <2>4. Written = outq
    BY <2>2 DEF Written
  <2>5. outq \in Seq(Entry) /\ NoMsg \in Entry
    BY QueueTypes DEF Entry
  <2>6. Written' = [i \in 1 .. Len(outq) |-> outq[i]]
    BY <2>1, <2>3, <2>5 DEF Written
  <2>7. Written' = outq
    BY <2>5, <2>6
  <2> QED
    BY <1>p, <2>1, <2>4, <2>7 DEF InOrder, Remaining
<1>3. CASE WriteAndRelease(t)
  <2>1. /\ pc[t] = "emplaced"
        /\ outq' = [outq EXCEPT ![Len(outq)] = arg[t]]
        /\ sent' = Append(sent, arg[t])
        /\ pc' = [pc EXCEPT ![t] = IF t = Loop THEN ret ELSE "run"]
        /\ UNCHANGED <<inq, at, delivered, failed>>
    BY <1>3 DEF WriteAndRelease, Goto
  <2>2. Emplaced /\ pc[Loop] # "swapped"
    BY <2>1, <1>0 DEF LockHeldByOne, Holding, Emplaced
  <2>3. ~Emplaced' /\ pc'[Loop] # "swapped"
    BY <2>1, <1>0 DEF TypeOK, Control, LockHeldByOne, Holding, Emplaced, Returns
  <2>4. outq \in Seq(Entry) /\ outq # <<>> /\ arg[t] \in Entry
    BY <2>1, <1>0, QueueTypes DEF Entry, Control, TypeOK
  <2>5. Written = [i \in 1 .. Len(outq) - 1 |-> outq[i]] /\ Written' = outq'
    BY <2>2, <2>3 DEF Written
  <2>6. Written' = Append(Written, arg[t])
    BY <2>1, <2>4, <2>5
  <2>7. (delivered \o Remaining) \o Append(Written, arg[t])
            = Append((delivered \o Remaining) \o Written, arg[t])
    <3>1. PICK a, w, x, E : a = delivered \o Remaining /\ w = Written /\ x = arg[t] /\ E = Entry
      OBVIOUS
    <3>2. a \in Seq(E) /\ w \in Seq(E) /\ x \in E
      BY <2>4, <3>1, QueueTypes
    <3>3. a \o w \in Seq(E) /\ <<x>> \in Seq(E)
      BY ONLY <3>2, ConcatProperties
    <3>4. Append(w, x) = w \o <<x>> /\ Append(a \o w, x) = (a \o w) \o <<x>>
      BY ONLY <3>2, <3>3, AppendIsConcat
    <3>5. (a \o w) \o <<x>> = a \o (w \o <<x>>)
      BY ONLY <3>2, <3>3, ConcatAssociative
    <3> QED
      BY <3>1, <3>4, <3>5
  <2>8. (delivered \o Remaining)' = delivered \o Remaining
    BY <2>1 DEF Remaining
  <2> QED
    BY <1>p, <2>1, <2>6, <2>7, <2>8 DEF InOrder
<1> QED
  BY <1>1, <1>2, <1>3 DEF Sending

LEMMA PlaceOrderOK ==
    ASSUME LockInv, OrderInv,
           \/ casycom_main \/ Test \/ AllDelivered \/ HandlerReturns \/ SignalSent
           \/ ChooseWait \/ Timer_run_timer \/ PollTimesOut \/ CheckEmpty
           \/ HandlerWatches \/ HandlerQuits \/ \E sig \in Signals : casycom_on_msg_signal(sig)
    PROVE  OrderInv'
<1>0. TypeOK /\ Control /\ Loop \in Thread
  BY DEF LockInv, Thread
<1>1. \/ pc' = pc
      \/ \E l \in LoopLabel \ {"swapped"} :
            pc[Loop] # "swapped" /\ pc[Loop] \notin SendLabel /\ pc' = [pc EXCEPT ![Loop] = l]
  BY DEF casycom_main, Test, AllDelivered, HandlerReturns, SignalSent, ChooseWait,
         Timer_run_timer, PollTimesOut, CheckEmpty, HandlerWatches, HandlerQuits,
         casycom_on_msg_signal, Goto, LoopLabel, SendLabel
<1>2. UNCHANGED <<inq, outq, at, sent, delivered, failed, ret>>
  BY DEF casycom_main, Test, AllDelivered, HandlerReturns, SignalSent, ChooseWait,
         Timer_run_timer, PollTimesOut, CheckEmpty, HandlerWatches, HandlerQuits,
         casycom_on_msg_signal, queueVars, sendVars
<1>3. InOrder'
  <2>1. CASE pc' = pc
    BY <2>1, <1>2, SameQueues DEF OrderInv, Emplaced
  <2>2. ASSUME NEW l \in LoopLabel \ {"swapped"}, pc[Loop] # "swapped",
               pc[Loop] \notin SendLabel, pc' = [pc EXCEPT ![Loop] = l]
        PROVE  InOrder'
    <3>1. pc[Loop] # "emplaced" /\ l # "emplaced"
      BY <2>2 DEF LoopLabel, SendLabel
    <3> QED
      BY <3>1, <2>2, <1>0, <1>2, Moves, SameQueues DEF OrderInv
  <2> QED
    BY <1>1, <2>1, <2>2
<1>4. Progress'
  <2> USE <1>0 DEF OrderInv, Progress, TypeOK, Goto, Thread, SendLabel, queueVars, loopVars
  <2>1. CASE casycom_main
    BY <2>1 DEF casycom_main
  <2>2. CASE Test
    BY <2>2 DEF Test
  <2>3. CASE AllDelivered
    BY <2>3 DEF AllDelivered
  <2>4. CASE HandlerReturns
    BY <2>4 DEF HandlerReturns
  <2>5. CASE SignalSent
    BY <2>5 DEF SignalSent
  <2>6. CASE ChooseWait
    BY <2>6 DEF ChooseWait
  <2>7. CASE Timer_run_timer
    BY <2>7 DEF Timer_run_timer
  <2>8. CASE PollTimesOut
    BY <2>8 DEF PollTimesOut
  <2>9. CASE CheckEmpty
    <3>1. pc[Loop] = "check" /\ pc' = [pc EXCEPT ![Loop] = "test"]
          /\ UNCHANGED failed /\ (quitting => quitting')
      BY <2>9 DEF CheckEmpty, casycom_quit
    <3> QED
      BY <3>1
  <2>10. CASE HandlerWatches \/ HandlerQuits
    BY <2>10 DEF HandlerWatches, HandlerQuits, AskQuit, casycom_quit
  <2>11. ASSUME NEW sig \in Signals, casycom_on_msg_signal(sig)
         PROVE  Progress'
    <3>1. /\ UNCHANGED <<failed, at, inq, ret>> /\ (quitting => quitting')
          /\ \/ pc' = pc
             \/ pc' = [pc EXCEPT ![Loop] = "check"] /\ pc[Loop] = "polling"
      BY <2>11 DEF casycom_on_msg_signal, casycom_quit, sendVars
    <3> QED
      BY <3>1
  <2> QED
    BY <2>1, <2>2, <2>3, <2>4, <2>5, <2>6, <2>7, <2>8, <2>9, <2>10, <2>11
<1> QED
  BY <1>3, <1>4 DEF OrderInv

LEMMA SendOrderOK ==
    ASSUME LockInv, OrderInv,
           \/ casycom_framework_init \/ HandlerSends \/ PollReady
           \/ casycom_send_signal_message \/ \E t \in Producers : Produce(t)
    PROVE  OrderInv'
<1>0. TypeOK /\ Control /\ Loop \in Thread /\ Producers \subseteq Thread /\ Loop \notin Producers
  BY EventLoopAssumption DEF LockInv, Thread
<1>1. UNCHANGED <<inq, outq, at, sent, delivered, failed, quitting>>
  BY DEF casycom_framework_init, HandlerSends, PollReady, casycom_send_signal_message, Produce,
         CallNext, Call, queueVars, loopVars
<1>2. \/ \E t \in Producers : /\ pc[t] = "run" /\ pc' = [pc EXCEPT ![t] = "acquire"]
                              /\ ret' = ret
      \/ /\ pc' = [pc EXCEPT ![Loop] = "acquire"]
         /\ \/ pc[Loop] = "init" /\ ret' = "start"
            \/ pc[Loop] = "handle" /\ ret' = "handle"
            \/ pc[Loop] = "polling" /\ ret' = "check"
            \/ pc[Loop] = "idle" /\ ret' = "signalled"
      \/ pc[Loop] = "idle" /\ pc' = [pc EXCEPT ![Loop] = "wait"] /\ ret' = ret
  <2>1. CASE \E t \in Producers : Produce(t)
    BY <2>1, <1>0 DEF Produce, CallNext, Call, Goto
  <2>2. CASE casycom_send_signal_message
    BY <2>2 DEF casycom_send_signal_message, Call, Goto
  <2>3. CASE casycom_framework_init \/ HandlerSends \/ PollReady
    BY <2>3 DEF casycom_framework_init, HandlerSends, PollReady, CallNext, Call, Goto
  <2> QED
    BY <2>1, <2>2, <2>3
<1>3. InOrder'
  <2>1. \E t \in Thread, l \in {"acquire", "wait"} :
            pc[t] \notin {"emplaced", "swapped"} /\ pc' = [pc EXCEPT ![t] = l]
    BY <1>0, <1>2
  <2> QED
    BY <2>1, <1>1, Moves, SameQueues DEF OrderInv
<1>4. Progress'
  BY <1>0, <1>1, <1>2 DEF OrderInv, Progress, TypeOK, SendLabel
<1> QED
  BY <1>3, <1>4 DEF OrderInv

LEMMA QueueOrderOK ==
    ASSUME LockInv, OrderInv,
           \/ DeliverMessage \/ HandlerFails \/ ClearInput \/ SwapAcquire \/ SwapIn \/ SwapOut
    PROVE  OrderInv'
<1>0. TypeOK /\ Control /\ LockHeldByOne /\ Loop \in Thread
  BY DEF LockInv, Thread
<1> USE DEF Goto, OrderInv
<1>p. Progress'
  BY <1>0 DEF DeliverMessage, HandlerFails, AskQuit, casycom_quit, ClearInput, SwapAcquire,
              SwapIn, SwapOut, sendVars, loopVars, Progress, TypeOK, SendLabel
<1>1. CASE DeliverMessage
  <2>1. /\ pc[Loop] = "deliver" /\ pc' = [pc EXCEPT ![Loop] = "handle"] /\ at < Len(inq)
        /\ at' = at + 1 /\ delivered' = Append(delivered, inq[at + 1])
        /\ UNCHANGED <<inq, outq, sent, failed>>
    BY <1>1 DEF DeliverMessage
  <2>2. Written' = Written
    <3>1. (pc[Loop] = "swapped" <=> pc'[Loop] = "swapped") /\ (Emplaced <=> Emplaced')
      BY <1>0, <2>1, Moves
    <3> QED
      BY <3>1, <2>1 DEF Written
  <2>3. delivered' \o Remaining' = delivered \o Remaining
    <3>1. delivered \in Seq(Entry) /\ inq \in Seq(Entry) /\ at \in Nat
      BY QueueTypes
    <3>2. Remaining' = [i \in 1 .. Len(inq) - (at + 1) |-> inq[at + 1 + i]]
      BY <2>1 DEF Remaining
    <3>3. delivered \o [i \in 1 .. Len(inq) - at |-> inq[at + i]] =
          Append(delivered, inq[at + 1]) \o [i \in 1 .. Len(inq) - (at + 1) |-> inq[at + 1 + i]]
      BY <2>1, <3>1, DeliverConcat
    <3> QED
      BY <2>1, <3>2, <3>3, Zenon DEF Remaining
  <2> QED
    BY <1>p, <2>1, <2>2, <2>3 DEF InOrder
<1>2. CASE HandlerFails
  BY <1>2, <1>p DEF HandlerFails, InOrder
<1>3. CASE ClearInput
  <2>1. /\ pc[Loop] = "clear" /\ pc' = [pc EXCEPT ![Loop] = "swap"]
        /\ inq' = <<>> /\ at' = 0 /\ UNCHANGED <<outq, sent, delivered, failed>>
    BY <1>3 DEF ClearInput
  <2>2. Written' = Written
    <3>1. (pc[Loop] = "swapped" <=> pc'[Loop] = "swapped") /\ (Emplaced <=> Emplaced')
      BY <1>0, <2>1, Moves
    <3> QED
      BY <3>1, <2>1 DEF Written
  <2>3. ~failed => Remaining = <<>> /\ Remaining' = <<>>
    BY <2>1, <1>0, QueueTypes DEF Remaining, Progress
  <2> QED
    BY <1>p, <2>1, <2>2, <2>3 DEF InOrder
<1>4. CASE SwapAcquire
  <2>1. /\ pc[Loop] = "swap" /\ pc' = [pc EXCEPT ![Loop] = "swapping"]
        /\ UNCHANGED <<inq, outq, at, sent, delivered, failed>>
    BY <1>4 DEF SwapAcquire
  <2> QED
    BY <1>p, <1>0, <2>1, Moves, SameQueues
<1>5. CASE SwapIn
  <2>1. /\ pc[Loop] = "swapping" /\ pc' = [pc EXCEPT ![Loop] = "swapped"]
        /\ inq' = outq /\ UNCHANGED <<outq, at, sent, delivered, failed>>
    BY <1>5 DEF SwapIn
  <2>2. inq = <<>> /\ at = 0 /\ ~Emplaced /\ outq \in Seq(Entry) /\ delivered \in Seq(Entry)
    BY <2>1, <1>0, QueueTypes DEF Control, LockHeldByOne, Holding, Emplaced
  <2>3. Remaining = <<>> /\ Written = outq
    BY <2>1, <2>2, QueueTypes DEF Remaining, Written
  <2>4. Remaining' = outq /\ Written' = <<>>
    <3>1. pc'[Loop] = "swapped"
      BY <2>1, <1>0 DEF TypeOK
    <3>2. Remaining' = [i \in 1 .. Len(outq) |-> outq[i]]
      BY <2>1, <2>2 DEF Remaining
    <3> QED
      BY <3>1, <3>2, <2>2 DEF Written
  <2> QED
    BY <1>p, <2>1, <2>2, <2>3, <2>4, ConcatEmptySeq, ConcatProperties DEF InOrder
<1>6. CASE SwapOut
  <2>1. /\ pc[Loop] = "swapped" /\ pc' = [pc EXCEPT ![Loop] = "idle"]
        /\ outq' = <<>> /\ UNCHANGED <<inq, at, sent, delivered, failed>>
    BY <1>6 DEF SwapOut
  <2>2. pc'[Loop] = "idle" /\ ~Emplaced'
    BY <2>1, <1>0 DEF TypeOK, LockHeldByOne, Holding, Emplaced
  <2>3. Written = <<>> /\ Written' = <<>>
    BY <2>1, <2>2 DEF Written
  <2> QED
    BY <1>p, <2>1, <2>3 DEF InOrder, Remaining
<1> QED
  BY <1>1, <1>2, <1>3, <1>4, <1>5, <1>6

LEMMA OrderStepOK == LockInv /\ OrderInv /\ [Next]_vars => OrderInv'
<1> SUFFICES ASSUME LockInv, OrderInv, [Next]_vars PROVE OrderInv'
  OBVIOUS
<1>1. CASE UNCHANGED vars
  BY <1>1 DEF vars, queueVars, sendVars, loopVars, OrderInv, InOrder, Progress, Remaining,
              Written, Emplaced
<1>2. CASE DoubleSignal \/ \E t \in Fatal : casycom_on_fatal_signal(t)
  <2>1. UNCHANGED <<inq, outq, at, sent, delivered, failed, pc, quitting, ret>>
    BY <1>2 DEF DoubleSignal, casycom_on_fatal_signal, queueVars, sendVars
  <2> QED
    BY <2>1 DEF OrderInv, InOrder, Progress, Remaining, Written, Emplaced
<1> QED
  BY <1>1, <1>2, Steps, SendingOrderOK, PlaceOrderOK, SendOrderOK, QueueOrderOK

LEMMA InitOrderOK == Init => OrderInv
  BY EventLoopAssumption
  DEF Init, OrderInv, InOrder, Progress, Remaining, Written, Emplaced, Thread

LEMMA Ordering == Spec => []OrderInv
  BY InitOrderOK, OrderStepOK, Locking, PTL DEF Spec

\* casycom_queue_message and casycom_do_message_queues, in whatever order the
\* threads make their steps, lose, repeat and reorder nothing.
THEOREM QueuesCorrect == Spec => []QueuesSound
<1>1. LockInv /\ OrderInv => QueuesSound
  BY DEF LockInv, OrderInv, QueuesSound
<1> QED
  BY <1>1, Locking, Ordering, PTL

-----------------------------------------------------------------------------
(* The queues implement MsgFifo *)

\* What is next in the input queue is the first message not yet delivered.
LEMMA NextMessage ==
    ASSUME LockInv, InOrder, ~failed, at < Len(inq)
    PROVE  Len(delivered) < Len(sent) /\ inq[at + 1] = sent[Len(delivered) + 1]
<1>1. /\ delivered \in Seq(Entry) /\ Remaining \in Seq(Entry) /\ Written \in Seq(Entry)
      /\ Len(Remaining) = Len(inq) - at /\ delivered \o Remaining \in Seq(Entry)
      /\ inq \in Seq(Entry) /\ at \in Nat /\ sent \in Seq(Entry)
  BY QueueTypes
<1>2. Remaining[1] = inq[at + 1]
  BY <1>1 DEF Remaining
<1>3. Len(delivered \o Remaining) = Len(delivered) + Len(Remaining)
      /\ (delivered \o Remaining)[Len(delivered) + 1] = Remaining[1]
  <2>1. Len(delivered) + 1 \in 1 .. Len(delivered) + Len(Remaining)
    BY <1>1
  <2>2. /\ Len(delivered \o Remaining) = Len(delivered) + Len(Remaining)
        /\ \A i \in 1 .. Len(delivered) + Len(Remaining) : (delivered \o Remaining)[i] =
                IF i <= Len(delivered) THEN delivered[i] ELSE Remaining[i - Len(delivered)]
    BY <1>1, ConcatProperties, Zenon
  <2>3. Len(delivered) + 1 - Len(delivered) = 1 /\ ~(Len(delivered) + 1 <= Len(delivered))
    BY <1>1
  <2> QED
    BY <2>1, <2>2, <2>3
<1>4. sent = (delivered \o Remaining) \o Written
  BY DEF InOrder
<1>5. Len(sent) = Len(delivered \o Remaining) + Len(Written)
      /\ sent[Len(delivered) + 1] = (delivered \o Remaining)[Len(delivered) + 1]
  <2>1. Len(delivered) + 1 \in 1 .. Len(delivered \o Remaining)
    BY <1>1, <1>3
  <2> QED
    BY <1>1, <1>4, <2>1, ConcatProperties
<1> QED
  BY <1>1, <1>2, <1>3, <1>5

\* A step that sends, delivers or fails does so in MsgFifo; the others do
\* nothing there.
LEMMA FifoStep ==
    ASSUME LockInv, OrderInv, [Next]_vars
    PROVE  [Fifo!FifoNext]_(Fifo!fifoVars)
<1> USE DEF Fifo!FifoNext, Fifo!fifoVars
<1>1. ASSUME NEW t \in Thread, WriteAndRelease(t)
      PROVE  Fifo!Send
  <2>1. sent \in Seq(Msg) /\ arg[t] \in Msg
    BY DEF LockInv, TypeOK
  <2>2. sent' = Append(sent, arg[t]) /\ UNCHANGED <<delivered, failed>>
    BY <1>1 DEF WriteAndRelease
  <2>3. Len(sent') = Len(sent) + 1 /\ sent'[Len(sent')] \in Msg
    BY <2>1, <2>2
  <2>4. SubSeq(sent', 1, Len(sent)) = sent
    BY <2>1, <2>2
  <2> QED
    BY <2>2, <2>3, <2>4 DEF Fifo!Send
<1>2. ASSUME NEW t \in Thread, Sending(t)
      PROVE  WriteAndRelease(t) \/ UNCHANGED <<sent, delivered, failed>>
  BY <1>2 DEF Sending, acquire_lock, vector_emplace
<1>3. CASE DeliverMessage
  <2>1. ~failed /\ at < Len(inq)
    BY <1>3 DEF DeliverMessage, OrderInv, Progress
  <2> QED
    BY <1>3, <2>1, NextMessage DEF DeliverMessage, OrderInv, Fifo!Deliver
<1>4. CASE HandlerFails
  BY <1>4 DEF HandlerFails, Fifo!Fail
<1>5. CASE casycom_main \/ Test \/ AllDelivered \/ HandlerReturns \/ SignalSent
           \/ ChooseWait \/ Timer_run_timer \/ PollTimesOut \/ CheckEmpty
           \/ HandlerWatches \/ HandlerQuits
           \/ \E sig \in Signals : casycom_on_msg_signal(sig)
  BY <1>5 DEF casycom_main, Test, AllDelivered, HandlerReturns, SignalSent, ChooseWait,
         Timer_run_timer, PollTimesOut, CheckEmpty, HandlerWatches, HandlerQuits,
         casycom_on_msg_signal, queueVars
<1>6. CASE ClearInput \/ SwapAcquire \/ SwapIn \/ SwapOut
  BY <1>6 DEF ClearInput, SwapAcquire, SwapIn, SwapOut
<1>7. CASE casycom_framework_init \/ HandlerSends \/ PollReady
           \/ casycom_send_signal_message \/ \E t \in Producers : Produce(t)
  BY <1>7 DEF casycom_framework_init, HandlerSends, PollReady, casycom_send_signal_message,
         Produce, CallNext, Call, queueVars
<1>8. CASE DoubleSignal \/ \E t \in Fatal : casycom_on_fatal_signal(t)
  BY <1>8 DEF DoubleSignal, casycom_on_fatal_signal, queueVars
<1>9. CASE UNCHANGED vars
  BY <1>9 DEF vars, queueVars
<1> QED
  BY <1>1, <1>2, <1>3, <1>4, <1>5, <1>6, <1>7, <1>8, <1>9, Steps

\* casycom_queue_message and casycom_do_message_queues, with their lock and their
\* two queues, are to their users the one queue of MsgFifo.
THEOREM Implements == Spec => FifoSpec
<1>1. Init => Fifo!FifoInit
  BY DEF Init, Fifo!FifoInit
<1> QED
  BY <1>1, FifoStep, Locking, Ordering, PTL DEF Spec, FifoSpec, Fifo!FifoSpec

-----------------------------------------------------------------------------
(* Signals, and the end of the loop *)

\* The loop sends its own messages and those of signals, and the other threads
\* their own.
FromSignal(t) == t = Loop /\ ret = "signalled"
Senders ==
    \A t \in Thread : pc[t] \in SendLabel => arg[t][1] = IF FromSignal(t) THEN Sig ELSE t

\* SignalOnce says nothing of a signal that waits in last_signal or in a message
\* that is being sent: none of these has been sent before.
SignalInv ==
    /\ Senders /\ SignalOnce
    /\ \A i \in DOMAIN sent : sent[i][1] = Sig => sent[i][2] \in fired
    /\ last_signal # 0 => last_signal \in fired
    /\ last_signal # 0 /\ pc[Loop] # "signalled" =>
            \A i \in DOMAIN sent : sent[i] # <<Sig, last_signal>>
    /\ pc[Loop] \in SendLabel /\ FromSignal(Loop) =>
            /\ arg[Loop][2] \in fired
            /\ \A i \in DOMAIN sent : sent[i] # arg[Loop]

\* A loop that nobody has asked to end has found the queues empty when it quits,
\* and sends nothing after that.
DryInv ==
    /\ pc[Loop] = "exited" => quitting
    /\ asked = NoCode =>
        /\ ~failed
        /\ quitting => /\ pc[Loop] \in {"test", "exited"}
                       /\ \A i \in DOMAIN sent : sent[i][1] = Loop => i <= Len(delivered)

\* A message that is sent comes last.
LEMMA AppendSent ==
    ASSUME NEW S, NEW q \in Seq(S), NEW x \in S
    PROVE  /\ DOMAIN Append(q, x) = 1 .. Len(q) + 1 /\ DOMAIN q = 1 .. Len(q) /\ Len(q) \in Nat
           /\ \A i \in 1 .. Len(q) : Append(q, x)[i] = q[i]
           /\ Append(q, x)[Len(q) + 1] = x
  OBVIOUS

LEMMA SendingSignalOK ==
    ASSUME LockInv, SignalInv, NEW t \in Thread, Sending(t)
    PROVE  SignalInv'
<1>0. TypeOK /\ Control /\ Loop \in Thread /\ Sig \notin Thread
  BY EventLoopAssumption DEF LockInv, Thread
<1>1. CASE acquire_lock(t) \/ vector_emplace(t)
  <2>1. /\ UNCHANGED <<ret, arg, sent, last_signal, fired>> /\ pc[t] \in SendLabel
        /\ \E l \in SendLabel : pc' = [pc EXCEPT ![t] = l]
    BY <1>1 DEF acquire_lock, vector_emplace, Goto, SendLabel, sendVars, loopVars
  <2>2. /\ \A u \in Thread : pc'[u] \in SendLabel <=> pc[u] \in SendLabel
        /\ pc'[Loop] = "signalled" <=> pc[Loop] = "signalled"
    BY <2>1, <1>0 DEF TypeOK, SendLabel
  <2> QED
    BY <2>1, <2>2, <1>0 DEF SignalInv, Senders, FromSignal, SignalOnce
<1>2. CASE WriteAndRelease(t)
  <2>1. /\ UNCHANGED <<ret, arg, last_signal, fired>> /\ pc[t] \in SendLabel
        /\ sent' = Append(sent, arg[t])
        /\ pc' = [pc EXCEPT ![t] = IF t = Loop THEN ret ELSE "run"]
    BY <1>2 DEF WriteAndRelease, Goto, SendLabel, sendVars, loopVars
  <2>2. /\ DOMAIN sent' = 1 .. Len(sent) + 1 /\ DOMAIN sent = 1 .. Len(sent) /\ Len(sent) \in Nat
        /\ \A i \in 1 .. Len(sent) : sent'[i] = sent[i]
        /\ sent'[Len(sent) + 1] = arg[t]
    BY <2>1, <1>0, AppendSent DEF TypeOK
  <2>3. /\ pc'[t] \notin SendLabel
        /\ \A u \in Thread : u # t => pc'[u] = pc[u]
        /\ FromSignal(t) => pc'[Loop] = "signalled"
    BY <2>1, <1>0 DEF TypeOK, Control, Returns, SendLabel, FromSignal
  <2>4. arg[t][1] = (IF FromSignal(t) THEN Sig ELSE t) /\ (~FromSignal(t) => arg[t][1] # Sig)
    BY <2>1, <1>0 DEF SignalInv, Senders
  <2>5. FromSignal(t) => /\ t = Loop /\ arg[t][2] \in fired
                         /\ \A i \in DOMAIN sent : sent[i] # arg[t]
    BY <2>1 DEF SignalInv, FromSignal
  <2>6. Senders'
    BY <2>1, <2>3 DEF SignalInv, Senders, FromSignal
  <2>7. SignalOnce'
    BY <2>2, <2>4, <2>5 DEF SignalInv, SignalOnce
  <2>8. \A i \in DOMAIN sent' : sent'[i][1] = Sig => sent'[i][2] \in fired'
    BY <2>1, <2>2, <2>4, <2>5 DEF SignalInv
  <2>9. last_signal' # 0 => last_signal' \in fired'
    BY <2>1 DEF SignalInv
  <2>10. last_signal' # 0 /\ pc'[Loop] # "signalled" =>
            \A i \in DOMAIN sent' : sent'[i] # <<Sig, last_signal'>>
    <3>1. SUFFICES ASSUME last_signal # 0, pc'[Loop] # "signalled"
                   PROVE  \A i \in DOMAIN sent' : sent'[i] # <<Sig, last_signal>>
      BY <2>1
    <3>2. ~FromSignal(t) /\ arg[t] # <<Sig, last_signal>>
      BY <2>3, <2>4, <3>1
    <3>3. pc[Loop] # "signalled"
      BY <2>1, <2>3, <3>1, <1>0 DEF SendLabel
    <3> QED
      BY <2>2, <3>1, <3>2, <3>3 DEF SignalInv
  <2>11. pc'[Loop] \in SendLabel /\ FromSignal(Loop)' =>
            /\ arg'[Loop][2] \in fired'
            /\ \A i \in DOMAIN sent' : sent'[i] # arg'[Loop]
    <3>1. SUFFICES ASSUME pc'[Loop] \in SendLabel, FromSignal(Loop)
                   PROVE  arg[Loop][2] \in fired /\ \A i \in DOMAIN sent' : sent'[i] # arg[Loop]
      BY <2>1 DEF FromSignal
    <3>2. t # Loop /\ pc[Loop] \in SendLabel /\ ~FromSignal(t)
      BY <2>3, <3>1, <1>0 DEF FromSignal
    <3>3. arg[Loop][1] = Sig
      BY <3>1, <3>2, <1>0 DEF SignalInv, Senders
    <3> QED
      BY <2>2, <2>4, <3>1, <3>2, <3>3 DEF SignalInv
  <2> QED
    BY <2>6, <2>7, <2>8, <2>9, <2>10, <2>11 DEF SignalInv
<1> QED
  BY <1>1, <1>2 DEF Sending

\* A step after which no thread is sending that was not, and no signal waits
\* that did not.
LEMMA QuietSignalOK ==
    ASSUME LockInv, SignalInv, UNCHANGED <<ret, arg, sent, fired>>,
           last_signal' \in {last_signal, 0},
           pc[Loop] = "signalled" => last_signal' = 0 \/ pc' = pc,
           \/ pc' = pc
           \/ \E l \in LoopLabel : pc' = [pc EXCEPT ![Loop] = l]
    PROVE  SignalInv'
<1>1. \A u \in Thread : pc'[u] \in SendLabel => pc[u] \in SendLabel
  BY DEF LockInv, TypeOK, SendLabel, LoopLabel
<1>2. pc'[Loop] # "signalled" /\ last_signal' # 0 => pc[Loop] # "signalled"
  OBVIOUS
<1> QED
  BY <1>1, <1>2 DEF SignalInv, Senders, FromSignal, SignalOnce, Thread

LEMMA PlaceSignalOK ==
    ASSUME LockInv, SignalInv,
           \/ casycom_main \/ Test \/ AllDelivered \/ HandlerReturns \/ SignalSent
           \/ ChooseWait \/ Timer_run_timer \/ PollTimesOut \/ CheckEmpty
           \/ HandlerWatches \/ HandlerQuits
           \/ DeliverMessage \/ HandlerFails \/ ClearInput \/ SwapAcquire \/ SwapIn \/ SwapOut
    PROVE  SignalInv'
<1>1. /\ UNCHANGED <<ret, arg, sent, fired>> /\ last_signal' \in {last_signal, 0}
      /\ pc[Loop] = "signalled" => last_signal' = 0
  BY DEF casycom_main, Test, AllDelivered, HandlerReturns, SignalSent, ChooseWait,
         Timer_run_timer, PollTimesOut, CheckEmpty, HandlerWatches, HandlerQuits, AskQuit,
         DeliverMessage, HandlerFails, ClearInput, SwapAcquire, SwapIn, SwapOut,
         queueVars, sendVars, loopVars
<1>2. \/ pc' = pc
      \/ \E l \in LoopLabel : pc' = [pc EXCEPT ![Loop] = l]
  BY DEF casycom_main, Test, AllDelivered, HandlerReturns, SignalSent, ChooseWait,
         Timer_run_timer, PollTimesOut, CheckEmpty, HandlerWatches, HandlerQuits,
         DeliverMessage, HandlerFails, ClearInput, SwapAcquire, SwapIn, SwapOut, Goto, LoopLabel
<1> QED
  BY <1>1, <1>2, QuietSignalOK

\* A signal that arrives has not been sent before: it arrives once.
LEMMA ArriveSignalOK ==
    ASSUME LockInv, SignalInv, NEW sig \in Signals, casycom_on_msg_signal(sig)
    PROVE  SignalInv'
<1>1. /\ sig \notin fired /\ fired' = fired \cup {sig} /\ last_signal' = sig
      /\ UNCHANGED <<ret, arg, sent>>
      /\ \/ pc' = pc
         \/ pc[Loop] = "polling" /\ pc' = [pc EXCEPT ![Loop] = "check"]
  BY DEF casycom_on_msg_signal, Goto, queueVars, sendVars
<1>2. \A u \in Thread : pc'[u] \in SendLabel <=> pc[u] \in SendLabel
  BY <1>1 DEF LockInv, TypeOK, SendLabel
<1>3. Senders' /\ SignalOnce'
  BY <1>1, <1>2 DEF SignalInv, Senders, FromSignal, SignalOnce
<1>4. \A i \in DOMAIN sent : sent[i] # <<Sig, sig>>
  BY <1>1 DEF SignalInv
<1> QED
  BY <1>1, <1>2, <1>3, <1>4 DEF SignalInv, FromSignal, Thread

LEMMA CallSignalOK ==
    ASSUME LockInv, SignalInv,
           \/ casycom_framework_init \/ HandlerSends \/ PollReady
           \/ casycom_send_signal_message \/ \E t \in Producers : Produce(t)
    PROVE  SignalInv'
<1>0. TypeOK /\ Control /\ Loop \in Thread /\ Loop \notin Producers /\ Producers \subseteq Thread
      /\ Sig \notin Thread
  BY EventLoopAssumption DEF LockInv, Thread
<1>1. ASSUME NEW t \in Thread, NEW back \in Returns \ {"signalled"}, CallNext(t, back),
             t = Loop => pc[Loop] \notin SendLabel \cup {"signalled"},
             UNCHANGED <<last_signal, fired>>
      PROVE  SignalInv'
  <2>1. /\ pc' = [pc EXCEPT ![t] = "acquire"] /\ arg' = [arg EXCEPT ![t] = <<t, count[t] + 1>>]
        /\ ret' = (IF t = Loop THEN back ELSE ret) /\ UNCHANGED sent
    BY <1>1 DEF CallNext, Call, Goto, queueVars
  <2>2. Senders'
    BY <1>0, <1>1, <2>1 DEF SignalInv, Senders, FromSignal, TypeOK
  <2>3. \/ UNCHANGED <<arg[Loop], ret, pc[Loop]>>
        \/ ~FromSignal(Loop)' /\ pc[Loop] # "signalled"
    BY <1>0, <1>1, <2>1 DEF TypeOK, FromSignal, Control
  <2> QED
    BY <1>1, <2>1, <2>2, <2>3 DEF SignalInv, SignalOnce, FromSignal
<1>2. CASE casycom_framework_init
  BY <1>0, <1>1, <1>2 DEF casycom_framework_init, Returns, SendLabel, loopVars
<1>3. CASE HandlerSends
  BY <1>0, <1>1, <1>3 DEF HandlerSends, Returns, SendLabel, loopVars
<1>4. CASE PollReady
  BY <1>0, <1>1, <1>4 DEF PollReady, Returns, SendLabel
<1>5. ASSUME NEW t \in Producers, Produce(t)
      PROVE  SignalInv'
  <2>1. CallNext(t, "check") /\ t # Loop
    BY <1>0, <1>5 DEF Produce, CallNext, Call
  <2> QED
    BY <1>0, <1>1, <1>5, <2>1 DEF Produce, Returns, loopVars
<1>6. CASE casycom_send_signal_message
  <2>1. pc[Loop] = "idle" /\ UNCHANGED <<last_signal, fired, sent>>
    BY <1>6 DEF casycom_send_signal_message, Call, queueVars
  <2>2. CASE last_signal = 0
    BY <1>6, <2>1, <2>2, QuietSignalOK DEF casycom_send_signal_message, Goto, LoopLabel
  <2>3. CASE last_signal # 0
    <3>1. /\ pc' = [pc EXCEPT ![Loop] = "acquire"] /\ ret' = "signalled"
          /\ arg' = [arg EXCEPT ![Loop] = <<Sig, last_signal>>]
      BY <1>6, <2>3 DEF casycom_send_signal_message, Call, Goto
    <3>2. Senders'
      BY <1>0, <2>1, <3>1 DEF SignalInv, Senders, FromSignal, TypeOK
    <3>3. arg'[Loop] = <<Sig, last_signal>> /\ arg'[Loop][2] = last_signal /\ pc'[Loop] = "acquire"
      BY <1>0, <3>1 DEF TypeOK
    <3> QED
      BY <2>1, <2>3, <3>2, <3>3 DEF SignalInv, SignalOnce
  <2> QED
    BY <2>2, <2>3
<1> QED
  BY <1>2, <1>3, <1>4, <1>5, <1>6

LEMMA SignalStepOK == LockInv /\ SignalInv /\ [Next]_vars => SignalInv'
<1> SUFFICES ASSUME LockInv, SignalInv, [Next]_vars PROVE SignalInv'
  OBVIOUS
<1>1. CASE \/ UNCHANGED vars \/ DoubleSignal
           \/ \E t \in Fatal : casycom_on_fatal_signal(t)
  <2>1. UNCHANGED <<ret, arg, sent, fired, last_signal, pc>>
    BY <1>1 DEF vars, queueVars, sendVars, loopVars, DoubleSignal, casycom_on_fatal_signal
  <2> QED
    BY <2>1, QuietSignalOK
<1> QED
  BY <1>1, Steps, SendingSignalOK, PlaceSignalOK, ArriveSignalOK, CallSignalOK

LEMMA Signalling == Spec => []SignalInv
<1>1. Init => SignalInv
  <2> SUFFICES ASSUME Init PROVE SignalInv
    OBVIOUS
  <2>1. \A t \in Thread : pc[t] \notin SendLabel
    BY DEF Init, SendLabel
  <2>2. DOMAIN sent = {} /\ last_signal = 0
    BY DEF Init
  <2> QED
    BY <2>1, <2>2 DEF SignalInv, Senders, SignalOnce, Thread
<1> QED
  BY <1>1, SignalStepOK, Locking, PTL DEF Spec

\* A signal becomes at most one message: casycom_idle forgets it once the
\* message is sent, and one that arrives meanwhile is another signal.
THEOREM SignalsOnce == Spec => []SignalOnce
<1>1. SignalInv => SignalOnce
  BY DEF SignalInv
<1> QED
  BY <1>1, Signalling, PTL

\* A step of the loop before its last test, which does not quit.
LEMMA BusyDryOK ==
    ASSUME DryInv, UNCHANGED <<failed, quitting, asked>>,
           pc[Loop] \notin {"test", "exited"}, pc'[Loop] # "exited"
    PROVE  DryInv'
  BY DEF DryInv

\* A step of another thread.
LEMMA OtherDryOK ==
    ASSUME DryInv, UNCHANGED <<failed, quitting, asked, delivered>>, pc'[Loop] = pc[Loop],
           \A i \in DOMAIN sent' : sent'[i][1] = Loop => i \in DOMAIN sent /\ sent'[i] = sent[i]
    PROVE  DryInv'
  BY DEF DryInv

\* The loop goes from one place to another.
LEMMA LoopMoves ==
    ASSUME LockInv, NEW l, pc' = [pc EXCEPT ![Loop] = l]
    PROVE  pc'[Loop] = l
  BY DEF LockInv, TypeOK, Thread

LEMMA SendingDryOK ==
    ASSUME LockInv, SignalInv, DryInv, NEW t \in Thread, Sending(t)
    PROVE  DryInv'
<1>0. TypeOK /\ Control /\ Loop \in Thread
  BY DEF LockInv, Thread
<1>1. /\ UNCHANGED <<failed, quitting, asked, delivered>> /\ pc[t] \in SendLabel
      /\ \/ sent' = sent
         \/ sent' = Append(sent, arg[t])
      /\ \E l \in {"locked", "emplaced", IF t = Loop THEN ret ELSE "run"} :
            pc' = [pc EXCEPT ![t] = l]
  BY DEF Sending, acquire_lock, vector_emplace, WriteAndRelease, Goto, SendLabel, loopVars
<1>2. CASE t = Loop
  <2>1. pc[Loop] \notin {"test", "exited"} /\ pc'[Loop] # "exited"
    BY <1>0, <1>1, <1>2 DEF TypeOK, Control, SendLabel, Returns
  <2> QED
    BY <1>1, <2>1, BusyDryOK
<1>3. CASE t # Loop
  <2>1. pc'[Loop] = pc[Loop] /\ arg[t][1] # Loop
    BY <1>0, <1>1, <1>3 DEF TypeOK, SignalInv, Senders, FromSignal
  <2>2. sent \in Seq(Msg) /\ arg[t] \in Msg
    BY <1>0, <1>1 DEF TypeOK
  <2>3. CASE sent' = Append(sent, arg[t])
    <3>1. /\ Len(sent') = Len(sent) + 1 /\ sent' \in Seq(Msg)
          /\ sent'[Len(sent) + 1] = arg[t]
          /\ \A i \in 1 .. Len(sent) : sent'[i] = sent[i]
      BY <2>2, <2>3, AppendProperties
    <3>2. DOMAIN sent = 1 .. Len(sent) /\ DOMAIN sent' = 1 .. Len(sent) + 1 /\ Len(sent) \in Nat
      BY <2>2, <3>1
    <3>3. \A i \in DOMAIN sent' : sent'[i][1] = Loop => i \in DOMAIN sent /\ sent'[i] = sent[i]
      BY <2>1, <3>1, <3>2
    <3> QED
      BY <1>1, <2>1, <3>3, OtherDryOK
  <2>4. CASE sent' = sent
    BY <1>1, <2>1, <2>4, OtherDryOK
  <2> QED
    BY <1>1, <2>3, <2>4
<1> QED
  BY <1>2, <1>3

\* Empty queues, and nothing on its way into them, are all delivered.
LEMMA EmptyDelivered ==
    ASSUME LockInv, OrderInv, ~failed, pc[Loop] # "swapped", Len(inq) + Len(outq) = 0
    PROVE  delivered = sent
<1>1. inq \in Seq(Entry) /\ outq \in Seq(Entry) /\ at \in 0 .. Len(inq)
      /\ delivered \in Seq(Entry)
  BY QueueTypes
<1>2. inq = <<>> /\ outq = <<>> /\ at = 0
  BY <1>1
<1>3. Remaining = <<>> /\ Written = <<>>
  BY <1>2 DEF Remaining, Written, Emplaced, LockInv, Control
<1> QED
  BY <1>1, <1>3, ConcatEmptySeq DEF OrderInv, InOrder

LEMMA LoopDryOK ==
    ASSUME LockInv, OrderInv, DryInv,
           \/ casycom_main \/ Test \/ AllDelivered \/ HandlerReturns \/ SignalSent
           \/ ChooseWait \/ Timer_run_timer \/ PollTimesOut \/ CheckEmpty
           \/ HandlerWatches \/ HandlerQuits \/ \E sig \in Signals : casycom_on_msg_signal(sig)
           \/ DeliverMessage \/ HandlerFails \/ ClearInput \/ SwapAcquire \/ SwapIn \/ SwapOut
    PROVE  DryInv'
<1>1. CASE \/ AllDelivered \/ HandlerReturns \/ SignalSent \/ ChooseWait \/ Timer_run_timer
           \/ PollTimesOut \/ HandlerWatches \/ DeliverMessage \/ ClearInput \/ SwapAcquire
           \/ SwapIn \/ SwapOut
  <2>1. UNCHANGED <<failed, quitting, asked>> /\ pc[Loop] \notin {"test", "exited"}
    BY <1>1 DEF AllDelivered, HandlerReturns, SignalSent, ChooseWait, Timer_run_timer,
           PollTimesOut, HandlerWatches, DeliverMessage, ClearInput, SwapAcquire, SwapIn, SwapOut,
           queueVars, loopVars
  <2>2. pc' = pc \/ \E l \in LoopLabel \ {"exited"} : pc' = [pc EXCEPT ![Loop] = l]
    BY <1>1 DEF AllDelivered, HandlerReturns, SignalSent, ChooseWait, Timer_run_timer,
           PollTimesOut, HandlerWatches, DeliverMessage, ClearInput, SwapAcquire, SwapIn, SwapOut,
           Goto, LoopLabel
  <2> QED
    BY <2>1, <2>2, LoopMoves, BusyDryOK
<1>2. CASE casycom_main
  <2>1. pc'[Loop] = "deliver" /\ quitting' = FALSE /\ UNCHANGED <<failed, asked>>
    BY <1>2, LoopMoves DEF casycom_main, Goto, queueVars
  <2> QED
    BY <2>1 DEF DryInv
<1>3. CASE Test
  <2>1. pc'[Loop] = (IF quitting THEN "exited" ELSE "deliver")
        /\ UNCHANGED <<failed, asked, quitting, sent, delivered>>
    BY <1>3, LoopMoves DEF Test, Goto, queueVars, loopVars
  <2> QED
    BY <2>1 DEF DryInv
<1>4. CASE CheckEmpty
  <2>1. /\ pc[Loop] = "check" /\ pc'[Loop] = "test"
        /\ UNCHANGED <<failed, asked, sent, delivered>>
        /\ quitting' => quitting \/ Len(inq) + Len(outq) = 0
    BY <1>4, LoopMoves DEF CheckEmpty, Goto, queueVars, casycom_quit
  <2>2. SUFFICES ASSUME asked = NoCode, quitting' PROVE DryInv'
    BY <2>1 DEF DryInv
  <2>3. ~failed /\ ~quitting
    BY <2>1, <2>2 DEF DryInv
  <2>4. delivered = sent
    BY <2>1, <2>2, <2>3, EmptyDelivered
  <2>5. \A i \in DOMAIN sent : i <= Len(sent)
    <3>1. sent \in Seq(Entry)
      BY QueueTypes
    <3> QED
      BY <3>1
  <2> QED
    BY <2>1, <2>3, <2>4, <2>5 DEF DryInv
<1>5. CASE HandlerQuits \/ HandlerFails
  <2>1. asked' # NoCode /\ pc[Loop] = "handle"
        /\ \/ pc' = pc
           \/ pc' = [pc EXCEPT ![Loop] = "clear"]
    BY <1>5, NoCodeAssumption DEF HandlerQuits, HandlerFails, AskQuit, EXIT_SUCCESS, EXIT_FAILURE,
            Goto
  <2>2. pc'[Loop] # "exited"
    BY <2>1, LoopMoves
  <2> QED
    BY <2>1, <2>2 DEF DryInv
<1>6. ASSUME NEW sig \in Signals, casycom_on_msg_signal(sig)
      PROVE  DryInv'
  <2>1. /\ pc[Loop] # "exited" /\ UNCHANGED <<failed, sent, delivered>>
        /\ \/ pc' = pc
           \/ pc' = [pc EXCEPT ![Loop] = "check"] /\ pc[Loop] = "polling"
    BY <1>6 DEF casycom_on_msg_signal, Goto, queueVars
  <2>2. pc'[Loop] # "exited" /\ pc'[Loop] \in {pc[Loop], "check"}
        /\ (pc'[Loop] = pc[Loop] \/ pc[Loop] = "polling")
    BY <2>1, LoopMoves
  <2>3. asked' # NoCode \/ UNCHANGED <<quitting, asked>>
    <3>1. qc_ShellSignalQuitOffset + sig \in Nat
      BY EventLoopAssumption DEF qc_ShellSignalQuitOffset
    <3> QED
      BY <1>6, <3>1, NoCodeAssumption DEF casycom_on_msg_signal
  <2> QED
    BY <2>1, <2>2, <2>3 DEF DryInv
<1> QED
  BY <1>1, <1>2, <1>3, <1>4, <1>5, <1>6

LEMMA CallDryOK ==
    ASSUME LockInv, DryInv,
           \/ casycom_framework_init \/ HandlerSends \/ PollReady
           \/ casycom_send_signal_message \/ \E t \in Producers : Produce(t)
    PROVE  DryInv'
<1>1. UNCHANGED <<failed, quitting, asked, delivered, sent>>
  BY DEF casycom_framework_init, HandlerSends, PollReady, casycom_send_signal_message, Produce,
         CallNext, Call, queueVars, loopVars
<1>2. ASSUME NEW t \in Producers, Produce(t)
      PROVE  DryInv'
  <2>1. pc'[Loop] = pc[Loop]
    BY <1>2, EventLoopAssumption DEF Produce, CallNext, Call, Goto, LockInv, TypeOK, Thread
  <2> QED
    BY <1>1, <2>1, OtherDryOK
<1>3. CASE casycom_framework_init \/ HandlerSends \/ PollReady \/ casycom_send_signal_message
  <2>1. pc[Loop] \notin {"test", "exited"}
        /\ \E l \in {"acquire", "wait"} : pc' = [pc EXCEPT ![Loop] = l]
    BY <1>3 DEF casycom_framework_init, HandlerSends, PollReady, casycom_send_signal_message,
           CallNext, Call, Goto
  <2> QED
    BY <1>1, <2>1, LoopMoves, BusyDryOK
<1> QED
  BY <1>2, <1>3

LEMMA DryStepOK == LockInv /\ OrderInv /\ SignalInv /\ DryInv /\ [Next]_vars => DryInv'
<1> SUFFICES ASSUME LockInv, OrderInv, SignalInv, DryInv, [Next]_vars PROVE DryInv'
  OBVIOUS
<1>1. CASE \/ UNCHANGED vars \/ DoubleSignal
           \/ \E t \in Fatal : casycom_on_fatal_signal(t)
  <2>1. UNCHANGED <<failed, quitting, asked, delivered, sent, pc>>
    BY <1>1 DEF vars, queueVars, sendVars, loopVars, DoubleSignal, casycom_on_fatal_signal
  <2> QED
    BY <2>1, OtherDryOK
<1> QED
  BY <1>1, Steps, SendingDryOK, LoopDryOK, CallDryOK

\* "Quit when there are no more packets or timers" (main.c:580): a loop that was
\* not asked to quit has found both queues empty, whatever other threads did
\* while it looked, and so has delivered all that its objects had sent.
THEOREM LoopRunsDry == Spec => []RunsDry
<1>1. Init => DryInv
  BY EventLoopAssumption DEF Init, DryInv, Thread
<1>2. DryInv => RunsDry
  BY DEF DryInv, RunsDry
<1> QED
  BY <1>1, <1>2, DryStepOK, Signalling, Ordering, Locking, PTL DEF Spec
=============================================================================
