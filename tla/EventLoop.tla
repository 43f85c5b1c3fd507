------------------------------ MODULE EventLoop ------------------------------
(***************************************************************************)
(* casycom_main and the message queues, with the threads that send, the    *)
(* signals that interrupt it, fatal ones too, and the calls of             *)
(* casycom_quit.                                                           *)
(*                                                                         *)
(* Any thread may send.  The loop reads the input queue, and under the     *)
(* lock exchanges it with the output queue, which the senders write.  The  *)
(* objects that get the messages are abstracted to what a handler can do   *)
(* to the loop: send, watch a file descriptor, quit, or fail.              *)
(***************************************************************************)
EXTENDS Integers, Sequences

CONSTANTS
    Loop,           \* the thread of casycom_main
    Producers,      \* the other threads that send
    Signals,        \* the signals that can arrive, each once
    QuitSignals,    \* those in sigset_Quit
    Handlers,       \* what handlers do: subset of {"send", "watch", "quit", "fail"}
    Fatal,          \* the threads that can get a fatal signal
    Sig,            \* the sender of a signal message
    NoMsg,          \* an entry that has been emplaced and not yet written
    NoCode,         \* nobody has asked for an exit code
    MaxSend         \* bound: the messages sent by each thread

Thread == Producers \cup {Loop}

ASSUME EventLoopAssumption ==
    /\ Loop \notin Producers
    /\ Sig \notin Thread
    /\ Signals \subseteq Nat \ {0} /\ QuitSignals \subseteq Signals
    /\ Handlers \subseteq {"send", "watch", "quit", "fail"} /\ Fatal \subseteq Thread
    /\ MaxSend \in Nat

\* A message is known by its sender and a number, the signal in a signal's.
Msg == (Thread \cup {Sig}) \X Nat

ASSUME NoMsgAssumption == NoMsg \notin Msg

EXIT_SUCCESS == 0
EXIT_FAILURE == 1
qc_ShellSignalQuitOffset == 128
ASSUME NoCodeAssumption == NoCode \notin Nat

VARIABLES
    inq,            \* _casycom_input_queue
    outq,           \* _casycom_output_queue
    lock,           \* _casycom_output_queue_lock
    at,             \* m in casycom_do_message_queues: the messages of inq delivered
    pc,             \* where each thread is
    ret,            \* where the loop goes on after casycom_queue_message
    arg,            \* the message each thread is sending
    count,          \* the messages each thread has begun to send
    last_signal,    \* _casycom_last_signal
    quitting,       \* _casycom_quitting
    exit_code,      \* _casycom_exit_code
    waittime,       \* waittime in casycom_idle: 0, or -1 for no limit
    timers,         \* the Timer in the watch list: "none", "watching" or "fired"
    alarm,          \* the alarm is set
    stopped,        \* the thread in exit (), or all of them once the process has ended
    sent,           \* history: all messages sent,
    delivered,      \*   all messages delivered,
    failed,         \*   an error was not handled,
    fired,          \*   the signals that have arrived,
    asked           \*   the last exit code the program has asked for

queueVars == <<inq, outq, lock, at, sent, delivered, failed>>
sendVars == <<ret, arg, count>>
loopVars == <<last_signal, quitting, exit_code, waittime, timers, fired, asked, alarm>>
vars == <<queueVars, sendVars, loopVars, pc, stopped>>

LoopLabel ==
    {"init", "start", "deliver", "handle", "clear", "swap", "swapping", "swapped", "idle",
     "signalled", "wait", "poll", "polling", "check", "test", "exited"}
SendLabel == {"acquire", "locked", "emplaced"}

TypeOK ==
    /\ inq \in Seq(Msg \cup {NoMsg}) /\ outq \in Seq(Msg \cup {NoMsg})
    /\ lock \in BOOLEAN
    /\ at \in 0 .. Len(inq)
    /\ pc \in [Thread -> LoopLabel \cup SendLabel \cup {"run"}]
    /\ ret \in LoopLabel /\ arg \in [Thread -> Msg] /\ count \in [Thread -> 0 .. MaxSend]
    /\ last_signal \in Signals \cup {0} /\ fired \subseteq Signals
    /\ quitting \in BOOLEAN /\ failed \in BOOLEAN
    /\ exit_code \in Nat /\ asked \in Nat \cup {NoCode}
    /\ waittime \in {0, -1}
    /\ timers \in {"none", "watching", "fired"}
    /\ alarm \in BOOLEAN /\ stopped \subseteq Thread
    /\ sent \in Seq(Msg) /\ delivered \in Seq(Msg \cup {NoMsg})

Goto(t, l) == pc' = [pc EXCEPT ![t] = l]

-----------------------------------------------------------------------------
(* casycom_queue_message, called by thread t *)

\* The call: the message has been built, the lock is not yet held.
Call(t, x, back) ==
    /\ Goto(t, "acquire")
    /\ arg' = [arg EXCEPT ![t] = x]
    /\ ret' = IF t = Loop THEN back ELSE ret
    /\ UNCHANGED queueVars

CallNext(t, back) ==
    /\ count[t] < MaxSend
    /\ count' = [count EXCEPT ![t] = @ + 1]
    /\ Call(t, <<t, count[t] + 1>>, back)

acquire_lock(t) ==
    /\ pc[t] = "acquire" /\ ~lock
    /\ lock' = TRUE
    /\ Goto(t, "locked")
    /\ UNCHANGED <<inq, outq, at, sent, delivered, failed, sendVars, loopVars>>

\* vector_push_back makes room for a zeroed entry,
vector_emplace(t) ==
    /\ pc[t] = "locked"
    /\ outq' = Append(outq, NoMsg)
    /\ Goto(t, "emplaced")
    /\ UNCHANGED <<inq, lock, at, sent, delivered, failed, sendVars, loopVars>>

\* and then writes it; the lock is released.
WriteAndRelease(t) ==
    /\ pc[t] = "emplaced"
    /\ outq' = [outq EXCEPT ![Len(outq)] = arg[t]]
    /\ sent' = Append(sent, arg[t])
    /\ lock' = FALSE
    /\ Goto(t, IF t = Loop THEN ret ELSE "run")
    /\ UNCHANGED <<inq, at, delivered, failed, sendVars, loopVars>>

Sending(t) == acquire_lock(t) \/ vector_emplace(t) \/ WriteAndRelease(t)

\* Another thread sends a message.
Produce(t) ==
    /\ pc[t] = "run"
    /\ CallNext(t, "run")
    /\ UNCHANGED loopVars

-----------------------------------------------------------------------------
(* casycom_quit *)

casycom_quit(code) == quitting' = TRUE /\ exit_code' = code

\* The program asks to quit, as against the loop that has run dry.
AskQuit(code) ==
    /\ casycom_quit(code) /\ asked' = code
    /\ UNCHANGED <<last_signal, waittime, timers, fired, alarm>>

-----------------------------------------------------------------------------
(* casycom_framework_init and casycom_main *)

\* The App gets its init message.
casycom_framework_init ==
    /\ pc[Loop] = "init"
    /\ CallNext(Loop, "start")
    /\ UNCHANGED loopVars

casycom_main ==
    /\ pc[Loop] = "start"
    /\ quitting' = FALSE
    /\ Goto(Loop, "deliver")
    /\ UNCHANGED <<queueVars, sendVars, last_signal, exit_code, waittime, timers, fired, asked, alarm>>

Test ==
    /\ pc[Loop] = "test"
    /\ Goto(Loop, IF quitting THEN "exited" ELSE "deliver")
    /\ UNCHANGED <<queueVars, sendVars, loopVars>>

-----------------------------------------------------------------------------
(* casycom_do_message_queues *)

DeliverMessage ==
    /\ pc[Loop] = "deliver" /\ at < Len(inq)
    /\ at' = at + 1
    /\ delivered' = Append(delivered, inq[at + 1])
    /\ Goto(Loop, "handle")
    /\ UNCHANGED <<inq, outq, lock, sent, failed, sendVars, loopVars>>

AllDelivered ==
    /\ pc[Loop] = "deliver" /\ at = Len(inq)
    /\ Goto(Loop, "clear")
    /\ UNCHANGED <<queueVars, sendVars, loopVars>>

\* What the handler does before it returns.
HandlerSends ==
    /\ pc[Loop] = "handle" /\ "send" \in Handlers
    /\ CallNext(Loop, "handle")
    /\ UNCHANGED loopVars

HandlerWatches ==
    /\ pc[Loop] = "handle" /\ "watch" \in Handlers
    /\ timers = "none" /\ timers' = "watching"
    /\ UNCHANGED <<queueVars, sendVars, last_signal, quitting, exit_code, waittime, fired, asked, alarm, pc>>

HandlerQuits ==
    /\ pc[Loop] = "handle" /\ "quit" \in Handlers
    /\ \E code \in {EXIT_SUCCESS, EXIT_FAILURE} : AskQuit(code)
    /\ UNCHANGED <<queueVars, sendVars, pc>>

HandlerReturns ==
    /\ pc[Loop] = "handle"
    /\ Goto(Loop, "deliver")
    /\ UNCHANGED <<queueVars, sendVars, loopVars>>

\* Nobody handles the error it left; casycom_forward_error returned false.
HandlerFails ==
    /\ pc[Loop] = "handle" /\ "fail" \in Handlers
    /\ failed' = TRUE
    /\ AskQuit(EXIT_FAILURE)
    /\ Goto(Loop, "clear")
    /\ UNCHANGED <<inq, outq, lock, at, sent, delivered, sendVars>>

ClearInput ==
    /\ pc[Loop] = "clear"
    /\ inq' = <<>> /\ at' = 0
    /\ Goto(Loop, "swap")
    /\ UNCHANGED <<outq, lock, sent, delivered, failed, sendVars, loopVars>>

\* Mutant: the queues are exchanged without waiting for the lock.
SwapUnlocked ==
    /\ pc[Loop] = "swap"
    /\ lock' = TRUE
    /\ Goto(Loop, "swapping")
    /\ UNCHANGED <<inq, outq, at, sent, delivered, failed, sendVars, loopVars>>

SwapAcquire ==
    /\ pc[Loop] = "swap" /\ ~lock
    /\ lock' = TRUE
    /\ Goto(Loop, "swapping")
    /\ UNCHANGED <<inq, outq, at, sent, delivered, failed, sendVars, loopVars>>

\* Mutant: the lock is released between the two halves of the exchange.
SwapInAndRelease ==
    /\ pc[Loop] = "swapping"
    /\ inq' = outq
    /\ lock' = FALSE
    /\ Goto(Loop, "swapped")
    /\ UNCHANGED <<outq, at, sent, delivered, failed, sendVars, loopVars>>

\* vector_swap copies one vector over the other, and then the other back.
SwapIn ==
    /\ pc[Loop] = "swapping"
    /\ inq' = outq
    /\ Goto(Loop, "swapped")
    /\ UNCHANGED <<outq, lock, at, sent, delivered, failed, sendVars, loopVars>>

SwapOut ==
    /\ pc[Loop] = "swapped"
    /\ outq' = <<>>
    /\ lock' = FALSE
    /\ Goto(Loop, "idle")
    /\ UNCHANGED <<inq, at, sent, delivered, failed, sendVars, loopVars>>

-----------------------------------------------------------------------------
(* casycom_idle *)

casycom_send_signal_message ==
    /\ pc[Loop] = "idle"
    /\ IF last_signal = 0
       THEN Goto(Loop, "wait") /\ UNCHANGED <<queueVars, ret, arg>>
       ELSE Call(Loop, <<Sig, last_signal>>, "signalled")
    /\ alarm' = (alarm /\ last_signal = 0)
    /\ UNCHANGED <<count, last_signal, quitting, exit_code, waittime, timers, fired, asked>>

\* Mutant: the signal is not reset once its message is sent.
SignalKept ==
    /\ pc[Loop] = "signalled"
    /\ Goto(Loop, "wait")
    /\ UNCHANGED <<queueVars, sendVars, loopVars>>

SignalSent ==
    /\ pc[Loop] = "signalled"
    /\ last_signal' = 0
    /\ Goto(Loop, "wait")
    /\ UNCHANGED <<queueVars, sendVars, quitting, exit_code, waittime, timers, fired, asked, alarm>>

\* Mutant: the wait has no limit if only casycom_quit was called.
WaitForMessages ==
    /\ pc[Loop] = "wait"
    /\ timers' = IF timers = "fired" THEN "none" ELSE timers
    /\ waittime' = IF Len(inq) + Len(outq) > 0 THEN 0 ELSE -1
    /\ Goto(Loop, "poll")
    /\ UNCHANGED <<queueVars, sendVars, last_signal, quitting, exit_code, fired, asked, alarm>>

\* Mutant: the messages that wait in the queues are not looked at.
WaitForQuit ==
    /\ pc[Loop] = "wait"
    /\ timers' = IF timers = "fired" THEN "none" ELSE timers
    /\ waittime' = IF quitting THEN 0 ELSE -1
    /\ Goto(Loop, "poll")
    /\ UNCHANGED <<queueVars, sendVars, last_signal, quitting, exit_code, fired, asked, alarm>>

\* A Timer that has fired is unused, and is destroyed.  The sizes are read
\* without the lock.
ChooseWait ==
    /\ pc[Loop] = "wait"
    /\ timers' = IF timers = "fired" THEN "none" ELSE timers
    /\ waittime' = IF Len(inq) + Len(outq) > 0 \/ quitting THEN 0 ELSE -1
    /\ Goto(Loop, "poll")
    /\ UNCHANGED <<queueVars, sendVars, last_signal, quitting, exit_code, fired, asked, alarm>>

\* Timer_run_timer returns at once if there is nothing to watch.
Timer_run_timer ==
    /\ pc[Loop] = "poll"
    /\ Goto(Loop, IF timers = "none" THEN "check" ELSE "polling")
    /\ UNCHANGED <<queueVars, sendVars, loopVars>>

PollTimesOut ==
    /\ pc[Loop] = "polling" /\ waittime = 0
    /\ Goto(Loop, "check")
    /\ UNCHANGED <<queueVars, sendVars, loopVars>>

\* The file descriptor is ready: the owner of the Timer gets a message.
PollReady ==
    /\ pc[Loop] = "polling" /\ timers = "watching"
    /\ CallNext(Loop, "check")
    /\ timers' = "fired"
    /\ UNCHANGED <<last_signal, quitting, exit_code, waittime, fired, asked, alarm>>

\* Mutant: the input queue is not counted.
CheckOutput ==
    /\ pc[Loop] = "check"
    /\ IF timers = "none" /\ Len(outq) = 0
       THEN casycom_quit(EXIT_SUCCESS)
       ELSE UNCHANGED <<quitting, exit_code>>
    /\ Goto(Loop, "test")
    /\ UNCHANGED <<queueVars, sendVars, last_signal, waittime, timers, fired, asked, alarm>>

\* Quit when there are no more packets or timers
CheckEmpty ==
    /\ pc[Loop] = "check"
    /\ IF timers = "none" /\ Len(inq) + Len(outq) = 0
       THEN casycom_quit(EXIT_SUCCESS)
       ELSE UNCHANGED <<quitting, exit_code>>
    /\ Goto(Loop, "test")
    /\ UNCHANGED <<queueVars, sendVars, last_signal, waittime, timers, fired, asked, alarm>>

-----------------------------------------------------------------------------
\* The signal handler, on the thread of the loop, between any two steps of it.
\* It interrupts poll if the loop is inside.  The build is the one for debugging:
\* with NDEBUG each signal also sets an alarm, and the process is killed if the
\* loop has not sent a signal message one second later.
casycom_on_msg_signal(sig) ==
    /\ pc[Loop] # "exited" /\ sig \notin fired
    /\ fired' = fired \cup {sig}
    /\ last_signal' = sig
    /\ IF sig \in QuitSignals
       THEN /\ casycom_quit(qc_ShellSignalQuitOffset + sig)
            /\ asked' = qc_ShellSignalQuitOffset + sig
       ELSE UNCHANGED <<quitting, exit_code, asked>>
    /\ IF pc[Loop] = "polling" THEN Goto(Loop, "check") ELSE UNCHANGED pc
    /\ UNCHANGED <<queueVars, sendVars, waittime, timers, alarm>>

\* Mutant: no alarm is set.
FatalWithoutAlarm(t) ==
    /\ stopped = {} /\ pc[t] \in {"locked", "emplaced", "swapping", "swapped"}
    /\ stopped' = {t}
    /\ UNCHANGED <<queueVars, sendVars, loopVars, pc>>

\* A fatal signal on a thread that holds the lock.  The thread calls exit, which
\* calls casycom_reset, and spins there on the lock that it holds itself; the
\* others go on.  Elsewhere exit comes to an end, by way of casycom_reset.
casycom_on_fatal_signal(t) ==
    /\ stopped = {} /\ pc[t] \in {"locked", "emplaced", "swapping", "swapped"}
    /\ stopped' = {t} /\ alarm' = TRUE
    /\ UNCHANGED <<queueVars, sendVars, pc>>
    /\ UNCHANGED <<last_signal, quitting, exit_code, waittime, timers, fired, asked>>

\* SIGALRM is the second fatal signal, and ends the process.
DoubleSignal ==
    /\ alarm /\ stopped' = Thread /\ alarm' = FALSE
    /\ UNCHANGED <<queueVars, sendVars, pc>>
    /\ UNCHANGED <<last_signal, quitting, exit_code, waittime, timers, fired, asked>>

-----------------------------------------------------------------------------
Init ==
    /\ inq = <<>> /\ outq = <<>> /\ lock = FALSE /\ at = 0
    /\ pc = [t \in Thread |-> IF t = Loop THEN "init" ELSE "run"]
    /\ ret = "init" /\ arg = [t \in Thread |-> <<t, 0>>] /\ count = [t \in Thread |-> 0]
    /\ last_signal = 0 /\ quitting = FALSE /\ exit_code = EXIT_SUCCESS
    /\ waittime = 0 /\ timers = "none" /\ alarm = FALSE /\ stopped = {}
    /\ sent = <<>> /\ delivered = <<>> /\ failed = FALSE /\ fired = {} /\ asked = NoCode

Runs(t) == t \notin stopped /\ UNCHANGED stopped

LoopStep ==
    /\ Runs(Loop)
    /\ \/ Sending(Loop) \/ casycom_framework_init \/ casycom_main \/ Test
       \/ DeliverMessage \/ AllDelivered \/ HandlerReturns \/ HandlerFails
       \/ ClearInput \/ SwapAcquire \/ SwapIn \/ SwapOut
       \/ casycom_send_signal_message \/ SignalSent \/ ChooseWait
       \/ Timer_run_timer \/ PollTimesOut \/ CheckEmpty

\* What a handler does besides returning, a ready descriptor and a signal.
OtherStep ==
    /\ Runs(Loop)
    /\ \/ HandlerSends \/ HandlerWatches \/ HandlerQuits \/ PollReady
       \/ \E sig \in Signals : casycom_on_msg_signal(sig)

Next ==
    \/ LoopStep \/ OtherStep
    \/ \E t \in Producers : Runs(t) /\ (Produce(t) \/ Sending(t))
    \/ \E t \in Fatal : casycom_on_fatal_signal(t)
    \/ DoubleSignal

Spec == Init /\ [][Next]_vars

\* The scheduler runs every thread, handlers return and the alarm goes off.
\* Nothing makes a file descriptor ready, a thread send or a signal arrive.
FairSpec ==
    /\ Spec
    /\ WF_vars(LoopStep)
    /\ WF_vars(Runs(Loop) /\ HandlerReturns)
    /\ \A t \in Producers : WF_vars(Runs(t) /\ Sending(t))
    /\ WF_vars(DoubleSignal)

-----------------------------------------------------------------------------
(* Properties *)

\* The messages of the input queue that are still to be delivered, and those
\* that are written in the output queue and not yet taken.
Remaining == [i \in 1 .. Len(inq) - at |-> inq[at + i]]
Holding(t) == pc[t] \in {"locked", "emplaced", "swapping", "swapped"}
Emplaced == \E t \in Thread : pc[t] = "emplaced"
Written ==
    IF pc[Loop] = "swapped" THEN <<>>
    ELSE IF Emplaced THEN [i \in 1 .. Len(outq) - 1 |-> outq[i]]
    ELSE outq

\* The lock is held by the one thread that is between acquire_lock and
\* release_lock.
LockHeldByOne ==
    /\ lock = \E t \in Thread : Holding(t)
    /\ \A t, u \in Thread : Holding(t) /\ Holding(u) => t = u

\* Nothing is lost, doubled or overtaken on the way through the two queues:
\* what was delivered and what is in the queues is all that was sent, in the
\* order of sending, whatever the threads do around the exchange.
InOrder == ~failed => delivered \o Remaining \o Written = sent

\* casycom_queue_message and casycom_do_message_queues keep both queues sound
\* between any two steps of the threads.
QueuesSound == TypeOK /\ LockHeldByOne /\ InOrder

\* The queues implement MsgFifo.
Fifo == INSTANCE MsgFifo
FifoSpec == Fifo!FifoSpec

\* A signal becomes at most one message.
SignalOnce ==
    \A i, j \in DOMAIN sent : sent[i][1] = Sig /\ sent[i] = sent[j] => i = j

\* "Quit when there are no more packets or timers" (main.c:580): a loop that
\* ends without being asked to has delivered all that its objects have sent.
RunsDry ==
    pc[Loop] = "exited" /\ asked = NoCode =>
        \A i \in DOMAIN sent : sent[i][1] = Loop => i <= Len(delivered)

\* After casycom_quit in a handler, casycom_main returns, whatever threads send
\* and whichever signals become messages.
QuitStops ==
    quitting ~> (pc[Loop] = "exited" \/ fired \cap QuitSignals # {} \/ stopped # {})

\* A message sent by an object is delivered, unless the loop or the process ends.
ObjectMessageDelivered ==
    \A n \in 1 .. MaxSend :
        (\E i \in DOMAIN sent : sent[i] = <<Loop, n>>)
            ~> (\/ pc[Loop] = "exited" \/ stopped # {}
                \/ \E i \in DOMAIN delivered : delivered[i] = <<Loop, n>>)

\* A process that gets a fatal signal ends, also if the signal comes while the
\* lock is held, which casycom_reset waits for.  Only another thread's signal
\* message may prevent that, since it takes the alarm back.
FatalEnds ==
    (stopped # {} /\ (Loop \in stopped \/ fired = {}))
        ~> (stopped = Thread \/ (Loop \notin stopped /\ fired # {}))

-----------------------------------------------------------------------------
(* Properties stated by the repository that the code does not have *)

\* "Sets the quit flag, causing the event loop to quit once all queued events
\* are processed" (main.c:546).
QuitDrains == pc[Loop] = "exited" /\ ~failed => Len(delivered) = Len(sent)

\* "The main event loop. Returns exit code." (main.c:562), that of casycom_quit.
ExitCodeKept == pc[Loop] = "exited" /\ asked # NoCode => exit_code = asked

\* "message sending is thread safe" (test/nfwrk.c:13): what another thread sends
\* to a running loop is delivered.
ThreadMessageDelivered ==
    \A t \in Producers, n \in 1 .. MaxSend :
        (\E i \in DOMAIN sent : sent[i] = <<t, n>>)
            ~> (pc[Loop] = "exited" \/ \E i \in DOMAIN delivered : delivered[i] = <<t, n>>)

\* "Sets the quit flag, causing the event loop to quit" (main.c:546), when it is
\* casycom_on_msg_signal that does so.
SignalStops == quitting ~> (pc[Loop] = "exited")

\* "converts incoming signals to events delivered to the app object"
\* (test/fwork.c:13).
SignalConverted ==
    \A sig \in Signals :
        (sig \in fired) ~> (pc[Loop] = "exited" \/ \E i \in DOMAIN sent : sent[i] = <<Sig, sig>>)

\* "the alarm was set to check for infinite loops" (main.c:140): a process that
\* cannot exit is ended by it.
FatalStops == stopped # {} ~> stopped = Thread
=============================================================================
