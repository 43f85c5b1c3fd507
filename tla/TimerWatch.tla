----------------------------- MODULE TimerWatch ------------------------------
(***************************************************************************)
(* Timer objects and the loop that serves them (timer.c).                  *)
(*                                                                         *)
(* The owner of a proxy asks to watch a file descriptor, a timeout or both *)
(* by a message.  The first message makes the Timer; the Timer fires once, *)
(* by a message to its owner, is marked unused, and is destroyed when the  *)
(* loop is next idle; the next watch message makes another.  All of this   *)
(* goes through the queues, so that requests, answers and the destruction  *)
(* of the Timer pass one another.                                          *)
(***************************************************************************)
EXTENDS Integers, Sequences, Functions, SeqFilter

CONSTANTS
    Timers,         \* the proxies to Timers, each with its owner
    Fds,            \* file descriptors
    Conditions,     \* what can happen to one: subset of {"read", "err", "hup"}
    Timeouts,       \* in ms
    Loops,          \* who runs the loop: subset of {"main", "own"}, casycom_main
                    \* or the program itself, around casycom_loop_once
    INT_MAX,        \* of the int that poll takes
    TIMER_MAX,      \* the timeouts above are no timeouts
    MaxNow,         \* bounds: the time,
    MaxWatch        \*   the requests made through all proxies

TIMER_NONE == 2 * TIMER_MAX + 1
NoFd == -1

ASSUME TimerAssumption ==
    /\ NoFd \notin Fds
    /\ Conditions \subseteq {"read", "err", "hup"}
    /\ Timeouts \subseteq 0 .. TIMER_MAX
    /\ Loops \subseteq {"main", "own"}
    /\ INT_MAX \in Nat /\ TIMER_MAX \in Nat /\ MaxNow \in Nat /\ MaxWatch \in Nat

VARIABLES
    loop,           \* the member of Loops; it does not change
    now,            \* the clock
    inq, outq,      \* the message queues, as far as they concern Timers
    list,           \* _timer_watch_list
    timer,          \* the Timer at the end of each proxy
    ready,          \* what poll would say of each file descriptor
    phase,          \* where the loop is
    wake,           \* when the poll in progress times out; TIMER_NONE for never
    proxy,          \* proxies that have not been destroyed
    last,           \* history: the last request made through each proxy,
    count,          \*   how many requests have been made,
    want            \*   the owners that wait for an answer

vars == <<loop, now, inq, outq, list, timer, ready, phase, wake, proxy, last, count, want>>
ownerVars == <<proxy, last, count, want>>

OwnLoop == loop = "own"

\* The ways of PTimer_watch: stop, timer, wait_read, wait_read_with_timeout.
WATCH_STOP == {}
Request ==
    {[cmd |-> WATCH_STOP, fd |-> NoFd, timeoutms |-> TIMER_NONE]}
    \cup [cmd : {{"timer"}}, fd : {NoFd}, timeoutms : Timeouts]
    \cup [cmd : {{"read"}}, fd : Fds, timeoutms : {TIMER_NONE}]
    \cup [cmd : {{"read", "timer"}}, fd : Fds, timeoutms : Timeouts]

Messages ==
    [kind : {"watch"}, t : Timers, req : Request] \cup
    [kind : {"fired"}, t : Timers, fd : Fds \cup {NoFd}]

TypeOK ==
    /\ loop \in Loops /\ now \in 0 .. MaxNow
    /\ inq \in Seq(Messages) /\ outq \in Seq(Messages)
    /\ list \in Seq(Timers)
    /\ timer \in [Timers -> [live : BOOLEAN, unused : BOOLEAN, nextfire : Nat,
                             cmd : SUBSET {"read", "timer"}, fd : Fds \cup {NoFd}]]
    /\ ready \in [Fds -> SUBSET Conditions]
    /\ phase \in {"check", "queues", "sweep", "idle", "poll", "host", "hostpoll", "done"}
    /\ wake \in Nat
    /\ proxy \subseteq Timers /\ want \subseteq Timers
    /\ last \in [Timers -> Request] /\ count \in 0 .. MaxWatch

-----------------------------------------------------------------------------
(* The owner *)

\* The request r is sent through proxy t; q is the output queue.
PTimer_watch(t, r, q) ==
    /\ t \in proxy /\ count < MaxWatch
    /\ outq' = Append(q, [kind |-> "watch", t |-> t, req |-> r])
    /\ last' = [last EXCEPT ![t] = r]
    /\ count' = count + 1
    /\ want' = IF r.cmd = WATCH_STOP THEN want \ {t} ELSE want \cup {t}

\* The owner runs, for some message that is not about Timers.
OwnerWatches ==
    /\ phase = "queues"
    /\ \E t \in Timers, r \in Request : PTimer_watch(t, r, outq)
    /\ UNCHANGED <<loop, now, inq, list, timer, ready, phase, wake, proxy>>

\* The Timer goes, and with it the requests still on their way to it.
OwnerDropsProxy ==
    /\ phase = "queues"
    /\ \E t \in proxy :
        /\ proxy' = proxy \ {t} /\ want' = want \ {t}
        /\ list' = Filter(list, Timers \ {t})
        /\ timer' = [timer EXCEPT ![t].live = FALSE, ![t].unused = FALSE]
    /\ UNCHANGED <<loop, now, inq, outq, ready, phase, wake, last, count>>

-----------------------------------------------------------------------------
(* Messages *)

Delivers(kind) == phase = "queues" /\ inq # <<>> /\ Head(inq).kind = kind

\* Made by the first message of the proxy t, and put into the list.
Timer_create(t) == list' = IF timer[t].live THEN list ELSE Append(list, t)

\* Mutant: a Timer that watches something does not take another request.
WatchOnce ==
    /\ Delivers("watch")
    /\ LET t == Head(inq).t
           r == Head(inq).req
           nextfire == IF r.timeoutms <= TIMER_MAX THEN r.timeoutms + now ELSE r.timeoutms
       IN  IF t \in proxy /\ ~timer[t].live
           THEN /\ Timer_create(t)
                /\ timer' = [timer EXCEPT ![t] = [live |-> TRUE, unused |-> @.unused,
                                                  nextfire |-> nextfire, cmd |-> r.cmd,
                                                  fd |-> r.fd]]
           ELSE UNCHANGED <<list, timer>>
    /\ inq' = Tail(inq)
    /\ UNCHANGED <<loop, now, outq, ready, phase, wake, ownerVars>>

\* The Timer is created if there is none, and takes the request.
Timer_Timer_watch ==
    /\ Delivers("watch")
    /\ LET t == Head(inq).t
           r == Head(inq).req
           nextfire == IF r.timeoutms <= TIMER_MAX THEN r.timeoutms + now ELSE r.timeoutms
       IN  IF t \in proxy
           THEN /\ Timer_create(t)
                /\ timer' = [timer EXCEPT ![t] = [live |-> TRUE, unused |-> @.unused,
                                                  nextfire |-> nextfire, cmd |-> r.cmd,
                                                  fd |-> r.fd]]
           ELSE UNCHANGED <<list, timer>>
    /\ inq' = Tail(inq)
    /\ UNCHANGED <<loop, now, outq, ready, phase, wake, ownerVars>>

\* The owner has its answer.  It may use up what was ready, and watch again.
TimerR_timer ==
    /\ Delivers("fired")
    /\ LET m == Head(inq) IN
        /\ \/ ready' = ready
           \/ m.fd # NoFd /\ ready' = [ready EXCEPT ![m.fd] = @ \ {"read"}]
        /\ \/ \E r \in Request : PTimer_watch(m.t, r, outq)
           \/ want' = want \ {m.t} /\ UNCHANGED <<outq, last, count>>
    /\ inq' = Tail(inq)
    /\ UNCHANGED <<loop, now, list, timer, phase, wake, proxy>>

SwapQueues ==
    /\ phase = "queues" /\ inq = <<>>
    /\ inq' = outq /\ outq' = <<>>
    /\ phase' = "sweep"
    /\ UNCHANGED <<loop, now, list, timer, ready, wake, ownerVars>>

\* Mutant: a Timer does not leave the list when it is destroyed.
DestroyListed ==
    /\ phase = "sweep"
    /\ timer' = [t \in Timers |->
                    [timer[t] EXCEPT !.live = @ /\ ~timer[t].unused, !.unused = FALSE]]
    /\ phase' = IF OwnLoop THEN "host" ELSE "idle"
    /\ UNCHANGED <<loop, now, inq, outq, list, ready, wake, ownerVars>>

\* Mutant: unused objects are destroyed only when there are no messages.
DestroyWhenQuiet ==
    /\ phase = "sweep"
    /\ IF inq = <<>>
       THEN /\ list' = Filter(list, {t \in Timers : ~timer[t].unused})
            /\ timer' = [t \in Timers |->
                            [timer[t] EXCEPT !.live = @ /\ ~timer[t].unused, !.unused = FALSE]]
       ELSE UNCHANGED <<list, timer>>
    /\ phase' = IF OwnLoop THEN "host" ELSE "idle"
    /\ UNCHANGED <<loop, now, inq, outq, ready, wake, ownerVars>>

\* casycom_destroy_unused_objects, with Timer_destroy.
Timer_destroy ==
    /\ phase = "sweep"
    /\ list' = Filter(list, {t \in Timers : ~timer[t].unused})
    /\ timer' = [t \in Timers |->
                    [timer[t] EXCEPT !.live = @ /\ ~timer[t].unused, !.unused = FALSE]]
    /\ phase' = IF OwnLoop THEN "host" ELSE "idle"
    /\ UNCHANGED <<loop, now, inq, outq, ready, wake, ownerVars>>

-----------------------------------------------------------------------------
(* Timer_run_timer *)

\* A conversion from casytimer_t to int.
ToInt(x) ==
    LET y == x % (2 * INT_MAX + 2) IN IF y > INT_MAX THEN y - (2 * INT_MAX + 2) ELSE y

\* Mutant: the comparison is reversed, and the last deadline is found.
farthest ==
    CHOOSE x \in 0 .. TIMER_MAX :
        /\ x = TIMER_MAX \/ \E t \in Range(list) : timer[t].nextfire = x
        /\ \A t \in Range(list) : timer[t].nextfire = TIMER_NONE \/ timer[t].nextfire <= x
        /\ x = TIMER_MAX => \A t \in Range(list) : timer[t].nextfire = TIMER_NONE

nearest ==
    CHOOSE x \in 0 .. TIMER_MAX :
        /\ x = TIMER_MAX \/ \E t \in Range(list) : timer[t].nextfire = x
        /\ \A t \in Range(list) : x <= timer[t].nextfire

Watched(t) == timer[t].fd # NoFd /\ timer[t].cmd # WATCH_STOP
\* poll always reports errors and hangups.
PollEvents(t) == IF Watched(t) THEN ready[timer[t].fd] \cap (timer[t].cmd \cup {"err", "hup"}) ELSE {}
SomeEvent == \E t \in Range(list) : PollEvents(t) # {}

\* poll for ms milliseconds, without limit if that is negative.
PollFor(ms) == wake' = IF ms < 0 THEN TIMER_NONE ELSE now + ms

\* waittime of casycom_idle; in casycom_loop_once it is zero.
StartPoll ==
    /\ phase \in {"idle", "check"} /\ list # <<>>
    /\ LET toWait == IF OwnLoop \/ inq # <<>> \/ outq # <<>> THEN 0 ELSE -1
       IN  PollFor(IF toWait # 0 /\ nearest < TIMER_MAX THEN ToInt(nearest - now) ELSE toWait)
    /\ phase' = "poll"
    /\ UNCHANGED <<loop, now, inq, outq, list, timer, ready, ownerVars>>

\* "Once the timer or the fd fires, it is removed", next time the loop is idle.
Fire(firing) ==
    LET fired == Filter(list, firing) IN
    /\ outq' = outq \o [i \in DOMAIN fired |-> [kind |-> "fired", t |-> fired[i],
                                                fd |-> timer[fired[i]].fd]]
    /\ timer' = [t \in Timers |-> [timer[t] EXCEPT !.unused = @ \/ t \in Range(fired)]]

Expired(t) == timer[t].nextfire <= now
\* Mutant: only errors count.
HasError(t) == PollEvents(t) \cap {"err"} # {}

HasEvent(t) == PollEvents(t) \cap (timer[t].cmd \cup {"err"}) # {}

\* poll returns: some event, the timeout, or a signal before either.
Polled ==
    /\ phase' = "queues"
    /\ wake' = 0
    /\ UNCHANGED <<loop, now, inq, list, ready, ownerVars>>

PollReady ==
    /\ phase = "poll" /\ SomeEvent
    /\ Fire({t \in Timers : Expired(t) \/ HasEvent(t)})
    /\ Polled

PollTimesOut ==
    /\ phase = "poll" /\ ~SomeEvent /\ wake <= now
    /\ Fire({t \in Timers : Expired(t)})
    /\ Polled

PollInterrupted ==
    /\ phase = "poll" /\ ~SomeEvent
    /\ Fire({t \in Timers : Expired(t)})
    /\ Polled

\* Timer_run_timer returns false.  casycom_idle then quits if the queues are
\* empty, and otherwise the messages are delivered.
NoTimers ==
    /\ phase \in {"idle", "check"} /\ list = <<>>
    /\ phase' = IF ~OwnLoop /\ inq = <<>> /\ outq = <<>> THEN "done" ELSE "queues"
    /\ UNCHANGED <<loop, now, inq, outq, list, timer, ready, wake, ownerVars>>

-----------------------------------------------------------------------------
(* The loop of a program without framework, as in test/nfwrk.c *)

\* The timeout is passed only when there are no messages, and stays 0 otherwise.
Timer_watch_list_for_poll ==
    /\ phase = "host" /\ list # <<>>
    /\ PollFor(IF inq # <<>> \/ outq # <<>> THEN 0
               ELSE IF now < nearest THEN ToInt(nearest - now) ELSE -1)
    /\ phase' = "hostpoll"
    /\ UNCHANGED <<loop, now, inq, outq, list, timer, ready, ownerVars>>

HostPolled ==
    /\ phase = "hostpoll" /\ (SomeEvent \/ wake <= now)
    /\ phase' = "check" /\ wake' = 0
    /\ UNCHANGED <<loop, now, inq, outq, list, timer, ready, ownerVars>>

\* Nothing is watched: the program quits if there are no messages either.
HostUnwatched ==
    /\ phase = "host" /\ list = <<>>
    /\ phase' = IF inq = <<>> /\ outq = <<>> THEN "done" ELSE "check"
    /\ UNCHANGED <<loop, now, inq, outq, list, timer, ready, wake, ownerVars>>

-----------------------------------------------------------------------------
(* The environment *)

Tick ==
    /\ now < MaxNow /\ now' = now + 1
    /\ UNCHANGED <<loop, inq, outq, list, timer, ready, phase, wake, ownerVars>>

FdReady ==
    /\ \E f \in Fds, c \in Conditions : ready' = [ready EXCEPT ![f] = @ \cup {c}]
    /\ UNCHANGED <<loop, now, inq, outq, list, timer, phase, wake, ownerVars>>

-----------------------------------------------------------------------------
Init ==
    /\ loop \in Loops /\ now = 0 /\ inq = <<>> /\ outq = <<>> /\ list = <<>>
    /\ timer = [t \in Timers |-> [live |-> FALSE, unused |-> FALSE, nextfire |-> TIMER_NONE,
                                  cmd |-> WATCH_STOP, fd |-> NoFd]]
    /\ ready = [f \in Fds |-> {}]
    /\ phase = IF OwnLoop THEN "check" ELSE "queues"
    /\ wake = 0
    /\ proxy = Timers /\ want = {} /\ count = 0
    /\ last = [t \in Timers |-> [cmd |-> WATCH_STOP, fd |-> NoFd, timeoutms |-> TIMER_NONE]]

LoopStep ==
    \/ Timer_Timer_watch \/ TimerR_timer \/ SwapQueues \/ Timer_destroy
    \/ StartPoll \/ PollReady \/ PollTimesOut \/ NoTimers
    \/ Timer_watch_list_for_poll \/ HostPolled \/ HostUnwatched

Next == LoopStep \/ PollInterrupted \/ OwnerWatches \/ OwnerDropsProxy \/ Tick \/ FdReady

Spec == Init /\ [][Next]_vars

\* The loop runs, and the clock.
FairSpec == Spec /\ WF_vars(LoopStep) /\ WF_vars(Tick)
-----------------------------------------------------------------------------
(* Properties *)

Queued == Range(inq) \cup Range(outq)
Answered(t) == \E m \in Queued : m.kind = "fired" /\ m.t = t
Asked(t) == \E m \in Queued : m.kind = "watch" /\ m.t = t

\* The list has every Timer that exists, once: Timer_run_timer uses no Timer
\* that has been destroyed and misses none.
ListComplete ==
    /\ \A i, j \in DOMAIN list : list[i] = list[j] => i = j
    /\ Range(list) = {t \in Timers : timer[t].live}

\* What Timer_run_timer finds in the list, at every step.
ListSound == TypeOK /\ ListComplete

\* An owner is never told twice of one request: a Timer that has fired is gone
\* before Timer_run_timer looks at the list again, and no new one fires before
\* the answer of the old one is delivered.
OneAnswer ==
    /\ phase = "poll" => \A t \in Timers : ~timer[t].unused
    /\ \A i, j \in DOMAIN (inq \o outq) :
            LET m == (inq \o outq)[i]
                n == (inq \o outq)[j]
            IN  m.kind = "fired" /\ n.kind = "fired" /\ m.t = n.t => i = j

\* No request is forgotten, even one that reaches a Timer which has fired and
\* is about to be destroyed: the request is queued, a Timer works on it, or an
\* answer is on its way that makes the owner ask again.
NotForgotten ==
    \A t \in want :
        \/ Asked(t) \/ Answered(t)
        \/ /\ timer[t].live /\ ~timer[t].unused
           /\ timer[t].cmd = last[t].cmd /\ timer[t].fd = last[t].fd

\* When poll waits for a limited time, that is over when the first Timer is due.
NoOversleep ==
    phase \in {"poll", "hostpoll"} /\ wake # TIMER_NONE /\ wake > now =>
        \A t \in Range(list) : wake <= timer[t].nextfire

\* The owner hears of a file descriptor that can be read, or has an error.
ReadyAnswered ==
    \A t \in Timers, f \in Fds :
        ~<>[](t \in want /\ last[t].fd = f /\ ready[f] \cap {"read", "err"} # {})

-----------------------------------------------------------------------------
(* Properties stated by the repository that the code does not have *)

\* "poll will exit when there are fds available or when the timer expires"
\* (timer.c:170): a Timer that is due fires.
ExpiredFires == \A t \in Timers : ~<>[](t \in Range(list) /\ timer[t].nextfire <= now)

\* "Errors will be detected when the client tries to use the fd" (timer.c:180):
\* the owner hears of a hangup, which poll reports whatever is asked for.
HangupAnswered ==
    \A t \in Timers, f \in Fds :
        ~<>[](t \in want /\ last[t].fd = f /\ "hup" \in ready[f])
=============================================================================
