-------------------------------- MODULE FdIO ---------------------------------
(***************************************************************************)
(* The FdIO object, which reads and writes the buffers of its owner through*)
(* a file descriptor that does not block (io.c).                           *)
(*                                                                         *)
(* Requests and answers are messages, delivered in rounds; an FdIO that has*)
(* met the end of the file is destroyed between rounds, and a message that *)
(* comes later makes another, which has no descriptor.  The Timer is taken *)
(* for what TimerWatch shows: it watches for the last request, and is not  *)
(* forgotten before it has answered.  Data are numbers of bytes, and an    *)
(* error is one that nobody handles.                                       *)
(***************************************************************************)
EXTENDS Integers, Sequences, SequencesExt, FiniteSetsExt

CONSTANTS
    ReadSize,       \* the space in the owner's read buffer
    WriteSizes,     \* the sizes of the blocks that the owner writes
    Pipe,           \* what the descriptor takes before it would block
    MaxData,        \* bounds: the bytes sent by the other end,
    MaxReads,       \*   the reads asked for,
    MaxWrites       \*   and the writes

ASSUME FdIOAssumption ==
    /\ ReadSize \in Nat \ {0} /\ WriteSizes \subseteq Nat /\ Pipe \in Nat
    /\ MaxData \in Nat /\ MaxReads \in Nat /\ MaxWrites \in Nat

VARIABLES
    inq, outq,      \* the message queues, as far as they concern the FdIO
    phase,          \* where the loop is
    o,              \* the FdIO
    rsize, wsize,   \* the bytes in the owner's two buffers
    watch,          \* what the Timer watches the descriptor for
    avail, space,   \* what can be read and written now
    closed,         \* the other end has been closed
    rwait, wwait,   \* the owner waits for an answer to a read, to a write
    reads, writes,  \* history: requests made,
    given, got      \*   bytes sent by the other end, and taken by the owner

queueVars == <<inq, outq, phase>>
fdVars == <<avail, space, closed, given>>
ownerVars == <<rwait, wwait, reads, writes, got>>
vars == <<queueVars, fdVars, ownerVars, o, rsize, wsize, watch>>

\* rbuf and wbuf: the pointer is not null.
NoObject == [live |-> FALSE, unused |-> FALSE, fd |-> FALSE, eof |-> FALSE,
             rbuf |-> FALSE, wbuf |-> FALSE]

\* to the FdIO: attach, read, write, timer.  To the owner: an answer with its
\* buffer, and one with a null pointer at the end of the file.
Messages == {"attach", "read", "write", "timer", "IOR_read", "IOR_written", "read_null", "written_null"}

TypeOK ==
    /\ inq \in Seq(Messages) /\ outq \in Seq(Messages)
    /\ phase \in {"queues", "idle", "poll", "failed"}
    /\ o \in [live : BOOLEAN, unused : BOOLEAN, fd : BOOLEAN, eof : BOOLEAN,
              rbuf : BOOLEAN, wbuf : BOOLEAN]
    /\ rsize \in 0 .. ReadSize /\ wsize \in Nat
    /\ watch \subseteq {"read", "write"}
    /\ avail \in 0 .. MaxData /\ space \in 0 .. Pipe
    /\ given \in 0 .. MaxData /\ got \in Nat
    /\ {closed, rwait, wwait} \subseteq BOOLEAN
    /\ reads \in 0 .. MaxReads /\ writes \in 0 .. MaxWrites

-----------------------------------------------------------------------------
(* FdIO_TimerR_timer: all that can be done now *)

\* How much is read: until the buffer is full or there is no more.
ReadCount(x) == IF x.rbuf /\ x.fd /\ ~x.eof THEN Min({avail, ReadSize - rsize}) ELSE 0

\* How much is written.  What the other end has yet to refuse may be taken.
WriteCounts(x, eof) ==
    LET most == IF x.wbuf /\ x.fd /\ ~eof THEN Min({space, wsize}) ELSE 0
    IN  IF closed THEN 0 .. most ELSE {most}

\* The last result of the loop that has read n bytes, and of that which has
\* written k.  Writing to a closed descriptor is a reset or an error.
ReadResult(x, n) ==
    IF ~x.rbuf \/ x.eof \/ rsize + n = ReadSize THEN {"ok"}
    ELSE IF ~x.fd THEN {"error"}
    ELSE IF closed THEN {"eof"}
    ELSE {"again"}

WriteResult(x, eof, k) ==
    IF ~x.wbuf \/ eof \/ k = wsize THEN {"ok"}
    ELSE IF ~x.fd THEN {"error"}
    ELSE IF closed THEN {"eof", "error"}
    ELSE {"again"}

\* Mutant: a part that is read replaces what was in the buffer.
BufferReplaced(n) == rsize' = (IF n > 0 THEN n ELSE rsize) /\ avail' = avail - n

BufferFilled(n) == rsize' = rsize + n /\ avail' = avail - n

\* Mutant: the second command is assigned, not added.
LastCommand(r, w) == IF w = "again" THEN {"write"} ELSE IF r = "again" THEN {"read"} ELSE {}

\* ccmd
Command(r, w) ==
    (IF r = "again" THEN {"read"} ELSE {}) \cup (IF w = "again" THEN {"write"} ELSE {})

\* The owner is told of the block, of which k bytes have been written now.
BlockWritten(k, eof) == k > 0 /\ (k = wsize \/ eof)

Answer(c, m) == IF c THEN <<m>> ELSE <<>>

\* x is the object as the caller left it.
FdIO_TimerR_timer(x) ==
    \E n \in {ReadCount(x)} : \E r \in ReadResult(x, n) :
    LET reof == x.eof \/ r = "eof" IN
    \E k \in WriteCounts(x, reof) : \E w \in WriteResult(x, reof, k) :
    LET weof == reof \/ w = "eof"
        cmd == Command(r, w)
    IN  /\ BufferFilled(n)
        /\ wsize' = wsize - k /\ space' = space - k
        /\ o' = [x EXCEPT !.eof = weof,
                          !.unused = @ \/ r = "eof" \/ w = "eof",
                          !.rbuf = @ /\ ~reof,
                          !.wbuf = @ /\ ~weof /\ k < wsize]
        /\ outq' = outq
            \o Answer(x.rbuf /\ ~x.eof /\ (n > 0 \/ reof), "IOR_read")
            \o Answer(x.rbuf /\ reof, "read_null")
            \o Answer(x.wbuf /\ ~reof /\ BlockWritten(k, weof), "IOR_written")
            \o Answer(x.wbuf /\ weof, "written_null")
        /\ watch' = IF cmd = {} THEN watch ELSE cmd
        /\ phase' = IF "error" \in {r, w} THEN "failed" ELSE phase

\* The message m is delivered to the FdIO, which is created if there is none.
Delivers(m) == phase = "queues" /\ inq # <<>> /\ Head(inq) = m
FdIO_create == IF o.live THEN o ELSE [NoObject EXCEPT !.live = TRUE]

FdIO_FdIO_attach ==
    /\ Delivers("attach") /\ inq' = Tail(inq)
    /\ o' = [FdIO_create EXCEPT !.fd = TRUE]
    /\ UNCHANGED <<outq, phase, fdVars, ownerVars, rsize, wsize, watch>>

FdIO_IO_read ==
    /\ Delivers("read") /\ inq' = Tail(inq)
    /\ FdIO_TimerR_timer([FdIO_create EXCEPT !.rbuf = TRUE])
    /\ UNCHANGED <<closed, given, ownerVars>>

FdIO_IO_write ==
    /\ Delivers("write") /\ inq' = Tail(inq)
    /\ FdIO_TimerR_timer([FdIO_create EXCEPT !.wbuf = TRUE])
    /\ UNCHANGED <<closed, given, ownerVars>>

\* The answer of a Timer to an FdIO that is gone makes another as well.
TimerFired ==
    /\ Delivers("timer") /\ inq' = Tail(inq)
    /\ FdIO_TimerR_timer(FdIO_create)
    /\ UNCHANGED <<closed, given, ownerVars>>

-----------------------------------------------------------------------------
(* The owner *)

PIO_read(q) ==
    /\ ~rwait /\ reads < MaxReads /\ reads' = reads + 1
    /\ outq' = Append(q, "read") /\ rwait' = TRUE

PIO_write(q) ==
    /\ ~wwait /\ writes < MaxWrites /\ writes' = writes + 1
    /\ wsize' \in WriteSizes
    /\ outq' = Append(q, "write") /\ wwait' = TRUE

OwnerAsks ==
    /\ phase = "queues"
    /\ \/ PIO_read(outq) /\ UNCHANGED <<wwait, writes, wsize>>
       \/ PIO_write(outq) /\ UNCHANGED <<rwait, reads>>
    /\ UNCHANGED <<inq, phase, fdVars, o, rsize, watch, got>>

\* The owner takes what is in the buffer.
IOR_read ==
    /\ Delivers("IOR_read") \/ Delivers("read_null")
    /\ inq' = Tail(inq)
    /\ got' = got + rsize /\ rsize' = 0
    /\ rwait' = FALSE
    /\ UNCHANGED <<outq, phase, fdVars, wwait, reads, writes, o, wsize, watch>>

IOR_written ==
    /\ Delivers("IOR_written") \/ Delivers("written_null")
    /\ inq' = Tail(inq)
    /\ wwait' = FALSE
    /\ UNCHANGED <<outq, phase, fdVars, rwait, reads, writes, got, o, rsize, wsize, watch>>

-----------------------------------------------------------------------------
(* The loop and the other end *)

SwapQueues ==
    /\ phase = "queues" /\ inq = <<>>
    /\ inq' = outq /\ outq' = <<>> /\ phase' = "idle"
    /\ UNCHANGED <<fdVars, ownerVars, o, rsize, wsize, watch>>

\* An unused FdIO is destroyed, and its Timer with it.
casycom_destroy_unused_objects ==
    /\ phase = "idle" /\ phase' = "poll"
    /\ o' = IF o.unused THEN NoObject ELSE o
    /\ watch' = IF o.unused THEN {} ELSE watch
    /\ UNCHANGED <<inq, outq, fdVars, ownerVars, rsize, wsize>>

Ready == {c \in watch : closed \/ (c = "read" /\ avail > 0) \/ (c = "write" /\ space > 0)}

TimerFires ==
    /\ phase = "poll" /\ phase' = "queues"
    /\ outq' = outq \o Answer(Ready # {}, "timer")
    /\ watch' = IF Ready # {} THEN {} ELSE watch
    /\ UNCHANGED <<inq, fdVars, ownerVars, o, rsize, wsize>>

OtherSends ==
    /\ ~closed /\ given < MaxData
    /\ given' = given + 1 /\ avail' = avail + 1
    /\ UNCHANGED <<queueVars, space, closed, ownerVars, o, rsize, wsize, watch>>

OtherReads ==
    /\ space < Pipe /\ space' = space + 1
    /\ UNCHANGED <<queueVars, avail, closed, given, ownerVars, o, rsize, wsize, watch>>

OtherCloses ==
    /\ closed' = TRUE
    /\ UNCHANGED <<queueVars, avail, space, given, ownerVars, o, rsize, wsize, watch>>

Init ==
    /\ inq = <<"attach">> /\ outq = <<>> /\ phase = "queues"
    /\ o = NoObject /\ rsize = 0 /\ wsize = 0 /\ watch = {}
    /\ avail = 0 /\ space = Pipe /\ closed = FALSE
    /\ rwait = FALSE /\ wwait = FALSE /\ reads = 0 /\ writes = 0 /\ given = 0 /\ got = 0

LoopStep ==
    \/ FdIO_FdIO_attach \/ FdIO_IO_read \/ FdIO_IO_write \/ TimerFired
    \/ IOR_read \/ IOR_written
    \/ SwapQueues \/ casycom_destroy_unused_objects \/ TimerFires

Next == LoopStep \/ OwnerAsks \/ OtherSends \/ OtherReads \/ OtherCloses

Spec == Init /\ [][Next]_vars

\* The loop runs.  Nothing is asked of the owner and of the other end.
FairSpec == Spec /\ WF_vars(LoopStep)

-----------------------------------------------------------------------------
(* Properties *)

Mail == inq \o outq

\* Every byte that came is in the descriptor, in the buffer or with the owner;
\* none is lost when reads, the end of the file and the destruction of the FdIO
\* pass one another.
NothingLost == given = avail + rsize + got

\* "Sent when the entire requested block has been written" (io.h:44): while the
\* file has not ended, the answer to a write is on its way only if none of the
\* block is left and the FdIO has let go of the buffer, and there is one answer.
BlockAnswered ==
    o.fd /\ ~o.eof /\ "IOR_written" \in Range(Mail) =>
        /\ wwait /\ wsize = 0 /\ ~o.wbuf
        /\ \A i, j \in DOMAIN Mail : Mail[i] = "IOR_written" /\ Mail[j] = "IOR_written" => i = j

\* FdIO_TimerR_timer keeps account of bytes and blocks.
BytesSound == TypeOK /\ NothingLost /\ BlockAnswered

\* A read is answered when there is something to read, and when the other end
\* has been closed, also while a write waits for space.  (The FdIO with the
\* descriptor may be destroyed first, and an error ends the loop.)
ReadAnswered == ~<>[](rwait /\ o.fd /\ phase # "failed" /\ (avail > 0 \/ closed))

\* A write is answered when there is space for it, also while a read waits.
WriteAnswered == ~<>[](wwait /\ o.fd /\ phase # "failed" /\ (space > 0 \/ closed))

\* The one Timer serves both requests.
RequestsAnswered == ReadAnswered /\ WriteAnswered
=============================================================================
