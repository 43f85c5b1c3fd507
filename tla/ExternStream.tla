---------------------------- MODULE ExternStream -----------------------------
(***************************************************************************)
(* Messages through the socket of an Extern: Extern_writing at one end and *)
(* Extern_reading at the other (xcom.c).                                   *)
(*                                                                         *)
(* A message is a fixed header, a variable header with the names, and a    *)
(* body.  Both ends work with what the socket takes or gives, any number   *)
(* of bytes at a time, and the reader asks for the rest of a message and   *)
(* the fixed header of the next one at once.                               *)
(***************************************************************************)
EXTENDS Integers, Sequences, SequencesExt, FiniteSetsExt

CONSTANTS
    Kinds,          \* messages: [hsz, sz, fd], the sizes of the whole header
                    \* and of the body, and whether an fd is passed
    Fixed,          \* the size of ExtMsgHeader
    Capacity,       \* bytes in the socket
    MaxMsgs,        \* bounds: the messages sent,
    MaxFds          \*   those of them that pass an fd

ASSUME StreamAssumption ==
    /\ Kinds \subseteq [hsz : Nat, sz : Nat, fd : BOOLEAN]
    /\ Fixed \in Nat \ {0, 1} /\ \A k \in Kinds : k.hsz > Fixed
    /\ Capacity \in Nat /\ MaxMsgs \in Nat /\ MaxFds \in Nat

VARIABLES
    queued,         \* the messages given to Extern_queue_outgoing_message
    written,        \* how many of them have left outgoing
    outHWritten, outBWritten,
    fdpassed,       \* fdoffset of outgoing[0] has been set to NO_FD_IN_MESSAGE
    socket,         \* the bytes under way
    inHRead, inBRead, inMsg, inLastFd,
    hbuf,           \* inHBuf.h
    received,       \* the messages given to Extern_queue_incoming_message
    open,           \* the ends that have not been closed
    broken          \* the reader has closed on an error

outVars == <<queued, written, outHWritten, outBWritten, fdpassed>>
inVars == <<inHRead, inBRead, inMsg, inLastFd, hbuf, received, broken>>
vars == <<outVars, inVars, socket, open>>

\* Message m is the m-th that was queued, and so is its fd.
NoFd == 0
NoMsg == [m |-> 0, sz |-> 0, fd |-> FALSE, good |-> FALSE]

\* Byte k of message m; fd says whether the header has an fdoffset, and anc is
\* the fd that travels with the byte.
Byte(m, k, fd, anc) == [m |-> m, k |-> k, fd |-> fd, anc |-> anc]
NoByte == Byte(0, 0, FALSE, NoFd)
Bytes == [m : Nat, k : Nat, fd : BOOLEAN, anc : Nat]

TypeOK ==
    /\ queued \in Seq(Kinds) /\ written \in 0 .. Len(queued)
    /\ outHWritten \in Nat /\ outBWritten \in Nat /\ fdpassed \in BOOLEAN
    /\ socket \in Seq(Bytes) /\ Len(socket) <= Capacity
    /\ inHRead \in Nat /\ inBRead \in Nat /\ inLastFd \in Nat
    /\ inMsg \in [m : Nat, sz : Nat, fd : BOOLEAN, good : BOOLEAN]
    /\ inHRead < Fixed <=> inMsg = NoMsg
    /\ hbuf \in [1 .. Fixed -> Bytes]
    /\ received \in Seq([m : Nat, fd : Nat])
    /\ open \subseteq {"writer", "reader"} /\ broken \in BOOLEAN

-----------------------------------------------------------------------------
(* The sender *)

Extern_queue_outgoing_message ==
    /\ "writer" \in open /\ Len(queued) < MaxMsgs
    /\ \E kind \in Kinds : queued' = Append(queued, kind)
    /\ Cardinality({m \in DOMAIN queued' : queued'[m].fd}) <= MaxFds
    /\ UNCHANGED <<written, outHWritten, outBWritten, fdpassed, inVars, socket, open>>

\* Mutant: a message that has been written stays in outgoing.
ResendMessage(h, b, fd) ==
    LET isDone == b >= queued[written + 1].sz IN
    /\ outHWritten' = IF isDone THEN 0 ELSE h
    /\ outBWritten' = IF isDone THEN 0 ELSE b
    /\ fdpassed' = (~isDone /\ fd)
    /\ UNCHANGED written

\* Mutant: the next message goes on from the count of the last one's header.
KeepHWritten(h, b, fd) ==
    LET isDone == b >= queued[written + 1].sz IN
    /\ written' = IF isDone THEN written + 1 ELSE written
    /\ outHWritten' = h
    /\ outBWritten' = IF isDone THEN 0 ELSE b
    /\ fdpassed' = (~isDone /\ fd)

\* h bytes of the header and b of the body have been written, and fd if it is
\* TRUE; a message is done when its body is.
AfterWrite(h, b, fd) ==
    LET isDone == b >= queued[written + 1].sz IN
    /\ written' = IF isDone THEN written + 1 ELSE written
    /\ outHWritten' = IF isDone THEN 0 ELSE h
    /\ outBWritten' = IF isDone THEN 0 ELSE b
    /\ fdpassed' = (~isDone /\ fd)

\* One sendmsg, of bw bytes.  The header is made anew for each.  A message with
\* an fd goes through a UNIX socket, which takes the fixed header in one piece.
Extern_writing ==
    /\ "writer" \in open /\ written < Len(queued)
    /\ LET m == written + 1
           fd == queued[m].fd /\ ~fdpassed
           first == outHWritten + outBWritten
           hleft == queued[m].hsz - outHWritten
           bleft == queued[m].sz - outBWritten
       IN  \E bw \in 1 .. hleft + bleft :
            LET hbw == Min({bw, hleft}) IN
            /\ fd => bw >= Fixed
            /\ Len(socket) + bw <= Capacity
            /\ socket' = socket \o [i \in 1 .. bw |->
                   Byte(m, first + i, fd, IF fd /\ i = 1 THEN m ELSE NoFd)]
            /\ AfterWrite(outHWritten + hbw, outBWritten + bw - hbw, fdpassed \/ fd)
    /\ UNCHANGED <<queued, inVars, open>>

-----------------------------------------------------------------------------
(* The receiver *)

\* The connection is closed on an error.
Fail ==
    /\ broken' = TRUE /\ open' = open \ {"reader"}
    /\ UNCHANGED <<inHRead, inBRead, inMsg, inLastFd, hbuf, received>>

\* The fixed header in h can be made out; otherwise sizes and extid are those
\* of other bytes.
IsHeader(h) == h[1].m # 0 /\ \A k \in 1 .. Fixed : h[k].m = h[1].m /\ h[k].k = k

\* Bytes bs are those of message m from byte k on.
AreBytesOf(m, k, bs) == \A i \in DOMAIN bs : bs[i].m = m /\ bs[i].k = k + i - 1

\* Extern_validate_message: the names are whole and end before the hsz in the
\* fixed header, which by now may be that of the next message.
Extern_validate_message(msg, hread, h) ==
    /\ msg.good
    /\ hread = queued[msg.m].hsz
    /\ h[Fixed].m # 0 /\ queued[h[Fixed].m].hsz >= queued[msg.m].hsz

\* The header buffer has been filled with bytes bs from place at.
Fill(at, bs) == [k \in 1 .. Fixed |-> IF k - at \in DOMAIN bs THEN bs[k - at] ELSE hbuf[k]]

\* Mutant: a message is complete with any part of its body.
AnyBodyRead(started, bbr, blen) == started /\ bbr > 0

\* The check for a completed message: bbr of the blen bytes left of its body.
MessageRead(started, bbr, blen) == started /\ bbr = blen

\* The check whether a new message can be started.
HeaderRead(br, hread) == br > 0 /\ hread >= Fixed

\* One recvmsg, of n bytes, and what is made of them.
Extern_reading ==
    /\ "reader" \in open
    /\ LET started == inMsg # NoMsg
           hlen == IF started THEN queued[inMsg.m].hsz - inHRead ELSE 0
           blen == IF started THEN inMsg.sz - inBRead ELSE 0
           flen == IF started THEN Fixed ELSE Fixed - inHRead
       IN  \E n \in 1 .. Min({Len(socket), hlen + blen + flen}) :
            LET bs == SubSeq(socket, 1, n)
                fds == {bs[i].anc : i \in 1 .. n} \ {NoFd}
                hbr == Min({n, hlen})
                bbr == Min({n - hbr, blen})
                br == n - hbr - bbr
                lastFd == IF fds = {} THEN inLastFd ELSE Max(fds)
                h == Fill(IF started THEN 0 ELSE inHRead, SubSeq(bs, hbr + bbr + 1, n))
                msg == [inMsg EXCEPT !.good =
                            @ /\ AreBytesOf(inMsg.m, inHRead + inBRead + 1, SubSeq(bs, 1, hbr + bbr))]
                complete == MessageRead(started, bbr, blen)
                hread == br + IF complete THEN 0 ELSE inHRead + hbr
                begun == HeaderRead(br, hread)
            IN  /\ Cardinality(fds) <= 1
                /\ socket' = SubSeq(socket, n + 1, Len(socket))
                /\ IF \/ fds # {} /\ inLastFd # NoFd
                      \/ complete /\ ~Extern_validate_message(msg, inHRead + hbr, h)
                      \/ begun /\ ~IsHeader(h)
                   THEN Fail
                   ELSE /\ received' = IF complete
                                       THEN Append(received, [m |-> msg.m,
                                                fd |-> IF msg.fd THEN lastFd ELSE NoFd])
                                       ELSE received
                        /\ inLastFd' = IF complete /\ msg.fd THEN NoFd ELSE lastFd
                        /\ inHRead' = hread
                        /\ inBRead' = IF complete THEN 0 ELSE inBRead + bbr
                        /\ inMsg' = IF begun
                                    THEN [m |-> h[1].m, sz |-> queued[h[1].m].sz,
                                          fd |-> h[Fixed].fd, good |-> TRUE]
                                    ELSE IF complete THEN NoMsg ELSE msg
                        /\ hbuf' = h
                        /\ UNCHANGED <<broken, open>>
    /\ UNCHANGED outVars

-----------------------------------------------------------------------------
\* Either end may close; what the socket holds can still be read.
Extern_Extern_close ==
    /\ "writer" \in open
    /\ open' = open \ {"writer"}
    /\ UNCHANGED <<outVars, inVars, socket>>

\* The reader finds the other end closed, and closes too.
ReadClosed ==
    /\ open = {"reader"} /\ socket = <<>>
    /\ open' = {}
    /\ UNCHANGED <<outVars, inVars, socket>>

Init ==
    /\ queued = <<>> /\ written = 0 /\ outHWritten = 0 /\ outBWritten = 0 /\ fdpassed = FALSE
    /\ socket = <<>>
    /\ inHRead = 0 /\ inBRead = 0 /\ inMsg = NoMsg /\ inLastFd = NoFd
    /\ hbuf = [k \in 1 .. Fixed |-> NoByte]
    /\ received = <<>> /\ open = {"writer", "reader"} /\ broken = FALSE

Next ==
    \/ Extern_queue_outgoing_message \/ Extern_writing \/ Extern_reading
    \/ Extern_Extern_close \/ ReadClosed

Spec == Init /\ [][Next]_vars

\* Both processes run: the Timer of each end brings it back to its socket.
FairSpec == Spec /\ WF_vars(Extern_writing) /\ WF_vars(Extern_reading) /\ WF_vars(ReadClosed)

-----------------------------------------------------------------------------
(* Properties *)

\* Whatever the pieces, the reader takes every message a writer has sent for
\* valid: the ends never disagree on where a message begins.
StreamIntact == ~broken

\* The messages arrive in the order of sending, each once and whole, with the
\* fd that was sent with it: the stream implements MsgFifo.
Sent == [i \in DOMAIN queued |-> [m |-> i, fd |-> IF queued[i].fd THEN i ELSE NoFd]]
Fifo == INSTANCE MsgFifo WITH
            Msg <- [m : Nat, fd : Nat], sent <- Sent, delivered <- received, failed <- broken
FifoSpec == Fifo!FifoSpec

\* Every message is received, unless the writer closes.
AllReceived ==
    \A i \in 1 .. MaxMsgs :
        (Len(queued) >= i) ~> (Len(received) >= i \/ "writer" \notin open)

\* When the reader has closed after the writer, it has received all that was
\* written in full, and nothing is left half read.
ClosedClean ==
    open = {} /\ ~broken => /\ Len(received) = written
                            /\ (inMsg # NoMsg \/ inHRead > 0) <=> outHWritten + outBWritten > 0

\* Extern_reading loses nothing and mistakes nothing, to the end of the stream.
StreamSound == TypeOK /\ StreamIntact /\ ClosedClean

-----------------------------------------------------------------------------
(* Properties stated by the repository that the code does not have *)

\* A reader takes the messages of a writer for valid, with a method that has no
\* arguments ("delete", docs/protocol.html:107), with names of different lengths
\* ("hsz", docs/protocol.html:35), and with a file descriptor in each ("h",
\* docs/protocol.html:80), however the stream is cut into pieces.
MessagesValid == ~broken
=============================================================================
