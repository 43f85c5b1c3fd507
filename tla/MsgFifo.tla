------------------------------- MODULE MsgFifo -------------------------------
(***************************************************************************)
(* What casycom_queue_message and casycom_do_message_queues promise their  *)
(* users: messages are delivered one at a time, in the order in which they *)
(* were sent by whatever thread, each once, until an error that no object  *)
(* handles; after that nothing is delivered.                               *)
(***************************************************************************)
EXTENDS Integers, Sequences

CONSTANT Msg

VARIABLES
    sent,           \* every message ever sent, in order
    delivered,      \* every message ever delivered, in order
    failed          \* an error was not handled

fifoVars == <<sent, delivered, failed>>

FifoInit == sent = <<>> /\ delivered = <<>> /\ failed = FALSE

Send ==
    /\ Len(sent') = Len(sent) + 1
    /\ SubSeq(sent', 1, Len(sent)) = sent
    /\ sent'[Len(sent')] \in Msg
    /\ UNCHANGED <<delivered, failed>>

Deliver ==
    /\ ~failed
    /\ Len(delivered) < Len(sent)
    /\ delivered' = Append(delivered, sent[Len(delivered) + 1])
    /\ UNCHANGED <<sent, failed>>

Fail ==
    /\ failed' = TRUE
    /\ UNCHANGED <<sent, delivered>>

FifoNext == Send \/ Deliver \/ Fail

FifoSpec == FifoInit /\ [][FifoNext]_fifoVars
=============================================================================
