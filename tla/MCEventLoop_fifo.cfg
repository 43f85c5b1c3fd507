SPECIFICATION FairSpec
CHECK_DEADLOCK FALSE
CONSTANTS
    t1 = t1
    Loop = Loop
    Producers <- OneProducer
    Signals = {2, 10}
    QuitSignals = {2}
    Handlers = {"send", "watch", "quit", "fail"}
    Fatal <- AnyThread
    Sig = Sig
    NoMsg = NoMsg
    NoCode = NoCode
    MaxSend = 2
INVARIANT QueuesSound
INVARIANT SignalOnce
INVARIANT RunsDry
PROPERTY FifoSpec
PROPERTY ObjectMessageDelivered
PROPERTY QuitStops
PROPERTY FatalEnds
