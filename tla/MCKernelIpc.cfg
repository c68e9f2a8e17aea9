SPECIFICATION Spec
CONSTANTS
    Setups <- SmallSetups
    Parties = {1, 2, 3, 4}
    WordMax = 3
    ClientBudget = 10
    CallDelegate = 7
    WorkUnits = 6
    NoReply = NoReply
    U32Max = 10
    FieldBits = 2
    LabelBits = 2
    MsgRegs = 2
    MaxCaps = 1
INVARIANTS NoLostWakeup RequestOnce CallerPays DecodeExact
PROPERTIES ImplementsRendezvous AllFinish
CHECK_DEADLOCK FALSE
