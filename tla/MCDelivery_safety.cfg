\* Two jobs, one of them to a pool; two printers, one of which may outlast the wait.
SPECIFICATION Spec
CONSTANTS
    j1 = j1
    j2 = j2
    escpos = escpos
    usb = usb
    cups = cups
    None = None
    Jobs = {j1, j2}
    Old = {}
    Printers = {escpos, usb}
    Pooled = {j1}
    Targets <- PoolAndMember
    Serialized = {escpos, usb}
    Spooled = {}
    Outlasting = {usb}
    Unaudited = {}
    Slots = 2
    MaxAttempts = 2
    Handlers = {h1}
    MaxRequeues = 1
    MaxOutages = 1
INVARIANTS
    TypeOK
    IInv
    AtMostOnce
    StreamsDoNotInterleave
    OnlyOutagesStrand
