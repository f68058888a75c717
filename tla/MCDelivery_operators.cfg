\* One job that two operators and the retention sweep work on at once.
\* The job is sent to one receipt printer that may outlast the wait.
SPECIFICATION Spec
CONSTANTS
    j1 = j1
    j2 = j2
    escpos = escpos
    usb = usb
    cups = cups
    None = None
    Jobs = {j1}
    Old = {j1}
    Printers = {escpos}
    Pooled = {}
    Targets <- OnePrinter
    Serialized = {escpos}
    Spooled = {}
    Outlasting = {escpos}
    Unaudited = {j1}
    Slots = 2
    MaxAttempts = 3
    Handlers = {h1, h2}
    MaxRequeues = 2
    MaxOutages = 2
INVARIANTS
    RetryBudget
    DoneWasSent
PROPERTY
    LedgerSpec
