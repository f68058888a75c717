\* Two jobs on a printer that may outlast the wait.
SPECIFICATION Spec
CONSTANTS
    j1 = j1
    j2 = j2
    escpos = escpos
    usb = usb
    cups = cups
    None = None
    Jobs = {j1, j2}
    Old = {}
    Printers = {escpos}
    Pooled = {}
    Targets <- OnePrinter
    Serialized = {escpos}
    Spooled = {}
    Outlasting = {escpos}
    Unaudited = {}
    Slots = 2
    MaxAttempts = 2
    Handlers = {h1}
    MaxRequeues = 1
    MaxOutages = 0
INVARIANT
    NoInterleavedStreams
