\* A job whose process dies while it prints.
SPECIFICATION FairSpec
CONSTANTS
    j1 = j1
    j2 = j2
    escpos = escpos
    usb = usb
    cups = cups
    None = None
    Jobs = {j1}
    Old = {}
    Printers = {escpos}
    Pooled = {}
    Targets <- OnePrinter
    Serialized = {escpos}
    Spooled = {}
    Outlasting = {}
    Unaudited = {}
    Slots = 2
    MaxAttempts = 2
    Handlers = {h1}
    MaxRequeues = 0
    MaxOutages = 1
PROPERTY
    InterruptedBecomesUncertain
