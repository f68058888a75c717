\* An office and a receipt printer, one permit, an outage and a restart, a cancelation.
SPECIFICATION FairSpec
CONSTANTS
    j1 = j1
    j2 = j2
    escpos = escpos
    usb = usb
    cups = cups
    None = None
    Jobs = {j1, j2}
    Old = {}
    Printers = {escpos, cups}
    Pooled = {}
    Targets <- OfficeAndReceipt
    Serialized = {escpos}
    Spooled = {cups}
    Outlasting = {cups}
    Unaudited = {j1, j2}
    Slots = 1
    MaxAttempts = 2
    Handlers = {h1}
    MaxRequeues = 0
    MaxOutages = 1
PROPERTY
    EveryJobSettles
