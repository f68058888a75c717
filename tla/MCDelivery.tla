----------------------------- MODULE MCDelivery -----------------------------
(* Small instances of Delivery for TLC.                                    *)
EXTENDS Delivery

CONSTANTS j1, j2, escpos, usb, cups

\* One printer behind the lock, no pool.
OnePrinter == [j \in Jobs |-> {escpos}]

\* j1 goes to a pool of two printers, the other jobs to one of them.
PoolAndMember == [j \in Jobs |-> IF j = j1 THEN {escpos, usb} ELSE {escpos}]

\* j1 goes to an office printer, the other jobs to a receipt printer.
OfficeAndReceipt == [j \in Jobs |-> IF j = j1 THEN {cups} ELSE {escpos}]

=============================================================================
