------------------------------ MODULE Dispatch ------------------------------
(***************************************************************************)
(* What becomes of a print request: which payloads the API admits for a     *)
(* printer, what the worker renders of them for the printer it resolves,   *)
(* and what the backend takes.  Printers, formats and templates may be     *)
(* edited between any two of these; the job is printed once more by a      *)
(* reprint.  One job is followed: jobs meet in Delivery and in Pools.      *)
(*                                                                         *)
(* A document is the set of its elements.  "text" also stands for rules,   *)
(* tables and feeds, which every renderer prints, "code128" and "upc" for  *)
(* barcodes, "other" for a type no renderer knows.  A refusal changes      *)
(* nothing, so printers are given allow_raw and their defaults.            *)
(***************************************************************************)
EXTENDS Naturals

CONSTANTS
    Devices,       \* ids of printers
    Ours,          \* the printer the job is for
    MemberTypes,   \* bound: types of the members a pool begins with
    EditTypes,     \* bound: types an edit may give a printer
    Drafts,        \* documents: sets of elements
    CopyCounts,    \* what a request may say in copies
    Absent,        \* no printer, no job
    MaxTries,      \* settings.max_attempts
    MaxEdits,      \* bound: edits of printers, formats and templates
    MaxReprints    \* bound: reprints

VARIABLES
    device,      \* device[d]: the row of printer d, or Absent
    content,     \* the versions of the format, the template and the overlay, and what is in the format
    ticket,      \* the job, or Absent
    edits, reprints

dispatchVars == <<device, content, ticket, edits, reprints>>

-----------------------------------------------------------------------------
(* Printers and what they can do.                                          *)

DeviceTypes == {"escpos_network", "escpos_usb", "virtual", "zpl_network", "star_network",
                "cups", "ipp_network"}
Office == {"cups", "ipp_network"}

\* Parts of documents that need a capability, and finished documents.
Special == {"cut", "qr", "code128", "upc", "image", "pulse"}
Finished == {"pdf", "postscript", "pcl"}

ASSUME DispatchAssumption ==
    /\ Ours \in Devices
    /\ MemberTypes \subseteq DeviceTypes
    /\ EditTypes \subseteq DeviceTypes \cup {"pool"}
    /\ Drafts \subseteq SUBSET (Special \cup {"text", "other"})
    /\ CopyCounts \subseteq Nat \ {0}
    /\ MaxTries \in Nat \ {0}
    /\ {MaxEdits, MaxReprints} \subseteq Nat

\* option: raster of a label printer, cut of a receipt printer.
ConcreteRows ==
    [type : DeviceTypes, option : {FALSE}, members : {{}}]
        \cup [type : {"zpl_network", "escpos_network", "escpos_usb"}, option : {TRUE}, members : {{}}]
PoolRows == [type : {"pool"}, option : {FALSE}, members : SUBSET Devices]

Registered == {d \in Devices : device[d] # Absent}

\* What capabilities() of each backend says; the cache of it is left to Registry.
EscposNetworkCan(r) ==
    {"qr", "code128", "upc", "image", "pulse"} \cup (IF r.option THEN {"cut"} ELSE {})
EscposUsbCan(r) == {"qr", "code128", "image", "pulse"} \cup (IF r.option THEN {"cut"} ELSE {})
VirtualCan == {"cut", "qr", "code128", "image", "pulse"} \cup Finished
ZplCan(r) == {"qr", "code128"} \cup (IF r.option THEN {"image"} ELSE {})
StarCan == {"cut", "pulse"}
CupsCan == {"image"} \cup Finished
IppCan == {"image", "pdf"}

\* make_backend() and its capabilities().
ConcreteCan(r) ==
    CASE r.type = "escpos_network" -> EscposNetworkCan(r)
      [] r.type = "escpos_usb" -> EscposUsbCan(r)
      [] r.type = "virtual" -> VirtualCan
      [] r.type = "zpl_network" -> ZplCan(r)
      [] r.type = "star_network" -> StarCan
      [] r.type = "cups" -> CupsCan
      [] r.type = "ipp_network" -> IppCan

\* _members(): rows that are gone are skipped.
MembersOf(r) == {device[d] : d \in r.members \cap Registered}

\* Seeded fault: a pool can do what any of its members can.
PoolCan_Union(r) == UNION {ConcreteCan(m) : m \in MembersOf(r)} \ Finished

\* aggregate_capabilities(): what all members can do, finished documents aside.
PoolCan(r) ==
    {a \in Special : MembersOf(r) # {} /\ \A m \in MembersOf(r) : a \in ConcreteCan(m)}

Can(r) == IF r.type = "pool" THEN PoolCan(r) ELSE ConcreteCan(r)

\* A pool in a pool is an error of every operation that looks at its members.
Nested(r) == r.type = "pool" /\ \E m \in MembersOf(r) : m.type = "pool"

Raster(r) == r.type = "zpl_network" /\ r.option

-----------------------------------------------------------------------------
(* What the API admits.                                                    *)

Versioned == {"format", "template", "overlay"}
Payloads == Versioned \cup Finished \cup {"document", "raw"}

\* Seeded fault: a label printer takes a rendered PDF in either mode.
TakesRenderedPdf_AnyLabel(r) == r.type = "zpl_network" \/ "pdf" \in Can(r)

\* _accepts_rendered_pdf()
TakesRenderedPdf(r) == Raster(r) \/ "pdf" \in Can(r)

\* _resolve_targets(): overlays and templates, then the rest by printer.
AdmitsPrint(r, form, what) ==
    \/ form \in {"overlay", "template"} /\ TakesRenderedPdf(r) /\ what = form
    \/ form = "default" /\ r.type \in Office /\ what = "template"
    \/ form \in {"document", "format"} /\ r.type \notin Office /\ what = form
    \/ form = "default" /\ r.type \notin Office /\ what = "format"

\* print_raw() and print_file().
AdmitsRaw(r, form, what) == form = "raw" /\ r.type # "cups" /\ what = "raw"
AdmitsFile(r, form, what) == form \in Finished \cap Can(r) /\ what = form

\* test_print() asks nothing of the printer, open_drawer() for the drawer.
AdmitsTest(r, form, what) ==
    form = "test" /\ what = IF r.type \in Office THEN "pdf" ELSE "document"
AdmitsDrawer(r, form, what) == form = "drawer" /\ "pulse" \in Can(r) /\ what = "document"

Forms == Payloads \cup {"default", "test", "drawer"}

\* Requests whose handler asks for the capabilities of the printer, and for a
\* pool for those of its members.
Asking == {"overlay", "template", "drawer"} \cup Finished

CopiesOf(form) == IF form \in {"raw", "test", "drawer"} THEN {1} ELSE CopyCounts

\* The document a request brings; raw data may be none at all.
DraftsOf(form) ==
    CASE form = "document" -> Drafts
      [] form = "raw" -> {{}, {"text"}}
      [] form = "test" -> {{"text", "cut"}}
      [] form = "drawer" -> {{"pulse"}}
      [] OTHER -> {{}}

-----------------------------------------------------------------------------
(* What the worker renders, and what the backend takes.                    *)

\* Of each renderer: the elements that end a job with unsupported_for_printer, and
\* those it passes over.
RenderEscpos(r) ==
    [rejects |-> {"qr", "code128", "upc", "image"} \ Can(r), omits |-> {"cut", "pulse"} \ Can(r)]
RenderZpl(r) ==
    [rejects |-> {"qr", "code128", "upc"} \ Can(r), omits |-> {"cut", "pulse", "image"}]
RenderZplRaster(r) ==
    [rejects |-> {"code128", "upc"} \cup ({"qr"} \ Can(r)), omits |-> {"cut", "pulse"}]
RenderStar(r) ==
    [rejects |-> {}, omits |-> {"qr", "code128", "upc", "image"} \cup ({"cut", "pulse"} \ Can(r))]

Renderer(r) ==
    CASE Raster(r) -> RenderZplRaster(r)
      [] r.type = "zpl_network" /\ ~r.option -> RenderZpl(r)
      [] r.type = "star_network" -> RenderStar(r)
      [] OTHER -> RenderEscpos(r)

\* A type no renderer knows ends it with validation_error.
Rejected(r) == {"other"} \cup Renderer(r).rejects
Omitted(r) == Renderer(r).omits

\* The bytes of elements and of raw data are those of the printer's family.
Family(r) ==
    CASE r.type = "zpl_network" -> "zpl" [] r.type = "star_network" -> "star" [] OTHER -> "escpos"

\* _render(), _pdf_payload(): the kind of the bytes.
KindOf(r, what) ==
    CASE what \in Finished -> what
      [] what \in {"overlay", "template"} -> IF Raster(r) THEN "zpl" ELSE "pdf"
      [] OTHER -> Family(r)

\* How send() of each backend may end for bytes of a kind.  sent: it returns;
\* retried: PrinterUnreachable or BackendError, because of something outside;
\* cut: MidSendError, likewise; raised: anything else, likewise; refused, mistaken:
\* BackendError and MidSendError, because of the kind.
EscposNetworkSends(kind) == IF kind = "escpos" THEN {"sent", "retried", "cut"} ELSE {"mistaken"}
EscposUsbSends(kind) == IF kind = "escpos" THEN {"sent", "retried", "cut"} ELSE {"mistaken"}
ZplSends(kind) == IF kind = "zpl" THEN {"sent", "retried", "cut"} ELSE {"mistaken"}
StarSends(kind) == IF kind = "star" THEN {"sent", "retried", "cut"} ELSE {"mistaken"}
CupsSends(kind) == IF kind \in Finished THEN {"sent", "retried", "raised"} ELSE {"refused"}
IppSends(kind) == IF kind = "pdf" THEN {"sent", "retried", "cut"} ELSE {"refused"}
VirtualSends == {"sent", "raised"}

\* _send() adds the time-out, if send() gets to wait for anything.
SendsOf(r, kind) ==
    LET ends == CASE r.type = "escpos_network" -> EscposNetworkSends(kind)
                  [] r.type = "escpos_usb" -> EscposUsbSends(kind)
                  [] r.type = "zpl_network" -> ZplSends(kind)
                  [] r.type = "star_network" -> StarSends(kind)
                  [] r.type = "cups" -> CupsSends(kind)
                  [] r.type = "ipp_network" -> IppSends(kind)
                  [] r.type = "virtual" -> VirtualSends
    IN  ends \cup (IF "sent" \in ends THEN {"cut"} ELSE {})

\* The bytes of elements are repeated; a document carries its copies as an
\* option, which CUPS honours, print_pdf() of IPP and the virtual printer do not.
PrintsOneCopy(r, kind) == kind \in Finished /\ r.type \in {"ipp_network", "virtual"}
Sheets(r, kind, copies) == IF PrintsOneCopy(r, kind) THEN 1 ELSE copies

-----------------------------------------------------------------------------
(* The steps.                                                              *)

TicketPlaces == {"queued", "resolved", "rendered", "done", "dead", "failed", "uncertain"}

\* draft: the document, of the request or as the format had it when rendered;
\* resolved, printed: the version when admitted, when rendered, 0: none;
\* erased: the payload was put out of reach.
\* history: fault, something outside went wrong; changed, an edit came after
\* the request; first, the version printed by the job this one reprints.
Tickets ==
    [at : TicketPlaces, form : Forms, what : Payloads, draft : SUBSET (Special \cup {"text", "other"}),
     copies : CopyCounts \cup {1}, resolved : Nat, target : ConcreteRows \cup {Absent},
     kind : Finished \cup {"escpos", "zpl", "star", "none"}, output : SUBSET (Special \cup {"text"}),
     printed : Nat, sheets : Nat, tries : 0..MaxTries, erased : BOOLEAN, fault : BOOLEAN,
     changed : BOOLEAN, first : Nat]

\* No job is told from any.
ASSUME NoTicketAssumption == Absent \notin Tickets

VersionOf(what) == IF what \in Versioned THEN content[what] ELSE 0

NewTicket(form, what, draft, copies, resolved, first) ==
    [at |-> "queued", form |-> form, what |-> what, draft |-> draft, copies |-> copies,
     resolved |-> resolved, target |-> Absent, kind |-> "none", output |-> {}, printed |-> 0,
     sheets |-> 0, tries |-> 0, erased |-> FALSE, fault |-> FALSE, changed |-> FALSE, first |-> first]

\* One printer, or a pool of all the others.
DispatchInit ==
    /\ \/ \E r \in ConcreteRows : device = [d \in Devices |-> IF d = Ours THEN r ELSE Absent]
       \/ /\ device \in [Devices -> ConcreteRows \cup PoolRows]
          /\ device[Ours].type = "pool" /\ device[Ours].members = Devices \ {Ours}
          /\ \A d \in Devices \ {Ours} : device[d].type \in MemberTypes
    /\ content = [format |-> 1, template |-> 1, overlay |-> 1, layout |-> {"text"}]
    /\ ticket = Absent
    /\ edits = 0 /\ reprints = 0

\* A request is admitted and enqueued.
Submitted ==
    /\ ticket = Absent
    /\ device[Ours] # Absent
    /\ \E form \in Forms, what \in Payloads :
         /\ form \in Asking => ~Nested(device[Ours])
         /\ \/ AdmitsPrint(device[Ours], form, what)
            \/ AdmitsRaw(device[Ours], form, what)
            \/ AdmitsFile(device[Ours], form, what)
            \/ AdmitsTest(device[Ours], form, what)
            \/ AdmitsDrawer(device[Ours], form, what)
         /\ \E draft \in DraftsOf(form), copies \in CopiesOf(form) :
              ticket' = NewTicket(form, what, draft, copies, VersionOf(what), 0)
    /\ UNCHANGED <<device, content, edits, reprints>>

\* reprint(): the payload and the recorded version of the job, whatever became
\* of the printer and the format, unless the payload was erased; here of a job that has ended.
Reprint ==
    /\ ticket # Absent /\ ticket.at \in {"done", "dead", "failed", "uncertain"} /\ ~ticket.erased
    /\ reprints < MaxReprints
    /\ reprints' = reprints + 1
    /\ ticket' = [NewTicket(ticket.form, ticket.what, IF ticket.what = "format" THEN {} ELSE ticket.draft,
                            ticket.copies, ticket.resolved,
                            IF ticket.at = "done" THEN ticket.printed ELSE 0)
                    EXCEPT !.changed = ticket.changed]
    /\ UNCHANGED <<device, content, edits>>

\* The operator edits or deletes a printer, or edits a stored document.
\* Before the request that is another beginning.
DocumentsEdited ==
    /\ ticket # Absent
    /\ edits < MaxEdits
    /\ edits' = edits + 1
    /\ ticket' = [ticket EXCEPT !.changed = TRUE]
    /\ UNCHANGED reprints

Edits == {r \in ConcreteRows \cup PoolRows : r.type \in EditTypes}

EditDevice ==
    /\ DocumentsEdited
    /\ \E d \in Registered, r \in Edits \cup {Absent} :
         r # device[d] /\ device' = [device EXCEPT ![d] = r]
    /\ UNCHANGED content

EditContent ==
    /\ DocumentsEdited
    /\ \E what \in Versioned, layout \in Drafts :
         /\ what # "format" => layout = content.layout
         /\ content' = [content EXCEPT ![what] = @ + 1, !.layout = layout]
    /\ UNCHANGED device

\* erase_payload(): of the payload a hash stays.  A task works with the payload as it
\* read it, so an erasure meanwhile counts from the next try; that of an ended
\* job is one more reprint refused.
ErasePayload ==
    /\ ticket # Absent /\ ticket.at = "queued" /\ ~ticket.erased
    /\ ticket' = [ticket EXCEPT !.erased = TRUE]
    /\ UNCHANGED <<device, content, edits, reprints>>

\* _retry_or_dead()
RetryOr(fault) ==
    ticket' = [ticket EXCEPT !.tries = @ + 1, !.target = Absent, !.kind = "none",
                             !.at = IF ticket.tries + 1 >= MaxTries THEN "dead" ELSE "queued",
                             !.fault = @ \/ fault]

\* get_printer() or _members() raises.
Unresolvable(r) == IF r = Absent THEN TRUE ELSE Nested(r)

\* _process() up to the rendering: the row of the printer, or of the member of a
\* pool that answered a probe.  What get_printer() or make_backend() raises ends in _guarded().
Resolve ==
    /\ ticket # Absent /\ ticket.at = "queued"
    /\ LET r == device[Ours] IN
         \/ /\ Unresolvable(r)
            /\ ticket' = [ticket EXCEPT !.at = "failed"]
         \/ /\ ~Unresolvable(r) /\ r.type # "pool"
            /\ ticket' = [ticket EXCEPT !.at = "resolved", !.target = r]
         \/ /\ ~Unresolvable(r) /\ r.type = "pool"
            /\ \/ \E m \in MembersOf(r) : ticket' = [ticket EXCEPT !.at = "resolved", !.target = m]
               \/ RetryOr(TRUE)
    /\ UNCHANGED <<device, content, edits, reprints>>

\* _render(): the format and the template as they are now.
Render ==
    /\ ticket # Absent /\ ticket.at = "resolved"
    /\ LET r == ticket.target
           elements == IF ticket.what = "format" THEN content.layout ELSE ticket.draft
           nothing == ticket.erased \/ (ticket.what = "raw" /\ elements = {})
           rejected == /\ ~nothing /\ ticket.what \in {"document", "format"}
                       /\ elements \cap Rejected(r) # {}
       IN  \/ /\ rejected
              /\ ticket' = [ticket EXCEPT !.at = "dead", !.draft = elements]
           \* No payload that _render() sees: KeyError.
           \/ nothing /\ ticket' = [ticket EXCEPT !.at = "failed"]
           \/ /\ ~rejected /\ ~nothing
              /\ ticket' = [ticket EXCEPT !.at = "rendered", !.draft = elements,
                                          !.kind = KindOf(r, ticket.what),
                                          !.output = elements \ Omitted(r),
                                          !.printed = VersionOf(ticket.what)]
           \* The format is gone, an asset is missing, a code cannot be drawn.
           \/ \E end \in {"dead", "failed"} : ticket' = [ticket EXCEPT !.at = end, !.fault = TRUE]
    /\ UNCHANGED <<device, content, edits, reprints>>

\* send() of the backend, and what _process() makes of its end.
Send ==
    /\ ticket # Absent /\ ticket.at = "rendered"
    /\ LET r == ticket.target
           Ends(outcome) == outcome \in SendsOf(r, ticket.kind)
       IN  \/ /\ Ends("sent")
              /\ ticket' = [ticket EXCEPT !.at = "done", !.sheets = Sheets(r, ticket.kind, ticket.copies)]
           \/ Ends("retried") /\ RetryOr(TRUE)
           \/ Ends("refused") /\ RetryOr(FALSE)
           \/ Ends("cut") /\ ticket' = [ticket EXCEPT !.at = "uncertain", !.fault = TRUE]
           \/ Ends("mistaken") /\ ticket' = [ticket EXCEPT !.at = "uncertain"]
           \/ Ends("raised") /\ ticket' = [ticket EXCEPT !.at = "failed", !.fault = TRUE]
    /\ UNCHANGED <<device, content, edits, reprints>>

DispatchNext ==
    \/ Submitted \/ Reprint \/ EditDevice \/ EditContent \/ ErasePayload
    \/ Resolve \/ Render \/ Send

DispatchSpec == DispatchInit /\ [][DispatchNext]_dispatchVars

-----------------------------------------------------------------------------
(* Properties.                                                             *)

\* Every variable has its type.
DispatchTypeOK ==
    /\ device \in [Devices -> ConcreteRows \cup PoolRows \cup {Absent}]
    /\ content \in [format : Nat, template : Nat, overlay : Nat, layout : Drafts \cup {{"text"}}]
    /\ ticket \in Tickets \cup {Absent}
    /\ edits \in 0..MaxEdits /\ reprints \in 0..MaxReprints

Ended(places) == ticket # Absent /\ ticket.at \in places

Targets == IF device[Ours].type = "pool" THEN MembersOf(device[Ours]) ELSE {device[Ours]}

\* A job of its own making, with no fault outside and no edit, comes to grief only
\* when its document asks for more than the printer announces, when its payload was
\* erased before it was rendered, or in the cases the admission does not look at: raw data for an IPP printer or of no bytes, an
\* office printer in a pool, a barcode for a label printer in raster mode.
FailsForAReason ==
    (Ended({"dead", "failed", "uncertain"}) /\ ~ticket.fault /\ ~ticket.changed) =>
        \/ ticket.erased
        \/ ~(ticket.draft \subseteq Can(device[Ours]) \cup {"text", "cut", "pulse"})
        \/ ticket.what = "raw" /\ (device[Ours].type = "ipp_network" \/ ticket.draft = {})
        \/ device[Ours].type = "pool" /\ \E m \in Targets : m.type \in Office
        \/ ticket.draft \cap {"code128", "upc"} # {} /\ \E m \in Targets : Raster(m)

\* What a job reported done has printed: nothing its printer cannot do, of the
\* request all but what that printer cannot do (a Star and a label printer drop
\* more than cuts and pulses), as many copies as asked unless the document went
\* to an IPP or a virtual printer, a version not older than the one recorded, and
\* the drawer was opened if the request was to open it.
DoneIsTheRequest ==
    Ended({"done"}) =>
        LET r == ticket.target
            lost == ticket.draft \ ticket.output
        IN  /\ ticket.output \subseteq ConcreteCan(r) \cup {"text"}
            /\ r.type \notin {"star_network", "zpl_network"} => lost \subseteq {"cut", "pulse"}
            /\ lost \cap ConcreteCan(r) = {}
            /\ ticket.sheets # ticket.copies => PrintsOneCopy(r, ticket.kind)
            /\ ticket.printed >= ticket.resolved
            /\ (ticket.form = "drawer" /\ ~ticket.changed) => "pulse" \in ticket.output

\* README, "Formats are versioned, and the version is recorded on each job for
\* reproducible reprints": the reprint of a job that was printed prints the
\* version that job printed.
ReprintsAreReproducible ==
    (Ended({"done"}) /\ ticket.first # 0) => ticket.printed = ticket.first
=============================================================================
