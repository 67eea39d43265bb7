----------------------------- MODULE MoneyPanels -----------------------------
(***************************************************************************)
(* The pages about an itinerary's money: the advisor's Invoices and        *)
(* Booking tabs, which stand side by side, read on their own and tell each *)
(* other nothing, and the traveler's pay page.  A click is one or several  *)
(* calls one after the other, each served and answered in its own time; a  *)
(* refresh is two reads at once.  The service is one step per request      *)
(* (modules Billing and Booking have its detail), save for a payment, which *)
(* decides on the status it has loaded before it has the row lock.         *)
(***************************************************************************)
EXTENDS Naturals, Sequences, FiniteSets, SequencesExt, FiniteSetsExt

CONSTANTS
  Items,        \* priced nodes of the itinerary
  Supplied,     \* those a supplier can book
  MaxInvoices,  \* bound: the invoices that are ever created
  Cost,         \* what each item costs, in halves of a deposit
  MaxClicks,    \* bound: the clicks that make a call
  None

ASSUME ItemsAssumption == Supplied \subseteq Items /\ None \notin Items
ASSUME BoundsAssumption == MaxInvoices \in Nat \ {0} /\ MaxClicks \in Nat /\ Cost \in Nat \ {0}

VARIABLES
  ledger,     \* per invoice: its status and its lines, in their order, a reversed one at zero
  node,       \* per item: its status
  booking,    \* per item: the charge its booking stands on, <<0, 0>> for none
  charged,    \* history: how often the processor has charged each invoice
  panel,      \* the Invoices tab
  desk,       \* the Booking tab
  payer,      \* the pay page
  calls,      \* the clicks under way, each with its present call
  clicks,     \* the pages of the clicks that made a call, in their order
  mishaps     \* history: "overlap", "failed", "lost", "doubled" (two cards handed in at once)

vars == <<ledger, node, booking, charged, panel, desk, payer, calls, clicks, mishaps>>
service == <<ledger, node, booking, charged>>
pages == <<panel, desk, payer>>

-----------------------------------------------------------------------------
(* Reading a ledger.                                                       *)

Invoices == 1..MaxInvoices
Void == [status |-> "none", lines |-> <<>>]
Open == {"draft", "issued"}

Sum(lines) == FoldSeq(LAMBDA l, s : l.amount + s, 0, lines)
Total(invoice) == Sum(invoice.lines)

\* Its charges on every invoice that is not void.
chargedByNode(list, n) ==
  MapThenSumSet(LAMBDA i : Sum(SelectSeq(list[i].lines, LAMBDA l : l.item = n)),
                {i \in Invoices : list[i].status # "void"})

Left(list, n) == IF chargedByNode(list, n) > Cost THEN 0 ELSE Cost - chargedByNode(list, n)

\* What is approved, priced and not billed in full.
Billable(list, nodes) == {n \in Items : nodes[n] = "approved" /\ Left(list, n) > 0}

\* The charges of an item on invoices with one of these statuses.
Charges(n, statuses) ==
  {c \in Invoices \X (1..MaxClicks + Cardinality(Items)) :
     /\ ledger[c[1]].status \in statuses
     /\ c[2] \in DOMAIN ledger[c[1]].lines /\ ledger[c[1]].lines[c[2]].item = n}

Covered(n, statuses) ==
  MapThenSumSet(LAMBDA c : ledger[c[1]].lines[c[2]].amount, Charges(n, statuses)) >= Cost

\* What is booked without being paid, or paid without being booked.
Discrepancies == {n \in Items : Covered(n, {"paid"}) # (node[n] # "approved")}

-----------------------------------------------------------------------------
(* Clicks.                                                                 *)

Nothing == [list |-> [i \in Invoices |-> Void], nodes |-> [n \in Items |-> "approved"], off |-> {}]

NoCall == [id |-> 0, page |-> "panel", op |-> "none", from |-> "none", inv |-> 0, line |-> 1, item |-> None,
           amount |-> 0, targets |-> <<>>, full |-> FALSE, flaws |-> {}, stage |-> "sent",
           got |-> {}, seen |-> Nothing]

\* Bound: one failure in a behaviour.
Smooth == mishaps \cap {"failed", "lost"} = {}

\* The first call of a click goes out.  Bound: two clicks overlap, a later one finds all answered.
Click(call) ==
  /\ Len(clicks) < MaxClicks
  /\ Len(clicks) >= 2 => calls = {} /\ Smooth
  /\ clicks' = Append(clicks, call.page)
  /\ calls' = calls \cup {[call EXCEPT !.id = Len(clicks) + 1, !.from = call.op]}
  /\ mishaps' = mishaps \cup (IF calls = {} THEN {} ELSE {"overlap"})
                       \cup (IF call.page = "payer" /\ \E c \in calls : c.op = "nonce" THEN {"doubled"} ELSE {})
  /\ UNCHANGED service

Becomes(c, d) == calls' = (calls \ {c}) \cup {d}

\* Room for the invoices that are being created.
Creatable ==
  Cardinality({i \in Invoices : ledger[i].status = "none"}) > Cardinality({c \in calls : c.op \in {"create", "seed"} /\ c.stage = "sent"})

create ==
  /\ ~panel.creating /\ Creatable
  /\ Click([NoCall EXCEPT !.op = "create"])
  /\ panel' = [panel EXCEPT !.creating = TRUE]
  /\ UNCHANGED <<desk, payer>>

\* Of each item the rest, or half of it; what comes to nothing is left out.
Targets(full) ==
  LET amount(n) == IF full THEN Left(panel.list, n) ELSE Left(panel.list, n) \div 2 IN
  SelectSeq([k \in 1..Cardinality(Billable(panel.list, panel.nodes)) |->
               LET n == SetToSeq(Billable(panel.list, panel.nodes))[k] IN [item |-> n, amount |-> amount(n)]],
            LAMBDA l : l.amount > 0)

\* Bill all, in full or a deposit of half: a draft, and then its lines one by one.
seedInvoice(full) ==
  /\ ~panel.creating /\ Creatable
  /\ Billable(panel.list, panel.nodes) # {}
  /\ Click([NoCall EXCEPT !.op = "seed", !.targets = Targets(full), !.full = full,
              !.flaws = IF \E n \in Items : Left(ledger, n) > Left(panel.list, n) THEN {"undone"} ELSE {}])
  /\ panel' = [panel EXCEPT !.creating = TRUE]
  /\ UNCHANGED <<desk, payer>>

\* One change at a time of an open invoice; the cards of two invoices do not wait for each other.
run(i, call) ==
  /\ i \notin panel.busy
  /\ panel.list[i].status \in Open
  /\ Click([call EXCEPT !.inv = i])
  /\ panel' = [panel EXCEPT !.busy = @ \cup {i}]
  /\ UNCHANGED <<desk, payer>>

submitCharge(i, n, amount) ==
  /\ panel.list[i].status = "draft" /\ n \in Billable(panel.list, panel.nodes)
  /\ amount \in {1, Left(panel.list, n)}
  /\ run(i, [NoCall EXCEPT !.op = "line", !.item = n, !.amount = amount])

addAdjustment(i) == run(i, [NoCall EXCEPT !.op = "line", !.amount = 1])

voidLine(i, k) ==
  /\ k \in DOMAIN panel.list[i].lines /\ panel.list[i].lines[k].amount > 0
  /\ run(i, [NoCall EXCEPT !.op = "voidLine", !.line = k])

issue(i) == panel.list[i].status = "draft" /\ run(i, [NoCall EXCEPT !.op = "issue"])

voidInvoice(i) == run(i, [NoCall EXCEPT !.op = "void"])

\* The same on the Booking tab, one change at a time of an item.
BookingRow(n, shown, call) ==
  /\ n \notin desk.busy
  /\ desk.nodes[n] \in shown
  /\ Click([call EXCEPT !.page = "desk", !.item = n])
  /\ desk' = [desk EXCEPT !.busy = @ \cup {n}]
  /\ UNCHANGED <<panel, payer>>

bookNode(n, override) ==
  /\ n \notin Supplied
  /\ BookingRow(n, {"approved"}, [NoCall EXCEPT !.op = IF override THEN "override" ELSE "book"])

confirmNode(n) == BookingRow(n, {"booked"}, [NoCall EXCEPT !.op = "confirm"])

\* Its second click; the first one only shows the button, and it stays.
cancelBooking(n) == n \in desk.asking /\ BookingRow(n, {"booked", "confirmed"}, [NoCall EXCEPT !.op = "cancel"])

askCancel(n) ==
  /\ n \notin desk.busy \cup desk.asking /\ desk.nodes[n] \in {"booked", "confirmed"}
  /\ desk' = [desk EXCEPT !.asking = @ \cup {n}]
  /\ UNCHANGED <<service, panel, payer, calls, clicks, mishaps>>

NoPicker == [item |-> None, id |-> 0, slots |-> "loading", busy |-> FALSE]

\* The slots of a supplier's item, read when its dialog opens.
loadAvailability(n) ==
  /\ n \in Supplied \ desk.busy /\ desk.nodes[n] = "approved" /\ desk.picker.item = None
  /\ Click([NoCall EXCEPT !.page = "picker", !.op = "slots", !.item = n])
  /\ desk' = [desk EXCEPT !.picker = [NoPicker EXCEPT !.item = n, !.id = Len(clicks) + 1]]
  /\ UNCHANGED <<panel, payer>>

\* Reserve a slot, or book by hand where the supplier cannot be asked.
reserveAndConfirm(override) ==
  /\ desk.picker.item # None /\ desk.picker.slots \in {"some", "off"} /\ ~desk.picker.busy
  /\ Click([NoCall EXCEPT !.page = "picker", !.op = IF override THEN "override" ELSE "book",
              !.item = desk.picker.item, !.full = desk.picker.slots = "some", !.amount = desk.picker.id])
  /\ desk' = [desk EXCEPT !.picker.busy = TRUE]
  /\ UNCHANGED <<panel, payer>>

onClose ==
  /\ desk.picker.item # None
  /\ desk' = [desk EXCEPT !.picker = NoPicker]
  /\ UNCHANGED <<service, panel, payer, calls, clicks, mishaps>>

\* The card form comes with an issued invoice, when its token and its script load.
mountForm ==
  /\ payer.shown.status = "issued" /\ ~payer.form
  /\ payer' = [payer EXCEPT !.form = TRUE]
  /\ UNCHANGED <<service, panel, desk, calls, clicks, mishaps>>

\* Pay first asks the form for the card; the button waits only for what comes after.
pay ==
  /\ payer.form /\ ~payer.paying
  /\ Click([NoCall EXCEPT !.page = "payer", !.op = "nonce", !.inv = 1])
  /\ UNCHANGED pages

\* Slip: its button does not wait.
payWithTestCardAgain ==
  /\ payer.shown.status = "issued"
  /\ Click([NoCall EXCEPT !.page = "payer", !.op = "pay", !.inv = 1])
  /\ payer' = [payer EXCEPT !.paying = TRUE]
  /\ UNCHANGED <<panel, desk>>

\* The test card needs no form.
payWithTestCard ==
  /\ payer.shown.status = "issued" /\ ~payer.paying
  /\ Click([NoCall EXCEPT !.page = "payer", !.op = "pay", !.inv = 1])
  /\ payer' = [payer EXCEPT !.paying = TRUE]
  /\ UNCHANGED <<panel, desk>>

-----------------------------------------------------------------------------
(* The service.                                                            *)

At(c, op) == c.op = op /\ c.stage = "sent"

\* A charge goes on a draft, and never past the item's cost; an adjustment on an open invoice.
AcceptsLine(i, n, amount) ==
  IF n = None THEN ledger[i].status \in Open
  ELSE ledger[i].status = "draft" /\ chargedByNode(ledger, n) + amount <= Cost

\* What covers a booking; with override an issued invoice is enough.
Gate(c) == IF c.op = "override" /\ ~Covered(c.item, {"paid"}) THEN {"paid", "issued"} ELSE {"paid"}

Accepted(c) ==
  /\ c.op = "line" => AcceptsLine(c.inv, c.item, c.amount)
  /\ c.op = "seedLine" => AcceptsLine(c.inv, c.targets[c.line].item, c.targets[c.line].amount)
  /\ c.op = "voidLine" => ledger[c.inv].status \in Open /\ ledger[c.inv].lines[c.line].amount > 0
  /\ c.op = "issue" => ledger[c.inv].status = "draft" /\ ledger[c.inv].lines # <<>>
  /\ c.op = "void" => ledger[c.inv].status \in Open
  /\ c.op \in {"book", "override"} => node[c.item] = "approved" /\ Covered(c.item, Gate(c))
  /\ c.op = "confirm" => node[c.item] = "booked"
  /\ c.op = "cancel" => node[c.item] \in {"booked", "confirmed"}
  /\ c.op = "pay" /\ c.stage = "sent" => ledger[c.inv].status = "issued"
  /\ c.op = "pay" /\ c.stage = "loaded" => Total(ledger[c.inv]) > 0

\* Served, with the change of the ledger, the items and the bookings.
Served(c, ledgers, nodes, bookings) ==
  /\ Accepted(c)
  /\ ledger' = ledgers /\ node' = nodes /\ booking' = bookings
  /\ Becomes(c, [c EXCEPT !.stage = "ok"])
  /\ UNCHANGED <<charged, pages, clicks, mishaps>>

Writes(c, i, invoice) == Served(c, [ledger EXCEPT ![i] = invoice], node, booking)
Appends(c, n, amount) == Writes(c, c.inv, [ledger[c.inv] EXCEPT !.lines = Append(@, [item |-> n, amount |-> amount])])

NextInvoice == Min({i \in Invoices : ledger[i].status = "none"})

create_invoice(c) ==
  /\ At(c, "create") \/ At(c, "seed")
  /\ \E i \in Invoices : ledger[i].status = "none"
  /\ ledger' = [ledger EXCEPT ![NextInvoice].status = "draft"]
  /\ Becomes(c, [c EXCEPT !.stage = "ok", !.inv = NextInvoice])
  /\ UNCHANGED <<node, booking, charged, pages, clicks, mishaps>>

add_line_item(c) ==
  \/ At(c, "line") /\ Appends(c, c.item, c.amount)
  \/ At(c, "seedLine") /\ Appends(c, c.targets[c.line].item, c.targets[c.line].amount)

issue_invoice(c) == At(c, "issue") /\ Writes(c, c.inv, [ledger[c.inv] EXCEPT !.status = "issued"])

\* What is given back, a bill-all under way misses.
GivesBack(c, ledgers) ==
  /\ Accepted(c)
  /\ ledger' = ledgers
  /\ calls' = {IF d = c THEN [c EXCEPT !.stage = "ok"]
               ELSE IF d.from = "seed" THEN [d EXCEPT !.flaws = @ \cup {"undone"}] ELSE d : d \in calls}
  /\ UNCHANGED <<charged, pages, clicks, mishaps>>

void_line_item(c) ==
  /\ At(c, "voidLine") /\ GivesBack(c, [ledger EXCEPT ![c.inv].lines[c.line].amount = 0])
  /\ UNCHANGED <<node, booking>>

void_invoice(c) ==
  /\ At(c, "void") /\ GivesBack(c, [ledger EXCEPT ![c.inv].status = "void"])
  /\ UNCHANGED <<node, booking>>

\* The charge a booking stands on is reversed, paid or not, and the item can be booked again.
cancel_booking(c) ==
  /\ At(c, "cancel")
  /\ GivesBack(c, [ledger EXCEPT ![booking[c.item][1]].lines[booking[c.item][2]].amount = 0])
  /\ node' = [node EXCEPT ![c.item] = "approved"]
  /\ booking' = [booking EXCEPT ![c.item] = <<0, 0>>]

\* The latest of the charges, by which a booking is covered.
LatestCharge(charges) ==
  CHOOSE c \in charges : \A d \in charges : d[1] < c[1] \/ (d[1] = c[1] /\ d[2] <= c[2])

\* Booked with a live slot, an item is confirmed at once.
book_node(c) ==
  /\ At(c, "book") \/ At(c, "override")
  /\ Served(c, ledger, [node EXCEPT ![c.item] = IF c.full THEN "confirmed" ELSE "booked"],
            [booking EXCEPT ![c.item] = LatestCharge(Charges(c.item, Gate(c)))])

record_confirmation(c) ==
  At(c, "confirm") /\ Served(c, ledger, [node EXCEPT ![c.item] = "confirmed"], booking)

supplier_availability(c) ==
  /\ At(c, "slots")
  /\ \E slots \in {"some", "none", "off"} : Becomes(c, [c EXCEPT !.stage = "ok", !.got = {slots}])
  /\ UNCHANGED <<service, pages, clicks, mishaps>>

\* The route loads the invoice, and its status is what the charge is decided on.
LoadPay(c) ==
  /\ At(c, "pay") /\ Accepted(c)
  /\ Becomes(c, [c EXCEPT !.stage = "loaded"])
  /\ UNCHANGED <<service, pages, clicks, mishaps>>

pay_invoice(c) ==
  /\ c.op = "pay" /\ c.stage = "loaded" /\ Accepted(c)
  /\ charged' = [charged EXCEPT ![c.inv] = @ + 1]
  /\ ledger' = [ledger EXCEPT ![c.inv].status = "paid"]
  /\ calls' = (calls \ {c}) \cup
              (IF c.page = "nobody" THEN {}
               ELSE {[c EXCEPT !.stage = "ok", !.seen.list[c.inv] = ledger'[c.inv]]})
  /\ UNCHANGED <<node, booking, pages, clicks, mishaps>>

\* The processor has charged, its answer is lost, and the service writes nothing.
PaymentGatewayError(c) ==
  /\ Smooth
  /\ c.op = "pay" /\ c.stage = "loaded" /\ Accepted(c)
  /\ charged' = [charged EXCEPT ![c.inv] = @ + 1]
  /\ calls' = (calls \ {c}) \cup (IF c.page = "nobody" THEN {} ELSE {[c EXCEPT !.stage = "refused"]})
  /\ mishaps' = mishaps \cup {"lost"}
  /\ UNCHANGED <<ledger, node, booking, pages, clicks>>

\* A request is refused, or fails on its way, a card is declined.
Refuse(c) ==
  /\ c.stage \in {"sent", "loaded"} /\ c.op # "read"
  /\ Accepted(c) => Smooth
  /\ calls' = (calls \ {c}) \cup (IF c.page = "nobody" THEN {} ELSE {[c EXCEPT !.stage = "refused"]})
  /\ mishaps' = mishaps \cup (IF Accepted(c) THEN {"failed"} ELSE {})
  /\ UNCHANGED <<service, pages, clicks>>

\* The answer of what was done is lost.
Lose(c) ==
  /\ Smooth
  /\ c.stage = "ok" /\ c.op \notin {"read", "nonce", "slots", "pay"}
  /\ Becomes(c, [c EXCEPT !.stage = "refused"])
  /\ mishaps' = mishaps \cup {"lost"}
  /\ UNCHANGED <<service, pages, clicks>>

\* It is lost, or given up, while the payment is still being served.
GiveUp(c) ==
  /\ Smooth
  /\ c.page = "payer" /\ c.op = "pay"
  /\ payer' = [payer EXCEPT !.paying = FALSE]
  /\ calls' = (calls \ {c}) \cup (IF c.stage = "ok" THEN {} ELSE {[c EXCEPT !.page = "nobody"]})
  /\ mishaps' = mishaps \cup {"lost"}
  /\ UNCHANGED <<service, panel, desk, clicks>>

\* The two halves of a refresh are read on their own; either may fail.
Reads(page) == IF page = "panel" THEN {"list", "nodes"} ELSE {"nodes", "off"}
Now(part) == IF part = "list" THEN ledger ELSE IF part = "nodes" THEN node ELSE Discrepancies

ServeRead(c, part) ==
  /\ At(c, "read") /\ part \in Reads(c.page) \ c.got
  /\ Becomes(c, [c EXCEPT !.got = @ \cup {part}, !.seen[part] = Now(part)])
  /\ UNCHANGED <<service, pages, clicks, mishaps>>

FailRead(c, part) ==
  /\ Smooth
  /\ At(c, "read") /\ part \in Reads(c.page) \ c.got
  /\ Becomes(c, [c EXCEPT !.got = @ \cup {part},
                          !.seen[part] = IF part = "list" THEN panel.list ELSE IF c.page = "panel" THEN panel.nodes
                                         ELSE IF part = "nodes" THEN desk.nodes ELSE desk.off])
  /\ mishaps' = mishaps \cup {"lost"}
  /\ UNCHANGED <<service, pages, clicks>>

-----------------------------------------------------------------------------
(* Answers.                                                                *)

Ok(c) == c.stage = "ok"
Answered(c, ops) == c.op \in ops /\ c.stage \in {"ok", "refused"}

createInvoice(c) == Answered(c, {"create", "seed"})
addInvoiceLineItem(c) == Answered(c, {"line", "seedLine"})
voidInvoiceLineItem(c) == Answered(c, {"voidLine"})
issueInvoice(c) == Answered(c, {"issue"})
invoiceVoided(c) == Answered(c, {"void"})
nodeBooked(c) == Answered(c, {"book", "override"})
nodeConfirmed(c) == Answered(c, {"confirm"})
bookingCancelled(c) == Answered(c, {"cancel"})
supplierAvailability(c) == Answered(c, {"slots"})
payInvoice(c) == Answered(c, {"pay"})

Refresh(c) ==
  /\ Becomes(c, [c EXCEPT !.op = "read", !.stage = "sent", !.targets = IF c.from = "seed" THEN @ ELSE <<>>])
  /\ UNCHANGED <<service, pages, clicks, mishaps>>

Done(c) ==
  /\ calls' = calls \ {c}
  /\ UNCHANGED <<service, clicks, mishaps>>

Idle(c) ==
  IF c.from \in {"create", "seed"} THEN [panel EXCEPT !.creating = FALSE] ELSE [panel EXCEPT !.busy = @ \ {c.inv}]

\* A change that is not accepted ends with its error; one that is with a refresh.
AnswerPanel(c) ==
  /\ c.from # "seed"
  /\ createInvoice(c) \/ addInvoiceLineItem(c) \/ voidInvoiceLineItem(c) \/ issueInvoice(c) \/ invoiceVoided(c)
  /\ \/ Ok(c) /\ Refresh(c)
     \/ ~Ok(c) /\ Done(c) /\ panel' = Idle(c) /\ UNCHANGED <<desk, payer>>

\* The draft is there: on to its first line, if there is one.
AnswerSeed(c) ==
  /\ createInvoice(c) /\ c.from = "seed"
  /\ \/ Ok(c) /\ c.targets = <<>> /\ Refresh(c)
     \/ /\ Ok(c) /\ c.targets # <<>>
        /\ Becomes(c, [c EXCEPT !.op = "seedLine", !.stage = "sent"])
        /\ UNCHANGED <<service, pages, clicks, mishaps>>
     \/ ~Ok(c) /\ Done(c) /\ panel' = Idle(c) /\ UNCHANGED <<desk, payer>>

LastLine(c) == c.line = Len(c.targets)
NextLine(c) ==
  /\ Becomes(c, [c EXCEPT !.line = @ + 1, !.stage = "sent"])
  /\ UNCHANGED <<service, pages, clicks, mishaps>>

\* Slip: a line that is refused is passed over.
AnswerSeedLineOnwards(c) ==
  /\ addInvoiceLineItem(c) /\ c.from = "seed"
  /\ IF LastLine(c) THEN Refresh(c) ELSE NextLine(c)

\* Slip: a line that is refused ends it, and nothing is read.
AnswerSeedLineUnread(c) ==
  /\ addInvoiceLineItem(c) /\ c.from = "seed"
  /\ \/ Ok(c) /\ LastLine(c) /\ Refresh(c)
     \/ Ok(c) /\ ~LastLine(c) /\ NextLine(c)
     \/ ~Ok(c) /\ Done(c) /\ panel' = Idle(c) /\ UNCHANGED <<desk, payer>>

\* Slip: a line that is refused ends it, and the button is forgotten.
AnswerSeedLineEnds(c) ==
  /\ addInvoiceLineItem(c) /\ c.from = "seed"
  /\ \/ Ok(c) /\ LastLine(c) /\ Refresh(c)
     \/ Ok(c) /\ ~LastLine(c) /\ NextLine(c)
     \/ ~Ok(c) /\ Done(c) /\ UNCHANGED pages

\* The next line, until one is refused; what was written stays, and the page reads it.
AnswerSeedLine(c) ==
  /\ addInvoiceLineItem(c) /\ c.from = "seed"
  /\ \/ Ok(c) /\ LastLine(c) /\ Refresh(c)
     \/ Ok(c) /\ ~LastLine(c) /\ NextLine(c)
     \/ /\ ~Ok(c)
        /\ Becomes(c, [c EXCEPT !.op = "read", !.stage = "sent", !.flaws = @ \cup {"failed"}])
        /\ UNCHANGED <<service, pages, clicks, mishaps>>

\* The Booking tab, and the dialog of a supplier's item.
AnswerBooking(c) ==
  /\ nodeBooked(c) \/ nodeConfirmed(c) \/ bookingCancelled(c)
  /\ \/ Ok(c) /\ Refresh(c)
     \/ /\ ~Ok(c) /\ Done(c) /\ UNCHANGED <<panel, payer>>
        /\ desk' = IF c.page = "desk" THEN [desk EXCEPT !.busy = @ \ {c.item}]
                   ELSE [desk EXCEPT !.picker.busy = @ /\ desk.picker.id # c.amount]

AnswerSlots(c) ==
  /\ supplierAvailability(c)
  /\ Done(c)
  /\ desk' = IF desk.picker.id # c.id THEN desk
             ELSE [desk EXCEPT !.picker.slots = IF Ok(c) THEN CHOOSE s \in c.got : TRUE ELSE "none"]
  /\ UNCHANGED <<panel, payer>>

Both(c) == c.op = "read" /\ c.got = Reads(c.page)

\* What was read is shown, over whatever has been shown in between.
AnswerRead(c) ==
  /\ Both(c) /\ Done(c) /\ UNCHANGED payer
  /\ IF c.page = "panel"
     THEN panel' = [Idle(c) EXCEPT !.list = c.seen.list, !.nodes = c.seen.nodes] /\ UNCHANGED desk
     ELSE /\ desk' = [desk EXCEPT !.nodes = c.seen.nodes, !.off = c.seen.off, !.busy = IF c.page = "desk" THEN @ \ {c.item} ELSE @,
                                  !.picker = IF c.page = "picker" THEN NoPicker ELSE @]
          /\ UNCHANGED panel

\* The form gives the card, and the payment goes out.
requestPaymentMethod(c) ==
  /\ At(c, "nonce")
  /\ Becomes(c, [c EXCEPT !.op = "pay"])
  /\ payer' = [payer EXCEPT !.paying = TRUE]
  /\ UNCHANGED <<service, panel, desk, clicks, mishaps>>

AnswerNonce(c) ==
  /\ Answered(c, {"nonce"})
  /\ Done(c) /\ UNCHANGED pages

\* A refused payment leaves the invoice on the page as it was.
AnswerPay(c) ==
  /\ c.page = "payer" /\ payInvoice(c)
  /\ Done(c)
  /\ payer' = IF Ok(c) THEN [shown |-> c.seen.list[c.inv], form |-> FALSE, paying |-> FALSE]
              ELSE [payer EXCEPT !.paying = FALSE]
  /\ UNCHANGED <<panel, desk>>

-----------------------------------------------------------------------------

InvoiceCard(i) ==
  \/ addAdjustment(i) \/ issue(i) \/ voidInvoice(i)
  \/ \E n \in Items, amount \in 1..Cost : submitCharge(i, n, amount)

LineRow(i) == \E k \in 1..MaxClicks : voidLine(i, k)

InvoicePanel == create \/ seedInvoice(TRUE) \/ seedInvoice(FALSE) \/ \E i \in Invoices : InvoiceCard(i) \/ LineRow(i)

BookingPanel ==
  \E n \in Items :
    bookNode(n, TRUE) \/ bookNode(n, FALSE) \/ confirmNode(n) \/ askCancel(n) \/ cancelBooking(n)

SupplierSlotPickerDialog ==
  (\E n \in Items : loadAvailability(n)) \/ reserveAndConfirm(TRUE) \/ reserveAndConfirm(FALSE) \/ onClose

PayInvoiceView == mountForm \/ pay \/ payWithTestCard

Serve(c) ==
  \/ create_invoice(c) \/ add_line_item(c) \/ void_line_item(c) \/ issue_invoice(c) \/ void_invoice(c)
  \/ book_node(c) \/ record_confirmation(c) \/ cancel_booking(c) \/ supplier_availability(c)
  \/ LoadPay(c) \/ pay_invoice(c) \/ Refuse(c)
  \/ \E part \in {"list", "nodes", "off"} : ServeRead(c, part)

Fail(c) == Lose(c) \/ GiveUp(c) \/ PaymentGatewayError(c) \/ \E part \in {"list", "nodes", "off"} : FailRead(c, part)

Answer(c) ==
  \/ AnswerPanel(c) \/ AnswerSeed(c) \/ AnswerSeedLine(c) \/ AnswerBooking(c) \/ AnswerSlots(c)
  \/ AnswerRead(c) \/ requestPaymentMethod(c) \/ AnswerNonce(c) \/ AnswerPay(c)

\* The first invoice bills one item in full, and is a draft, issued or paid.
Billed(n) == [status |-> "draft", lines |-> <<[item |-> n, amount |-> Cost]>>]

Init ==
  /\ \E n \in Items, s \in {"none", "draft", "issued", "paid"} :
       ledger = [i \in Invoices |-> IF i = 1 /\ s # "none" THEN [Billed(n) EXCEPT !.status = s] ELSE Void]
  /\ node = [n \in Items |-> "approved"]
  /\ booking = [n \in Items |-> <<0, 0>>]
  /\ charged = [i \in Invoices |-> 0]
  /\ panel = [list |-> ledger, nodes |-> node, creating |-> FALSE, busy |-> {}]
  /\ desk = [nodes |-> node, off |-> Discrepancies, busy |-> {}, asking |-> {}, picker |-> NoPicker]
  /\ payer = [shown |-> ledger[1], form |-> FALSE, paying |-> FALSE]
  /\ calls = {} /\ clicks = <<>> /\ mishaps = {}

Next ==
  \/ InvoicePanel \/ BookingPanel \/ SupplierSlotPickerDialog \/ PayInvoiceView
  \/ \E c \in calls : Serve(c) \/ Fail(c) \/ Answer(c)

Spec == Init /\ [][Next]_vars

\* Every call is answered in the end, one way or the other.
Works == \E c \in calls : Serve(c) \/ Answer(c)

LiveSpec == Spec /\ WF_vars(Works)

-----------------------------------------------------------------------------
(* Properties.                                                             *)

Clicked(page) == \A k \in DOMAIN clicks : clicks[k] \in page

\* A tab that is the only one to be used, one click at a time, shows what the service has once its
\* calls are answered, refused ones and half-made invoices included.
QuietMoneyAgrees ==
  calls = {} /\ mishaps \subseteq {"failed"} =>
    /\ Clicked({"panel"}) => panel.list = ledger /\ panel.nodes = node
    /\ Clicked({"desk", "picker"}) => desk.nodes = node /\ desk.off = Discrepancies
    /\ Clicked({"payer"}) => payer.shown = ledger[1]

\* A bill-all in full that ends without an error leaves nothing unbilled of what it listed, whatever
\* else was billed, paid or booked meanwhile; unless something was given back since the list was read.
SeedClosesOut ==
  [][\A c \in calls : c.from = "seed" /\ Both(c) /\ c.full /\ c.flaws = {} /\ c \notin calls' =>
       \A k \in DOMAIN c.targets : Left(ledger', c.targets[k].item) = 0]_vars

\* The page charges an invoice once, although the service decides on a status it read before: twice
\* takes an answer that is lost while the payment is made, or two cards handed in at once.
ChargedOnce ==
  \A i \in Invoices : charged[i] > 1 => mishaps \cap {"lost", "doubled"} # {}

\* No button waits for ever.
ButtonsComeBack ==
  []<>(~panel.creating /\ panel.busy = {} /\ desk.busy = {} /\ ~payer.paying)

=============================================================================
