-------------------------- MODULE MoneyPanelsProofs --------------------------
(***************************************************************************)
(* For any items, invoices and clicks: the pay page charges an invoice     *)
(* once, unless an answer is lost or two cards are handed in at once; and  *)
(* a tab or pay page used alone, one click at a time, shows what the       *)
(* service has.                                                            *)
(***************************************************************************)
EXTENDS MoneyPanels, WellFoundedInduction, TLAPS

\* A click under way is a record with these fields.
Fields == {"id", "page", "op", "from", "inv", "line", "item", "amount", "targets", "full", "flaws", "stage",
           "got", "seen"}

Shaped(c) == c = [f \in Fields |-> c[f]]

Shapes ==
  /\ ledger = [i \in Invoices |-> [status |-> ledger[i].status, lines |-> ledger[i].lines]]
  /\ charged \in [Invoices -> Nat]
  /\ payer = [shown |-> payer.shown, form |-> payer.form, paying |-> payer.paying]

\* The traveler's clicks are the payments, given up or not, and no bill-all.
Payer(c) == c.page \in {"payer", "nobody"}

WellMade(c) == /\ Shaped(c)
               /\ Payer(c) <=> c.op \in {"nonce", "pay"}
               /\ Payer(c) => c.from # "seed"

Clean == mishaps \cap {"lost", "doubled"} = {}

\* One payment at a time, and its button waits once the card is there.
OnePayment ==
  /\ \A c, d \in calls : Payer(c) /\ Payer(d) => c = d
  /\ \A c \in calls : Payer(c) => c.page = "payer"
  /\ \A c \in calls : c.op = "pay" => payer.paying

\* What was charged is paid, and no payment is about to charge it again.
ChargedIsPaid ==
  /\ \A i \in Invoices : charged[i] # 0 => charged[i] = 1 /\ ledger[i].status = "paid"
  /\ \A c \in calls : (c.op = "pay" /\ c.stage = "loaded" /\ c.inv \in Invoices) => ledger[c.inv].status # "paid"

PaymentInv ==
  /\ Shapes /\ \A c \in calls : WellMade(c)
  /\ Clean => OnePayment /\ ChargedIsPaid

-----------------------------------------------------------------------------
LEMMA InitPaymentInv == Init => PaymentInv
BY DEF Init, PaymentInv, Shapes, Billed, Void, Clean, OnePayment, ChargedIsPaid

\* A step of the tabs: it makes, moves or ends clicks of theirs, and takes no invoice to or from paid.
LEMMA TabStep ==
  ASSUME PaymentInv, Shapes', UNCHANGED <<charged, payer>>, mishaps \subseteq mishaps',
         \A i \in Invoices : ledger'[i].status = "paid" <=> ledger[i].status = "paid",
         \A d \in calls' : WellMade(d) /\ (Payer(d) => d \in calls)
  PROVE  PaymentInv'
<1>1. Clean' => Clean
  BY DEF Clean
<1>2. Clean' => OnePayment'
  BY <1>1 DEF PaymentInv, OnePayment, WellMade
<1>3. Clean' => ChargedIsPaid'
  BY <1>1 DEF PaymentInv, ChargedIsPaid, WellMade
<1>4. QED
  BY <1>2, <1>3 DEF PaymentInv, WellMade, Shaped, Payer

\* The first call of a click of the tabs.
LEMMA TabClick ==
  ASSUME PaymentInv, NEW call, Click(call), payer' = payer, Shaped(call),
         ~Payer(call), call.op \notin {"nonce", "pay"}
  PROVE  PaymentInv'
<1> DEFINE new == [call EXCEPT !.id = Len(clicks) + 1, !.from = call.op]
<1>1. UNCHANGED service /\ calls' = calls \cup {new} /\ mishaps \subseteq mishaps'
  BY DEF Click
<1>2. WellMade(new) /\ ~Payer(new)
  BY DEF WellMade, Payer, Shaped, Fields
<1> HIDE DEF new
<1>3. Shapes'
  BY <1>1 DEF PaymentInv, Shapes, service
<1>4. QED
  BY <1>1, <1>2, <1>3, TabStep DEF PaymentInv, service

\* A call of the tabs becomes another one, or is over.
LEMMA TabMoves ==
  ASSUME PaymentInv, NEW c \in calls, ~Payer(c), Shapes', UNCHANGED <<charged, payer>>,
         mishaps \subseteq mishaps', 
         \A i \in Invoices : ledger'[i].status = "paid" <=> ledger[i].status = "paid",
         \/ calls' = calls \ {c}
         \/ \E d : Becomes(c, d) /\ WellMade(d) /\ ~Payer(d)
  PROVE  PaymentInv'
BY TabStep DEF PaymentInv, Becomes

\* A step that leaves the clicks, the ledger and the pay page alone.
LEMMA Elsewhere ==
  ASSUME PaymentInv, UNCHANGED <<ledger, charged, payer, calls, mishaps>>
  PROVE  PaymentInv'
BY DEF PaymentInv, Shapes, Clean, OnePayment, ChargedIsPaid, WellMade, Shaped, Payer

-----------------------------------------------------------------------------
(* The clicks.                                                             *)

LEMMA RunClick ==
  ASSUME PaymentInv, NEW i, NEW call, run(i, call), Shaped(call),
         ~Payer(call), call.op \notin {"nonce", "pay"}
  PROVE  PaymentInv'
<1>1. Shaped([call EXCEPT !.inv = i]) /\ [call EXCEPT !.inv = i].page = call.page /\ [call EXCEPT !.inv = i].op = call.op
  BY DEF Shaped, Fields
<1>2. ~Payer([call EXCEPT !.inv = i])
  BY <1>1 DEF Payer
<1> DEFINE new == [call EXCEPT !.inv = i]
<1>3. Click(new) /\ payer' = payer
  BY DEF run
<1> HIDE DEF new
<1>4. Shaped(new) /\ ~Payer(new) /\ new.op \notin {"nonce", "pay"}
  BY <1>1, <1>2 DEF new
<1>5. QED
  BY <1>3, <1>4, TabClick

LEMMA RowClick ==
  ASSUME PaymentInv, NEW n, NEW shown, NEW call, BookingRow(n, shown, call), Shaped(call),
         call.op \notin {"nonce", "pay"}
  PROVE  PaymentInv'
<1> DEFINE new == [call EXCEPT !.page = "desk", !.item = n]
<1>1. Shaped(new) /\ new.page = "desk" /\ new.op = call.op
  BY DEF Shaped, Fields
<1>2. Click(new) /\ payer' = payer
  BY DEF BookingRow
<1> HIDE DEF new
<1>3. ~Payer(new) /\ new.op \notin {"nonce", "pay"}
  BY <1>1 DEF Payer
<1>4. QED
  BY <1>1, <1>2, <1>3, TabClick

LEMMA PanelKeeps == ASSUME PaymentInv, InvoicePanel PROVE PaymentInv'
<1>1. CASE create
  <2> DEFINE call == [NoCall EXCEPT !.op = "create"]
  <2>1. Shaped(call) /\ ~Payer(call) /\ call.op = "create"
    BY DEF Shaped, Fields, NoCall, Payer
  <2>2. Click(call) /\ payer' = payer
    BY <1>1 DEF create
  <2> QED
    BY <2>1, <2>2, TabClick
<1>2. ASSUME NEW full, seedInvoice(full) PROVE PaymentInv'
  <2> DEFINE flaws == IF \E n \in Items : Left(ledger, n) > Left(panel.list, n) THEN {"undone"} ELSE {}
             call == [NoCall EXCEPT !.op = "seed", !.targets = Targets(full), !.full = full, !.flaws = flaws]
  <2>1. Click(call) /\ payer' = payer
    BY <1>2 DEF seedInvoice
  <2> HIDE DEF flaws
  <2>2. Shaped(call) /\ ~Payer(call) /\ call.op = "seed"
    BY DEF Shaped, Fields, NoCall, Payer
  <2> QED
    BY <2>1, <2>2, TabClick
<1>3. ASSUME NEW i, addAdjustment(i) PROVE PaymentInv'
  <2>1. Shaped([NoCall EXCEPT !.op = "line", !.amount = 1])
    BY DEF Shaped, Fields, NoCall
  <2>2. ~Payer([NoCall EXCEPT !.op = "line", !.amount = 1]) /\ [NoCall EXCEPT !.op = "line", !.amount = 1].op = "line"
    BY DEF NoCall, Payer
  <2> QED
    BY <1>3, <2>1, <2>2, RunClick DEF addAdjustment
<1>4. ASSUME NEW i, issue(i) PROVE PaymentInv'
  <2>1. Shaped([NoCall EXCEPT !.op = "issue"]) /\ ~Payer([NoCall EXCEPT !.op = "issue"]) /\ [NoCall EXCEPT !.op = "issue"].op = "issue"
    BY DEF Shaped, Fields, NoCall, Payer
  <2> QED
    BY <1>4, <2>1, RunClick DEF issue
<1>5. ASSUME NEW i, voidInvoice(i) PROVE PaymentInv'
  <2>1. Shaped([NoCall EXCEPT !.op = "void"]) /\ ~Payer([NoCall EXCEPT !.op = "void"]) /\ [NoCall EXCEPT !.op = "void"].op = "void"
    BY DEF Shaped, Fields, NoCall, Payer
  <2> QED
    BY <1>5, <2>1, RunClick DEF voidInvoice
<1>6. ASSUME NEW i, NEW n, NEW amount, submitCharge(i, n, amount) PROVE PaymentInv'
  <2> DEFINE call == [NoCall EXCEPT !.op = "line", !.item = n, !.amount = amount]
  <2>1. Shaped(call) /\ ~Payer(call) /\ call.op = "line"
    BY DEF Shaped, Fields, NoCall, Payer
  <2>2. run(i, call)
    BY <1>6 DEF submitCharge
  <2> QED
    BY <2>1, <2>2, RunClick
<1>7. ASSUME NEW i, NEW k, voidLine(i, k) PROVE PaymentInv'
  <2> DEFINE call == [NoCall EXCEPT !.op = "voidLine", !.line = k]
  <2>1. Shaped(call) /\ ~Payer(call) /\ call.op = "voidLine"
    BY DEF Shaped, Fields, NoCall, Payer
  <2>2. run(i, call)
    BY <1>7 DEF voidLine
  <2> QED
    BY <2>1, <2>2, RunClick
<1>8. QED
  BY <1>1, <1>2, <1>3, <1>4, <1>5, <1>6, <1>7 DEF InvoicePanel, InvoiceCard, LineRow

LEMMA DeskKeeps == ASSUME PaymentInv, BookingPanel \/ SupplierSlotPickerDialog PROVE PaymentInv'
<1>1. ASSUME NEW n, NEW override, bookNode(n, override) PROVE PaymentInv'
  <2> DEFINE call == [NoCall EXCEPT !.op = IF override THEN "override" ELSE "book"]
  <2>1. Shaped(call) /\ call.op \notin {"nonce", "pay"}
    BY DEF Shaped, Fields, NoCall
  <2>2. BookingRow(n, {"approved"}, call)
    BY <1>1 DEF bookNode
  <2> QED
    BY <2>1, <2>2, RowClick
<1>2. ASSUME NEW n, confirmNode(n) PROVE PaymentInv'
  <2> DEFINE call == [NoCall EXCEPT !.op = "confirm"]
  <2>1. Shaped(call) /\ call.op \notin {"nonce", "pay"}
    BY DEF Shaped, Fields, NoCall
  <2>2. BookingRow(n, {"booked"}, call)
    BY <1>2 DEF confirmNode
  <2> QED
    BY <2>1, <2>2, RowClick
<1>3. ASSUME NEW n, cancelBooking(n) PROVE PaymentInv'
  <2> DEFINE call == [NoCall EXCEPT !.op = "cancel"]
  <2>1. Shaped(call) /\ call.op \notin {"nonce", "pay"}
    BY DEF Shaped, Fields, NoCall
  <2>2. BookingRow(n, {"booked", "confirmed"}, call)
    BY <1>3 DEF cancelBooking
  <2> QED
    BY <2>1, <2>2, RowClick
<1>4. ASSUME NEW n, askCancel(n) PROVE PaymentInv'
  BY <1>4, Elsewhere DEF askCancel, service
<1>5. ASSUME NEW n, loadAvailability(n) PROVE PaymentInv'
  <2> DEFINE call == [NoCall EXCEPT !.page = "picker", !.op = "slots", !.item = n]
  <2>1. Shaped(call) /\ ~Payer(call) /\ call.op = "slots"
    BY DEF Shaped, Fields, NoCall, Payer
  <2>2. Click(call) /\ payer' = payer
    BY <1>5 DEF loadAvailability
  <2> QED
    BY <2>1, <2>2, TabClick
<1>6. ASSUME NEW override, reserveAndConfirm(override) PROVE PaymentInv'
  <2> DEFINE call == [NoCall EXCEPT !.page = "picker", !.op = IF override THEN "override" ELSE "book",
                        !.item = desk.picker.item, !.full = desk.picker.slots = "some", !.amount = desk.picker.id]
  <2>1. Shaped(call) /\ ~Payer(call) /\ call.op \notin {"nonce", "pay"}
    BY DEF Shaped, Fields, NoCall, Payer
  <2>2. Click(call) /\ payer' = payer
    BY <1>6 DEF reserveAndConfirm
  <2> QED
    BY <2>1, <2>2, TabClick
<1>7. CASE onClose
  BY <1>7, Elsewhere DEF onClose, service
<1>8. QED
  BY <1>1, <1>2, <1>3, <1>4, <1>5, <1>6, <1>7 DEF BookingPanel, SupplierSlotPickerDialog

\* A payment is the only one, unless two cards are handed in at once.
LEMMA PayerClick ==
  ASSUME PaymentInv, NEW call, Click(call), Shaped(call), call.page = "payer",
         call.op \in {"nonce", "pay"}, call.stage = "sent", ~payer.paying,
         payer' = [payer EXCEPT !.paying = TRUE] \/ (payer' = payer /\ call.op = "nonce")
  PROVE  PaymentInv'
<1> DEFINE new == [call EXCEPT !.id = Len(clicks) + 1, !.from = call.op]
<1>1. UNCHANGED service /\ calls' = calls \cup {new} /\ mishaps \subseteq mishaps'
  BY DEF Click
<1>2. (\E c \in calls : c.op = "nonce") => "doubled" \in mishaps'
  BY DEF Click
<1>3. WellMade(new) /\ Payer(new) /\ new.page = "payer" /\ new.op = call.op /\ new.stage = "sent"
  BY DEF WellMade, Payer, Shaped, Fields
<1> HIDE DEF new
<1>4. Shapes'
  BY <1>1 DEF PaymentInv, Shapes, service
<1>5. ASSUME Clean' PROVE \A c \in calls : ~Payer(c)
  <2>1. OnePayment
    BY <1>1, <1>5 DEF Clean, PaymentInv
  <2>2. \A c \in calls : c.op # "nonce"
    BY <1>2, <1>5 DEF Clean
  <2>3. \A c \in calls : c.op # "pay"
    BY <2>1 DEF OnePayment
  <2> QED
    BY <2>2, <2>3 DEF PaymentInv, WellMade
<1>6. ASSUME Clean' PROVE OnePayment'
  <2>1. \A c \in calls' : Payer(c) => c = new
    BY <1>1, <1>5, <1>6
  <2>2. new.op = "pay" => payer'.paying
    BY <1>3 DEF PaymentInv, Shapes
  <2>3. \A c \in calls' : c.op = "pay" => c = new
    BY <1>1, <1>5, <1>6 DEF PaymentInv, WellMade
  <2> QED
    BY <1>3, <2>1, <2>2, <2>3 DEF OnePayment, Payer
<1>7. ASSUME Clean' PROVE ChargedIsPaid'
  <2>1. ChargedIsPaid
    BY <1>1, <1>7 DEF Clean, PaymentInv
  <2> QED
    BY <1>1, <1>3, <2>1 DEF ChargedIsPaid, service
<1>8. \A c \in calls' : WellMade(c)
  BY <1>1, <1>3 DEF PaymentInv
<1>9. QED
  BY <1>4, <1>6, <1>7, <1>8 DEF PaymentInv, WellMade, Shaped, Payer

LEMMA PayerKeeps == ASSUME PaymentInv, PayInvoiceView PROVE PaymentInv'
<1>1. CASE mountForm
  <2>1. Shapes'
    BY <1>1 DEF mountForm, PaymentInv, Shapes, service
  <2>2. payer'.paying = payer.paying
    BY <1>1 DEF mountForm, PaymentInv, Shapes
  <2> QED
    BY <1>1, <2>1, <2>2 DEF mountForm, service, PaymentInv, Clean, OnePayment, ChargedIsPaid, WellMade, Shaped, Payer
<1>2. CASE pay
  <2> DEFINE call == [NoCall EXCEPT !.page = "payer", !.op = "nonce", !.inv = 1]
  <2>1. Shaped(call) /\ call.page = "payer" /\ call.op = "nonce" /\ call.stage = "sent"
    BY DEF Shaped, Fields, NoCall
  <2>2. Click(call) /\ payer' = payer /\ ~payer.paying
    BY <1>2 DEF pay, pages
  <2> QED
    BY <2>1, <2>2, PayerClick
<1>3. CASE payWithTestCard
  <2> DEFINE call == [NoCall EXCEPT !.page = "payer", !.op = "pay", !.inv = 1]
  <2>1. Shaped(call) /\ call.page = "payer" /\ call.op = "pay" /\ call.stage = "sent"
    BY DEF Shaped, Fields, NoCall
  <2>2. Click(call) /\ payer' = [payer EXCEPT !.paying = TRUE] /\ ~payer.paying
    BY <1>3 DEF payWithTestCard
  <2> QED
    BY <2>1, <2>2, PayerClick
<1>4. QED
  BY <1>1, <1>2, <1>3 DEF PayInvoiceView

-----------------------------------------------------------------------------
(* The service.                                                            *)

\* The next stage of a call.
LEMMA Staged ==
  ASSUME NEW c, WellMade(c), NEW s
  PROVE  /\ WellMade([c EXCEPT !.stage = s])
         /\ [c EXCEPT !.stage = s].op = c.op /\ [c EXCEPT !.stage = s].page = c.page
         /\ [c EXCEPT !.stage = s].inv = c.inv /\ [c EXCEPT !.stage = s].stage = s
         /\ Payer([c EXCEPT !.stage = s]) <=> Payer(c)
BY DEF WellMade, Shaped, Fields, Payer

\* One invoice written, its status or its lines.
LEMMA WritesOne ==
  ASSUME Shapes, NEW i, NEW invoice, ledger' = [ledger EXCEPT ![i] = invoice],
         UNCHANGED <<charged, payer>>,
         i \in Invoices => /\ invoice = [status |-> invoice.status, lines |-> invoice.lines]
                           /\ invoice.status = "paid" <=> ledger[i].status = "paid"
  PROVE  Shapes' /\ \A j \in Invoices : ledger'[j].status = "paid" <=> ledger[j].status = "paid"
BY DEF Shapes

LEMMA ServedTab ==
  ASSUME PaymentInv, NEW c \in calls, ~Payer(c), NEW ledgers, NEW nodes, NEW bookings,
         Served(c, ledgers, nodes, bookings), Shapes',
         \A i \in Invoices : ledger'[i].status = "paid" <=> ledger[i].status = "paid"
  PROVE  PaymentInv'
<1>1. UNCHANGED <<charged, payer, mishaps>> /\ Becomes(c, [c EXCEPT !.stage = "ok"])
  BY DEF Served, pages
<1>2. WellMade(c)
  BY DEF PaymentInv
<1>3. QED
  BY <1>1, <1>2, Staged, TabMoves

LEMMA GivenBack ==
  ASSUME PaymentInv, NEW c \in calls, ~Payer(c), NEW ledgers, GivesBack(c, ledgers), Shapes',
         \A i \in Invoices : ledger'[i].status = "paid" <=> ledger[i].status = "paid"
  PROVE  PaymentInv'
<1>1. UNCHANGED <<charged, payer, mishaps>>
  BY DEF GivesBack, pages
<1> DEFINE new(d) == IF d = c THEN [c EXCEPT !.stage = "ok"]
                     ELSE IF d.from = "seed" THEN [d EXCEPT !.flaws = @ \cup {"undone"}] ELSE d
<1>2. calls' = {new(d) : d \in calls}
  BY DEF GivesBack
<1>3. ASSUME NEW d \in calls PROVE WellMade(new(d)) /\ (Payer(new(d)) => new(d) = d)
  <2>1. WellMade(d)
    BY DEF PaymentInv
  <2>2. CASE d = c
    BY <2>1, <2>2, Staged
  <2>3. CASE d # c /\ d.from = "seed"
    <3>1. ~Payer(d)
      BY <2>1, <2>3 DEF WellMade
    <3>2. WellMade([d EXCEPT !.flaws = @ \cup {"undone"}]) /\ ~Payer([d EXCEPT !.flaws = @ \cup {"undone"}])
      BY <2>1, <3>1 DEF WellMade, Shaped, Fields, Payer
    <3> QED
      BY <2>3, <3>2
  <2>4. CASE d # c /\ d.from # "seed"
    BY <2>1, <2>4
  <2> QED
    BY <2>2, <2>3, <2>4
<1> HIDE DEF new
<1>4. \A d \in calls' : WellMade(d) /\ (Payer(d) => d \in calls)
  BY <1>2, <1>3
<1>5. QED
  BY <1>1, <1>4, TabStep

\* The next invoice is one that is not there yet.
LEMMA MinIn == ASSUME NEW S, S \subseteq Nat, S # {} PROVE Min(S) \in S
<1> DEFINE R == {ss \in Nat \X Nat : ss[1] < ss[2]}
<1>1. IsWellFoundedOn(R, Nat)
  BY NatLessThanWellFounded DEF OpToRel
<1>2. PICK x \in S : \A y \in S : ~(<<y, x>> \in R)
  <2> HIDE DEF R
  <2> QED
    BY <1>1, WFMin
<1>3. ASSUME NEW y \in S PROVE x <= y
  <2>1. x \in Nat /\ y \in Nat /\ <<y, x>> \in Nat \X Nat
    OBVIOUS
  <2>2. ~(y < x)
    BY <1>2, <2>1
  <2> QED
    BY <2>1, <2>2
<1> QED
  BY <1>3 DEF Min

LEMMA CreateKeeps == ASSUME PaymentInv, NEW c \in calls, create_invoice(c) PROVE PaymentInv'
<1>1. NextInvoice \in Invoices /\ ledger[NextInvoice].status = "none"
  <2> DEFINE Absent == {i \in Invoices : ledger[i].status = "none"}
  <2>1. Absent # {} /\ Absent \subseteq Nat
    BY BoundsAssumption DEF create_invoice, Invoices
  <2>2. NextInvoice = Min(Absent)
    BY DEF NextInvoice
  <2>3. Min(Absent) \in Absent
    <3> HIDE DEF Absent
    <3> QED
      BY <2>1, MinIn
  <2> QED
    BY <2>2, <2>3
<1> DEFINE i == NextInvoice
           new == [c EXCEPT !.stage = "ok", !.inv = i]
<1>2. Becomes(c, new) /\ UNCHANGED <<charged, payer, mishaps>> /\ ledger' = [ledger EXCEPT ![i].status = "draft"]
  BY DEF create_invoice, pages
<1>3. WellMade(c) /\ ~Payer(c)
  BY DEF create_invoice, At, PaymentInv, WellMade
<1> HIDE DEF i
<1>4. WellMade(new) /\ ~Payer(new)
  BY <1>3 DEF WellMade, Shaped, Fields, Payer
<1>5. Shapes' /\ \A j \in Invoices : ledger'[j].status = "paid" <=> ledger[j].status = "paid"
  <2>1. i \in Invoices /\ ledger[i].status = "none"
    BY <1>1 DEF i
  <2> QED
    BY <1>2, <2>1 DEF PaymentInv, Shapes
<1> HIDE DEF new
<1>6. QED
  BY <1>2, <1>3, <1>4, <1>5, TabMoves

LEMMA LinesKeep == ASSUME PaymentInv, NEW c \in calls, add_line_item(c) PROVE PaymentInv'
<1>1. ~Payer(c)
  BY DEF add_line_item, At, PaymentInv, WellMade
<1>2. ASSUME NEW n, NEW amount, Appends(c, n, amount) PROVE PaymentInv'
  <2> DEFINE lines == Append(ledger[c.inv].lines, [item |-> n, amount |-> amount])
             invoice == [ledger[c.inv] EXCEPT !.lines = lines]
  <2>1. Served(c, [ledger EXCEPT ![c.inv] = invoice], node, booking)
    BY <1>2 DEF Appends, Writes
  <2>2. ledger' = [ledger EXCEPT ![c.inv] = invoice] /\ UNCHANGED <<charged, payer>>
    BY <2>1 DEF Served, pages
  <2> HIDE DEF lines
  <2>3. c.inv \in Invoices => invoice = [status |-> ledger[c.inv].status, lines |-> lines]
    BY DEF PaymentInv, Shapes
  <2> HIDE DEF invoice
  <2>4. Shapes' /\ \A j \in Invoices : ledger'[j].status = "paid" <=> ledger[j].status = "paid"
    BY <2>2, <2>3, WritesOne DEF PaymentInv
  <2> QED
    BY <1>1, <2>1, <2>4, ServedTab
<1>3. QED
  BY <1>2 DEF add_line_item

LEMMA IssueKeeps == ASSUME PaymentInv, NEW c \in calls, issue_invoice(c) PROVE PaymentInv'
<1>1. ~Payer(c)
  BY DEF issue_invoice, At, PaymentInv, WellMade
<1> DEFINE invoice == [ledger[c.inv] EXCEPT !.status = "issued"]
<1>2. Served(c, [ledger EXCEPT ![c.inv] = invoice], node, booking) /\ ledger[c.inv].status = "draft"
  BY DEF issue_invoice, Writes, Served, Accepted, At
<1>3. ledger' = [ledger EXCEPT ![c.inv] = invoice] /\ UNCHANGED <<charged, payer>>
  BY <1>2 DEF Served, pages
<1>4. c.inv \in Invoices => invoice = [status |-> "issued", lines |-> ledger[c.inv].lines]
  BY DEF PaymentInv, Shapes
<1> HIDE DEF invoice
<1>5. Shapes' /\ \A j \in Invoices : ledger'[j].status = "paid" <=> ledger[j].status = "paid"
  BY <1>2, <1>3, <1>4, WritesOne DEF PaymentInv
<1>6. QED
  BY <1>1, <1>2, <1>5, ServedTab

\* A line set to nothing.
LEMMA ZeroLine ==
  ASSUME Shapes, NEW i, NEW k, ledger' = [ledger EXCEPT ![i].lines[k].amount = 0], UNCHANGED <<charged, payer>>
  PROVE  Shapes' /\ \A j \in Invoices : ledger'[j].status = "paid" <=> ledger[j].status = "paid"
<1> DEFINE lines == [ledger[i].lines EXCEPT ![k].amount = 0]
           invoice == [ledger[i] EXCEPT !.lines = lines]
<1>1. ledger' = [ledger EXCEPT ![i] = invoice]
  OBVIOUS
<1> HIDE DEF lines
<1>2. i \in Invoices => invoice = [status |-> ledger[i].status, lines |-> lines]
  BY DEF Shapes
<1> HIDE DEF invoice
<1>3. QED
  BY <1>1, <1>2, WritesOne

LEMMA GiveBackKeeps ==
  ASSUME PaymentInv, NEW c \in calls, void_line_item(c) \/ void_invoice(c) \/ cancel_booking(c)
  PROVE  PaymentInv'
<1>1. ~Payer(c) /\ Shapes
  BY DEF void_line_item, void_invoice, cancel_booking, At, PaymentInv, WellMade
<1>2. CASE void_line_item(c)
  <2> DEFINE ledgers == [ledger EXCEPT ![c.inv].lines[c.line].amount = 0]
  <2>1. GivesBack(c, ledgers)
    BY <1>2 DEF void_line_item
  <2>2. ledger' = ledgers /\ UNCHANGED <<charged, payer>>
    BY <2>1 DEF GivesBack, pages
  <2>3. Shapes' /\ \A j \in Invoices : ledger'[j].status = "paid" <=> ledger[j].status = "paid"
    BY <1>1, <2>2, ZeroLine
  <2> QED
    BY <1>1, <2>1, <2>3, GivenBack
<1>3. CASE void_invoice(c)
  <2> DEFINE invoice == [ledger[c.inv] EXCEPT !.status = "void"]
             ledgers == [ledger EXCEPT ![c.inv] = invoice]
  <2>1. GivesBack(c, ledgers) /\ ledger[c.inv].status \in Open
    BY <1>3 DEF void_invoice, GivesBack, Accepted, At
  <2>2. ledger' = ledgers /\ UNCHANGED <<charged, payer>>
    BY <2>1 DEF GivesBack, pages
  <2>3. c.inv \in Invoices => invoice = [status |-> "void", lines |-> ledger[c.inv].lines]
    BY <1>1 DEF Shapes
  <2> HIDE DEF invoice
  <2>4. Shapes' /\ \A j \in Invoices : ledger'[j].status = "paid" <=> ledger[j].status = "paid"
    BY <1>1, <2>1, <2>2, <2>3, WritesOne DEF Open
  <2> QED
    BY <1>1, <2>1, <2>4, GivenBack
<1>4. CASE cancel_booking(c)
  <2> DEFINE ledgers == [ledger EXCEPT ![booking[c.item][1]].lines[booking[c.item][2]].amount = 0]
  <2>1. GivesBack(c, ledgers)
    BY <1>4 DEF cancel_booking
  <2>2. ledger' = ledgers /\ UNCHANGED <<charged, payer>>
    BY <2>1 DEF GivesBack, pages
  <2>3. Shapes' /\ \A j \in Invoices : ledger'[j].status = "paid" <=> ledger[j].status = "paid"
    BY <1>1, <2>2, ZeroLine
  <2> QED
    BY <1>1, <2>1, <2>3, GivenBack
<1>5. QED
  BY <1>2, <1>3, <1>4

LEMMA DeskServed ==
  ASSUME PaymentInv, NEW c \in calls, book_node(c) \/ record_confirmation(c) \/ supplier_availability(c)
  PROVE  PaymentInv'
<1>1. ~Payer(c) /\ WellMade(c)
  BY DEF book_node, record_confirmation, supplier_availability, At, PaymentInv, WellMade
<1>2. CASE book_node(c)
  <2>1. PICK nodes, bookings : Served(c, ledger, nodes, bookings)
    BY <1>2 DEF book_node
  <2>2. Shapes' /\ ledger' = ledger
    BY <2>1 DEF Served, pages, PaymentInv, Shapes
  <2> QED
    BY <1>1, <2>1, <2>2, ServedTab
<1>3. CASE record_confirmation(c)
  <2>1. PICK nodes, bookings : Served(c, ledger, nodes, bookings)
    BY <1>3 DEF record_confirmation
  <2>2. Shapes' /\ ledger' = ledger
    BY <2>1 DEF Served, pages, PaymentInv, Shapes
  <2> QED
    BY <1>1, <2>1, <2>2, ServedTab
<1>4. CASE supplier_availability(c)
  <2>1. PICK slots : Becomes(c, [c EXCEPT !.stage = "ok", !.got = {slots}])
    BY <1>4 DEF supplier_availability
  <2>2. UNCHANGED <<ledger, charged, payer, mishaps>>
    BY <1>4 DEF supplier_availability, service, pages
  <2>3. WellMade([c EXCEPT !.stage = "ok", !.got = {slots}]) /\ ~Payer([c EXCEPT !.stage = "ok", !.got = {slots}])
    BY <1>1 DEF WellMade, Shaped, Fields, Payer
  <2>4. Shapes'
    BY <2>2 DEF PaymentInv, Shapes
  <2> QED
    BY <1>1, <2>1, <2>2, <2>3, <2>4, TabMoves
<1>5. QED
  BY <1>2, <1>3, <1>4

\* The route has the invoice, which is issued.
LEMMA LoadKeeps == ASSUME PaymentInv, NEW c \in calls, LoadPay(c) PROVE PaymentInv'
<1> DEFINE new == [c EXCEPT !.stage = "loaded"]
<1>1. calls' = (calls \ {c}) \cup {new} /\ UNCHANGED <<ledger, charged, payer, mishaps>>
  BY DEF LoadPay, Becomes, service, pages
<1>2. WellMade(c) /\ c.op = "pay" /\ ledger[c.inv].status = "issued"
  BY DEF LoadPay, Accepted, At, PaymentInv
<1>3. /\ WellMade(new) /\ new.op = "pay" /\ new.page = c.page /\ new.inv = c.inv
      /\ Payer(new) /\ Payer(c)
  BY <1>2, Staged DEF WellMade
<1> HIDE DEF new
<1>4. Shapes' /\ \A d \in calls' : WellMade(d)
  BY <1>1, <1>3 DEF PaymentInv, Shapes
<1>5. ASSUME Clean' PROVE OnePayment' /\ ChargedIsPaid'
  <2>1. OnePayment /\ ChargedIsPaid
    BY <1>1, <1>5 DEF Clean, PaymentInv
  <2>2. ChargedIsPaid'
    BY <1>1, <1>2, <1>3, <2>1 DEF ChargedIsPaid
  <2>3. \A d \in calls' : Payer(d) => d = new
    BY <1>1, <1>3, <2>1 DEF OnePayment
  <2>4. new.page = "payer" /\ payer'.paying
    BY <1>1, <1>2, <1>3, <2>1 DEF OnePayment
  <2>5. \A d \in calls' : d.op = "pay" => d = new
    BY <1>4, <2>3 DEF WellMade
  <2> QED
    BY <2>2, <2>3, <2>4, <2>5 DEF OnePayment, Payer
<1>6. QED
  BY <1>4, <1>5 DEF PaymentInv, WellMade, Shaped, Payer

\* One charge more.
LEMMA ChargedMore ==
  ASSUME charged \in [Invoices -> Nat], NEW i, charged' = [charged EXCEPT ![i] = @ + 1]
  PROVE  /\ charged' \in [Invoices -> Nat]
         /\ i \in Invoices => charged'[i] = charged[i] + 1
         /\ \A j \in Invoices \ {i} : charged'[j] = charged[j]
<1> DEFINE more == charged[i] + 1
<1>1. i \in Invoices => more \in Nat
  OBVIOUS
<1>2. charged' = [charged EXCEPT ![i] = more]
  OBVIOUS
<1> HIDE DEF more
<1>3. charged' \in [Invoices -> Nat]
  BY <1>1, <1>2
<1>4. /\ i \in Invoices => charged'[i] = more
      /\ \A j \in Invoices \ {i} : charged'[j] = charged[j]
  BY <1>2
<1>5. QED
  BY <1>3, <1>4 DEF more

\* It is charged and paid, by the one payment there is.
LEMMA ChargeKeeps == ASSUME PaymentInv, NEW c \in calls, pay_invoice(c) PROVE PaymentInv'
<1> DEFINE invoice == ledger'[c.inv]
           new == [c EXCEPT !.stage = "ok", !.seen.list[c.inv] = invoice]
<1>1. /\ charged' = [charged EXCEPT ![c.inv] = @ + 1]
      /\ ledger' = [ledger EXCEPT ![c.inv].status = "paid"]
      /\ calls' = (calls \ {c}) \cup (IF c.page = "nobody" THEN {} ELSE {new})
      /\ UNCHANGED <<payer, mishaps>>
  BY DEF pay_invoice, pages
<1>2. WellMade(c) /\ c.op = "pay" /\ c.stage = "loaded" /\ Payer(c)
  BY DEF pay_invoice, PaymentInv, WellMade
<1>3. WellMade(new) /\ new.op = "pay" /\ new.page = c.page /\ new.stage = "ok" /\ Payer(new)
  <2> HIDE DEF invoice
  <2>1. new.op = c.op /\ new.page = c.page /\ new.stage = "ok" /\ new.from = c.from /\ Shaped(new)
    BY <1>2 DEF WellMade, Shaped, Fields
  <2> QED
    BY <1>2, <2>1 DEF WellMade, Payer
<1> HIDE DEF new, invoice
<1>4. /\ Shapes'
      /\ c.inv \in Invoices => ledger'[c.inv].status = "paid" /\ charged'[c.inv] = charged[c.inv] + 1
      /\ \A i \in Invoices \ {c.inv} : ledger'[i] = ledger[i] /\ charged'[i] = charged[i]
  <2>1. Shapes
    BY DEF PaymentInv
  <2>2. /\ charged' \in [Invoices -> Nat]
        /\ c.inv \in Invoices => charged'[c.inv] = charged[c.inv] + 1
        /\ \A i \in Invoices \ {c.inv} : charged'[i] = charged[i]
    BY <1>1, <2>1, ChargedMore DEF Shapes
  <2>3. /\ ledger' = [i \in Invoices |-> [status |-> ledger'[i].status, lines |-> ledger'[i].lines]]
        /\ c.inv \in Invoices => ledger'[c.inv].status = "paid"
        /\ \A i \in Invoices \ {c.inv} : ledger'[i] = ledger[i]
    <3> DEFINE after == [ledger[c.inv] EXCEPT !.status = "paid"]
    <3>1. ledger' = [ledger EXCEPT ![c.inv] = after]
      BY <1>1
    <3>2. c.inv \in Invoices => after = [status |-> "paid", lines |-> ledger[c.inv].lines]
      BY <2>1 DEF Shapes
    <3> HIDE DEF after
    <3> QED
      BY <2>1, <3>1, <3>2 DEF Shapes
  <2> QED
    BY <1>1, <2>1, <2>2, <2>3 DEF Shapes
<1>5. \A d \in calls' : WellMade(d)
  BY <1>1, <1>3 DEF PaymentInv
<1>6. ASSUME Clean' PROVE OnePayment' /\ ChargedIsPaid'
  <2>1. OnePayment /\ ChargedIsPaid
    BY <1>1, <1>6 DEF Clean, PaymentInv
  <2>2. c.page = "payer" /\ payer'.paying
    BY <1>1, <1>2, <2>1 DEF OnePayment
  <2>3. \A d \in calls' : Payer(d) => d = new
    BY <1>1, <1>2, <2>1 DEF OnePayment
  <2>4. \A d \in calls' : d.op = "pay" => d = new
    BY <1>5, <2>3 DEF WellMade
  <2>5. OnePayment'
    BY <1>3, <2>2, <2>3, <2>4 DEF OnePayment, Payer
  <2>6. c.inv \in Invoices => charged[c.inv] = 0
    BY <1>2, <2>1 DEF ChargedIsPaid
  <2>7. \A i \in Invoices : charged'[i] # 0 => charged'[i] = 1 /\ ledger'[i].status = "paid"
    BY <1>4, <2>1, <2>6 DEF ChargedIsPaid
  <2>8. \A d \in calls' : ~(d.op = "pay" /\ d.stage = "loaded")
    BY <1>3, <2>4
  <2> QED
    BY <2>5, <2>7, <2>8 DEF ChargedIsPaid
<1>7. QED
  BY <1>4, <1>5, <1>6 DEF PaymentInv, WellMade, Shaped, Payer

\* A call that was served, or will not be: nothing written, and no payment gets on its way.
LEMMA CallEnds ==
  ASSUME PaymentInv, NEW c \in calls, UNCHANGED <<ledger, charged, payer>>, mishaps \subseteq mishaps',
         \/ calls' = calls \ {c}
         \/ \E d : Becomes(c, d) /\ d \in {[c EXCEPT !.stage = "ok"], [c EXCEPT !.stage = "refused"]}
  PROVE  PaymentInv'
<1>1. Clean' => Clean
  BY DEF Clean
<1>2. PICK s \in {"ok", "refused"} : calls' \subseteq (calls \ {c}) \cup {[c EXCEPT !.stage = s]}
  BY DEF Becomes
<1> DEFINE new == [c EXCEPT !.stage = s]
<1>3. WellMade(c)
  BY DEF PaymentInv
<1>4. /\ WellMade(new) /\ new.op = c.op /\ new.page = c.page /\ new.stage # "loaded"
      /\ Payer(new) <=> Payer(c)
  BY <1>3, Staged
<1> HIDE DEF new
<1>5. Shapes' /\ \A d \in calls' : WellMade(d)
  BY <1>2, <1>4 DEF PaymentInv, Shapes, new
<1>6. ASSUME Clean' PROVE OnePayment' /\ ChargedIsPaid'
  <2>1. OnePayment /\ ChargedIsPaid
    BY <1>1, <1>6 DEF PaymentInv
  <2>2. \A d \in calls' : d \in calls \ {c} \/ d = new
    BY <1>2 DEF new
  <2>3. ChargedIsPaid'
    BY <1>4, <2>1, <2>2 DEF ChargedIsPaid
  <2>4. \A d, e \in calls' : Payer(d) /\ Payer(e) => d = e
    BY <1>4, <2>1, <2>2 DEF OnePayment
  <2>5. \A d \in calls' : (Payer(d) => d.page = "payer") /\ (d.op = "pay" => payer'.paying)
    BY <1>4, <2>1, <2>2 DEF OnePayment, Payer
  <2> QED
    BY <2>3, <2>4, <2>5 DEF OnePayment, Payer
<1>7. QED
  BY <1>5, <1>6 DEF PaymentInv, WellMade, Shaped, Payer

\* A step that ends as a mishap.
LEMMA Lost ==
  ASSUME PaymentInv, Shapes', "lost" \in mishaps', \A d \in calls' : WellMade(d)
  PROVE  PaymentInv'
BY DEF PaymentInv, Clean, WellMade, Shaped, Payer

LEMMA RefuseKeeps == ASSUME PaymentInv, NEW c \in calls, Refuse(c) PROVE PaymentInv'
<1>1. UNCHANGED <<ledger, charged, payer>> /\ mishaps \subseteq mishaps'
  BY DEF Refuse, service, pages
<1>2. calls' = calls \ {c} \/ Becomes(c, [c EXCEPT !.stage = "refused"])
  BY DEF Refuse, Becomes
<1>3. QED
  BY <1>1, <1>2, CallEnds

LEMMA FailKeeps == ASSUME PaymentInv, NEW c \in calls, Lose(c) \/ GiveUp(c) \/ PaymentGatewayError(c) PROVE PaymentInv'
<1>1. WellMade(c)
  BY DEF PaymentInv
<1>2. CASE Lose(c)
  BY <1>2, CallEnds DEF Lose, service, pages
<1>3. CASE GiveUp(c)
  <2>1. WellMade([c EXCEPT !.page = "nobody"])
    BY <1>1, <1>3 DEF GiveUp, WellMade, Shaped, Fields, Payer
  <2>2. \A d \in calls' : WellMade(d)
    BY <1>3, <2>1 DEF GiveUp, PaymentInv
  <2>3. Shapes'
    BY <1>3 DEF GiveUp, PaymentInv, Shapes, service
  <2> QED
    BY <1>3, <2>2, <2>3, Lost DEF GiveUp
<1>4. CASE PaymentGatewayError(c)
  <2>1. \A d \in calls' : WellMade(d)
    BY <1>1, <1>4, Staged DEF PaymentGatewayError, PaymentInv
  <2>2. Shapes'
    BY <1>4, ChargedMore DEF PaymentGatewayError, PaymentInv, Shapes, pages
  <2> QED
    BY <1>4, <2>1, <2>2, Lost DEF PaymentGatewayError
<1>5. QED
  BY <1>2, <1>3, <1>4

-----------------------------------------------------------------------------
(* Reads and answers.                                                      *)

\* A call of the tabs becomes another one of theirs, and the ledger stays.
LEMMA Becoming ==
  ASSUME PaymentInv, NEW c \in calls, ~Payer(c), NEW d, Becomes(c, d), Shaped(d),
         d.page = c.page, d.op \notin {"nonce", "pay"},
         UNCHANGED <<ledger, charged, payer>>, mishaps \subseteq mishaps'
  PROVE  PaymentInv'
<1>1. WellMade(d) /\ ~Payer(d)
  BY DEF WellMade, Payer
<1>2. Shapes'
  BY DEF PaymentInv, Shapes
<1>3. QED
  BY <1>1, <1>2, TabMoves

LEMMA ReadKeeps ==
  ASSUME PaymentInv, NEW c \in calls, NEW part, ServeRead(c, part) \/ FailRead(c, part)
  PROVE  PaymentInv'
<1>1. ~Payer(c) /\ Shaped(c) /\ c.op = "read"
  BY DEF ServeRead, FailRead, At, PaymentInv, WellMade
<1>2. UNCHANGED <<ledger, charged, payer>> /\ mishaps \subseteq mishaps'
  BY DEF ServeRead, FailRead, service, pages
<1> DEFINE shown == IF part = "list" THEN panel.list ELSE IF c.page = "panel" THEN panel.nodes
                    ELSE IF part = "nodes" THEN desk.nodes ELSE desk.off
           parts == c.got \cup {part}
           new(v) == [c EXCEPT !.got = parts, !.seen[part] = v]
<1>3. Becomes(c, new(Now(part))) \/ Becomes(c, new(shown))
  BY DEF ServeRead, FailRead
<1>4. PICK v : Becomes(c, new(v))
  <2> HIDE DEF shown, new
  <2> QED
    BY <1>3
<1> DEFINE seen == [c.seen EXCEPT ![part] = v]
           after == [c EXCEPT !.got = parts, !.seen = seen]
<1>5. Becomes(c, after)
  BY <1>4
<1> HIDE DEF parts, seen
<1>6. Shaped(after) /\ after.page = c.page /\ after.op = "read"
  BY <1>1 DEF Shaped, Fields
<1> HIDE DEF after
<1>7. QED
  BY <1>1, <1>2, <1>5, <1>6, Becoming

\* A change that is made is read back.
LEMMA RefreshKeeps == ASSUME PaymentInv, NEW c \in calls, ~Payer(c), Refresh(c) PROVE PaymentInv'
<1> DEFINE targets == IF c.from = "seed" THEN c.targets ELSE <<>>
           after == [c EXCEPT !.op = "read", !.stage = "sent", !.targets = targets]
<1>1. Becomes(c, after) /\ UNCHANGED <<ledger, charged, payer, mishaps>>
  BY DEF Refresh, service, pages
<1>2. Shaped(c)
  BY DEF PaymentInv, WellMade
<1> HIDE DEF targets
<1>3. Shaped(after) /\ after.page = c.page /\ after.op = "read"
  BY <1>2 DEF Shaped, Fields
<1> HIDE DEF after
<1>4. QED
  BY <1>1, <1>3, Becoming

LEMMA DoneKeeps == ASSUME PaymentInv, NEW c \in calls, Done(c), payer' = payer PROVE PaymentInv'
BY CallEnds DEF Done, service

LEMMA TabAnswerKeeps ==
  ASSUME PaymentInv, NEW c \in calls, AnswerPanel(c) \/ AnswerSeed(c) \/ AnswerBooking(c) \/ AnswerSlots(c) \/ AnswerRead(c)
  PROVE  PaymentInv'
<1>1. c.op \notin {"nonce", "pay"}
  BY DEF AnswerPanel, AnswerSeed, AnswerBooking, AnswerSlots, AnswerRead, Answered, Both, createInvoice,
         addInvoiceLineItem, voidInvoiceLineItem, issueInvoice, invoiceVoided, nodeBooked, nodeConfirmed,
         bookingCancelled, supplierAvailability
<1>2. ~Payer(c) /\ Shaped(c)
  BY <1>1 DEF PaymentInv, WellMade
<1>3. CASE AnswerPanel(c)
  BY <1>2, <1>3, RefreshKeeps, DoneKeeps DEF AnswerPanel
<1>4. CASE AnswerSeed(c)
  <2> DEFINE after == [c EXCEPT !.op = "seedLine", !.stage = "sent"]
  <2>1. CASE Becomes(c, after) /\ UNCHANGED <<service, pages, clicks, mishaps>>
    <3>1. Shaped(after) /\ after.page = c.page /\ after.op = "seedLine"
      BY <1>2 DEF Shaped, Fields
    <3> HIDE DEF after
    <3> QED
      BY <1>2, <2>1, <3>1, Becoming DEF service, pages
  <2>2. CASE Refresh(c)
    BY <1>2, <2>2, RefreshKeeps
  <2>3. CASE Done(c) /\ payer' = payer
    BY <2>3, DoneKeeps
  <2> QED
    BY <1>4, <2>1, <2>2, <2>3 DEF AnswerSeed
<1>5. CASE AnswerBooking(c)
  BY <1>2, <1>5, RefreshKeeps, DoneKeeps DEF AnswerBooking
<1>6. CASE AnswerSlots(c)
  BY <1>6, DoneKeeps DEF AnswerSlots
<1>7. CASE AnswerRead(c)
  BY <1>7, DoneKeeps DEF AnswerRead
<1>8. QED
  BY <1>3, <1>4, <1>5, <1>6, <1>7

LEMMA SeedLineKeeps == ASSUME PaymentInv, NEW c \in calls, AnswerSeedLine(c) PROVE PaymentInv'
<1>1. c.op \in {"line", "seedLine"}
  BY DEF AnswerSeedLine, Answered, addInvoiceLineItem
<1>2. ~Payer(c) /\ Shaped(c)
  BY <1>1 DEF PaymentInv, WellMade
<1>3. CASE Refresh(c)
  BY <1>2, <1>3, RefreshKeeps
<1>4. CASE NextLine(c)
  <2> DEFINE next == c.line + 1
             after == [c EXCEPT !.line = next, !.stage = "sent"]
  <2>1. Becomes(c, after) /\ UNCHANGED <<ledger, charged, payer, mishaps>>
    BY <1>4 DEF NextLine, service, pages
  <2> HIDE DEF next
  <2>2. Shaped(after) /\ after.page = c.page /\ after.op = c.op
    BY <1>2 DEF Shaped, Fields
  <2> HIDE DEF after
  <2> QED
    BY <1>1, <1>2, <2>1, <2>2, Becoming
<1>5. CASE ~Refresh(c) /\ ~NextLine(c)
  <2> DEFINE flaws == c.flaws \cup {"failed"}
             after == [c EXCEPT !.op = "read", !.stage = "sent", !.flaws = flaws]
  <2>1. Becomes(c, after) /\ UNCHANGED <<ledger, charged, payer, mishaps>>
    BY <1>5 DEF AnswerSeedLine, service, pages
  <2> HIDE DEF flaws
  <2>2. Shaped(after) /\ after.page = c.page /\ after.op = "read"
    BY <1>2 DEF Shaped, Fields
  <2> HIDE DEF after
  <2> QED
    BY <1>2, <2>1, <2>2, Becoming
<1>6. QED
  BY <1>3, <1>4, <1>5

\* The card becomes the payment, and the button waits from here.
LEMMA CardKeeps == ASSUME PaymentInv, NEW c \in calls, requestPaymentMethod(c) PROVE PaymentInv'
<1> DEFINE new == [c EXCEPT !.op = "pay"]
<1>1. /\ calls' = (calls \ {c}) \cup {new} /\ UNCHANGED <<ledger, charged, mishaps>>
      /\ payer' = [payer EXCEPT !.paying = TRUE]
  BY DEF requestPaymentMethod, Becomes, service
<1>2. WellMade(c) /\ c.op = "nonce" /\ c.stage = "sent" /\ Payer(c)
  BY DEF requestPaymentMethod, At, PaymentInv, WellMade
<1>3. WellMade(new) /\ new.op = "pay" /\ new.page = c.page /\ new.stage = "sent" /\ Payer(new)
  BY <1>2 DEF WellMade, Shaped, Fields, Payer
<1> HIDE DEF new
<1>4. Shapes' /\ payer'.paying /\ \A d \in calls' : WellMade(d)
  BY <1>1, <1>3 DEF PaymentInv, Shapes
<1>5. ASSUME Clean' PROVE OnePayment' /\ ChargedIsPaid'
  <2>1. OnePayment /\ ChargedIsPaid
    BY <1>1, <1>5 DEF Clean, PaymentInv
  <2>2. ChargedIsPaid'
    BY <1>1, <1>3, <2>1 DEF ChargedIsPaid
  <2>3. \A d \in calls' : Payer(d) => d = new
    BY <1>1, <1>2, <2>1 DEF OnePayment
  <2>4. new.page = "payer"
    BY <1>2, <1>3, <2>1 DEF OnePayment
  <2> QED
    BY <1>4, <2>2, <2>3, <2>4 DEF OnePayment, Payer
<1>6. QED
  BY <1>4, <1>5 DEF PaymentInv, WellMade, Shaped, Payer

\* The button comes back when the one payment is answered.
LEMMA PayAnswered == ASSUME PaymentInv, NEW c \in calls, AnswerNonce(c) \/ AnswerPay(c) PROVE PaymentInv'
<1>1. CASE AnswerNonce(c)
  BY <1>1, DoneKeeps DEF AnswerNonce, pages
<1>2. CASE AnswerPay(c)
  <2>1. calls' = calls \ {c} /\ UNCHANGED <<ledger, charged, mishaps>> /\ c.page = "payer"
    BY <1>2 DEF AnswerPay, Done, service
  <2>2. Shapes'
    BY <1>2, <2>1 DEF AnswerPay, PaymentInv, Shapes
  <2>3. ASSUME Clean' PROVE OnePayment' /\ ChargedIsPaid'
    <3>1. OnePayment /\ ChargedIsPaid
      BY <2>1, <2>3 DEF Clean, PaymentInv
    <3>2. \A d \in calls' : ~Payer(d)
      BY <2>1, <3>1 DEF OnePayment, Payer
    <3>3. \A d \in calls' : d.op # "pay"
      BY <2>1, <3>2 DEF PaymentInv, WellMade
    <3> QED
      BY <2>1, <3>1, <3>2, <3>3 DEF OnePayment, ChargedIsPaid, Payer
  <2> QED
    BY <2>1, <2>2, <2>3 DEF PaymentInv, WellMade, Shaped, Payer
<1>3. QED
  BY <1>1, <1>2

-----------------------------------------------------------------------------

LEMMA NextKeeps == PaymentInv /\ [Next]_vars => PaymentInv'
<1> SUFFICES ASSUME PaymentInv, [Next]_vars PROVE PaymentInv'
  OBVIOUS
<1>1. ASSUME NEW c \in calls, Serve(c) PROVE PaymentInv'
  BY <1>1, CreateKeeps, LinesKeep, IssueKeeps, GiveBackKeeps, DeskServed, LoadKeeps, ChargeKeeps, RefuseKeeps,
     ReadKeeps DEF Serve
<1>2. ASSUME NEW c \in calls, Fail(c) PROVE PaymentInv'
  BY <1>2, FailKeeps, ReadKeeps DEF Fail
<1>3. ASSUME NEW c \in calls, Answer(c) PROVE PaymentInv'
  BY <1>3, TabAnswerKeeps, SeedLineKeeps, CardKeeps, PayAnswered DEF Answer
<1>4. CASE UNCHANGED vars
  BY <1>4, Elsewhere DEF vars
<1>5. QED
  BY <1>1, <1>2, <1>3, <1>4, PanelKeeps, DeskKeeps, PayerKeeps DEF Next

\* The pay page charges an invoice once, whatever is billed, voided and booked on the tabs meanwhile:
\* a second charge takes an answer that is lost, or two cards handed in at once.
THEOREM PayPageChargesOnce == Spec => []ChargedOnce
<1>1. PaymentInv => ChargedOnce
  BY DEF PaymentInv, Clean, ChargedIsPaid, ChargedOnce, Shapes
<1>2. QED
  BY InitPaymentInv, NextKeeps, <1>1, PTL DEF Spec

-----------------------------------------------------------------------------
(* What the pages show, while no clicks overlap and no answer is lost.     *)

PanelOps == {"create", "seed", "line", "seedLine", "voidLine", "issue", "void", "read"}
DeskOps == {"book", "override", "confirm", "cancel", "slots", "read"}
Parts == {"list", "nodes", "off"}

PanelShape(p) == p = [list |-> p.list, nodes |-> p.nodes, creating |-> p.creating, busy |-> p.busy]
DeskShape(d) == d = [nodes |-> d.nodes, off |-> d.off, busy |-> d.busy, asking |-> d.asking, picker |-> d.picker]

PageShapes ==
  /\ PanelShape(panel) /\ DeskShape(desk)
  /\ clicks \in Seq({"panel", "desk", "picker", "payer"})

Alone == mishaps \subseteq {"failed"}

OneCall == \A c, d \in calls : c = d

\* What the pages should show.
PanelShown == panel.list = ledger /\ panel.nodes = node
DeskShown == desk.nodes = node /\ desk.off = Discrepancies
PayerShown == payer.shown = ledger[1]

\* Nothing is read yet before the refresh, and then part by part.
Unread(c) == c.got = {} /\ c.seen = Nothing
ReadSoFar(c) == c.got \subseteq Parts /\ c.seen = [p \in Parts |-> c.seen[p]]

\* The Invoices tab is behind from the change that was made to the refresh that reads it; of a bill-all,
\* from the draft on.
PanelCall(c) ==
  /\ c.page = "panel" /\ c.op \in PanelOps /\ panel.nodes = node
  /\ c.from = "seed" => c.op \in {"seed", "seedLine", "read"}
  /\ c.op = "seedLine" => c.from = "seed"
  /\ IF c.op = "read"
     THEN ReadSoFar(c) /\ ("list" \in c.got => c.seen.list = ledger) /\ ("nodes" \in c.got => c.seen.nodes = node)
     ELSE Unread(c) /\ (c.op # "seedLine" /\ c.stage # "ok" => PanelShown)

DeskCall(c) ==
  /\ c.page \in {"desk", "picker"} /\ c.op \in DeskOps
  /\ IF c.op = "read"
     THEN ReadSoFar(c) /\ ("nodes" \in c.got => c.seen.nodes = node) /\ ("off" \in c.got => c.seen.off = Discrepancies)
     ELSE /\ c.op = "slots" \/ Unread(c)
          /\ c.op = "slots" \/ c.stage # "ok" => DeskShown

\* The answer of the payment carries the invoice as it is.
PayerCall(c) ==
  /\ c.page = "payer" /\ c.op \in {"nonce", "pay"} /\ c.inv = 1
  /\ IF c.op = "pay" /\ c.stage = "ok" THEN c.seen.list[1] = ledger[1] ELSE Unread(c) /\ PayerShown

PanelFollows == Clicked({"panel"}) => (calls = {} => PanelShown) /\ \A c \in calls : PanelCall(c)
DeskFollows == Clicked({"desk", "picker"}) => (calls = {} => DeskShown) /\ \A c \in calls : DeskCall(c)
PayerFollows == Clicked({"payer"}) => (calls = {} => PayerShown) /\ \A c \in calls : PayerCall(c)

PagesFollow == OneCall /\ PanelFollows /\ DeskFollows /\ PayerFollows

QuietMoneyInv == PageShapes /\ (Alone => PagesFollow)

-----------------------------------------------------------------------------
(* The pages' records, and the discrepancies between items and ledger.     *)

LEMMA PanelExcept ==
  ASSUME NEW p, PanelShape(p), NEW v
  PROVE  /\ PanelShape([p EXCEPT !.creating = v]) /\ PanelShape([p EXCEPT !.busy = v])
         /\ [p EXCEPT !.creating = v].list = p.list /\ [p EXCEPT !.creating = v].nodes = p.nodes
         /\ [p EXCEPT !.busy = v].list = p.list /\ [p EXCEPT !.busy = v].nodes = p.nodes
BY DEF PanelShape

LEMMA DeskExcept ==
  ASSUME NEW d, DeskShape(d), NEW v
  PROVE  /\ DeskShape([d EXCEPT !.busy = v]) /\ DeskShape([d EXCEPT !.asking = v]) /\ DeskShape([d EXCEPT !.picker = v])
         /\ [d EXCEPT !.busy = v].nodes = d.nodes /\ [d EXCEPT !.busy = v].off = d.off
         /\ [d EXCEPT !.asking = v].nodes = d.nodes /\ [d EXCEPT !.asking = v].off = d.off
         /\ [d EXCEPT !.picker = v].nodes = d.nodes /\ [d EXCEPT !.picker = v].off = d.off
BY DEF DeskShape

\* The pages show what they did, be it a step that shows nothing new.
PanelSame == PanelShape(panel') /\ panel'.list = panel.list /\ panel'.nodes = panel.nodes
DeskSame == DeskShape(desk') /\ desk'.nodes = desk.nodes /\ desk'.off = desk.off
PayerSame == payer'.shown = payer.shown

LEMMA SamePages == ASSUME PageShapes, UNCHANGED pages PROVE PanelSame /\ DeskSame /\ PayerSame
BY DEF PageShapes, pages, PanelSame, DeskSame, PayerSame, PanelShape, DeskShape

\* An item's cover, as an operator of the ledger.
SumOver(list, charges) == MapThenSumSet(LAMBDA c : list[c[1]].lines[c[2]].amount, charges)
CoverSummed == \A n, s : Covered(n, s) = (SumOver(ledger, Charges(n, s)) >= Cost)

LEMMA CoverIsSum == CoverSummed
BY Zenon DEF Covered, SumOver, CoverSummed

LEMMA CoverStaysSum == CoverSummed'
BY CoverIsSum, PTL

LEMMA OffKept == ASSUME UNCHANGED <<ledger, node>> PROVE Discrepancies' = Discrepancies
<1>1. ledger' = ledger /\ node' = node
  OBVIOUS
<1>2. ASSUME NEW n, NEW s PROVE Charges(n, s)' = Charges(n, s)
  BY <1>1 DEF Charges
<1>3. ASSUME NEW n, NEW s PROVE Covered(n, s)' = Covered(n, s)
  <2>1. Covered(n, s) = (SumOver(ledger, Charges(n, s)) >= Cost)
    BY CoverIsSum DEF CoverSummed
  <2>2. Covered(n, s)' = (SumOver(ledger', Charges(n, s)') >= Cost)
    BY CoverStaysSum DEF CoverSummed
  <2> QED
    BY <1>1, <1>2, <2>1, <2>2
<1>4. QED
  BY <1>1, <1>3 DEF Discrepancies

-----------------------------------------------------------------------------
(* Moves of the one call under way.                                        *)

\* The same call, further on.
Further(c, d) ==
  d.op = c.op /\ d.page = c.page /\ d.from = c.from /\ d.inv = c.inv /\ d.got = c.got /\ d.seen = c.seen

LEMMA StagedFurther ==
  ASSUME NEW c, Shaped(c), NEW s
  PROVE  Further(c, [c EXCEPT !.stage = s]) /\ [c EXCEPT !.stage = s].stage = s
BY DEF Shaped, Fields, Further

LEMMA BecomesOne == ASSUME NEW c, calls = {c}, NEW d, Becomes(c, d) PROVE calls' = {d}
BY DEF Becomes

\* A change that was made.
LEMMA ServedOne ==
  ASSUME NEW c, calls = {c}, Shaped(c),
         \/ add_line_item(c) \/ issue_invoice(c) \/ void_line_item(c) \/ void_invoice(c)
         \/ book_node(c) \/ record_confirmation(c) \/ cancel_booking(c)
  PROVE  /\ UNCHANGED <<pages, clicks, mishaps>>
         /\ \E d : calls' = {d} /\ Further(c, d) /\ d.stage = "ok"
<1> DEFINE new == [c EXCEPT !.stage = "ok"]
<1>1. CASE \E ledgers, nodes, bookings : Served(c, ledgers, nodes, bookings)
  <2>1. Becomes(c, new) /\ UNCHANGED <<pages, clicks, mishaps>>
    BY <1>1 DEF Served
  <2> QED
    BY <2>1, BecomesOne, StagedFurther
<1>2. CASE \E ledgers : GivesBack(c, ledgers)
  <2>1. calls' = {new} /\ UNCHANGED <<pages, clicks, mishaps>>
    BY <1>2 DEF GivesBack
  <2> QED
    BY <2>1, StagedFurther
<1>3. (\E ledgers, nodes, bookings : Served(c, ledgers, nodes, bookings)) \/ (\E ledgers : GivesBack(c, ledgers))
  <2>1. CASE add_line_item(c) \/ issue_invoice(c)
    BY <2>1, Zenon DEF add_line_item, issue_invoice, Appends, Writes
  <2>2. CASE void_line_item(c) \/ void_invoice(c) \/ cancel_booking(c)
    BY <2>2, Zenon DEF void_line_item, void_invoice, cancel_booking
  <2>3. CASE book_node(c) \/ record_confirmation(c)
    BY <2>3, Zenon DEF book_node, record_confirmation
  <2> QED
    BY <2>1, <2>2, <2>3
<1>4. QED
  BY <1>1, <1>2, <1>3

\* A draft that was made; the call takes its number.
LEMMA CreatedOne ==
  ASSUME NEW c, calls = {c}, Shaped(c), create_invoice(c)
  PROVE  /\ UNCHANGED <<node, pages, clicks, mishaps>>
         /\ \E d : /\ calls' = {d} /\ d.stage = "ok"
                   /\ d.op = c.op /\ d.page = c.page /\ d.from = c.from /\ d.got = c.got /\ d.seen = c.seen
<1> DEFINE i == NextInvoice
           new == [c EXCEPT !.stage = "ok", !.inv = i]
<1>1. Becomes(c, new) /\ UNCHANGED <<node, pages, clicks, mishaps>>
  BY DEF create_invoice
<1> HIDE DEF i
<1>2. new.stage = "ok" /\ new.op = c.op /\ new.page = c.page /\ new.from = c.from /\ new.got = c.got /\ new.seen = c.seen
  BY DEF Shaped, Fields
<1> HIDE DEF new
<1>3. QED
  BY <1>1, <1>2, BecomesOne

\* A part of the refresh is read.
LEMMA ReadOne ==
  ASSUME NEW c, calls = {c}, Shaped(c), ReadSoFar(c), NEW part, ServeRead(c, part)
  PROVE  /\ c.op = "read" /\ part \in Reads(c.page) /\ UNCHANGED <<service, pages, clicks, mishaps>>
         /\ \E d : /\ calls' = {d} /\ d.op = "read" /\ d.page = c.page /\ d.from = c.from
                   /\ ReadSoFar(d) /\ d.got = c.got \cup {part} /\ d.seen[part] = Now(part)
                   /\ \A p \in Parts \ {part} : d.seen[p] = c.seen[p]
<1> DEFINE now == Now(part)
           got == c.got \cup {part}
           seen == [c.seen EXCEPT ![part] = now]
           new == [c EXCEPT !.got = got, !.seen = seen]
<1>1. Becomes(c, new) /\ c.op = "read" /\ part \in Reads(c.page) /\ UNCHANGED <<service, pages, clicks, mishaps>>
  BY DEF ServeRead, At
<1>2. part \in Parts
  BY <1>1 DEF Reads, Parts
<1> HIDE DEF now
<1>3. seen = [p \in Parts |-> seen[p]] /\ seen[part] = now /\ \A p \in Parts \ {part} : seen[p] = c.seen[p]
  BY <1>2 DEF ReadSoFar
<1>4. got \subseteq Parts
  BY <1>2 DEF ReadSoFar
<1> HIDE DEF got, seen
<1>5. new.op = "read" /\ new.page = c.page /\ new.from = c.from /\ new.got = got /\ new.seen = seen
  BY <1>1 DEF Shaped, Fields
<1> HIDE DEF new
<1>6. calls' = {new} /\ ReadSoFar(new)
  BY <1>1, <1>3, <1>4, <1>5, BecomesOne DEF ReadSoFar
<1>7. QED
  BY <1>1, <1>3, <1>5, <1>6 DEF got, now

LEMMA NothingParts == Nothing = [p \in Parts |-> Nothing[p]] /\ Nothing.list = Nothing["list"]
BY DEF Nothing, Parts

\* A change that was made is about to be read back.
LEMMA RefreshOne ==
  ASSUME NEW c, calls = {c}, Shaped(c), Unread(c), Refresh(c)
  PROVE  /\ UNCHANGED <<service, pages, clicks, mishaps>>
         /\ \E d : calls' = {d} /\ d.op = "read" /\ d.page = c.page /\ d.from = c.from /\ ReadSoFar(d) /\ d.got = {}
<1> DEFINE targets == IF c.from = "seed" THEN c.targets ELSE <<>>
           new == [c EXCEPT !.op = "read", !.stage = "sent", !.targets = targets]
<1>1. Becomes(c, new) /\ UNCHANGED <<service, pages, clicks, mishaps>>
  BY DEF Refresh
<1> HIDE DEF targets
<1>2. new.op = "read" /\ new.page = c.page /\ new.from = c.from /\ new.got = c.got /\ new.seen = c.seen
  BY DEF Shaped, Fields
<1> HIDE DEF new
<1>3. ReadSoFar(new) /\ new.got = {}
  BY <1>2, NothingParts DEF Unread, ReadSoFar
<1>4. QED
  BY <1>1, <1>2, <1>3, BecomesOne

-----------------------------------------------------------------------------
(* The Invoices tab.                                                       *)

\* What the only call under way leaves behind.
PanelStep == (calls' = {} => PanelShown') /\ \A d \in calls' : PanelCall(d)'

LEMMA PanelServed ==
  ASSUME NEW c, calls = {c}, Shaped(c), PageShapes, PanelCall(c), Serve(c)
  PROVE  PanelStep
<1> USE DEF PanelCall
<1>1. CASE create_invoice(c) \/ add_line_item(c) \/ issue_invoice(c) \/ void_line_item(c) \/ void_invoice(c)
  <2>1. c.op \notin {"read"} /\ UNCHANGED node
    BY <1>1 DEF create_invoice, add_line_item, issue_invoice, void_line_item, void_invoice, At, Appends, Writes, Served
  <2>2. /\ UNCHANGED pages
        /\ \E d : calls' = {d} /\ d.stage = "ok" /\ d.op = c.op /\ d.page = c.page /\ d.from = c.from /\ d.got = c.got /\ d.seen = c.seen
    BY <1>1, CreatedOne, ServedOne DEF Further
  <2>3. PICK d : calls' = {d} /\ d.stage = "ok" /\ d.op = c.op /\ d.page = c.page /\ d.from = c.from /\ d.got = c.got /\ d.seen = c.seen
    BY <2>2
  <2>4. panel'.nodes = node'
    BY <2>1, <2>2, SamePages DEF PanelSame
  <2> QED
    BY <2>1, <2>3, <2>4 DEF PanelStep, Unread
<1>2. CASE Refuse(c)
  <2>1. UNCHANGED <<service, pages>> /\ c.op # "read" /\ c.stage # "ok" /\ Becomes(c, [c EXCEPT !.stage = "refused"])
    BY <1>2 DEF Refuse, Becomes
  <2>2. PICK d : calls' = {d} /\ Further(c, d)
    BY <2>1, BecomesOne, StagedFurther
  <2>3. panel'.nodes = node' /\ (PanelShown => PanelShown')
    BY <2>1, SamePages DEF PanelSame, PanelShown, service
  <2> QED
    BY <2>1, <2>2, <2>3 DEF PanelStep, Unread, Further
<1>3. ASSUME NEW part, ServeRead(c, part) PROVE PanelStep
  <2>1. c.op = "read"
    BY <1>3 DEF ServeRead, At
  <2>2. /\ part \in Reads(c.page) /\ UNCHANGED <<service, pages>>
        /\ \E d : /\ calls' = {d} /\ d.op = "read" /\ d.page = c.page /\ d.from = c.from
                  /\ ReadSoFar(d) /\ d.got = c.got \cup {part} /\ d.seen[part] = Now(part)
                  /\ \A p \in Parts \ {part} : d.seen[p] = c.seen[p]
    BY <1>3, <2>1, ReadOne
  <2>3. PICK d : /\ calls' = {d} /\ d.op = "read" /\ d.page = c.page /\ d.from = c.from
                 /\ ReadSoFar(d) /\ d.got = c.got \cup {part} /\ d.seen[part] = Now(part)
                 /\ \A p \in Parts \ {part} : d.seen[p] = c.seen[p]
    BY <2>2
  <2>4. part \in {"list", "nodes"} /\ UNCHANGED <<ledger, node>> /\ panel'.nodes = node'
    BY <2>2, SamePages DEF Reads, PanelSame, service
  <2>5. "list" \in d.got => d.seen["list"] = ledger'
    BY <2>1, <2>3, <2>4 DEF Now, Parts
  <2>6. "nodes" \in d.got => d.seen["nodes"] = node'
    BY <2>1, <2>3, <2>4 DEF Now, Parts
  <2>7. ReadSoFar(d)' /\ d.seen.list = d.seen["list"] /\ d.seen.nodes = d.seen["nodes"]
    BY <2>3 DEF ReadSoFar
  <2> QED
    BY <2>1, <2>3, <2>4, <2>5, <2>6, <2>7 DEF PanelStep
<1>4. ~(book_node(c) \/ record_confirmation(c) \/ cancel_booking(c) \/ supplier_availability(c) \/ LoadPay(c) \/ pay_invoice(c))
  BY DEF book_node, record_confirmation, cancel_booking, supplier_availability, LoadPay, pay_invoice, At, PanelOps
<1>5. QED
  BY <1>1, <1>2, <1>3, <1>4 DEF Serve

\* The tab after the call is over.
LEMMA PanelIdle ==
  ASSUME NEW c, calls = {c}, PageShapes, PanelShown, Done(c), panel' = Idle(c)
  PROVE  PanelStep
<1>1. panel'.list = panel.list /\ panel'.nodes = panel.nodes
  BY PanelExcept DEF Idle, PageShapes
<1>2. calls' = {} /\ UNCHANGED <<ledger, node>>
  BY DEF Done, service
<1>3. QED
  BY <1>1, <1>2 DEF PanelStep, PanelShown

LEMMA PanelRefreshes ==
  ASSUME NEW c, calls = {c}, Shaped(c), PageShapes, PanelCall(c), c.op # "read", Refresh(c)
  PROVE  PanelStep
<1>1. Unread(c)
  BY DEF PanelCall
<1>2. /\ UNCHANGED <<service, pages>>
      /\ \E d : calls' = {d} /\ d.op = "read" /\ d.page = c.page /\ d.from = c.from /\ ReadSoFar(d) /\ d.got = {}
  BY <1>1, RefreshOne
<1>3. PICK d : calls' = {d} /\ d.op = "read" /\ d.page = c.page /\ d.from = c.from /\ ReadSoFar(d) /\ d.got = {}
  BY <1>2
<1>4. panel'.nodes = node' /\ ReadSoFar(d)'
  BY <1>2, <1>3, SamePages DEF PanelSame, PanelCall, ReadSoFar, service
<1>5. QED
  BY <1>3, <1>4 DEF PanelStep, PanelCall, PanelOps

\* A line of a bill-all comes next.
LEMMA PanelGoesOn ==
  ASSUME NEW c, calls = {c}, Shaped(c), PageShapes, PanelCall(c), c.from = "seed", c.op # "read", NEW d, Becomes(c, d),
         UNCHANGED <<service, pages>>, d.op = "seedLine", d.page = c.page, d.from = c.from, d.got = c.got, d.seen = c.seen
  PROVE  PanelStep
<1>1. calls' = {d}
  BY BecomesOne
<1>2. panel'.nodes = node'
  BY SamePages DEF PanelSame, PanelCall, service
<1>3. QED
  BY <1>1, <1>2 DEF PanelStep, PanelCall, PanelOps, Unread

LEMMA PanelAnswered ==
  ASSUME NEW c, calls = {c}, Shaped(c), PageShapes, PanelCall(c), Answer(c)
  PROVE  PanelStep
<1> USE DEF Answered, createInvoice, addInvoiceLineItem, voidInvoiceLineItem, issueInvoice, invoiceVoided
<1>1. CASE AnswerPanel(c)
  <2>1. c.op \notin {"read", "seedLine"}
    BY <1>1 DEF AnswerPanel, PanelCall
  <2>2. CASE Refresh(c)
    BY <2>1, <2>2, PanelRefreshes
  <2>3. CASE ~Ok(c) /\ Done(c) /\ panel' = Idle(c)
    BY <2>1, <2>3, PanelIdle DEF PanelCall, Ok
  <2> QED
    BY <1>1, <2>2, <2>3 DEF AnswerPanel
<1>2. CASE AnswerSeed(c)
  <2>1. c.op \in {"create", "seed"} /\ c.from = "seed"
    BY <1>2 DEF AnswerSeed
  <2>2. CASE Refresh(c)
    BY <2>1, <2>2, PanelRefreshes
  <2>3. CASE ~Ok(c) /\ Done(c) /\ panel' = Idle(c)
    BY <2>1, <2>3, PanelIdle DEF PanelCall, Ok
  <2>4. CASE Becomes(c, [c EXCEPT !.op = "seedLine", !.stage = "sent"]) /\ UNCHANGED <<service, pages>>
    <3> DEFINE new == [c EXCEPT !.op = "seedLine", !.stage = "sent"]
    <3>1. new.op = "seedLine" /\ new.page = c.page /\ new.from = c.from /\ new.got = c.got /\ new.seen = c.seen
      BY DEF Shaped, Fields
    <3> HIDE DEF new
    <3>2. Becomes(c, new)
      BY <2>4 DEF new
    <3> QED
      BY <2>1, <2>4, <3>1, <3>2, PanelGoesOn
  <2> QED
    BY <1>2, <2>2, <2>3, <2>4 DEF AnswerSeed
<1>3. CASE AnswerSeedLine(c)
  <2>1. c.op = "seedLine" /\ c.from = "seed"
    BY <1>3 DEF AnswerSeedLine, PanelCall
  <2>2. CASE Refresh(c)
    BY <2>1, <2>2, PanelRefreshes
  <2>3. CASE NextLine(c)
    <3> DEFINE line == c.line + 1
               new == [c EXCEPT !.line = line, !.stage = "sent"]
    <3>1. Becomes(c, new) /\ UNCHANGED <<service, pages>>
      BY <2>3 DEF NextLine
    <3> HIDE DEF line
    <3>2. new.op = c.op /\ new.page = c.page /\ new.from = c.from /\ new.got = c.got /\ new.seen = c.seen
      BY DEF Shaped, Fields
    <3> HIDE DEF new
    <3> QED
      BY <2>1, <3>1, <3>2, PanelGoesOn
  <2>4. CASE ~Refresh(c) /\ ~NextLine(c)
    <3> DEFINE flaws == c.flaws \cup {"failed"}
               new == [c EXCEPT !.op = "read", !.stage = "sent", !.flaws = flaws]
    <3>1. Becomes(c, new) /\ UNCHANGED <<service, pages>>
      BY <1>3, <2>4 DEF AnswerSeedLine
    <3> HIDE DEF flaws
    <3>2. new.op = "read" /\ new.page = c.page /\ new.from = c.from /\ new.got = c.got /\ new.seen = c.seen
      BY DEF Shaped, Fields
    <3> HIDE DEF new
    <3>3. calls' = {new} /\ panel'.nodes = node'
      BY <3>1, BecomesOne, SamePages DEF PanelSame, PanelCall, service
    <3>4. ReadSoFar(new)' /\ new.got = {}
      BY <2>1, <3>2, NothingParts DEF PanelCall, Unread, ReadSoFar
    <3> QED
      BY <3>2, <3>3, <3>4 DEF PanelStep, PanelCall, PanelOps
  <2> QED
    BY <2>2, <2>3, <2>4
<1>4. CASE AnswerRead(c)
  <2>1. c.op = "read" /\ c.got = {"list", "nodes"} /\ c.page = "panel"
    BY <1>4 DEF AnswerRead, Both, Reads, PanelCall
  <2>2. c.seen.list = ledger /\ c.seen.nodes = node
    BY <2>1 DEF PanelCall
  <2>3. calls' = {} /\ UNCHANGED <<ledger, node>> /\ panel' = [Idle(c) EXCEPT !.list = c.seen.list, !.nodes = c.seen.nodes]
    BY <1>4, <2>1 DEF AnswerRead, Done, service
  <2>4. PanelShape(Idle(c))
    BY PanelExcept DEF PageShapes, Idle
  <2>5. panel'.list = c.seen.list /\ panel'.nodes = c.seen.nodes
    BY <2>3, <2>4 DEF PanelShape
  <2> QED
    BY <2>2, <2>3, <2>5 DEF PanelStep, PanelShown
<1>5. ~(AnswerBooking(c) \/ AnswerSlots(c) \/ requestPaymentMethod(c) \/ AnswerNonce(c) \/ AnswerPay(c))
  BY DEF AnswerBooking, AnswerSlots, requestPaymentMethod, AnswerNonce, AnswerPay, nodeBooked, nodeConfirmed,
         bookingCancelled, supplierAvailability, payInvoice, At, PanelCall, PanelOps
<1>6. QED
  BY <1>1, <1>2, <1>3, <1>4, <1>5 DEF Answer

-----------------------------------------------------------------------------
(* The Booking tab and the dialog of a supplier's item.                    *)

DeskStep == (calls' = {} => DeskShown') /\ \A d \in calls' : DeskCall(d)'

\* Nothing written, and the tab shows what it did.
LEMMA DeskStays == ASSUME UNCHANGED <<ledger, node>>, DeskSame, DeskShown PROVE DeskShown'
BY OffKept DEF DeskShown, DeskSame

LEMMA DeskServes ==
  ASSUME NEW c, calls = {c}, Shaped(c), PageShapes, DeskCall(c), Serve(c)
  PROVE  DeskStep
<1> USE DEF DeskCall
<1>1. CASE book_node(c) \/ record_confirmation(c) \/ cancel_booking(c)
  <2>1. c.op \notin {"read", "slots"}
    BY <1>1 DEF book_node, record_confirmation, cancel_booking, At
  <2>2. PICK d : calls' = {d} /\ Further(c, d) /\ d.stage = "ok"
    BY <1>1, ServedOne
  <2> QED
    BY <2>1, <2>2 DEF DeskStep, Unread, Further
<1>2. CASE supplier_availability(c)
  <2>1. PICK slots : Becomes(c, [c EXCEPT !.stage = "ok", !.got = {slots}])
    BY <1>2 DEF supplier_availability
  <2>2. UNCHANGED <<service, pages>> /\ c.op = "slots"
    BY <1>2 DEF supplier_availability, At
  <2> DEFINE new == [c EXCEPT !.stage = "ok", !.got = {slots}]
  <2>3. new.op = c.op /\ new.page = c.page
    BY DEF Shaped, Fields
  <2>4. calls' = {new}
    BY <2>1, BecomesOne
  <2> HIDE DEF new
  <2>5. DeskShown'
    BY <2>2, SamePages, DeskStays DEF service
  <2> QED
    BY <2>2, <2>3, <2>4, <2>5 DEF DeskStep
<1>3. CASE Refuse(c)
  <2>1. UNCHANGED <<service, pages>> /\ c.op # "read" /\ c.stage # "ok" /\ Becomes(c, [c EXCEPT !.stage = "refused"])
    BY <1>3 DEF Refuse, Becomes
  <2>2. PICK d : calls' = {d} /\ Further(c, d)
    BY <2>1, BecomesOne, StagedFurther
  <2>3. DeskShown'
    BY <2>1, SamePages, DeskStays DEF service
  <2> QED
    BY <2>1, <2>2, <2>3 DEF DeskStep, Unread, Further
<1>4. ASSUME NEW part, ServeRead(c, part) PROVE DeskStep
  <2>1. c.op = "read"
    BY <1>4 DEF ServeRead, At
  <2>2. /\ part \in Reads(c.page) /\ UNCHANGED <<service, pages>>
        /\ \E d : /\ calls' = {d} /\ d.op = "read" /\ d.page = c.page /\ d.from = c.from
                  /\ ReadSoFar(d) /\ d.got = c.got \cup {part} /\ d.seen[part] = Now(part)
                  /\ \A p \in Parts \ {part} : d.seen[p] = c.seen[p]
    BY <1>4, <2>1, ReadOne
  <2>3. PICK d : /\ calls' = {d} /\ d.op = "read" /\ d.page = c.page /\ d.from = c.from
                 /\ ReadSoFar(d) /\ d.got = c.got \cup {part} /\ d.seen[part] = Now(part)
                 /\ \A p \in Parts \ {part} : d.seen[p] = c.seen[p]
    BY <2>2
  <2>4. part \in {"off", "nodes"} /\ UNCHANGED <<ledger, node>> /\ Discrepancies' = Discrepancies
    BY <2>2, OffKept DEF Reads, service
  <2>5. "off" \in d.got => d.seen["off"] = Discrepancies'
    BY <2>1, <2>3, <2>4 DEF Now, Parts
  <2>6. "nodes" \in d.got => d.seen["nodes"] = node'
    BY <2>1, <2>3, <2>4 DEF Now, Parts
  <2>7. ReadSoFar(d)' /\ d.seen.off = d.seen["off"] /\ d.seen.nodes = d.seen["nodes"]
    BY <2>3 DEF ReadSoFar
  <2> QED
    BY <2>1, <2>3, <2>5, <2>6, <2>7 DEF DeskStep
<1>5. ~(\/ create_invoice(c) \/ add_line_item(c) \/ issue_invoice(c) \/ void_line_item(c) \/ void_invoice(c)
        \/ LoadPay(c) \/ pay_invoice(c))
  BY DEF create_invoice, add_line_item, issue_invoice, void_line_item, void_invoice, LoadPay, pay_invoice, At, DeskOps
<1>6. QED
  BY <1>1, <1>2, <1>3, <1>4, <1>5 DEF Serve

LEMMA DeskOver ==
  ASSUME NEW c, calls = {c}, DeskShown, Done(c), DeskSame
  PROVE  DeskStep
BY DeskStays DEF DeskStep, Done, service

LEMMA DeskAnswered ==
  ASSUME NEW c, calls = {c}, Shaped(c), PageShapes, DeskCall(c), Answer(c)
  PROVE  DeskStep
<1> USE DEF Answered
<1>1. CASE AnswerBooking(c)
  <2>1. c.op \in {"book", "override", "confirm", "cancel"}
    BY <1>1 DEF AnswerBooking, nodeBooked, nodeConfirmed, bookingCancelled
  <2>2. CASE Refresh(c)
    <3>1. Unread(c)
      BY <2>1 DEF DeskCall
    <3>2. PICK d : calls' = {d} /\ d.op = "read" /\ d.page = c.page /\ d.from = c.from /\ ReadSoFar(d) /\ d.got = {}
      BY <2>2, <3>1, RefreshOne
    <3>3. ReadSoFar(d)'
      BY <3>2 DEF ReadSoFar
    <3> QED
      BY <3>2, <3>3 DEF DeskStep, DeskCall, DeskOps
  <2>3. CASE ~Refresh(c)
    <3>1. Done(c) /\ ~Ok(c)
      BY <1>1, <2>3 DEF AnswerBooking
    <3> DEFINE waiting == desk.picker.busy /\ desk.picker.id # c.amount
               picker == [desk.picker EXCEPT !.busy = waiting]
               busy == desk.busy \ {c.item}
    <3>2. desk' = [desk EXCEPT !.busy = busy] \/ desk' = [desk EXCEPT !.picker = picker]
      BY <1>1, <2>3 DEF AnswerBooking
    <3>3. DeskSame
      <4> HIDE DEF picker, busy
      <4>1. DeskShape(desk)
        BY DEF PageShapes
      <4>2. CASE desk' = [desk EXCEPT !.busy = busy]
        BY <4>1, <4>2, DeskExcept DEF DeskSame
      <4>3. CASE desk' = [desk EXCEPT !.picker = picker]
        BY <4>1, <4>3, DeskExcept DEF DeskSame
      <4> QED
        BY <3>2, <4>2, <4>3
    <3> QED
      BY <2>1, <3>1, <3>3, DeskOver DEF DeskCall, Ok
  <2> QED
    BY <2>2, <2>3
<1>2. CASE AnswerSlots(c)
  <2>1. c.op = "slots" /\ Done(c)
    BY <1>2 DEF AnswerSlots, supplierAvailability
  <2> DEFINE slots == IF Ok(c) THEN CHOOSE s \in c.got : TRUE ELSE "none"
             picker == [desk.picker EXCEPT !.slots = slots]
  <2>2. desk' = desk \/ desk' = [desk EXCEPT !.picker = picker]
    BY <1>2 DEF AnswerSlots
  <2>3. DeskSame
    <3> HIDE DEF picker
    <3>1. DeskShape(desk)
      BY DEF PageShapes
    <3>2. CASE desk' = desk
      BY <3>1, <3>2 DEF DeskSame
    <3>3. CASE desk' = [desk EXCEPT !.picker = picker]
      BY <3>1, <3>3, DeskExcept DEF DeskSame
    <3> QED
      BY <2>2, <3>2, <3>3
  <2> QED
    BY <2>1, <2>3, DeskOver DEF DeskCall
<1>3. CASE AnswerRead(c)
  <2>1. c.op = "read" /\ c.got = {"nodes", "off"} /\ c.page # "panel"
    BY <1>3 DEF AnswerRead, Both, Reads, DeskCall
  <2>2. c.seen.off = Discrepancies /\ c.seen.nodes = node
    BY <2>1 DEF DeskCall
  <2> DEFINE busy == IF c.page = "desk" THEN desk.busy \ {c.item} ELSE desk.busy
             picker == IF c.page = "picker" THEN NoPicker ELSE desk.picker
  <2>3. /\ calls' = {} /\ UNCHANGED <<ledger, node>>
        /\ desk' = [desk EXCEPT !.nodes = c.seen.nodes, !.off = c.seen.off, !.busy = busy, !.picker = picker]
    BY <1>3, <2>1 DEF AnswerRead, Done, service
  <2> HIDE DEF busy, picker
  <2>4. desk'.nodes = c.seen.nodes /\ desk'.off = c.seen.off
    BY <2>3 DEF PageShapes, DeskShape
  <2> QED
    BY <2>2, <2>3, <2>4, OffKept DEF DeskStep, DeskShown
<1>4. ~(\/ AnswerPanel(c) \/ AnswerSeed(c) \/ AnswerSeedLine(c) \/ requestPaymentMethod(c) \/ AnswerNonce(c) \/ AnswerPay(c))
  BY DEF AnswerPanel, AnswerSeed, AnswerSeedLine, requestPaymentMethod, AnswerNonce, AnswerPay, createInvoice,
         addInvoiceLineItem, voidInvoiceLineItem, issueInvoice, invoiceVoided, payInvoice, At, DeskCall, DeskOps
<1>5. QED
  BY <1>1, <1>2, <1>3, <1>4 DEF Answer

-----------------------------------------------------------------------------
(* The pay page.                                                           *)

PayerStep == (calls' = {} => PayerShown') /\ \A d \in calls' : PayerCall(d)'

LEMMA PayerStays == ASSUME ledger' = ledger, PayerSame, PayerShown PROVE PayerShown'
BY DEF PayerShown, PayerSame

LEMMA PayerServed ==
  ASSUME NEW c, calls = {c}, Shaped(c), Shapes, PageShapes, PayerCall(c), Serve(c)
  PROVE  PayerStep
<1> USE DEF PayerCall
<1>1. CASE LoadPay(c) \/ Refuse(c)
  <2>1. UNCHANGED <<service, pages>> /\ c.stage # "ok"
    BY <1>1 DEF LoadPay, Refuse, At
  <2>2. PICK s \in {"loaded", "refused"} : Becomes(c, [c EXCEPT !.stage = s])
    BY <1>1 DEF LoadPay, Refuse, Becomes
  <2> DEFINE new == [c EXCEPT !.stage = s]
  <2>3. calls' = {new} /\ Further(c, new) /\ new.stage = s
    BY <2>2, BecomesOne, StagedFurther
  <2> HIDE DEF new
  <2>4. PayerShown'
    BY <2>1, SamePages, PayerStays DEF service
  <2> QED
    BY <2>1, <2>3, <2>4 DEF PayerStep, Unread, Further
<1>2. CASE pay_invoice(c)
  <2>1. c.op = "pay" /\ c.stage = "loaded" /\ c.page = "payer" /\ c.inv = 1 /\ c.seen = Nothing
    BY <1>2 DEF pay_invoice, Unread
  <2> DEFINE invoice == ledger'[c.inv]
             seen == [c.seen EXCEPT !.list[c.inv] = invoice]
             new == [c EXCEPT !.stage = "ok", !.seen.list[c.inv] = invoice]
  <2>2. calls' = {new}
    <3>1. calls' = (calls \ {c}) \cup (IF c.page = "nobody" THEN {} ELSE {new})
      BY <1>2 DEF pay_invoice
    <3> HIDE DEF new
    <3> QED
      BY <2>1, <3>1
  <2>3. PICK v : v = ledger'[1]
    OBVIOUS
  <2>4. seen.list[1] = v
    <3>1. seen = [Nothing EXCEPT !.list[1] = v]
      BY <2>1, <2>3
    <3>2. 1 \in Invoices
      BY BoundsAssumption DEF Invoices
    <3> QED
      BY <3>1, <3>2 DEF Nothing
  <2>5. new = [c EXCEPT !.stage = "ok", !.seen = seen]
    <3> HIDE DEF invoice
    <3> QED
      OBVIOUS
  <2> HIDE DEF seen, new
  <2>6. new.op = c.op /\ new.page = c.page /\ new.inv = c.inv /\ new.seen = seen /\ new.stage = "ok"
    BY <2>5 DEF Shaped, Fields
  <2>7. PICK d : d = new
    OBVIOUS
  <2>8. d.op = "pay" /\ d.page = "payer" /\ d.inv = 1 /\ d.stage = "ok" /\ d.seen.list[1] = v
    BY <2>1, <2>4, <2>6, <2>7
  <2> QED
    BY <2>2, <2>3, <2>7, <2>8 DEF PayerStep
<1>3. ~(\/ create_invoice(c) \/ add_line_item(c) \/ issue_invoice(c) \/ void_line_item(c) \/ void_invoice(c)
        \/ book_node(c) \/ record_confirmation(c) \/ cancel_booking(c) \/ supplier_availability(c)
        \/ \E part \in Parts : ServeRead(c, part))
  BY DEF create_invoice, add_line_item, issue_invoice, void_line_item, void_invoice, book_node, record_confirmation,
         cancel_booking, supplier_availability, ServeRead, At
<1>4. QED
  BY <1>1, <1>2, <1>3 DEF Serve, Parts

LEMMA PayerAnswered ==
  ASSUME NEW c, calls = {c}, Shaped(c), Shapes, PageShapes, PayerCall(c), Answer(c)
  PROVE  PayerStep
<1> USE DEF PayerCall
<1>1. CASE requestPaymentMethod(c)
  <2> DEFINE new == [c EXCEPT !.op = "pay"]
  <2>1. c.op = "nonce" /\ c.stage = "sent" /\ Becomes(c, new) /\ ledger' = ledger /\ payer' = [payer EXCEPT !.paying = TRUE]
    BY <1>1 DEF requestPaymentMethod, At, service
  <2>2. new.op = "pay" /\ new.stage = c.stage /\ new.page = c.page /\ new.inv = c.inv /\ new.got = c.got /\ new.seen = c.seen
    BY DEF Shaped, Fields
  <2> HIDE DEF new
  <2>3. calls' = {new}
    BY <2>1, BecomesOne
  <2>4. PayerShown'
    BY <2>1, PayerStays DEF PayerSame, Shapes
  <2> QED
    BY <2>1, <2>2, <2>3, <2>4 DEF PayerStep, Unread
<1>2. CASE AnswerNonce(c)
  <2>1. calls' = {} /\ ledger' = ledger /\ c.op = "nonce" /\ UNCHANGED pages
    BY <1>2 DEF AnswerNonce, Answered, Done, service
  <2> QED
    BY <2>1, SamePages, PayerStays DEF PayerStep
<1>3. CASE AnswerPay(c)
  <2>1. calls' = {} /\ ledger' = ledger /\ c.op = "pay"
    BY <1>3 DEF AnswerPay, payInvoice, Answered, Done, service
  <2>2. CASE Ok(c)
    <3>1. payer'.shown = c.seen.list[c.inv] /\ c.seen.list[1] = ledger[1] /\ c.inv = 1
      BY <1>3, <2>1, <2>2 DEF AnswerPay, Ok
    <3> QED
      BY <2>1, <3>1 DEF PayerStep, PayerShown
  <2>3. CASE ~Ok(c)
    <3>1. payer' = [payer EXCEPT !.paying = FALSE] /\ PayerShown
      BY <1>3, <2>3 DEF AnswerPay, Ok
    <3>2. PayerSame
      BY <3>1 DEF Shapes, PayerSame
    <3> QED
      BY <2>1, <3>1, <3>2, PayerStays DEF PayerStep
  <2> QED
    BY <2>2, <2>3
<1>4. ~(\/ AnswerPanel(c) \/ AnswerSeed(c) \/ AnswerSeedLine(c) \/ AnswerBooking(c) \/ AnswerSlots(c) \/ AnswerRead(c))
  BY DEF AnswerPanel, AnswerSeed, AnswerSeedLine, AnswerBooking, AnswerSlots, AnswerRead, Answered, Both, createInvoice,
         addInvoiceLineItem, voidInvoiceLineItem, issueInvoice, invoiceVoided, nodeBooked, nodeConfirmed,
         bookingCancelled, supplierAvailability
<1>5. QED
  BY <1>1, <1>2, <1>3, <1>4 DEF Answer

-----------------------------------------------------------------------------
(* Clicks.                                                                 *)

PageNames == {"panel", "desk", "picker", "payer"}

\* The first call of a click, of whichever page.
Fresh(call) ==
  /\ Shaped(call) /\ Unread(call) /\ call.stage = "sent"
  /\ \/ call.page = "panel" /\ call.op \in PanelOps \ {"seedLine", "read"}
     \/ call.page \in {"desk", "picker"} /\ call.op \in DeskOps \ {"read"}
     \/ call.page = "payer" /\ call.op \in {"nonce", "pay"} /\ call.inv = 1

LEMMA ClickedMore ==
  ASSUME PageShapes, NEW page \in PageNames, clicks' = Append(clicks, page), NEW S, Clicked(S)'
  PROVE  Clicked(S) /\ page \in S
<1>1. clicks \in Seq(PageNames)
  BY DEF PageShapes, PageNames
<1>2. DOMAIN clicks = 1..Len(clicks) /\ DOMAIN clicks' = 1..(Len(clicks) + 1) /\ Len(clicks) \in Nat
  BY <1>1
<1>3. clicks'[Len(clicks) + 1] = page /\ \A k \in DOMAIN clicks : clicks'[k] = clicks[k]
  BY <1>1, <1>2
<1>4. QED
  BY <1>2, <1>3 DEF Clicked

LEMMA PagesClick ==
  ASSUME QuietMoneyInv, NEW call, Click(call), Fresh(call), PanelSame, DeskSame, PayerSame
  PROVE  QuietMoneyInv'
<1> PICK number : number = Len(clicks) + 1
  OBVIOUS
<1> DEFINE new == [call EXCEPT !.id = number, !.from = call.op]
<1>1. /\ clicks' = Append(clicks, call.page) /\ calls' = calls \cup {new} /\ UNCHANGED <<ledger, node>>
      /\ mishaps \subseteq mishaps' /\ (calls # {} => "overlap" \in mishaps')
  BY DEF Click, service
<1>2. /\ new.op = call.op /\ new.page = call.page /\ new.from = call.op /\ new.inv = call.inv
      /\ new.got = call.got /\ new.seen = call.seen /\ new.stage = call.stage
  BY DEF Fresh, Shaped, Fields
<1> HIDE DEF new
<1>3. call.page \in PageNames
  BY DEF Fresh, PageNames
<1>4. PageShapes'
  BY <1>1, <1>3 DEF QuietMoneyInv, PageShapes, PanelSame, DeskSame, PageNames
<1>5. ASSUME Alone' PROVE PagesFollow'
  <2>1. calls = {} /\ Alone
    BY <1>1, <1>5 DEF Alone
  <2>2. PagesFollow /\ PageShapes
    BY <2>1 DEF QuietMoneyInv
  <2>3. calls' = {new}
    BY <1>1, <2>1
  <2>4. PanelFollows'
    <3>1. SUFFICES ASSUME Clicked({"panel"})' PROVE PanelCall(new)'
      BY <2>3 DEF PanelFollows
    <3>2. Clicked({"panel"}) /\ call.page = "panel"
      BY <1>1, <1>3, <2>2, <3>1, ClickedMore
    <3>3. PanelShown' /\ panel'.nodes = node'
      BY <1>1, <2>1, <2>2, <3>2 DEF PagesFollow, PanelFollows, PanelShown, PanelSame
    <3>4. call.op \in PanelOps \ {"seedLine", "read"} /\ Unread(call)
      BY <3>2 DEF Fresh
    <3> QED
      BY <1>2, <3>2, <3>3, <3>4 DEF PanelCall, PanelOps, Unread
  <2>5. DeskFollows'
    <3>1. SUFFICES ASSUME Clicked({"desk", "picker"})' PROVE DeskCall(new)'
      BY <2>3 DEF DeskFollows
    <3>2. Clicked({"desk", "picker"}) /\ call.page \in {"desk", "picker"}
      BY <1>1, <1>3, <2>2, <3>1, ClickedMore
    <3>3. DeskShown
      BY <2>1, <2>2, <3>2 DEF PagesFollow, DeskFollows
    <3>4. DeskShown'
      BY <1>1, <3>3, DeskStays
    <3>5. call.op \in DeskOps \ {"read"} /\ Unread(call)
      BY <3>2 DEF Fresh
    <3> QED
      BY <1>2, <3>2, <3>4, <3>5 DEF DeskCall, DeskOps, Unread
  <2>6. PayerFollows'
    <3>1. SUFFICES ASSUME Clicked({"payer"})' PROVE PayerCall(new)'
      BY <2>3 DEF PayerFollows
    <3>2. Clicked({"payer"}) /\ call.page = "payer"
      BY <1>1, <1>3, <2>2, <3>1, ClickedMore
    <3>3. PayerShown
      BY <2>1, <2>2, <3>2 DEF PagesFollow, PayerFollows
    <3>4. PayerShown'
      BY <1>1, <3>3, PayerStays
    <3>5. call.op \in {"nonce", "pay"} /\ call.inv = 1 /\ Unread(call) /\ call.stage = "sent"
      BY <3>2 DEF Fresh
    <3> QED
      BY <1>2, <3>2, <3>4, <3>5 DEF PayerCall, Unread
  <2> QED
    BY <2>3, <2>4, <2>5, <2>6 DEF PagesFollow, OneCall
<1>6. QED
  BY <1>4, <1>5 DEF QuietMoneyInv

\* A step that leaves the service and the clicks alone, and shows nothing new.
LEMMA PagesElsewhere ==
  ASSUME QuietMoneyInv, UNCHANGED <<ledger, node, calls, clicks, mishaps>>, PanelSame, DeskSame, PayerSame
  PROVE  QuietMoneyInv'
<1>1. PageShapes'
  BY DEF QuietMoneyInv, PageShapes, PanelSame, DeskSame
<1>2. ASSUME Alone' PROVE PagesFollow'
  <2>1. PagesFollow
    BY <1>2 DEF QuietMoneyInv, Alone
  <2>2. PanelFollows'
    BY <2>1 DEF PagesFollow, PanelFollows, PanelShown, PanelCall, PanelSame, Clicked, Unread, ReadSoFar
  <2>3. DeskFollows'
    BY <2>1, OffKept DEF PagesFollow, DeskFollows, DeskShown, DeskCall, DeskSame, Clicked, Unread, ReadSoFar
  <2>4. PayerFollows'
    BY <2>1 DEF PagesFollow, PayerFollows, PayerShown, PayerCall, PayerSame, Clicked, Unread
  <2> QED
    BY <2>1, <2>2, <2>3, <2>4 DEF PagesFollow, OneCall
<1>3. QED
  BY <1>1, <1>2 DEF QuietMoneyInv

LEMMA BusyPanel ==
  ASSUME PageShapes, UNCHANGED <<desk, payer>>, NEW v, panel' = [panel EXCEPT !.creating = v] \/ panel' = [panel EXCEPT !.busy = v]
  PROVE  PanelSame /\ DeskSame /\ PayerSame
<1>1. PanelShape(panel) /\ DeskShape(desk)
  BY DEF PageShapes
<1>2. CASE panel' = [panel EXCEPT !.creating = v]
  BY <1>1, <1>2, PanelExcept DEF PanelSame, DeskSame, PayerSame
<1>3. CASE panel' = [panel EXCEPT !.busy = v]
  BY <1>1, <1>3, PanelExcept DEF PanelSame, DeskSame, PayerSame
<1>4. QED
  BY <1>2, <1>3

LEMMA BusyDesk ==
  ASSUME PageShapes, UNCHANGED <<panel, payer>>, NEW v,
         \/ desk' = [desk EXCEPT !.busy = v] \/ desk' = [desk EXCEPT !.asking = v] \/ desk' = [desk EXCEPT !.picker = v]
  PROVE  PanelSame /\ DeskSame /\ PayerSame
<1>1. PanelShape(panel) /\ DeskShape(desk)
  BY DEF PageShapes
<1>2. CASE desk' = [desk EXCEPT !.busy = v]
  BY <1>1, <1>2, DeskExcept DEF PanelSame, DeskSame, PayerSame
<1>3. CASE desk' = [desk EXCEPT !.asking = v]
  BY <1>1, <1>3, DeskExcept DEF PanelSame, DeskSame, PayerSame
<1>4. CASE desk' = [desk EXCEPT !.picker = v]
  BY <1>1, <1>4, DeskExcept DEF PanelSame, DeskSame, PayerSame
<1>5. QED
  BY <1>2, <1>3, <1>4

LEMMA RunFollows ==
  ASSUME QuietMoneyInv, NEW i, NEW call, run(i, call), Shaped(call), Unread(call), call.stage = "sent",
         call.page = "panel", call.op \in PanelOps \ {"seedLine", "read"}
  PROVE  QuietMoneyInv'
<1> DEFINE new == [call EXCEPT !.inv = i]
           busy == panel.busy \cup {i}
<1>1. Click(new) /\ panel' = [panel EXCEPT !.busy = busy] /\ UNCHANGED <<desk, payer>>
  BY DEF run
<1>2. Fresh(new)
  BY DEF Shaped, Fields, Fresh, Unread
<1> HIDE DEF new, busy
<1>3. PanelSame /\ DeskSame /\ PayerSame
  BY <1>1, BusyPanel DEF QuietMoneyInv
<1>4. QED
  BY <1>1, <1>2, <1>3, PagesClick

LEMMA RowFollows ==
  ASSUME QuietMoneyInv, NEW n, NEW shown, NEW call, BookingRow(n, shown, call), Shaped(call), Unread(call),
         call.stage = "sent", call.op \in DeskOps \ {"read"}
  PROVE  QuietMoneyInv'
<1> DEFINE new == [call EXCEPT !.page = "desk", !.item = n]
           busy == desk.busy \cup {n}
<1>1. Click(new) /\ desk' = [desk EXCEPT !.busy = busy] /\ UNCHANGED <<panel, payer>>
  BY DEF BookingRow
<1>2. Fresh(new)
  BY DEF Shaped, Fields, Fresh, Unread
<1> HIDE DEF new, busy
<1>3. PanelSame /\ DeskSame /\ PayerSame
  BY <1>1, BusyDesk DEF QuietMoneyInv
<1>4. QED
  BY <1>1, <1>2, <1>3, PagesClick

LEMMA InvoicePanelFollows == ASSUME QuietMoneyInv, InvoicePanel PROVE QuietMoneyInv'
<1> USE DEF PanelOps
<1>1. CASE create
  <2> DEFINE call == [NoCall EXCEPT !.op = "create"]
  <2>1. Fresh(call)
    BY DEF Fresh, Shaped, Fields, NoCall, Unread
  <2>2. Click(call) /\ panel' = [panel EXCEPT !.creating = TRUE] /\ UNCHANGED <<desk, payer>>
    BY <1>1 DEF create
  <2> HIDE DEF call
  <2> QED
    BY <2>1, <2>2, BusyPanel, PagesClick DEF QuietMoneyInv
<1>2. ASSUME NEW full, seedInvoice(full) PROVE QuietMoneyInv'
  <2> DEFINE flaws == IF \E n \in Items : Left(ledger, n) > Left(panel.list, n) THEN {"undone"} ELSE {}
             call == [NoCall EXCEPT !.op = "seed", !.targets = Targets(full), !.full = full, !.flaws = flaws]
  <2>1. Click(call) /\ panel' = [panel EXCEPT !.creating = TRUE] /\ UNCHANGED <<desk, payer>>
    BY <1>2 DEF seedInvoice
  <2> HIDE DEF flaws
  <2>2. Fresh(call)
    BY DEF Fresh, Shaped, Fields, NoCall, Unread
  <2> HIDE DEF call
  <2> QED
    BY <2>1, <2>2, BusyPanel, PagesClick DEF QuietMoneyInv
<1>3. ASSUME NEW i, addAdjustment(i) PROVE QuietMoneyInv'
  <2> DEFINE call == [NoCall EXCEPT !.op = "line", !.amount = 1]
  <2>1. Shaped(call) /\ Unread(call) /\ call.stage = "sent" /\ call.page = "panel" /\ call.op = "line"
    BY DEF Shaped, Fields, NoCall, Unread
  <2>2. run(i, call)
    BY <1>3 DEF addAdjustment
  <2> HIDE DEF call
  <2> QED
    BY <2>1, <2>2, RunFollows
<1>4. ASSUME NEW i, issue(i) PROVE QuietMoneyInv'
  <2> DEFINE call == [NoCall EXCEPT !.op = "issue"]
  <2>1. Shaped(call) /\ Unread(call) /\ call.stage = "sent" /\ call.page = "panel" /\ call.op = "issue"
    BY DEF Shaped, Fields, NoCall, Unread
  <2>2. run(i, call)
    BY <1>4 DEF issue
  <2> HIDE DEF call
  <2> QED
    BY <2>1, <2>2, RunFollows
<1>5. ASSUME NEW i, voidInvoice(i) PROVE QuietMoneyInv'
  <2> DEFINE call == [NoCall EXCEPT !.op = "void"]
  <2>1. Shaped(call) /\ Unread(call) /\ call.stage = "sent" /\ call.page = "panel" /\ call.op = "void"
    BY DEF Shaped, Fields, NoCall, Unread
  <2>2. run(i, call)
    BY <1>5 DEF voidInvoice
  <2> HIDE DEF call
  <2> QED
    BY <2>1, <2>2, RunFollows
<1>6. ASSUME NEW i, NEW n, NEW amount, submitCharge(i, n, amount) PROVE QuietMoneyInv'
  <2> DEFINE call == [NoCall EXCEPT !.op = "line", !.item = n, !.amount = amount]
  <2>1. Shaped(call) /\ Unread(call) /\ call.stage = "sent" /\ call.page = "panel" /\ call.op = "line"
    BY DEF Shaped, Fields, NoCall, Unread
  <2>2. run(i, call)
    BY <1>6 DEF submitCharge
  <2> HIDE DEF call
  <2> QED
    BY <2>1, <2>2, RunFollows
<1>7. ASSUME NEW i, NEW k, voidLine(i, k) PROVE QuietMoneyInv'
  <2> DEFINE call == [NoCall EXCEPT !.op = "voidLine", !.line = k]
  <2>1. Shaped(call) /\ Unread(call) /\ call.stage = "sent" /\ call.page = "panel" /\ call.op = "voidLine"
    BY DEF Shaped, Fields, NoCall, Unread
  <2>2. run(i, call)
    BY <1>7 DEF voidLine
  <2> HIDE DEF call
  <2> QED
    BY <2>1, <2>2, RunFollows
<1>8. QED
  BY <1>1, <1>2, <1>3, <1>4, <1>5, <1>6, <1>7 DEF InvoicePanel, InvoiceCard, LineRow

LEMMA BookingPanelFollows == ASSUME QuietMoneyInv, BookingPanel \/ SupplierSlotPickerDialog PROVE QuietMoneyInv'
<1> USE DEF DeskOps
<1>1. ASSUME NEW n, NEW override, bookNode(n, override) PROVE QuietMoneyInv'
  <2> DEFINE call == [NoCall EXCEPT !.op = IF override THEN "override" ELSE "book"]
  <2>1. Shaped(call) /\ Unread(call) /\ call.stage = "sent" /\ call.op \in {"override", "book"}
    BY DEF Shaped, Fields, NoCall, Unread
  <2>2. BookingRow(n, {"approved"}, call)
    BY <1>1 DEF bookNode
  <2> HIDE DEF call
  <2> QED
    BY <2>1, <2>2, RowFollows
<1>2. ASSUME NEW n, confirmNode(n) PROVE QuietMoneyInv'
  <2> DEFINE call == [NoCall EXCEPT !.op = "confirm"]
  <2>1. Shaped(call) /\ Unread(call) /\ call.stage = "sent" /\ call.op = "confirm"
    BY DEF Shaped, Fields, NoCall, Unread
  <2>2. BookingRow(n, {"booked"}, call)
    BY <1>2 DEF confirmNode
  <2> HIDE DEF call
  <2> QED
    BY <2>1, <2>2, RowFollows
<1>3. ASSUME NEW n, cancelBooking(n) PROVE QuietMoneyInv'
  <2> DEFINE call == [NoCall EXCEPT !.op = "cancel"]
  <2>1. Shaped(call) /\ Unread(call) /\ call.stage = "sent" /\ call.op = "cancel"
    BY DEF Shaped, Fields, NoCall, Unread
  <2>2. BookingRow(n, {"booked", "confirmed"}, call)
    BY <1>3 DEF cancelBooking
  <2> HIDE DEF call
  <2> QED
    BY <2>1, <2>2, RowFollows
<1>4. ASSUME NEW n, askCancel(n) PROVE QuietMoneyInv'
  <2>1. PanelSame /\ DeskSame /\ PayerSame
    BY <1>4, BusyDesk DEF askCancel, QuietMoneyInv
  <2> QED
    BY <1>4, <2>1, PagesElsewhere DEF askCancel, service
<1>5. ASSUME NEW n, loadAvailability(n) PROVE QuietMoneyInv'
  <2> DEFINE call == [NoCall EXCEPT !.page = "picker", !.op = "slots", !.item = n]
             picker == [NoPicker EXCEPT !.item = n, !.id = Len(clicks) + 1]
  <2>1. Fresh(call)
    BY DEF Fresh, Shaped, Fields, NoCall, Unread
  <2>2. Click(call) /\ UNCHANGED <<panel, payer>> /\ desk' = [desk EXCEPT !.picker = picker]
    BY <1>5 DEF loadAvailability
  <2> HIDE DEF call, picker
  <2>3. PanelSame /\ DeskSame /\ PayerSame
    BY <2>2, BusyDesk DEF QuietMoneyInv
  <2> QED
    BY <2>1, <2>2, <2>3, PagesClick
<1>6. ASSUME NEW override, reserveAndConfirm(override) PROVE QuietMoneyInv'
  <2> DEFINE live == desk.picker.slots = "some"
             call == [NoCall EXCEPT !.page = "picker", !.op = IF override THEN "override" ELSE "book",
                        !.item = desk.picker.item, !.full = live, !.amount = desk.picker.id]
             picker == [desk.picker EXCEPT !.busy = TRUE]
  <2>1. Click(call) /\ UNCHANGED <<panel, payer>> /\ desk' = [desk EXCEPT !.picker = picker]
    BY <1>6 DEF reserveAndConfirm
  <2> HIDE DEF live
  <2>2. Fresh(call)
    BY DEF Fresh, Shaped, Fields, NoCall, Unread
  <2> HIDE DEF call, picker
  <2>3. PanelSame /\ DeskSame /\ PayerSame
    BY <2>1, BusyDesk DEF QuietMoneyInv
  <2> QED
    BY <2>1, <2>2, <2>3, PagesClick
<1>7. CASE onClose
  <2>1. PanelSame /\ DeskSame /\ PayerSame
    BY <1>7, BusyDesk DEF onClose, QuietMoneyInv
  <2> QED
    BY <1>7, <2>1, PagesElsewhere DEF onClose, service
<1>8. QED
  BY <1>1, <1>2, <1>3, <1>4, <1>5, <1>6, <1>7 DEF BookingPanel, SupplierSlotPickerDialog

LEMMA PayViewFollows == ASSUME Shapes, QuietMoneyInv, PayInvoiceView PROVE QuietMoneyInv'
<1>1. PanelShape(panel) /\ DeskShape(desk)
  BY DEF QuietMoneyInv, PageShapes
<1>2. CASE mountForm
  <2>1. PanelSame /\ DeskSame /\ PayerSame
    BY <1>1, <1>2 DEF mountForm, Shapes, PanelSame, DeskSame, PayerSame
  <2> QED
    BY <1>2, <2>1, PagesElsewhere DEF mountForm, service
<1>3. CASE pay
  <2> DEFINE call == [NoCall EXCEPT !.page = "payer", !.op = "nonce", !.inv = 1]
  <2>1. Fresh(call)
    BY DEF Fresh, Shaped, Fields, NoCall, Unread
  <2>2. Click(call) /\ UNCHANGED pages
    BY <1>3 DEF pay
  <2> HIDE DEF call
  <2> QED
    BY <2>1, <2>2, SamePages, PagesClick DEF QuietMoneyInv
<1>4. CASE payWithTestCard
  <2> DEFINE call == [NoCall EXCEPT !.page = "payer", !.op = "pay", !.inv = 1]
  <2>1. Fresh(call)
    BY DEF Fresh, Shaped, Fields, NoCall, Unread
  <2>2. Click(call) /\ UNCHANGED <<panel, desk>> /\ payer' = [payer EXCEPT !.paying = TRUE]
    BY <1>4 DEF payWithTestCard
  <2> HIDE DEF call
  <2>3. PanelSame /\ DeskSame /\ PayerSame
    BY <1>1, <2>2 DEF Shapes, PanelSame, DeskSame, PayerSame
  <2> QED
    BY <2>1, <2>2, <2>3, PagesClick
<1>5. QED
  BY <1>2, <1>3, <1>4 DEF PayInvoiceView

\* A call moves on alone.
LEMMA CallsStayOne ==
  ASSUME NEW c, calls = {c}, Serve(c) \/ Answer(c)
  PROVE  \A d, e \in calls' : d = e
<1>1. ASSUME NEW d, Becomes(c, d) PROVE \A x, y \in calls' : x = y
  BY <1>1, BecomesOne
<1>2. ASSUME NEW ledgers, GivesBack(c, ledgers) PROVE \A x, y \in calls' : x = y
  <2> DEFINE Returned(d) == IF d = c THEN [c EXCEPT !.stage = "ok"]
                            ELSE IF d.from = "seed" THEN [d EXCEPT !.flaws = @ \cup {"undone"}] ELSE d
  <2>1. calls' = {Returned(d) : d \in {c}}
    BY <1>2 DEF GivesBack
  <2> HIDE DEF Returned
  <2> QED
    BY <2>1
<1>3. ASSUME NEW ledgers, NEW nodes, NEW bookings, Served(c, ledgers, nodes, bookings)
      PROVE  \A x, y \in calls' : x = y
  BY <1>1, <1>3, Zenon DEF Served
<1>4. ASSUME NEW S, calls' = (calls \ {c}) \cup S, \A x, y \in S : x = y PROVE \A x, y \in calls' : x = y
  BY <1>4
<1>5. CASE Serve(c)
  <2>1. CASE create_invoice(c) \/ supplier_availability(c) \/ LoadPay(c)
    BY <1>1, <2>1, Zenon DEF create_invoice, supplier_availability, LoadPay
  <2>2. CASE pay_invoice(c)
    <3> DEFINE paid == [c EXCEPT !.stage = "ok", !.seen.list[c.inv] = ledger'[c.inv]]
               left == IF c.page = "nobody" THEN {} ELSE {paid}
    <3>1. calls' = (calls \ {c}) \cup left
      BY <2>2, Zenon DEF pay_invoice
    <3> HIDE DEF paid
    <3> QED
      BY <1>4, <3>1
  <2>3. CASE Refuse(c)
    <3> DEFINE refused == [c EXCEPT !.stage = "refused"]
               left == IF c.page = "nobody" THEN {} ELSE {refused}
    <3>1. calls' = (calls \ {c}) \cup left
      BY <2>3, Zenon DEF Refuse
    <3> HIDE DEF refused
    <3> QED
      BY <1>4, <3>1
  <2>4. CASE \E part \in {"list", "nodes", "off"} : ServeRead(c, part)
    BY <1>1, <2>4, Zenon DEF ServeRead
  <2>5. CASE add_line_item(c) \/ issue_invoice(c) \/ book_node(c) \/ record_confirmation(c)
    BY <1>3, <2>5, Zenon DEF add_line_item, issue_invoice, Appends, Writes, book_node, record_confirmation
  <2>6. CASE void_line_item(c) \/ void_invoice(c) \/ cancel_booking(c)
    BY <1>2, <2>6, Zenon DEF void_line_item, void_invoice, cancel_booking
  <2> QED
    BY <1>5, <2>1, <2>2, <2>3, <2>4, <2>5, <2>6, Zenon DEF Serve
<1>6. CASE Answer(c)
  <2>1. ASSUME Done(c) PROVE \A x, y \in calls' : x = y
    BY <2>1 DEF Done
  <2>2. ASSUME Refresh(c) \/ NextLine(c) PROVE \A x, y \in calls' : x = y
    BY <1>1, <2>2, Zenon DEF Refresh, NextLine
  <2> QED
    BY <1>1, <1>6, <2>1, <2>2, Zenon DEF Answer, AnswerPanel, AnswerSeed, AnswerSeedLine, AnswerBooking, AnswerSlots,
       AnswerRead, requestPaymentMethod, AnswerNonce, AnswerPay
<1> QED
  BY <1>5, <1>6

-----------------------------------------------------------------------------
(* Steps of a call under way.                                              *)

LEMMA ServeShapes ==
  ASSUME PageShapes, NEW c, Serve(c)
  PROVE  PageShapes' /\ UNCHANGED clicks /\ mishaps \subseteq mishaps'
<1>1. UNCHANGED <<pages, clicks>> /\ mishaps \subseteq mishaps'
  <2>1. CASE create_invoice(c) \/ supplier_availability(c) \/ LoadPay(c) \/ pay_invoice(c) \/ Refuse(c)
    BY <2>1 DEF create_invoice, supplier_availability, LoadPay, pay_invoice, Refuse
  <2>2. CASE \E part : ServeRead(c, part)
    BY <2>2 DEF ServeRead
  <2>3. CASE (\E ledgers, nodes, bookings : Served(c, ledgers, nodes, bookings)) \/ (\E ledgers : GivesBack(c, ledgers))
    BY <2>3 DEF Served, GivesBack
  <2>4. CASE add_line_item(c) \/ issue_invoice(c) \/ book_node(c) \/ record_confirmation(c)
    BY <2>3, <2>4, Zenon DEF add_line_item, issue_invoice, Appends, Writes, book_node, record_confirmation
  <2>5. CASE void_line_item(c) \/ void_invoice(c) \/ cancel_booking(c)
    BY <2>3, <2>5, Zenon DEF void_line_item, void_invoice, cancel_booking
  <2> QED
    BY <2>1, <2>2, <2>4, <2>5 DEF Serve
<1>2. QED
  BY <1>1, SamePages DEF PageShapes, PanelSame, DeskSame

LEMMA IdleShape == ASSUME PageShapes, NEW c PROVE PanelShape(Idle(c))
BY PanelExcept DEF PageShapes, Idle

LEMMA AnswerShapes ==
  ASSUME PageShapes, NEW c, Answer(c)
  PROVE  PageShapes' /\ UNCHANGED <<ledger, node, clicks, mishaps>>
<1>1. UNCHANGED <<ledger, node, clicks, mishaps>>
  BY Zenon DEF Answer, AnswerPanel, AnswerSeed, AnswerSeedLine, AnswerBooking, AnswerSlots, AnswerRead,
     requestPaymentMethod, AnswerNonce, AnswerPay, Refresh, NextLine, Done, service
<1>2. PanelShape(panel) /\ DeskShape(desk)
  BY DEF PageShapes
<1>3. PanelShape(panel')
  <2>1. CASE panel' = panel \/ panel' = Idle(c)
    BY <1>2, <2>1, IdleShape
  <2>2. CASE panel' = [Idle(c) EXCEPT !.list = c.seen.list, !.nodes = c.seen.nodes]
    <3>1. PanelShape(Idle(c))
      BY IdleShape
    <3> QED
      BY <2>2, <3>1 DEF PanelShape
  <2> QED
    BY <2>1, <2>2, Zenon DEF Answer, AnswerPanel, AnswerSeed, AnswerSeedLine, AnswerBooking, AnswerSlots, AnswerRead,
       requestPaymentMethod, AnswerNonce, AnswerPay, Refresh, NextLine, Done, pages
<1>4. DeskShape(desk')
  <2> DEFINE idle == desk.busy \ {c.item}
             waiting == desk.picker.busy /\ desk.picker.id # c.amount
             answered == [desk.picker EXCEPT !.busy = waiting]
             slots == IF Ok(c) THEN CHOOSE s \in c.got : TRUE ELSE "none"
             offered == [desk.picker EXCEPT !.slots = slots]
             busy == IF c.page = "desk" THEN desk.busy \ {c.item} ELSE desk.busy
             picker == IF c.page = "picker" THEN NoPicker ELSE desk.picker
  <2>1. CASE AnswerBooking(c)
    <3>1. desk' = desk \/ desk' = [desk EXCEPT !.busy = idle] \/ desk' = [desk EXCEPT !.picker = answered]
      BY <2>1 DEF AnswerBooking, Refresh, pages
    <3> HIDE DEF idle, answered
    <3>2. CASE desk' = [desk EXCEPT !.busy = idle]
      BY <1>2, <3>2, DeskExcept
    <3>3. CASE desk' = [desk EXCEPT !.picker = answered]
      BY <1>2, <3>3, DeskExcept
    <3> QED
      BY <1>2, <3>1, <3>2, <3>3
  <2>2. CASE AnswerSlots(c)
    <3>1. desk' = desk \/ desk' = [desk EXCEPT !.picker = offered]
      BY <2>2 DEF AnswerSlots
    <3> HIDE DEF offered
    <3>2. CASE desk' = [desk EXCEPT !.picker = offered]
      BY <1>2, <3>2, DeskExcept
    <3> QED
      BY <1>2, <3>1, <3>2
  <2>3. CASE AnswerRead(c)
    <3>1. desk' = desk \/ desk' = [desk EXCEPT !.nodes = c.seen.nodes, !.off = c.seen.off, !.busy = busy, !.picker = picker]
      BY <2>3 DEF AnswerRead
    <3> HIDE DEF busy, picker
    <3> QED
      BY <1>2, <3>1 DEF DeskShape
  <2>4. CASE \/ AnswerPanel(c) \/ AnswerSeed(c) \/ AnswerSeedLine(c) \/ requestPaymentMethod(c) \/ AnswerNonce(c) \/ AnswerPay(c)
    <3>1. desk' = desk
      BY <2>4, Zenon DEF AnswerPanel, AnswerSeed, AnswerSeedLine, requestPaymentMethod, AnswerNonce, AnswerPay,
         Refresh, NextLine, Done, pages
    <3> QED
      BY <1>2, <3>1
  <2> QED
    BY <2>1, <2>2, <2>3, <2>4 DEF Answer
<1>5. QED
  BY <1>1, <1>3, <1>4 DEF PageShapes

\* A failure the pages are not told of takes the promise away; it leaves the tabs as they are.
LEMMA FailShapes ==
  ASSUME PageShapes, NEW c, Fail(c)
  PROVE  PageShapes' /\ ~Alone'
<1>1. UNCHANGED <<panel, desk, clicks>> /\ "lost" \in mishaps'
  BY DEF Fail, Lose, GiveUp, PaymentGatewayError, FailRead, pages
<1>2. QED
  BY <1>1 DEF PageShapes, Alone

LEMMA CallMoves ==
  ASSUME PaymentInv, QuietMoneyInv, NEW c \in calls, Serve(c) \/ Answer(c)
  PROVE  QuietMoneyInv'
<1>1. PageShapes /\ PageShapes' /\ UNCHANGED clicks /\ mishaps \subseteq mishaps'
  BY ServeShapes, AnswerShapes DEF QuietMoneyInv
<1>2. ASSUME Alone' PROVE PagesFollow'
  <2>1. PagesFollow
    BY <1>1, <1>2 DEF QuietMoneyInv, Alone
  <2>2. calls = {c} /\ Shaped(c) /\ Shapes
    BY <2>1 DEF PagesFollow, OneCall, PaymentInv, WellMade
  <2>3. \A S : Clicked(S)' <=> Clicked(S)
    BY <1>1 DEF Clicked
  <2>4. PanelFollows'
    <3>1. SUFFICES ASSUME Clicked({"panel"}) PROVE PanelStep
      BY <2>3 DEF PanelFollows, PanelStep
    <3>2. PanelCall(c)
      BY <2>1, <3>1 DEF PagesFollow, PanelFollows
    <3> QED
      BY <1>1, <2>2, <3>2, PanelServed, PanelAnswered
  <2>5. DeskFollows'
    <3>1. SUFFICES ASSUME Clicked({"desk", "picker"}) PROVE DeskStep
      BY <2>3 DEF DeskFollows, DeskStep
    <3>2. DeskCall(c)
      BY <2>1, <3>1 DEF PagesFollow, DeskFollows
    <3> QED
      BY <1>1, <2>2, <3>2, DeskServes, DeskAnswered
  <2>6. PayerFollows'
    <3>1. SUFFICES ASSUME Clicked({"payer"}) PROVE PayerStep
      BY <2>3 DEF PayerFollows, PayerStep
    <3>2. PayerCall(c)
      BY <2>1, <3>1 DEF PagesFollow, PayerFollows
    <3> QED
      BY <1>1, <2>2, <3>2, PayerServed, PayerAnswered
  <2>7. OneCall'
    BY <2>2, CallsStayOne DEF OneCall
  <2> QED
    BY <2>4, <2>5, <2>6, <2>7 DEF PagesFollow
<1>3. QED
  BY <1>1, <1>2 DEF QuietMoneyInv

LEMMA InitFollows == Init => QuietMoneyInv
<1> SUFFICES ASSUME Init PROVE QuietMoneyInv
  OBVIOUS
<1>1. PageShapes
  BY DEF Init, PageShapes, PanelShape, DeskShape
<1>2. calls = {} /\ PanelShown /\ DeskShown /\ PayerShown
  BY DEF Init, PanelShown, DeskShown, PayerShown
<1>3. QED
  BY <1>1, <1>2 DEF QuietMoneyInv, PagesFollow, OneCall, PanelFollows, DeskFollows, PayerFollows

LEMMA NextFollows == PaymentInv /\ QuietMoneyInv /\ [Next]_vars => QuietMoneyInv'
<1> SUFFICES ASSUME PaymentInv, QuietMoneyInv, [Next]_vars PROVE QuietMoneyInv'
  OBVIOUS
<1>1. CASE InvoicePanel
  BY <1>1, InvoicePanelFollows
<1>2. CASE BookingPanel \/ SupplierSlotPickerDialog
  BY <1>2, BookingPanelFollows
<1>3. CASE PayInvoiceView
  BY <1>3, PayViewFollows DEF PaymentInv
<1>4. ASSUME NEW c \in calls, Serve(c) \/ Answer(c) PROVE QuietMoneyInv'
  BY <1>4, CallMoves
<1>5. ASSUME NEW c \in calls, Fail(c) PROVE QuietMoneyInv'
  BY <1>5, FailShapes DEF QuietMoneyInv
<1>6. CASE UNCHANGED vars
  <2>1. PanelSame /\ DeskSame /\ PayerSame
    BY <1>6, SamePages DEF QuietMoneyInv, vars, pages
  <2> QED
    BY <1>6, <2>1, PagesElsewhere DEF vars
<1>7. QED
  BY <1>1, <1>2, <1>3, <1>4, <1>5, <1>6 DEF Next

\* A tab or pay page that is the only one to be used, one click at a time, shows what the service has
\* once its calls are answered, refused ones and half-made invoices included.
THEOREM QuietPagesAgree == Spec => []QuietMoneyAgrees
<1>1. QuietMoneyInv => QuietMoneyAgrees
  BY DEF QuietMoneyInv, PagesFollow, PanelFollows, DeskFollows, PayerFollows, PanelShown, DeskShown, PayerShown,
         QuietMoneyAgrees, Alone
<1>2. QED
  BY InitPaymentInv, NextKeeps, InitFollows, NextFollows, <1>1, PTL DEF Spec

=============================================================================
