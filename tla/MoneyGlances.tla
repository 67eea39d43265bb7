---------------------------- MODULE MoneyGlances ----------------------------
(***************************************************************************)
(* What the pages of a trip make of its invoices: the chips on the board,  *)
(* the advisor's list of what is left to bill, the money facet of a card,  *)
(* the dashboard's roll-up and its next action; and how those that read    *)
(* once keep an older answer from replacing a newer one.  The ledger moves *)
(* as the services move it.  Every card costs two, per head or in all, and *)
(* may be billed in a deposit of one and a balance of one.                 *)
(***************************************************************************)
EXTENDS Integers, Sequences, FiniteSets, SequencesExt, FiniteSetsExt

CONSTANTS
  Cards,      \* the cards that may be billed
  PerPerson,  \* those whose cost is per head
  MaxOps,     \* bound: the changes of the ledger
  MaxReads    \* bound: the reads of the glances

\* The glances that read when they are mounted, and again with new credentials.
Glances == {"MoneySection", "PartyGlance", "MoneyFacet"}

VARIABLES
  status,     \* per card: "proposed", "approved" or "booked"
  party,      \* how many travel
  invoices,   \* the invoices, each with its status and its lines
  ops,        \* history: how often the ledger changed
  glances,    \* per glance: <<"closed">>, <<"loading">>, <<"error">>, or <<"shown", the ops it has read>>
  reads,      \* the reads under way: the glance, the ops they saw or "failed", whether they are cancelled
  asked       \* history: the reads that were started

ledger == <<status, party, invoices>>
vars == <<ledger, ops, glances, reads, asked>>

-----------------------------------------------------------------------------
(* The ledger.                                                             *)

Cost == 2
Refs == DOMAIN invoices
effective_node_cost(c) == IF c \in PerPerson THEN Cost * party ELSE Cost

Amount(lines) == FoldSeq(LAMBDA l, n : l.amount + n, 0, lines)
Total(i) == Amount(invoices[i].lines)
Net(c, i) == Amount(SelectSeq(invoices[i].lines, LAMBDA l : l.card = c))
NetOf(c, statuses) == MapThenSumSet(LAMBDA i : Net(c, i), {i \in Refs : invoices[i].status \in statuses})

Reversed(i, k) == \E l \in Range(invoices[i].lines) : l.reverses = k
Live(i, kind) == {k \in DOMAIN invoices[i].lines : invoices[i].lines[k].kind = kind /\ ~Reversed(i, k)}

\* What a card has been charged, by lines that are not reversed and of no void invoice.
ChargedOn(c, i) ==
  MapThenSumSet(LAMBDA k : invoices[i].lines[k].amount, {k \in Live(i, "charge") : invoices[i].lines[k].card = c})
node_charged_total(c) == MapThenSumSet(LAMBDA i : ChargedOn(c, i), {i \in Refs : invoices[i].status # "void"})

Change ==
  /\ ops < MaxOps
  /\ ops' = ops + 1
  /\ UNCHANGED <<glances, reads, asked>>

Append1(i, line) == invoices' = [invoices EXCEPT ![i].lines = Append(@, line)]

Draft == [status |-> "draft", lines |-> <<>>]

\* Bound: two invoices.
create_invoice ==
  /\ Len(invoices) < 2 /\ Change
  /\ invoices' = Append(invoices, Draft)
  /\ UNCHANGED <<status, party>>

\* Bound: one line besides the charges of the cards and their reversals.
NoExtra ==
  \A i \in Refs : \A k \in DOMAIN invoices[i].lines :
    invoices[i].lines[k].kind \in {"charge", "reversal"} /\ invoices[i].lines[k].card # "none"

\* A draft takes a charge of a card, in part or in all, up to the card's cost; or one that is of no card.
charge(i, c, amount) ==
  /\ invoices[i].status = "draft"
  /\ IF c = "none" THEN NoExtra ELSE node_charged_total(c) + amount <= effective_node_cost(c)
  /\ Change /\ Append1(i, [kind |-> "charge", card |-> c, amount |-> amount, reverses |-> 0])
  /\ UNCHANGED <<status, party>>

\* A discount or a fee, of the invoice or tagged with a card, is taken while the invoice is open.
correct(i, kind, c) ==
  /\ invoices[i].status \in {"draft", "issued"}
  /\ NoExtra
  /\ Change /\ Append1(i, [kind |-> kind, card |-> c, amount |-> IF kind = "fee" THEN 1 ELSE 0 - 1, reverses |-> 0])
  /\ UNCHANGED <<status, party>>

Reverses(i, k) ==
  Append1(i, [kind |-> "reversal", card |-> invoices[i].lines[k].card, amount |-> 0 - invoices[i].lines[k].amount, reverses |-> k])

\* Any line that is not a reversal is reversed once, while the invoice is open.
void_line_item(i, k) ==
  /\ invoices[i].status \in {"draft", "issued"} /\ invoices[i].lines[k].kind # "reversal" /\ ~Reversed(i, k)
  /\ Change /\ Reverses(i, k)
  /\ UNCHANGED <<status, party>>

\* The line a booking is of: the latest charge of its card; of which paid invoice is left open.
_pick_covering_line(c, i, k) ==
  LET charges == {l \in DOMAIN invoices[i].lines : invoices[i].lines[l].kind = "charge" /\ invoices[i].lines[l].card = c}
  IN  invoices[i].status = "paid" /\ charges # {} /\ k = Max(charges)

\* The refund of a booking reverses that line, if it is not reversed yet, and no other.
cancel_booking(c, i, k) ==
  /\ status[c] = "booked" /\ _pick_covering_line(c, i, k) /\ Change
  /\ status' = [status EXCEPT ![c] = "approved"]
  /\ IF Reversed(i, k) THEN UNCHANGED invoices ELSE Reverses(i, k)
  /\ UNCHANGED party

\* A draft with a line is issued, an issued invoice with something to pay is paid, and an open one is voided.
Accepts(i, to) ==
  \/ to = "issued" /\ invoices[i].status = "draft" /\ invoices[i].lines # <<>>
  \/ to = "paid" /\ invoices[i].status = "issued" /\ Total(i) > 0
  \/ to = "void" /\ invoices[i].status \in {"draft", "issued"}

move(i, to) ==
  /\ Accepts(i, to) /\ Change
  /\ invoices' = [invoices EXCEPT ![i].status = to]
  /\ UNCHANGED <<status, party>>

approve(c) ==
  /\ status[c] = "proposed" /\ Change
  /\ status' = [status EXCEPT ![c] = "approved"]
  /\ UNCHANGED <<party, invoices>>

\* The money gate of a booking, without the advisor's override.
Paid(c) == NetOf(c, {"paid"}) >= effective_node_cost(c)

book_node(c) ==
  /\ status[c] = "approved" /\ Paid(c) /\ Change
  /\ status' = [status EXCEPT ![c] = "booked"]
  /\ UNCHANGED <<party, invoices>>

\* A traveler more or less, and with it what a card per head costs.
attach == party < 2 /\ Change /\ party' = party + 1 /\ UNCHANGED <<status, invoices>>
detach == party > 1 /\ Change /\ party' = party - 1 /\ UNCHANGED <<status, invoices>>

-----------------------------------------------------------------------------
(* What the pages derive.                                                  *)

\* The charge lines of a card that bill it: of no void invoice, and not reversed.
coverageByNode(c) ==
  {x \in Refs \X (1..MaxOps) :
    /\ invoices[x[1]].status # "void" /\ x[2] \in Live(x[1], "charge")
    /\ invoices[x[1]].lines[x[2]].card = c}

chargedByNode(c) == MapThenSumSet(LAMBDA x : invoices[x[1]].lines[x[2]].amount, coverageByNode(c))
effectiveNodeCost(c) == IF c \in PerPerson THEN Cost * party ELSE Cost
isChargeable(c) == status[c] = "approved"

\* What the advisor's cockpit still offers to bill.
billableNodes == {c \in Cards : isChargeable(c) /\ effectiveNodeCost(c) > chargedByNode(c)}

\* Slip: the chip compares with the price per head.
chipPerHead(c) ==
  IF coverageByNode(c) = {} THEN IF status[c] \in {"approved", "booked"} THEN "unbilled" ELSE "none"
  ELSE IF Cost > chargedByNode(c) THEN "partial"
  ELSE IF \A x \in coverageByNode(c) : invoices[x[1]].status = "paid" THEN "paid" ELSE "billed"

billingChipsByNode(c) ==
  IF coverageByNode(c) = {} THEN IF status[c] \in {"approved", "booked"} THEN "unbilled" ELSE "none"
  ELSE IF effectiveNodeCost(c) > chargedByNode(c) THEN "partial"
  ELSE IF \A x \in coverageByNode(c) : invoices[x[1]].status = "paid" THEN "paid" ELSE "billed"

invoiceOwed(i) == IF Total(i) < 0 THEN 0 ELSE Total(i)
isPayable(i) == invoices[i].status = "issued" /\ invoiceOwed(i) > 0

\* The invoice the dashboard's next action leads to: the first that owes, 0 for none.
firstUnpaidIssued == LET owing == {i \in Refs : isPayable(i)} IN IF owing = {} THEN 0 ELSE Min(owing)

\* Where the next action sends its reader: the timeline, the concierge, or an invoice.
Invoice(i) == <<"invoice", i>>

deriveNextAction(role, scheduledCount, pendingCount) ==
  IF role = "advisor" /\ (pendingCount > 0 \/ scheduledCount = 0) THEN <<"timeline">>
  ELSE IF firstUnpaidIssued # 0 THEN Invoice(firstUnpaidIssued)
  ELSE IF role = "advisor" \/ (scheduledCount > 0 /\ pendingCount > 0) THEN <<"timeline">>
  ELSE <<"concierge">>

\* What the roll-up says is owed.
rollupInvoices == MapThenSumSet(invoiceOwed, {i \in Refs : invoices[i].status = "issued"})

\* The traveler's list of the invoices, drafts and void ones included, newest first; each row leads to its pay page.
list_invoices_for_client ==
  Reverse([i \in Refs |-> [id |-> i, status |-> invoices[i].status, total |-> Total(i)]])
InvoiceList(st) == SelectSeq(list_invoices_for_client, LAMBDA row : row.status = st)

\* The invoice the facet leads to: one of the card's charges, reversed or not; an issued one before a paid
\* one before a draft, and the oldest among those.
rank(i) == CASE invoices[i].status = "issued" -> 3 [] invoices[i].status = "paid" -> 2 [] OTHER -> 1

primary(c) ==
  LET charges == {i \in Refs : invoices[i].status # "void" /\ \E l \in Range(invoices[i].lines) : l.kind = "charge" /\ l.card = c}
      best == {i \in charges : \A j \in charges : rank(i) >= rank(j)}
  IN IF best = {} THEN 0 ELSE Min(best)

\* The facet's owed amount: what is billed less what is paid.
node_charges(c) == NetOf(c, {"issued", "paid"}) - NetOf(c, {"paid"})

-----------------------------------------------------------------------------
(* The glances that read.                                                  *)

\* Bound: the glances are read while approvals and new invoices are all that happened.
Begin(g) ==
  /\ asked < MaxReads /\ ops < 3 /\ \A i \in Refs : invoices[i].status = "draft" /\ invoices[i].lines = <<>>
  /\ asked' = asked + 1
  /\ reads' = {[r EXCEPT !.cancelled = @ \/ r.glance = g] : r \in reads}
                \cup {[glance |-> g, id |-> asked + 1, saw |-> ops, cancelled |-> FALSE]}
  /\ UNCHANGED <<ledger, ops>>

mount(g) == glances[g] = <<"closed">> /\ Begin(g) /\ glances' = [glances EXCEPT ![g] = <<"loading">>]

\* With a new access token it reads again, and shows what it has until then.
effect(g) == glances[g] # <<"closed">> /\ Begin(g) /\ UNCHANGED glances

unmount(g) ==
  /\ glances[g] # <<"closed">>
  /\ glances' = [glances EXCEPT ![g] = <<"closed">>]
  /\ reads' = {r \in reads : r.glance # g}
  /\ UNCHANGED <<ledger, ops, asked>>

\* Slip: an answer lands whatever was asked after it.
landAnyway(r) == glances' = [glances EXCEPT ![r.glance] = <<"shown", r.saw>>]

\* A cancelled read's answer is dropped.
land(r) == glances' = IF r.cancelled THEN glances ELSE [glances EXCEPT ![r.glance] = <<"shown", r.saw>>]

Lands(r) == land(r) /\ reads' = reads \ {r} /\ UNCHANGED <<ledger, ops, asked>>

\* A read that fails leaves no amounts on show.
Fails(r) ==
  /\ glances' = IF r.cancelled THEN glances ELSE [glances EXCEPT ![r.glance] = <<"error">>]
  /\ reads' = reads \ {r}
  /\ UNCHANGED <<ledger, ops, asked>>

-----------------------------------------------------------------------------

\* A trip with an invoice or two that are still empty.
Init ==
  /\ status \in [Cards -> {"proposed", "approved"}] /\ party = 1 /\ ops = 0
  /\ invoices \in {<<Draft>>, <<Draft, Draft>>}
  /\ glances = [g \in Glances |-> <<"closed">>] /\ reads = {} /\ asked = 0

\* Bound: and all that happens from then on.
Service ==
  \/ create_invoice \/ \E c \in Cards : approve(c)
  \/ /\ asked = 0
     /\ \/ attach \/ detach
        \/ \E c \in Cards : book_node(c)
        \/ \E i \in Refs, c \in Cards \cup {"none"}, amount \in 1..Cost : charge(i, c, amount)
        \/ \E i \in Refs, kind \in {"discount", "fee"}, c \in Cards \cup {"none"} : correct(i, kind, c)
        \/ \E i \in Refs : \E k \in DOMAIN invoices[i].lines : void_line_item(i, k) \/ (\E c \in Cards : cancel_booking(c, i, k))
        \/ \E i \in Refs, to \in {"issued", "paid", "void"} : move(i, to)

Page ==
  \/ \E g \in Glances : mount(g) \/ effect(g) \/ unmount(g)
  \/ \E r \in reads : Lands(r) \/ Fails(r)

Next == Service \/ Page

Spec == Init /\ [][Next]_vars

-----------------------------------------------------------------------------
(* Properties.                                                             *)

\* A card has a line of a kind, not reversed, on an invoice in a state.
Tagged(c, kind, st) ==
  \E i \in Refs : invoices[i].status = st /\ \E k \in Live(i, kind) : invoices[i].lines[k].card = c

ChipsAgree ==
  \A c \in Cards :
    LET chip == billingChipsByNode(c) IN
    /\ isChargeable(c) => (chip \in {"unbilled", "partial"} <=> c \in billableNodes)
    /\ chip = "paid" /\ ~Tagged(c, "discount", "paid") => Paid(c)

PayLinksLead ==
  /\ \A role \in {"advisor", "traveler"}, scheduled, pending \in 0..1, i \in Refs :
       deriveNextAction(role, scheduled, pending) = Invoice(i) => Accepts(i, "paid")
  /\ rollupInvoices > 0 =>
       \A scheduled, pending \in 0..1 : deriveNextAction("traveler", scheduled, pending) = Invoice(firstUnpaidIssued)
  /\ \A c \in Cards :
       node_charges(c) > 0 /\ ~Tagged(c, "fee", "issued") => primary(c) # 0 /\ invoices[primary(c)].status = "issued"
  /\ FoldSeq(LAMBDA row, n : Max({row.total, 0}) + n, 0, InvoiceList("issued")) = rollupInvoices

\* The pages agree about money.  An approved card's chip says unbilled or partial exactly if the cockpit
\* offers the card, and a card whose chip says paid passes the service's money gate, although the chip adds
\* the charges up and the gate nets every line; but not a card that was given a discount on a paid invoice,
\* which the gate counts and the chip does not.  Where the pages send who wants to pay there is something to
\* pay: the next action's invoice would be accepted, the traveler is sent there whenever the roll-up owes,
\* and a facet that owes leads to an issued invoice, unless what it owes is a fee on the card, which the
\* facet counts and looks no invoice up for.  The traveler's list comes to what the roll-up owes.
MoneyPagesAgree == ChipsAgree /\ PayLinksLead

\* An open glance never goes back to an older state of the ledger, in whatever order its reads are answered.
GlancesMoveOn ==
  [][\A g \in Glances : Len(glances[g]) = 2 /\ Len(glances'[g]) = 2 => glances'[g][2] >= glances[g][2]]_vars

=============================================================================
