------------------------------ MODULE Billing ------------------------------
(***************************************************************************)
(* The invoice ledger and the payment of an invoice: services/invoices.py  *)
(* and services/payments.py behind the routes of routers/invoices.py, over *)
(* a READ COMMITTED Postgres and a card processor that may not answer.     *)
(*                                                                         *)
(* A request is one HTTP call handled by a worker.  It loads rows and      *)
(* decides (one step), and later writes what it decided on (another step); *)
(* nothing it read is locked in between, except by pay_invoice, which      *)
(* holds the row lock of its invoice from SELECT ... FOR UPDATE to its     *)
(* commit or rollback, through the call to the processor.                  *)
(***************************************************************************)
EXTENDS Integers, FiniteSets, FiniteSetsExt

CONSTANTS
    Workers,        \* requests being served at once
    Invoices,       \* invoice rows that may be created
    Nodes,          \* bookable nodes of the itinerary
    LineIds,        \* bounds the rows of invoice_line_items
    Refs,           \* gateway references: bounds the recorded or landed attempts
    Keys,           \* values of the Idempotency-Key header
    Entries,        \* manual lines an advisor may post: [node, kind, amount]
    EffectiveCost,  \* effective_node_cost of each node, in cents
    None            \* SQL NULL / Python None

ASSUME NoneAssumption ==
    None \notin Workers \cup Invoices \cup Nodes \cup LineIds \cup Refs \cup Keys

Kinds == {"charge", "adjust", "reversal"}  \* adjust: discount, adjustment, tax, fee

ASSUME EntriesAssumption ==
    Entries \subseteq [node : Nodes \cup {None}, kind : Kinds, amount : Int \ {0}]

ASSUME CostAssumption == EffectiveCost \in [Nodes -> Int]

VARIABLES
    status,    \* invoices.status per invoice; "none" before create_invoice
    lines,     \* rows of invoice_line_items
    payments,  \* rows of payments
    charges,   \* money the processor moved (the key is history: it is not sent)
    lost,      \* history: the references whose answer never arrived
    holder,    \* who holds the row lock of an invoice
    edit,      \* per worker: an edit that passed its gate and is not written yet
    pay        \* per worker: the pay request it is serving

vars == <<status, lines, payments, charges, lost, holder, edit, pay>>

Statuses == {"none", "draft", "issued", "paid", "void"}
PayStages == {"idle", "view", "locked", "selling", "landed", "declined"}
Holding   == {"locked", "selling", "landed", "declined"}

NoEdit == [op |-> "none"]
NoPay  == [pc |-> "idle", inv |-> None, key |-> None, seen |-> "none",
           ref |-> None, amount |-> 0]

Free(w) == edit[w] = NoEdit /\ pay[w] = NoPay

-----------------------------------------------------------------------------
(* What the ledger adds up to. *)

LinesOf(i) == {l \in lines : l.inv = i}

Sum(ls) == MapThenSumSet(LAMBDA l : l.amount, ls)

Total(i) == Sum(LinesOf(i))

Reversed(l) == \E r \in lines : r.reverses = l.id

NodeCharged(n) ==
    Sum({l \in lines : l.node = n /\ l.kind = "charge" /\ status[l.inv] # "void" /\ ~Reversed(l)})

Tolerance == 1    \* _OVERBILL_TOLERANCE, one cent

\* The row ids no row and no unwritten edit refers to.
FreshIds ==
    LineIds \ ({l.id : l \in lines} \cup
               {edit[w].line.id : w \in {x \in Workers : edit[x].op \in {"insert", "remove"}}} \cup
               {edit[w].line.reverses : w \in {x \in Workers : edit[x].op = "insert"}})

\* The id a new row gets: which one makes no difference.
NextIds == IF FreshIds = {} THEN {} ELSE {CHOOSE id \in FreshIds : TRUE}

\* The kinds _gate_line_write lets through.
Writable(st) ==
    CASE st = "draft"  -> Kinds
      [] st = "issued" -> Kinds \ {"charge"}
      [] OTHER         -> {}

-----------------------------------------------------------------------------
(* Assembling and closing an invoice. *)

Begin(w, e) == Free(w) /\ edit' = [edit EXCEPT ![w] = e]
                       /\ UNCHANGED <<status, lines, payments, charges, lost, holder, pay>>

Finish(w) == edit' = [edit EXCEPT ![w] = NoEdit]

Create(i) ==
    /\ status[i] = "none"
    /\ status' = [status EXCEPT ![i] = "draft"]
    /\ UNCHANGED <<lines, payments, charges, lost, holder, edit, pay>>

AddLine(w, i, e, id) ==
    /\ e.kind \in Writable(status[i])
    /\ (e.kind = "charge" /\ e.node # None) =>
           NodeCharged(e.node) + e.amount <= EffectiveCost[e.node] + Tolerance
    /\ Begin(w, [op |-> "insert", inv |-> i,
                 line |-> [id |-> id, inv |-> i, node |-> e.node, kind |-> e.kind,
                           amount |-> e.amount, reverses |-> None]])

Reversal(l, id) == [id |-> id, inv |-> l.inv, node |-> l.node, kind |-> "reversal",
                    amount |-> -l.amount, reverses |-> l.id]

ReverseLine(w, l, id) ==
    /\ status[l.inv] \in {"draft", "issued"}
    /\ l.kind # "reversal"
    /\ ~Reversed(l)
    /\ Begin(w, [op |-> "insert", inv |-> l.inv, line |-> Reversal(l, id)])

RemoveLine(w, l) ==
    /\ status[l.inv] = "draft"
    /\ Begin(w, [op |-> "remove", inv |-> l.inv, line |-> l])

Issue(w, i) ==
    /\ status[i] = "draft"
    /\ LinesOf(i) # {}
    /\ Begin(w, [op |-> "issue", inv |-> i])

VoidInvoice(w, i) ==
    /\ status[i] \in {"draft", "issued"}
    /\ Begin(w, [op |-> "void", inv |-> i])

\* The constraints of invoice_line_items: one reversal per line, of a line that exists.
Insertable(l) ==
    l.reverses # None => /\ \E o \in lines : o.id = l.reverses
                         /\ \A r \in lines : r.reverses # l.reverses

\* Inserting a line key-shares the invoice row: it waits for the row lock.
CommitInsert(w) ==
    /\ edit[w].op = "insert"
    /\ holder[edit[w].inv] = None
    /\ lines' = IF Insertable(edit[w].line) THEN lines \cup {edit[w].line} ELSE lines
    /\ Finish(w)
    /\ UNCHANGED <<status, payments, charges, lost, holder, pay>>

\* Deleting one does not; its reversal keeps its amount and forgets what it reversed.
CommitRemove(w) ==
    /\ edit[w].op = "remove"
    /\ lines' = {IF l.reverses = edit[w].line.id THEN [l EXCEPT !.reverses = None] ELSE l :
                     l \in {x \in lines : x.id # edit[w].line.id}}
    /\ Finish(w)
    /\ UNCHANGED <<status, payments, charges, lost, holder, pay>>

\* UPDATE invoices SET status: by primary key, whatever the row says by now.
CommitStatus(w) ==
    /\ edit[w].op \in {"issue", "void"}
    /\ holder[edit[w].inv] = None
    /\ status' = [status EXCEPT ![edit[w].inv] =
                      IF edit[w].op = "issue" THEN "issued" ELSE "void"]
    /\ Finish(w)
    /\ UNCHANGED <<lines, payments, charges, lost, holder, pay>>

-----------------------------------------------------------------------------
(* Paying an invoice. *)

Recorded(i, k) == k # None /\ \E p \in payments : p.inv = i /\ p.key = k

UsedRefs == {p.ref : p \in payments} \cup {c.ref : c \in charges} \cup {pay[w].ref : w \in Workers}

\* The bound Refs: there is a reference left for every request on its way to a sale.
AttemptsLeft ==
    Cardinality(Refs \ UsedRefs) >
        Cardinality({w \in Workers : pay[w].pc \in {"view", "locked"}})

\* The route loads the invoice, pay_invoice takes its fast path for a known key.
\* The loaded row stays in the session: its status is what every later check sees.
PayView(w, i, k) ==
    /\ Free(w)
    /\ status[i] # "none"
    /\ ~Recorded(i, k)
    /\ AttemptsLeft
    /\ pay' = [pay EXCEPT ![w] = [pc |-> "view", inv |-> i, key |-> k, seen |-> status[i],
                                  ref |-> None, amount |-> 0]]
    /\ UNCHANGED <<status, lines, payments, charges, lost, holder, edit>>

PayLock(w) ==
    /\ pay[w].pc = "view"
    /\ holder[pay[w].inv] = None
    /\ holder' = [holder EXCEPT ![pay[w].inv] = w]
    /\ pay' = [pay EXCEPT ![w].pc = "locked"]
    /\ UNCHANGED <<status, lines, payments, charges, lost, edit>>

\* The end of the transaction: the row lock goes with it.
EndPay(w) ==
    /\ holder' = [holder EXCEPT ![pay[w].inv] = None]
    /\ pay' = [pay EXCEPT ![w] = NoPay]

\* Slip: the replay check is only made before the lock.
PayableWithoutReplay(w) ==
    /\ pay[w].seen = "issued"
    /\ Total(pay[w].inv) > 0

\* Slip: the status is not checked again.
PayableAnyStatus(w) ==
    /\ ~Recorded(pay[w].inv, pay[w].key)
    /\ Total(pay[w].inv) > 0

Payable(w) ==
    /\ ~Recorded(pay[w].inv, pay[w].key)
    /\ pay[w].seen = "issued"
    /\ Total(pay[w].inv) > 0

\* Slip: a refusal returns without releasing the row.
PayRefuseLocked(w) ==
    /\ pay[w].pc = "locked"
    /\ ~Payable(w)
    /\ pay' = [pay EXCEPT ![w] = NoPay]
    /\ UNCHANGED <<status, lines, payments, charges, lost, holder, edit>>

PayRefuse(w) ==
    /\ pay[w].pc = "locked"
    /\ ~Payable(w)
    /\ EndPay(w)
    /\ UNCHANGED <<status, lines, payments, charges, lost, edit>>

PayStart(w, r) ==
    /\ pay[w].pc = "locked"
    /\ Payable(w)
    /\ r \in Refs \ UsedRefs
    /\ pay' = [pay EXCEPT ![w] = [pc |-> "selling", inv |-> @.inv, key |-> @.key, seen |-> @.seen,
                                  ref |-> r, amount |-> Total(@.inv)]]
    /\ UNCHANGED <<status, lines, payments, charges, lost, holder, edit>>

\* The processor charges the card, or declines.
SaleLands(w) ==
    /\ pay[w].pc = "selling"
    /\ charges' = charges \cup {[ref |-> pay[w].ref, inv |-> pay[w].inv, key |-> pay[w].key,
                                 amount |-> pay[w].amount]}
    /\ pay' = [pay EXCEPT ![w].pc = "landed"]
    /\ UNCHANGED <<status, lines, payments, lost, holder, edit>>

SaleDeclined(w) ==
    /\ pay[w].pc = "selling"
    /\ pay' = [pay EXCEPT ![w].pc = "declined"]
    /\ UNCHANGED <<status, lines, payments, charges, lost, holder, edit>>

\* PaymentGatewayError (or the server stops): the outcome is unknown, nothing is recorded.
PayUnanswered(w) ==
    /\ pay[w].pc \in {"selling", "landed"}
    /\ lost' = IF pay[w].pc = "landed" THEN lost \cup {pay[w].ref} ELSE lost
    /\ EndPay(w)
    /\ UNCHANGED <<status, lines, payments, charges, edit>>

\* Slip: the total is read again for the payment row.
RecordTotal(w) ==
    /\ pay[w].pc \in {"landed", "declined"}
    /\ payments' = payments \cup {[ref |-> pay[w].ref, inv |-> pay[w].inv, key |-> pay[w].key,
                                   amount |-> Total(pay[w].inv),
                                   status |-> IF pay[w].pc = "landed" THEN "succeeded"
                                                                      ELSE "failed"]}
    /\ status' = IF pay[w].pc = "landed" THEN [status EXCEPT ![pay[w].inv] = "paid"] ELSE status
    /\ EndPay(w)
    /\ UNCHANGED <<lines, charges, lost, edit>>

Record(w) ==
    /\ pay[w].pc \in {"landed", "declined"}
    /\ payments' = payments \cup {[ref |-> pay[w].ref, inv |-> pay[w].inv, key |-> pay[w].key,
                                   amount |-> pay[w].amount,
                                   status |-> IF pay[w].pc = "landed" THEN "succeeded"
                                                                      ELSE "failed"]}
    /\ status' = IF pay[w].pc = "landed" THEN [status EXCEPT ![pay[w].inv] = "paid"] ELSE status
    /\ EndPay(w)
    /\ UNCHANGED <<lines, charges, lost, edit>>

-----------------------------------------------------------------------------
Init ==
    /\ status = [i \in Invoices |-> "none"]
    /\ lines = {} /\ payments = {} /\ charges = {} /\ lost = {}
    /\ holder = [i \in Invoices |-> None]
    /\ edit = [w \in Workers |-> NoEdit]
    /\ pay = [w \in Workers |-> NoPay]

LoadStep(w) ==
    \/ \E i \in Invoices, e \in Entries, id \in NextIds : AddLine(w, i, e, id)
    \/ \E l \in lines, id \in NextIds : ReverseLine(w, l, id)
    \/ \E l \in lines : RemoveLine(w, l)
    \/ \E i \in Invoices : Issue(w, i)
    \/ \E i \in Invoices : VoidInvoice(w, i)
    \/ \E i \in Invoices, k \in Keys \cup {None} : PayView(w, i, k)

WriteStep(w) == CommitInsert(w) \/ CommitRemove(w) \/ CommitStatus(w)

PayStep(w) ==
    \/ PayRefuse(w)
    \/ \E r \in Refs : PayStart(w, r)
    \/ SaleLands(w) \/ SaleDeclined(w) \/ PayUnanswered(w)
    \/ Record(w)

Next ==
    \/ \E i \in Invoices : Create(i)
    \/ \E w \in Workers : LoadStep(w) \/ WriteStep(w) \/ PayLock(w) \/ PayStep(w)

Spec == Init /\ [][Next]_vars

\* A worker runs, the processor answers or times out; Postgres queues the waiters of a row.
Fairness ==
    \A w \in Workers : WF_vars(PayStep(w)) /\ SF_vars(PayLock(w)) /\ SF_vars(WriteStep(w))

LiveSpec == Spec /\ Fairness
-----------------------------------------------------------------------------
(* Properties. *)

Succeeded(p) == p.status = "succeeded"

Line == [id : LineIds, inv : Invoices, node : Nodes \cup {None}, kind : Kinds,
         amount : Int, reverses : LineIds \cup {None}]

Edit == {NoEdit} \cup [op : {"insert", "remove"}, inv : Invoices, line : Line]
                 \cup [op : {"issue", "void"}, inv : Invoices]

\* Every variable stays within the rows and request states the code can produce.
TypeOK ==
    /\ status \in [Invoices -> Statuses]
    /\ lines \subseteq Line
    /\ \A p \in payments : /\ p.ref \in Refs /\ p.inv \in Invoices
                           /\ p.key \in Keys \cup {None} /\ p.status \in {"succeeded", "failed"}
    /\ \A c \in charges : /\ c.ref \in Refs /\ c.inv \in Invoices
                          /\ c.key \in Keys \cup {None}
    /\ lost \subseteq Refs
    /\ holder \in [Invoices -> Workers \cup {None}]
    /\ edit \in [Workers -> Edit]
    /\ \A w \in Workers : /\ pay[w].pc \in PayStages
                          /\ pay[w].key \in Keys \cup {None}
                          /\ pay[w].seen \in Statuses
                          /\ pay[w].pc # "idle" => pay[w].inv \in Invoices
                          /\ pay[w].pc \in Holding \ {"locked"} => pay[w].ref \in Refs

\* The row lock of an invoice is held by exactly the request that is between its
\* SELECT ... FOR UPDATE and the end of its transaction: no exit of pay_invoice keeps it.
LockHeldByPayer ==
    \A i \in Invoices, w \in Workers :
        holder[i] = w <=> pay[w].pc \in Holding /\ pay[w].inv = i

\* A charge the processor answered is on the ledger with the same invoice, key and
\* amount, or its request is about to write it; a success on the ledger moved that money; and
\* an invoice is paid only when such a success for it is on file.
LedgerMatchesProcessor ==
    /\ \A c \in charges :
        \/ c.ref \in lost
        \/ \E p \in payments : /\ Succeeded(p) /\ p.ref = c.ref /\ p.inv = c.inv
                              /\ p.key = c.key /\ p.amount = c.amount
        \/ \E w \in Workers : /\ pay[w].pc = "landed" /\ pay[w].ref = c.ref
                              /\ pay[w].inv = c.inv /\ pay[w].key = c.key
                              /\ pay[w].amount = c.amount
    /\ \A p \in payments : Succeeded(p) <=> \E c \in charges : c.ref = p.ref /\ c.ref \notin lost
    /\ \A i \in Invoices : status[i] = "paid" => \E p \in payments : p.inv = i /\ Succeeded(p)

\* Requests carrying the same Idempotency-Key move money at most once between them,
\* however they interleave, unless the processor's answer is lost.
KeyChargesOnce ==
    \A c, d \in charges :
        (c.inv = d.inv /\ c.key = d.key /\ c.key # None /\ c.ref \notin lost /\ d.ref \notin lost) => c = d

\* An invoice is charged successfully at most once: "the loser sees paid and is refused
\* instead of charging twice" (payments.py).
SettledOnce ==
    \A p, q \in payments : (Succeeded(p) /\ Succeeded(q) /\ p.inv = q.inv) => p = q

\* What the routes promise of an invoice: see Settlement.  Its bill is its lines, and it has taken
\* the amounts of the payments that succeeded.
Promise == INSTANCE Settlement WITH
    Accounts <- Invoices,
    Due      <- Sum,
    state    <- status,
    bill     <- [i \in Invoices |-> LinesOf(i)],
    taken    <- [i \in Invoices |-> {p \in payments : p.inv = i /\ Succeeded(p)}]

\* Requests that come one at a time keep the promise, whatever happens between their two halves.
SettlesAsPromised == Promise!Spec

\* Every request is answered, and lets go of its row lock: a waiter gets its turn.
RequestsAnswered ==
    \A w \in Workers : ~Free(w) ~> Free(w)
=============================================================================
