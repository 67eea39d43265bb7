--------------------------- MODULE BillingProofs ---------------------------
(***************************************************************************)
(* What holds of the payment of an invoice for any number of requests,     *)
(* invoices, references and keys: the row lock is held by one request, and *)
(* requests carrying the same key move money once.  While requests come    *)
(* one at a time, the ledger implements Settlement.                        *)
(***************************************************************************)
EXTENDS Billing, TLAPS

\* The state of a request is a record with these fields, whatever its amount.
PayShape ==
    pay = [w \in Workers |-> [pc |-> pay[w].pc, inv |-> pay[w].inv, key |-> pay[w].key,
                             seen |-> pay[w].seen, ref |-> pay[w].ref,
                             amount |-> pay[w].amount]]

Selling(w) == pay[w].pc \in {"selling", "landed", "declined"}

\* A reference names one attempt: one charge, one payment row, one request.
RefsUnique ==
    /\ \A p, q \in payments : p.ref = q.ref => p = q
    /\ \A c, d \in charges : c.ref = d.ref => c = d
    /\ \A w, x \in Workers : (Selling(w) /\ Selling(x) /\ pay[w].ref = pay[x].ref) => w = x
    /\ \A w \in Workers, p \in payments : Selling(w) => p.ref # pay[w].ref
    /\ \A w \in Workers, c \in charges :
           pay[w].pc \in {"selling", "declined"} => c.ref # pay[w].ref

\* A key names one row of payments, and none while an attempt with it is in flight.
KeysUnique ==
    /\ \A p, q \in payments : (p.inv = q.inv /\ p.key = q.key /\ p.key # None) => p = q
    /\ \A w \in Workers : Selling(w) => ~Recorded(pay[w].inv, pay[w].key)

\* A charge that was answered is on the ledger or in the hands of its request.
ChargesKept ==
    \A c \in charges :
        \/ c.ref \in lost
        \/ \E p \in payments : Succeeded(p) /\ p.ref = c.ref /\ p.inv = c.inv /\ p.key = c.key
                              /\ p.amount = c.amount
        \/ \E w \in Workers : /\ pay[w].pc = "landed" /\ pay[w].ref = c.ref
                              /\ pay[w].inv = c.inv /\ pay[w].key = c.key
                              /\ pay[w].amount = c.amount

PayInv == PayShape /\ LockHeldByPayer /\ RefsUnique /\ KeysUnique /\ ChargesKept

IInv == TypeOK /\ PayInv

Charged == {c.ref : c \in charges}

\* The ledger and the processor, seen from each attempt: one that landed has moved its money and
\* is not lost, a lost one had moved it, a payment row says succeeded when its money moved, and
\* only such a row makes an invoice paid.
LedgerInv ==
    /\ \A w \in Workers : pay[w].pc = "landed" => pay[w].ref \in Charged /\ pay[w].ref \notin lost
    /\ lost \subseteq Charged
    /\ \A p \in payments : Succeeded(p) <=> p.ref \in Charged /\ p.ref \notin lost
    /\ \A i \in Invoices : status[i] = "paid" => \E p \in payments : p.inv = i /\ Succeeded(p)

-----------------------------------------------------------------------------
LEMMA InitIInv == Init => IInv
<1> SUFFICES ASSUME Init PROVE IInv
    OBVIOUS
<1>1. TypeOK
    BY DEF Init, TypeOK, Statuses, Edit, NoPay, PayStages, Holding
<1>2. PayShape /\ LockHeldByPayer
    <2>1. PayShape
        BY DEF Init, PayShape, NoPay
    <2>2. LockHeldByPayer
        BY NoneAssumption DEF Init, LockHeldByPayer, NoPay, Holding
    <2>3. QED
        BY <2>1, <2>2
<1>3. RefsUnique /\ KeysUnique /\ ChargesKept
    <2>1. \A w \in Workers : pay[w].pc = "idle"
        BY DEF Init, NoPay
    <2>2. QED
        BY <2>1 DEF Init, RefsUnique, KeysUnique, ChargesKept, Selling
<1>4. QED
    BY <1>1, <1>2, <1>3 DEF IInv, PayInv

\* The steps that only touch the ledger keep everything known about payments.
LEMMA LedgerStepsKeepPayInv ==
    ASSUME PayInv, UNCHANGED <<payments, charges, lost, holder, pay>>
    PROVE  PayInv'
<1>1. PayShape' /\ LockHeldByPayer'
    BY DEF PayInv, PayShape, LockHeldByPayer
<1>2. RefsUnique' /\ KeysUnique'
    BY DEF PayInv, RefsUnique, KeysUnique, Selling, Recorded
<1>3. ChargesKept'
    BY DEF PayInv, ChargesKept, Succeeded
<1>4. QED
    BY <1>1, <1>2, <1>3 DEF PayInv
-----------------------------------------------------------------------------
(* Types. *)

LEMMA BeginKeepsTypeOK ==
    ASSUME TypeOK, NEW w \in Workers, NEW e \in Edit, Begin(w, e)
    PROVE  TypeOK'
BY DEF TypeOK, Begin

LEMMA EditCases ==
    ASSUME TypeOK, NEW w \in Workers
    PROVE  /\ edit[w].op \in {"insert", "remove"} => edit[w].inv \in Invoices /\ edit[w].line \in Line
           /\ edit[w].op \in {"issue", "void"} => edit[w].inv \in Invoices
           /\ NoEdit \in Edit
BY DEF TypeOK, Edit, NoEdit

\* The id of a new row is one that nothing refers to.
LEMMA NextIdsFresh == NextIds \subseteq FreshIds
    BY DEF NextIds

LEMMA TypeOKStep == TypeOK /\ PayShape /\ [Next]_vars => TypeOK'
<1> SUFFICES ASSUME TypeOK, PayShape, [Next]_vars PROVE TypeOK'
    OBVIOUS
<1>1. CASE UNCHANGED vars
    BY <1>1 DEF vars, TypeOK
<1>2. ASSUME NEW i \in Invoices, Create(i) PROVE TypeOK'
    BY <1>2 DEF Create, TypeOK, Statuses
<1>3. ASSUME NEW w \in Workers, NEW i \in Invoices, NEW e \in Entries, NEW id \in NextIds,
             AddLine(w, i, e, id)
      PROVE TypeOK'
    <2> DEFINE l == [id |-> id, inv |-> i, node |-> e.node, kind |-> e.kind,
                     amount |-> e.amount, reverses |-> None]
    <2>1. l \in Line
        BY <1>3, NextIdsFresh, EntriesAssumption DEF Line, FreshIds
    <2>2. [op |-> "insert", inv |-> i, line |-> l] \in Edit
        BY <2>1 DEF Edit
    <2>3. QED
        BY <1>3, <2>2, BeginKeepsTypeOK DEF AddLine
<1>4. ASSUME NEW w \in Workers, NEW l \in lines, NEW id \in NextIds, ReverseLine(w, l, id)
      PROVE TypeOK'
    <2>1. l \in Line /\ id \in LineIds
        BY <1>4, NextIdsFresh DEF TypeOK, FreshIds
    <2>2. Reversal(l, id) \in Line
        BY <2>1 DEF Line, Reversal, Kinds
    <2>3. [op |-> "insert", inv |-> l.inv, line |-> Reversal(l, id)] \in Edit
        BY <2>1, <2>2 DEF Edit, Line
    <2>4. QED
        BY <1>4, <2>3, BeginKeepsTypeOK DEF ReverseLine
<1>5. ASSUME NEW w \in Workers, NEW l \in lines, RemoveLine(w, l) PROVE TypeOK'
    <2>1. l \in Line
        BY DEF TypeOK
    <2>2. [op |-> "remove", inv |-> l.inv, line |-> l] \in Edit
        BY <2>1 DEF Edit, Line
    <2>3. QED
        BY <1>5, <2>2, BeginKeepsTypeOK DEF RemoveLine
<1>6. ASSUME NEW w \in Workers, NEW i \in Invoices, Issue(w, i) \/ VoidInvoice(w, i)
      PROVE TypeOK'
    <2>1. [op |-> "issue", inv |-> i] \in Edit /\ [op |-> "void", inv |-> i] \in Edit
        BY DEF Edit
    <2>2. QED
        BY <1>6, <2>1, BeginKeepsTypeOK DEF Issue, VoidInvoice
<1>7. ASSUME NEW w \in Workers, CommitInsert(w) PROVE TypeOK'
    BY <1>7, EditCases DEF CommitInsert, Finish, TypeOK
<1>8. ASSUME NEW w \in Workers, CommitRemove(w) PROVE TypeOK'
    <2>1. ASSUME NEW l \in Line PROVE [l EXCEPT !.reverses = None] \in Line
        BY DEF Line
    <2>2. lines' \subseteq Line
        BY <1>8, <2>1 DEF CommitRemove, TypeOK
    <2>3. edit' \in [Workers -> Edit]
        BY <1>8, EditCases DEF CommitRemove, Finish, TypeOK
    <2>4. QED
        BY <1>8, <2>2, <2>3 DEF CommitRemove, TypeOK
<1>9. ASSUME NEW w \in Workers, CommitStatus(w) PROVE TypeOK'
    BY <1>9, EditCases DEF CommitStatus, Finish, TypeOK, Statuses
<1>10. ASSUME NEW w \in Workers, NEW i \in Invoices, NEW k \in Keys \cup {None}, PayView(w, i, k)
       PROVE TypeOK'
    BY <1>10 DEF PayView, TypeOK, NoPay, PayStages, Holding
<1>11. ASSUME NEW w \in Workers, PayLock(w) PROVE TypeOK'
    BY <1>11 DEF PayLock, TypeOK, PayShape, PayStages, Holding
<1>12. ASSUME NEW w \in Workers, PayRefuse(w) PROVE TypeOK'
    BY <1>12 DEF PayRefuse, EndPay, TypeOK, NoPay, PayStages, Holding, Statuses
<1>13. ASSUME NEW w \in Workers, NEW r \in Refs, PayStart(w, r) PROVE TypeOK'
    BY <1>13 DEF PayStart, TypeOK, PayShape, PayStages, Holding
<1>14. ASSUME NEW w \in Workers, SaleLands(w) PROVE TypeOK'
    <2>1. pay[w].ref \in Refs /\ pay[w].inv \in Invoices /\ pay[w].key \in Keys \cup {None}
        BY <1>14 DEF SaleLands, TypeOK, Holding
    <2>2. \A c \in charges' : c.ref \in Refs /\ c.inv \in Invoices /\ c.key \in Keys \cup {None}
        BY <1>14, <2>1 DEF SaleLands, TypeOK
    <2>3. QED
        BY <1>14, <2>2 DEF SaleLands, TypeOK, PayShape, PayStages, Holding
<1>15. ASSUME NEW w \in Workers, SaleDeclined(w) PROVE TypeOK'
    BY <1>15 DEF SaleDeclined, TypeOK, PayShape, PayStages, Holding
<1>16. ASSUME NEW w \in Workers, PayUnanswered(w) PROVE TypeOK'
    BY <1>16 DEF PayUnanswered, EndPay, TypeOK, NoPay, PayStages, Holding, Statuses
<1>17. ASSUME NEW w \in Workers, Record(w) PROVE TypeOK'
    <2>1. pay[w].ref \in Refs /\ pay[w].inv \in Invoices /\ pay[w].key \in Keys \cup {None}
        BY <1>17 DEF Record, TypeOK, Holding
    <2>2. \A p \in payments' : /\ p.ref \in Refs /\ p.inv \in Invoices
                               /\ p.key \in Keys \cup {None} /\ p.status \in {"succeeded", "failed"}
        BY <1>17, <2>1 DEF Record, TypeOK
    <2>3. status' \in [Invoices -> Statuses]
        BY <1>17, <2>1 DEF Record, TypeOK, Statuses
    <2>4. QED
        BY <1>17, <2>2, <2>3 DEF Record, EndPay, TypeOK, NoPay, PayStages, Holding, Statuses
<1>18. QED
    BY <1>1, <1>2, <1>3, <1>4, <1>5, <1>6, <1>7, <1>8, <1>9, <1>10, <1>11, <1>12, <1>13, <1>14,
       <1>15, <1>16, <1>17
       DEF Next, LoadStep, WriteStep, PayStep
-----------------------------------------------------------------------------
(* The steps of a payment. *)

LEMMA PayViewKeepsPayInv ==
    ASSUME TypeOK, PayInv, NEW w \in Workers, NEW i \in Invoices, NEW k \in Keys \cup {None}, PayView(w, i, k)
    PROVE  PayInv'
<1> USE DEF PayInv
<1>1. PayShape'
    BY DEF PayView, PayShape
<1>2. LockHeldByPayer'
    BY NoneAssumption DEF PayView, Free, NoPay, LockHeldByPayer, PayShape, TypeOK, Holding
<1>3. RefsUnique'
    BY DEF PayView, Free, NoPay, RefsUnique, PayShape, Selling, TypeOK
<1>4. KeysUnique'
    BY DEF PayView, Free, NoPay, KeysUnique, Recorded, PayShape, Selling, TypeOK
<1>5. ChargesKept'
    <2>1. /\ charges' = charges /\ lost' = lost /\ payments' = payments
          /\ \A x \in Workers : pay[x].pc = "landed" => pay'[x] = pay[x]
        BY DEF PayView, Free, NoPay, PayShape
    <2>2. QED
        BY <2>1 DEF ChargesKept, Succeeded
<1>6. QED
    BY <1>1, <1>2, <1>3, <1>4, <1>5

LEMMA PayLockKeepsPayInv ==
    ASSUME TypeOK, PayInv, NEW w \in Workers, PayLock(w)
    PROVE  PayInv'
<1> USE DEF PayInv
<1>1. PayShape'
    BY DEF PayLock, PayShape
<1>2. LockHeldByPayer'
    BY NoneAssumption DEF PayLock, LockHeldByPayer, PayShape, TypeOK, Holding
<1>3. RefsUnique'
    BY DEF PayLock, RefsUnique, PayShape, Selling, TypeOK
<1>4. KeysUnique'
    BY DEF PayLock, KeysUnique, Recorded, PayShape, Selling, TypeOK
<1>5. ChargesKept'
    BY DEF PayLock, ChargesKept, PayShape, TypeOK, Succeeded
<1>6. QED
    BY <1>1, <1>2, <1>3, <1>4, <1>5

LEMMA PayRefuseKeepsPayInv ==
    ASSUME TypeOK, PayInv, NEW w \in Workers, PayRefuse(w)
    PROVE  PayInv'
<1> USE DEF PayInv
<1>1. PayShape'
    BY DEF PayRefuse, EndPay, NoPay, PayShape
<1>2. LockHeldByPayer'
    BY NoneAssumption DEF PayRefuse, EndPay, NoPay, LockHeldByPayer, PayShape, TypeOK, Holding
<1>3. RefsUnique'
    BY DEF PayRefuse, EndPay, NoPay, RefsUnique, PayShape, Selling, TypeOK
<1>4. KeysUnique'
    BY DEF PayRefuse, EndPay, NoPay, KeysUnique, Recorded, PayShape, Selling, TypeOK
<1>5. ChargesKept'
    BY DEF PayRefuse, EndPay, NoPay, ChargesKept, PayShape, TypeOK, Succeeded
<1>6. QED
    BY <1>1, <1>2, <1>3, <1>4, <1>5

LEMMA PayStartKeepsPayInv ==
    ASSUME TypeOK, PayInv, NEW w \in Workers, NEW r \in Refs, PayStart(w, r)
    PROVE  PayInv'
<1> USE DEF PayInv
<1>1. PayShape'
    BY DEF PayStart, PayShape
<1>2. LockHeldByPayer'
    BY NoneAssumption DEF PayStart, LockHeldByPayer, PayShape, TypeOK, Holding
<1>3. RefsUnique'
    BY DEF PayStart, RefsUnique, PayShape, Selling, TypeOK, UsedRefs
<1>4. KeysUnique'
    BY DEF PayStart, KeysUnique, Recorded, PayShape, Selling, TypeOK, Payable
<1>5. ChargesKept'
    BY DEF PayStart, ChargesKept, PayShape, TypeOK, Succeeded
<1>6. QED
    BY <1>1, <1>2, <1>3, <1>4, <1>5

LEMMA SaleLandsKeepsPayInv ==
    ASSUME TypeOK, PayInv, NEW w \in Workers, SaleLands(w)
    PROVE  PayInv'
<1> USE DEF PayInv
<1>1. PayShape'
    BY DEF SaleLands, PayShape
<1>2. LockHeldByPayer'
    BY NoneAssumption DEF SaleLands, LockHeldByPayer, PayShape, TypeOK, Holding
<1>3. RefsUnique'
    BY DEF SaleLands, RefsUnique, PayShape, Selling, TypeOK
<1>4. KeysUnique'
    BY DEF SaleLands, KeysUnique, Recorded, PayShape, Selling, TypeOK
<1>5. ChargesKept'
    <2>1. /\ pay'[w].pc = "landed" /\ pay'[w].ref = pay[w].ref /\ pay'[w].inv = pay[w].inv
          /\ pay'[w].key = pay[w].key /\ pay'[w].amount = pay[w].amount
          /\ \A x \in Workers : x # w => pay'[x] = pay[x]
        BY DEF SaleLands, PayShape
    <2>2. pay[w].pc # "landed" /\ payments' = payments /\ lost' = lost
        BY DEF SaleLands
    <2>3. \A c \in charges' \ charges : /\ pay[w].ref = c.ref /\ pay[w].inv = c.inv
                                       /\ pay[w].key = c.key /\ pay[w].amount = c.amount
        BY DEF SaleLands
    <2>4. QED
        BY <2>1, <2>2, <2>3 DEF ChargesKept, Succeeded
<1>6. QED
    BY <1>1, <1>2, <1>3, <1>4, <1>5

LEMMA SaleDeclinedKeepsPayInv ==
    ASSUME TypeOK, PayInv, NEW w \in Workers, SaleDeclined(w)
    PROVE  PayInv'
<1> USE DEF PayInv
<1>1. PayShape'
    BY DEF SaleDeclined, PayShape
<1>2. LockHeldByPayer'
    BY NoneAssumption DEF SaleDeclined, LockHeldByPayer, PayShape, TypeOK, Holding
<1>3. RefsUnique'
    BY DEF SaleDeclined, RefsUnique, PayShape, Selling, TypeOK
<1>4. KeysUnique'
    BY DEF SaleDeclined, KeysUnique, Recorded, PayShape, Selling, TypeOK
<1>5. ChargesKept'
    BY DEF SaleDeclined, ChargesKept, PayShape, TypeOK, Succeeded
<1>6. QED
    BY <1>1, <1>2, <1>3, <1>4, <1>5

LEMMA PayUnansweredKeepsPayInv ==
    ASSUME TypeOK, PayInv, NEW w \in Workers, PayUnanswered(w)
    PROVE  PayInv'
<1> USE DEF PayInv
<1>1. PayShape'
    BY DEF PayUnanswered, EndPay, NoPay, PayShape
<1>2. LockHeldByPayer'
    BY NoneAssumption DEF PayUnanswered, EndPay, NoPay, LockHeldByPayer, PayShape, TypeOK, Holding
<1>3. RefsUnique'
    BY DEF PayUnanswered, EndPay, NoPay, RefsUnique, PayShape, Selling, TypeOK
<1>4. KeysUnique'
    BY DEF PayUnanswered, EndPay, NoPay, KeysUnique, Recorded, PayShape, Selling, TypeOK
<1>5. ChargesKept'
    BY DEF PayUnanswered, EndPay, NoPay, ChargesKept, PayShape, TypeOK, Succeeded
<1>6. QED
    BY <1>1, <1>2, <1>3, <1>4, <1>5

LEMMA RecordKeepsPayInv ==
    ASSUME TypeOK, PayInv, NEW w \in Workers, Record(w)
    PROVE  PayInv'
<1> USE DEF PayInv
<1>1. PayShape'
    BY DEF Record, EndPay, NoPay, PayShape
<1>2. LockHeldByPayer'
    BY NoneAssumption DEF Record, EndPay, NoPay, LockHeldByPayer, PayShape, TypeOK, Holding
<1>3. RefsUnique'
    BY DEF Record, EndPay, NoPay, RefsUnique, PayShape, Selling, TypeOK
<1>4. KeysUnique'
    <2> DEFINE n == [ref |-> pay[w].ref, inv |-> pay[w].inv, key |-> pay[w].key,
                     amount |-> pay[w].amount,
                     status |-> IF pay[w].pc = "landed" THEN "succeeded" ELSE "failed"]
    <2>1. payments' = payments \cup {n} /\ n.inv = pay[w].inv /\ n.key = pay[w].key
        BY DEF Record
    <2>2. \A x \in Workers : Selling(x)' => x # w /\ pay'[x] = pay[x] /\ Selling(x)
        BY DEF Record, EndPay, NoPay, PayShape, Selling
    <2>3. ~Recorded(pay[w].inv, pay[w].key)
        BY DEF Record, KeysUnique, Selling
    <2>4. \A x \in Workers : Selling(x)' => pay[x].inv # pay[w].inv
        BY <2>2, NoneAssumption DEF Record, LockHeldByPayer, Holding, Selling, TypeOK
    <2> HIDE DEF n
    <2>5. QED
        BY <2>1, <2>2, <2>3, <2>4 DEF KeysUnique, Recorded
<1>5. ChargesKept'
    <2>1. charges' = charges /\ lost' = lost /\ payments \subseteq payments'
        BY DEF Record
    <2>2. pay[w].pc = "landed" =>
              \E p \in payments' : /\ Succeeded(p) /\ p.ref = pay[w].ref /\ p.inv = pay[w].inv
                                  /\ p.key = pay[w].key /\ p.amount = pay[w].amount
        <3> DEFINE n == [ref |-> pay[w].ref, inv |-> pay[w].inv, key |-> pay[w].key,
                         amount |-> pay[w].amount,
                         status |-> IF pay[w].pc = "landed" THEN "succeeded" ELSE "failed"]
        <3>1. n \in payments'
            BY DEF Record
        <3>2. /\ n.ref = pay[w].ref /\ n.inv = pay[w].inv /\ n.key = pay[w].key
              /\ n.amount = pay[w].amount /\ (pay[w].pc = "landed" => n.status = "succeeded")
            OBVIOUS
        <3> HIDE DEF n
        <3>3. QED
            BY <3>1, <3>2 DEF Succeeded
    <2>3. \A x \in Workers : x # w => pay'[x] = pay[x]
        BY DEF Record, EndPay, PayShape
    <2>4. QED
        BY <2>1, <2>2, <2>3 DEF ChargesKept, Succeeded
<1>6. QED
    BY <1>1, <1>2, <1>3, <1>4, <1>5
-----------------------------------------------------------------------------
(* The theorems. *)

LEMMA NextIInv == IInv /\ [Next]_vars => IInv'
<1> SUFFICES ASSUME TypeOK, PayInv, [Next]_vars PROVE IInv'
    BY DEF IInv
<1>1. TypeOK'
    BY TypeOKStep DEF PayInv
<1>2. CASE UNCHANGED <<payments, charges, lost, holder, pay>>
    BY <1>1, <1>2, LedgerStepsKeepPayInv DEF IInv
<1>3. CASE \E w \in Workers : \/ \E i \in Invoices, k \in Keys \cup {None} : PayView(w, i, k)
                            \/ PayLock(w) \/ PayStep(w)
    BY <1>1, <1>3, PayViewKeepsPayInv, PayLockKeepsPayInv, PayRefuseKeepsPayInv,
       PayStartKeepsPayInv, SaleLandsKeepsPayInv, SaleDeclinedKeepsPayInv,
       PayUnansweredKeepsPayInv, RecordKeepsPayInv
       DEF PayStep, IInv
<1>4. \/ UNCHANGED <<payments, charges, lost, holder, pay>>
      \/ \E w \in Workers : \/ \E i \in Invoices, k \in Keys \cup {None} : PayView(w, i, k)
                           \/ PayLock(w) \/ PayStep(w)
    BY DEF Next, LoadStep, WriteStep, vars, Create, AddLine, ReverseLine, RemoveLine, Issue,
           VoidInvoice, Begin, CommitInsert, CommitRemove, CommitStatus
<1>5. QED
    BY <1>2, <1>3, <1>4

LEMMA SpecIInv == Spec => []IInv
BY InitIInv, NextIInv, PTL DEF Spec

\* Every reachable state is well typed: no request leaves a row or a request state the
\* services cannot read back.
THEOREM BillingTypeOK == Spec => []TypeOK
BY SpecIInv, PTL DEF IInv

\* The row lock of an invoice is held by exactly the request that took it, until its
\* commit or rollback, whatever the processor answers.
THEOREM BillingLockHeldByPayer == Spec => []LockHeldByPayer
BY SpecIInv, PTL DEF IInv, PayInv

LEMMA IInvKeyChargesOnce == IInv => KeyChargesOnce
<1> SUFFICES ASSUME IInv, NEW c \in charges, NEW d \in charges,
                    c.inv = d.inv, c.key = d.key, c.key # None,
                    c.ref \notin lost, d.ref \notin lost
             PROVE  c = d
    BY DEF KeyChargesOnce
<1> DEFINE OnFile(b) == \E p \in payments : p.ref = b.ref /\ p.inv = b.inv /\ p.key = b.key
           InHand(b) == \E w \in Workers : /\ pay[w].pc = "landed" /\ pay[w].ref = b.ref
                                          /\ pay[w].inv = b.inv /\ pay[w].key = b.key
<1>1. (OnFile(c) \/ InHand(c)) /\ (OnFile(d) \/ InHand(d))
    BY DEF IInv, PayInv, ChargesKept
<1>2. CASE OnFile(c) /\ OnFile(d)
    BY <1>2 DEF IInv, PayInv, KeysUnique, RefsUnique
<1>3. ~(OnFile(c) /\ InHand(d)) /\ ~(InHand(c) /\ OnFile(d))
    BY DEF IInv, PayInv, KeysUnique, Recorded, Selling
<1>4. CASE InHand(c) /\ InHand(d)
    BY <1>4 DEF IInv, PayInv, LockHeldByPayer, Holding, RefsUnique, TypeOK
<1>5. QED
    BY <1>1, <1>2, <1>3, <1>4

\* Requests with the same Idempotency-Key move money once, for any number of requests and
\* any interleaving: the second replay check of pay_invoice, under the lock, is enough, as
\* long as every charge that landed was answered.
THEOREM BillingKeyChargesOnce == Spec => []KeyChargesOnce
BY SpecIInv, IInvKeyChargesOnce, PTL
-----------------------------------------------------------------------------
(* The ledger and the processor. *)

LEMMA LandsKeepsLedgerInv ==
    ASSUME TypeOK, PayInv, LedgerInv, NEW w \in Workers, SaleLands(w)
    PROVE  LedgerInv'
<1> DEFINE new == [ref |-> pay[w].ref, inv |-> pay[w].inv, key |-> pay[w].key,
                   amount |-> pay[w].amount]
<1>1. /\ charges' = charges \cup {new} /\ new.ref = pay[w].ref
      /\ UNCHANGED <<status, payments, lost>>
    BY DEF SaleLands
<1>2. /\ pay'[w].ref = pay[w].ref
      /\ \A x \in Workers : x # w => pay'[x] = pay[x]
    BY DEF SaleLands, PayInv, PayShape
<1>3. pay[w].ref \notin Charged
    BY DEF SaleLands, PayInv, RefsUnique, Charged
<1>4. \A p \in payments : p.ref # pay[w].ref
    BY DEF SaleLands, PayInv, RefsUnique, Selling
<1> HIDE DEF new
<1>5. Charged' = Charged \cup {pay[w].ref}
    BY <1>1 DEF Charged
<1>6. \A x \in Workers : pay'[x].pc = "landed" => pay'[x].ref \in Charged' /\ pay'[x].ref \notin lost'
    BY <1>1, <1>2, <1>3, <1>5 DEF LedgerInv
<1>7. lost' \subseteq Charged'
    BY <1>1, <1>5 DEF LedgerInv
<1>8. \A p \in payments' : Succeeded(p) <=> p.ref \in Charged' /\ p.ref \notin lost'
    BY <1>1, <1>4, <1>5 DEF LedgerInv
<1>9. QED
    BY <1>1, <1>6, <1>7, <1>8 DEF LedgerInv, Succeeded

LEMMA UnansweredKeepsLedgerInv ==
    ASSUME TypeOK, PayInv, LedgerInv, NEW w \in Workers, PayUnanswered(w)
    PROVE  LedgerInv'
<1>1. UNCHANGED <<status, payments, charges>> /\ lost \subseteq lost'
    BY DEF PayUnanswered
<1>2. \A r \in lost' : r \in lost \/ (pay[w].pc = "landed" /\ r = pay[w].ref)
    BY DEF PayUnanswered
<1>3. \A x \in Workers : pay'[x].pc = "landed" => x # w /\ pay'[x] = pay[x]
    BY DEF PayUnanswered, EndPay, NoPay, PayInv, PayShape
<1>4. \A x \in Workers : (x # w /\ pay[x].pc = "landed") => pay[x].ref # pay[w].ref
    BY DEF PayUnanswered, PayInv, RefsUnique, Selling
<1>5. \A p \in payments : p.ref # pay[w].ref
    BY DEF PayUnanswered, PayInv, RefsUnique, Selling
<1>6. Charged' = Charged
    BY <1>1 DEF Charged
<1>7. \A x \in Workers : pay'[x].pc = "landed" => pay'[x].ref \in Charged' /\ pay'[x].ref \notin lost'
    BY <1>2, <1>3, <1>4, <1>6 DEF LedgerInv
<1>8. lost' \subseteq Charged'
    BY <1>2, <1>6 DEF LedgerInv
<1>9. \A p \in payments' : Succeeded(p) <=> p.ref \in Charged' /\ p.ref \notin lost'
    BY <1>1, <1>2, <1>5, <1>6 DEF LedgerInv
<1>10. QED
    BY <1>1, <1>7, <1>8, <1>9 DEF LedgerInv, Succeeded

LEMMA RecordKeepsLedgerInv ==
    ASSUME TypeOK, PayInv, LedgerInv, NEW w \in Workers, Record(w)
    PROVE  LedgerInv'
<1> DEFINE new == [ref |-> pay[w].ref, inv |-> pay[w].inv, key |-> pay[w].key,
                   amount |-> pay[w].amount,
                   status |-> IF pay[w].pc = "landed" THEN "succeeded" ELSE "failed"]
<1>1. /\ payments' = payments \cup {new} /\ new.ref = pay[w].ref /\ new.inv = pay[w].inv
      /\ UNCHANGED <<charges, lost>>
    BY DEF Record
<1>2. Succeeded(new) <=> pay[w].pc = "landed"
    BY DEF Succeeded
<1>3. \A x \in Workers : pay'[x].pc = "landed" => pay'[x] = pay[x]
    BY DEF Record, EndPay, NoPay, PayInv, PayShape
<1>4. Succeeded(new) <=> pay[w].ref \in Charged /\ pay[w].ref \notin lost
    BY <1>2 DEF Record, LedgerInv, PayInv, RefsUnique, Charged
<1>5. \A i \in Invoices :
          status'[i] = "paid" => status[i] = "paid" \/ (i = pay[w].inv /\ Succeeded(new))
    BY <1>2 DEF Record, TypeOK
<1> HIDE DEF new
<1>6. Charged' = Charged
    BY <1>1 DEF Charged
<1>7. \A x \in Workers : pay'[x].pc = "landed" => pay'[x].ref \in Charged' /\ pay'[x].ref \notin lost'
    BY <1>1, <1>3, <1>6 DEF LedgerInv
<1>8. lost' \subseteq Charged'
    BY <1>1, <1>6 DEF LedgerInv
<1>9. \A p \in payments' : Succeeded(p) <=> p.ref \in Charged' /\ p.ref \notin lost'
    BY <1>1, <1>4, <1>6 DEF LedgerInv
<1>10. \A i \in Invoices : status'[i] = "paid" => \E p \in payments' : p.inv = i /\ Succeeded(p)
    BY <1>1, <1>5 DEF LedgerInv
<1>11. QED
    BY <1>7, <1>8, <1>9, <1>10 DEF LedgerInv, Succeeded

\* Every other step leaves the money alone, takes no request to "landed" and pays no invoice.
LEMMA OtherStepsKeepLedgerInv ==
    ASSUME LedgerInv, UNCHANGED <<payments, charges, lost>>,
           \A w \in Workers : pay'[w].pc = "landed" => pay'[w] = pay[w],
           \A i \in Invoices : status'[i] = "paid" => status[i] = "paid"
    PROVE  LedgerInv'
BY DEF LedgerInv, Charged, Succeeded

LEMMA LedgerStep == TypeOK /\ PayInv /\ LedgerInv /\ [Next]_vars => LedgerInv'
<1> SUFFICES ASSUME TypeOK, PayInv, LedgerInv, [Next]_vars PROVE LedgerInv'
    OBVIOUS
<1> DEFINE Quiet == /\ UNCHANGED <<payments, charges, lost>>
                    /\ \A w \in Workers : pay'[w].pc = "landed" => pay'[w] = pay[w]
                    /\ \A i \in Invoices : status'[i] = "paid" => status[i] = "paid"
<1>1. CASE UNCHANGED <<status, payments, charges, lost, pay>>
    BY <1>1, OtherStepsKeepLedgerInv
<1>2. ASSUME NEW i \in Invoices, Create(i) PROVE Quiet
    BY <1>2 DEF Create, TypeOK
<1>3. ASSUME NEW w \in Workers, CommitStatus(w) PROVE Quiet
    BY <1>3, EditCases DEF CommitStatus, TypeOK
<1>4. ASSUME NEW w \in Workers, NEW i \in Invoices, NEW k \in Keys \cup {None}, PayView(w, i, k)
      PROVE Quiet
    BY <1>4 DEF PayView, PayInv, PayShape
<1>5. ASSUME NEW w \in Workers, PayLock(w) \/ PayRefuse(w) \/ SaleDeclined(w) PROVE Quiet
    BY <1>5 DEF PayLock, PayRefuse, SaleDeclined, EndPay, NoPay, PayInv, PayShape
<1>6. ASSUME NEW w \in Workers, NEW r \in Refs, PayStart(w, r) PROVE Quiet
    BY <1>6 DEF PayStart, PayInv, PayShape
<1>7. Quiet => LedgerInv'
    BY OtherStepsKeepLedgerInv
<1> HIDE DEF Quiet
<1>8. \/ UNCHANGED <<status, payments, charges, lost, pay>>
      \/ \E i \in Invoices : Create(i)
      \/ \E w \in Workers : \/ CommitStatus(w) \/ PayLock(w) \/ PayStep(w)
                            \/ \E i \in Invoices, k \in Keys \cup {None} : PayView(w, i, k)
    <2>1. ASSUME NEW w \in Workers, LoadStep(w)
          PROVE  \/ UNCHANGED <<status, payments, charges, lost, pay>>
                 \/ \E i \in Invoices, k \in Keys \cup {None} : PayView(w, i, k)
        BY <2>1 DEF LoadStep, AddLine, ReverseLine, RemoveLine, Issue, VoidInvoice, Begin
    <2>2. ASSUME NEW w \in Workers, WriteStep(w)
          PROVE  UNCHANGED <<status, payments, charges, lost, pay>> \/ CommitStatus(w)
        BY <2>2 DEF WriteStep, CommitInsert, CommitRemove
    <2>3. UNCHANGED vars => UNCHANGED <<status, payments, charges, lost, pay>>
        BY DEF vars
    <2>4. CASE \E i \in Invoices : Create(i)
        BY <2>4
    <2>5. CASE \E w \in Workers : LoadStep(w) \/ WriteStep(w) \/ PayLock(w) \/ PayStep(w)
        BY <2>1, <2>2, <2>5
    <2>6. QED
        BY <2>3, <2>4, <2>5 DEF Next
<1>9. QED
    BY <1>1, <1>2, <1>3, <1>4, <1>5, <1>6, <1>7, <1>8, LandsKeepsLedgerInv,
       UnansweredKeepsLedgerInv, RecordKeepsLedgerInv DEF PayStep

LEMMA SpecLedgerInv == Spec => [](IInv /\ LedgerInv)
<1>1. Init => LedgerInv
    BY DEF Init, LedgerInv, NoPay
<1>2. (IInv /\ LedgerInv) /\ [Next]_vars => (IInv /\ LedgerInv)'
    BY NextIInv, LedgerStep DEF IInv
<1>3. QED
    BY <1>1, <1>2, InitIInv, PTL DEF Spec

LEMMA IInvLedgerMatches == IInv /\ LedgerInv => LedgerMatchesProcessor
BY DEF IInv, PayInv, ChargesKept, LedgerInv, Charged, LedgerMatchesProcessor

\* Whatever the interleaving of edits, payments, declines and lost answers, the ledger and the
\* processor agree: an answered charge is on file or about to be, a success on file moved its
\* money, and an invoice is paid only by such a success.
THEOREM BillingLedgerMatchesProcessor == Spec => []LedgerMatchesProcessor
BY SpecLedgerInv, IInvLedgerMatches, PTL

-----------------------------------------------------------------------------
(***************************************************************************)
(* Requests on the ledger that come one at a time implement Settlement:    *)
(* each step of Billing is a step of the lifecycle of one invoice, or      *)
(* changes nothing it speaks of.  What a request has loaded is still true  *)
(* when it writes, since nobody else has written in between.               *)
(***************************************************************************)

\* An edit finds its invoice and its line as its gate saw them.
EditStillValid(w) ==
    LET op == edit[w].op
        i  == edit[w].inv
        l  == edit[w].line
    IN  /\ edit[w] # NoEdit => pay[w] = NoPay
        /\ op = "insert" => /\ l.inv = i /\ status[i] \in {"draft", "issued"}
                            /\ status[i] = "issued" => l.kind # "charge"
                            /\ \A m \in lines : /\ m.id # l.id
                                                /\ m.id = l.reverses => m.inv = i
        /\ op = "remove" => l \in lines /\ l.inv = i /\ status[i] = "draft"
        /\ op = "issue"  => status[i] = "draft" /\ LinesOf(i) # {}
        /\ op = "void"   => status[i] \in {"draft", "issued"}

\* A payment finds its invoice as it loaded it, and charges what its lines still add up to.
PayStillValid(w) ==
    /\ pay[w].pc # "idle" => edit[w] = NoEdit /\ pay[w].seen = status[pay[w].inv]
                             /\ status[pay[w].inv] # "none"
    /\ Selling(w) => /\ pay[w].seen = "issued"
                     /\ pay[w].amount = Total(pay[w].inv) /\ pay[w].amount > 0

\* A row id names one line, and a reversal reverses a line of its own invoice.
LinesLinked ==
    /\ \A l, m \in lines : l.id = m.id => l = m
    /\ \A l \in lines : l.reverses # None => \E m \in lines : m.id = l.reverses /\ m.inv = l.inv

\* A success on file has paid its invoice.
SuccessPays == \A p \in payments : Succeeded(p) => status[p.inv] = "paid"

SerialInv(w) == EditStillValid(w) /\ PayStillValid(w) /\ LinesLinked /\ SuccessPays

Bill == [i \in Invoices |-> LinesOf(i)]
Taken == [i \in Invoices |-> {p \in payments : p.inv = i /\ Succeeded(p)}]

-----------------------------------------------------------------------------
(* What the helpers of the ledger depend on. *)

LEMMA TotalOfLines ==
    ASSUME NEW i, LinesOf(i)' = LinesOf(i)
    PROVE  Total(i)' = Total(i)
BY DEF Total

LEMMA SameLines ==
    ASSUME lines' = lines
    PROVE  /\ \A i : LinesOf(i)' = LinesOf(i)
           /\ \A i : Total(i)' = Total(i)
           /\ Bill' = Bill
<1>1. \A i : LinesOf(i)' = LinesOf(i)
    BY DEF LinesOf
<1>2. \A i : Total(i)' = Total(i)
    BY <1>1 DEF Total
<1>3. Bill' = Bill
    BY <1>1 DEF Bill
<1>4. QED
    BY <1>1, <1>2, <1>3

LEMMA SamePayments ==
    ASSUME payments' = payments
    PROVE  Taken' = Taken
BY DEF Taken, Succeeded

-----------------------------------------------------------------------------
(* What the two halves of an edit do. *)

LEMMA BeginEffect ==
    ASSUME TypeOK, NEW w \in Workers, NEW e, Begin(w, e)
    PROVE  /\ edit[w] = NoEdit /\ pay[w] = NoPay /\ edit'[w] = e
           /\ UNCHANGED <<status, lines, payments, charges, lost, holder, pay>>
BY DEF TypeOK, Begin, Free

LEMMA FinishEffect ==
    ASSUME TypeOK, NEW w \in Workers, Finish(w)
    PROVE  edit'[w] = NoEdit
BY DEF TypeOK, Finish

\* A row id a new line gets is on no row, and no row speaks of it.
LEMMA NewIdUnused ==
    ASSUME NEW id \in NextIds
    PROVE  id \in LineIds /\ \A l \in lines : l.id # id
BY NextIdsFresh DEF FreshIds

\* Rows of the ledger after a deletion: each is a row there was, that may have forgotten the line
\* it reversed.
LEMMA RemovedLines ==
    ASSUME NEW w \in Workers, lines \subseteq Line, CommitRemove(w)
    PROVE  /\ \A l \in lines' : \E m \in lines :
                  /\ m.id # edit[w].line.id /\ l.id = m.id /\ l.inv = m.inv
                  /\ l = IF m.reverses = edit[w].line.id THEN [m EXCEPT !.reverses = None] ELSE m
                  /\ l.reverses = IF m.reverses = edit[w].line.id THEN None ELSE m.reverses
           /\ \A m \in lines : m.id # edit[w].line.id =>
                  \E l \in lines' : l.id = m.id /\ l.inv = m.inv
<1> DEFINE After(m) == IF m.reverses = edit[w].line.id THEN [m EXCEPT !.reverses = None] ELSE m
<1>1. lines' = {After(m) : m \in {x \in lines : x.id # edit[w].line.id}}
    BY DEF CommitRemove
<1>2. \A m \in lines :
          /\ After(m).id = m.id /\ After(m).inv = m.inv
          /\ After(m).reverses = IF m.reverses = edit[w].line.id THEN None ELSE m.reverses
    BY DEF Line
<1>3. \A m \in lines :
          After(m) = IF m.reverses = edit[w].line.id THEN [m EXCEPT !.reverses = None] ELSE m
    OBVIOUS
<1> HIDE DEF After
<1>4. QED
    BY <1>1, <1>2, <1>3

-----------------------------------------------------------------------------
(* The steps of the one request keep what it knows. *)

LEMMA InitSerial ==
    ASSUME NEW w, Workers = {w}, Init
    PROVE  SerialInv(w)
BY DEF Init, SerialInv, EditStillValid, PayStillValid, LinesLinked, SuccessPays, NoEdit, NoPay,
       Selling

LEMMA CreateSerial ==
    ASSUME NEW w, Workers = {w}, IInv, SerialInv(w), NEW i \in Invoices, Create(i)
    PROVE  SerialInv(w)'
<1> USE DEF SerialInv
<1>1. UNCHANGED <<lines, payments, edit, pay>> /\ status[i] = "none"
      /\ \A j : (j \in Invoices /\ status[j] # "none") => status'[j] = status[j]
    BY DEF Create, IInv, TypeOK
<1>2. EditStillValid(w)'
    <2>1. /\ edit[w].op \in {"insert", "remove", "issue", "void"} => edit[w].inv \in Invoices
          /\ LinesOf(edit[w].inv)' = LinesOf(edit[w].inv)
        BY <1>1, EditCases, SameLines DEF IInv
    <2>2. QED
        BY <1>1, <2>1 DEF EditStillValid, NoEdit
<1>3. PayStillValid(w)'
    <2>1. pay[w].pc # "idle" => pay[w].inv \in Invoices
        BY DEF IInv, TypeOK
    <2>2. Total(pay[w].inv)' = Total(pay[w].inv)
        BY <1>1, SameLines
    <2>3. QED
        BY <1>1, <2>1, <2>2 DEF PayStillValid, Selling
<1>4. LinesLinked' /\ SuccessPays'
    BY <1>1 DEF LinesLinked, SuccessPays, Succeeded, IInv, TypeOK
<1>5. QED
    BY <1>2, <1>3, <1>4

\* A request that has just loaded what it decides on.
LEMMA BeginSerial ==
    ASSUME NEW w, Workers = {w}, IInv, SerialInv(w), NEW e, Begin(w, e),
           e.op = "insert" =>
               /\ e.line.inv = e.inv /\ status[e.inv] \in {"draft", "issued"}
               /\ status[e.inv] = "issued" => e.line.kind # "charge"
               /\ \A m \in lines : m.id # e.line.id /\ (m.id = e.line.reverses => m.inv = e.inv),
           e.op = "remove" => e.line \in lines /\ e.line.inv = e.inv /\ status[e.inv] = "draft",
           e.op = "issue" => status[e.inv] = "draft" /\ LinesOf(e.inv) # {},
           e.op = "void" => status[e.inv] \in {"draft", "issued"}
    PROVE  SerialInv(w)'
<1>1. /\ edit'[w] = e /\ pay'[w] = NoPay /\ pay[w] = NoPay
      /\ UNCHANGED <<status, lines, payments>>
    BY BeginEffect DEF IInv
<1>2. EditStillValid(w)'
    BY <1>1, SameLines DEF EditStillValid
<1>3. PayStillValid(w)'
    BY <1>1 DEF PayStillValid, Selling, NoPay
<1>4. LinesLinked' /\ SuccessPays'
    BY <1>1 DEF SerialInv, LinesLinked, SuccessPays, Succeeded
<1>5. QED
    BY <1>2, <1>3, <1>4 DEF SerialInv

LEMMA LoadSerial ==
    ASSUME NEW w, Workers = {w}, IInv, SerialInv(w), LoadStep(w)
    PROVE  SerialInv(w)'
<1>1. ASSUME NEW i \in Invoices, NEW e \in Entries, NEW id \in NextIds, AddLine(w, i, e, id)
      PROVE  SerialInv(w)'
    <2> DEFINE l == [id |-> id, inv |-> i, node |-> e.node, kind |-> e.kind,
                     amount |-> e.amount, reverses |-> None]
               d == [op |-> "insert", inv |-> i, line |-> l]
    <2>1. Begin(w, d) /\ e.kind \in Writable(status[i]) /\ status[i] \in Statuses
        BY <1>1 DEF AddLine, IInv, TypeOK
    <2>2. status[i] \in {"draft", "issued"} /\ (status[i] = "issued" => e.kind # "charge")
        BY <2>1 DEF Writable, Statuses
    <2>3. \A m \in lines : m.id # id /\ m.id # None
        BY NewIdUnused, NoneAssumption DEF IInv, TypeOK, Line
    <2>4. /\ d.op = "insert" /\ d.inv = i /\ d.line.inv = i /\ d.line.kind = e.kind
          /\ d.line.id = id /\ d.line.reverses = None
        OBVIOUS
    <2> HIDE DEF d
    <2>5. QED
        BY <2>1, <2>2, <2>3, <2>4, BeginSerial
<1>2. ASSUME NEW l \in lines, NEW id \in NextIds, ReverseLine(w, l, id)
      PROVE  SerialInv(w)'
    <2> DEFINE d == [op |-> "insert", inv |-> l.inv, line |-> Reversal(l, id)]
    <2>1. Begin(w, d) /\ status[l.inv] \in {"draft", "issued"}
        BY <1>2 DEF ReverseLine
    <2>2. \A m \in lines : m.id # id /\ (m.id = l.id => m.inv = l.inv)
        BY NewIdUnused DEF SerialInv, LinesLinked
    <2>3. /\ d.op = "insert" /\ d.inv = l.inv /\ d.line.inv = l.inv /\ d.line.kind = "reversal"
          /\ d.line.id = id /\ d.line.reverses = l.id
        BY DEF Reversal
    <2> HIDE DEF d
    <2>4. QED
        BY <2>1, <2>2, <2>3, BeginSerial
<1>3. ASSUME NEW l \in lines, RemoveLine(w, l) PROVE SerialInv(w)'
    BY <1>3, BeginSerial DEF RemoveLine
<1>4. ASSUME NEW i \in Invoices, Issue(w, i) PROVE SerialInv(w)'
    BY <1>4, BeginSerial DEF Issue
<1>5. ASSUME NEW i \in Invoices, VoidInvoice(w, i) PROVE SerialInv(w)'
    BY <1>5, BeginSerial DEF VoidInvoice
<1>6. ASSUME NEW i \in Invoices, NEW k \in Keys \cup {None}, PayView(w, i, k)
      PROVE  SerialInv(w)'
    <2>1. /\ UNCHANGED <<status, lines, payments, edit>> /\ edit[w] = NoEdit /\ status[i] # "none"
          /\ pay'[w].pc = "view" /\ pay'[w].inv = i /\ pay'[w].seen = status[i]
        BY <1>6 DEF PayView, Free, IInv, PayInv, PayShape
    <2>2. EditStillValid(w)'
        BY <2>1 DEF EditStillValid, NoEdit
    <2>3. PayStillValid(w)'
        BY <2>1 DEF PayStillValid, Selling
    <2>4. LinesLinked' /\ SuccessPays'
        BY <2>1 DEF SerialInv, LinesLinked, SuccessPays, Succeeded
    <2>5. QED
        BY <2>2, <2>3, <2>4 DEF SerialInv
<1>7. QED
    BY <1>1, <1>2, <1>3, <1>4, <1>5, <1>6 DEF LoadStep

LEMMA WriteSerial ==
    ASSUME NEW w, Workers = {w}, IInv, SerialInv(w), WriteStep(w)
    PROVE  SerialInv(w)'
<1>1. /\ edit[w] # NoEdit /\ pay[w] = NoPay /\ edit'[w] = NoEdit
      /\ UNCHANGED <<payments, pay>>
    BY FinishEffect
       DEF WriteStep, CommitInsert, CommitRemove, CommitStatus, NoEdit, IInv, SerialInv, EditStillValid
<1>2. EditStillValid(w)' /\ PayStillValid(w)'
    BY <1>1 DEF EditStillValid, PayStillValid, NoEdit, NoPay, Selling
<1>3. CASE CommitInsert(w)
    <2> DEFINE n == edit[w].line
    <2>1. /\ UNCHANGED status
          /\ lines' = lines \/ (lines' = lines \cup {n} /\ Insertable(n))
          /\ \A m \in lines : m.id # n.id /\ (m.id = n.reverses => m.inv = n.inv)
        BY <1>3 DEF CommitInsert, SerialInv, EditStillValid
    <2> HIDE DEF n
    <2>2. LinesLinked'
        BY <2>1 DEF LinesLinked, Insertable, SerialInv
    <2>3. SuccessPays'
        BY <1>1, <2>1 DEF SuccessPays, Succeeded, SerialInv
    <2>4. QED
        BY <1>2, <2>2, <2>3 DEF SerialInv
<1>4. CASE CommitRemove(w)
    <2>1. UNCHANGED status
        BY <1>4 DEF CommitRemove
    <2>2. LinesLinked'
        BY <1>4, RemovedLines DEF LinesLinked, SerialInv, IInv, TypeOK
    <2>3. SuccessPays'
        BY <1>1, <2>1 DEF SuccessPays, Succeeded, SerialInv
    <2>4. QED
        BY <1>2, <2>2, <2>3 DEF SerialInv
<1>5. CASE CommitStatus(w)
    <2>1. /\ UNCHANGED lines /\ edit[w].inv \in Invoices /\ status[edit[w].inv] # "paid"
          /\ \A j : j # edit[w].inv => status'[j] = status[j]
        BY <1>5, EditCases DEF CommitStatus, SerialInv, EditStillValid, IInv, TypeOK
    <2>2. LinesLinked'
        BY <2>1 DEF LinesLinked, SerialInv
    <2>3. SuccessPays'
        BY <1>1, <2>1 DEF SuccessPays, Succeeded, SerialInv
    <2>4. QED
        BY <1>2, <2>2, <2>3 DEF SerialInv
<1>6. QED
    BY <1>3, <1>4, <1>5 DEF WriteStep

\* A payment that goes on, or is let go, without a row of its own.
LEMMA PayOnSerial ==
    ASSUME NEW w, Workers = {w}, IInv, SerialInv(w),
           UNCHANGED <<status, lines, payments, edit>>, edit[w] = NoEdit,
           \/ pay'[w] = NoPay
           \/ /\ pay'[w].pc # "idle" /\ pay'[w].inv = pay[w].inv /\ pay'[w].seen = pay[w].seen
              /\ pay[w].pc # "idle"
              /\ Selling(w)' => \/ Selling(w) /\ pay'[w].amount = pay[w].amount
                                \/ /\ pay[w].seen = "issued"
                                   /\ pay'[w].amount = Total(pay[w].inv) /\ Total(pay[w].inv) > 0
    PROVE  SerialInv(w)'
<1>1. EditStillValid(w)' /\ LinesLinked' /\ SuccessPays'
    BY DEF SerialInv, EditStillValid, LinesLinked, SuccessPays, Succeeded, NoEdit
<1>2. CASE pay'[w] = NoPay
    BY <1>1, <1>2 DEF SerialInv, PayStillValid, NoPay, Selling
<1>3. CASE pay'[w] # NoPay
    <2>1. /\ edit'[w] = NoEdit /\ pay'[w].seen = status'[pay'[w].inv]
          /\ status'[pay'[w].inv] # "none"
        BY <1>3 DEF SerialInv, PayStillValid
    <2>2. Selling(w)' => /\ pay'[w].seen = "issued"
                         /\ pay'[w].amount = Total(pay[w].inv) /\ pay'[w].amount > 0
        BY <1>3 DEF SerialInv, PayStillValid
    <2>3. QED
        BY <1>1, <1>3, <2>1, <2>2 DEF SerialInv, PayStillValid, Total, LinesOf
<1>4. QED
    BY <1>2, <1>3

LEMMA RecordSerial ==
    ASSUME NEW w, Workers = {w}, IInv, SerialInv(w), Record(w)
    PROVE  SerialInv(w)'
<1> DEFINE new == [ref |-> pay[w].ref, inv |-> pay[w].inv, key |-> pay[w].key,
                   amount |-> pay[w].amount,
                   status |-> IF pay[w].pc = "landed" THEN "succeeded" ELSE "failed"]
<1>1. /\ payments' = payments \cup {new} /\ UNCHANGED <<lines, edit>>
      /\ new.inv = pay[w].inv /\ (Succeeded(new) => pay[w].pc = "landed")
    BY DEF Record, Succeeded
<1>2. /\ pay'[w] = NoPay /\ edit[w] = NoEdit /\ pay[w].inv \in Invoices
      /\ status[pay[w].inv] = "issued"
    BY DEF Record, EndPay, IInv, TypeOK, PayInv, PayShape, SerialInv, PayStillValid, Selling
<1>3. /\ pay[w].pc = "landed" => status'[pay[w].inv] = "paid"
      /\ \A i : i # pay[w].inv => status'[i] = status[i]
    BY <1>2 DEF Record, IInv, TypeOK
<1> HIDE DEF new
<1>4. EditStillValid(w)' /\ PayStillValid(w)'
    BY <1>1, <1>2 DEF EditStillValid, PayStillValid, NoEdit, NoPay, Selling
<1>5. LinesLinked'
    BY <1>1 DEF SerialInv, LinesLinked
<1>6. SuccessPays'
    BY <1>1, <1>2, <1>3 DEF SerialInv, SuccessPays, Succeeded
<1>7. QED
    BY <1>4, <1>5, <1>6 DEF SerialInv

LEMMA PaySerial ==
    ASSUME NEW w, Workers = {w}, IInv, SerialInv(w), PayLock(w) \/ PayStep(w)
    PROVE  SerialInv(w)'
<1>1. pay[w].pc # "idle" /\ edit[w] = NoEdit
    BY DEF PayLock, PayStep, PayRefuse, PayStart, SaleLands, SaleDeclined, PayUnanswered, Record,
           SerialInv, PayStillValid
<1>2. CASE PayLock(w)
    BY <1>1, <1>2, PayOnSerial DEF PayLock, IInv, PayInv, PayShape, Selling
<1>3. CASE PayRefuse(w)
    BY <1>1, <1>3, PayOnSerial DEF PayRefuse, EndPay, IInv, PayInv, PayShape
<1>4. ASSUME NEW r \in Refs, PayStart(w, r) PROVE SerialInv(w)'
    <2>1. /\ UNCHANGED <<status, lines, payments, edit>>
          /\ pay'[w].pc = "selling" /\ pay'[w].inv = pay[w].inv /\ pay'[w].seen = pay[w].seen
          /\ pay[w].seen = "issued" /\ pay'[w].amount = Total(pay[w].inv) /\ Total(pay[w].inv) > 0
        BY <1>4 DEF PayStart, Payable, IInv, PayInv, PayShape
    <2>2. QED
        BY <1>1, <2>1, PayOnSerial
<1>5. CASE SaleLands(w) \/ SaleDeclined(w)
    BY <1>1, <1>5, PayOnSerial DEF SaleLands, SaleDeclined, IInv, PayInv, PayShape, Selling
<1>6. CASE PayUnanswered(w)
    BY <1>1, <1>6, PayOnSerial DEF PayUnanswered, EndPay, IInv, PayInv, PayShape
<1>7. QED
    BY <1>2, <1>3, <1>4, <1>5, <1>6, RecordSerial DEF PayStep

LEMMA SerialStep ==
    ASSUME NEW w, Workers = {w}, IInv, SerialInv(w), [Next]_vars
    PROVE  SerialInv(w)'
<1>1. CASE UNCHANGED vars
    BY <1>1 DEF vars, SerialInv, EditStillValid, PayStillValid, LinesLinked, SuccessPays, Succeeded,
               Selling, LinesOf, Total
<1>2. CASE Next
    BY <1>2, CreateSerial, LoadSerial, WriteSerial, PaySerial DEF Next
<1>3. QED
    BY <1>1, <1>2

-----------------------------------------------------------------------------
(* Every step is a step of the promise, or changes nothing it speaks of. *)

LEMMA StutterOfPromise ==
    ASSUME UNCHANGED <<status, lines, payments>>
    PROVE  UNCHANGED Promise!vars
<1>1. Bill' = Bill /\ Taken' = Taken
    BY SameLines, SamePayments
<1>2. QED
    BY <1>1 DEF Promise!vars, Bill, Taken

\* The lines of one invoice are rewritten when every other one keeps its own.
LEMMA RewriteOfPromise ==
    ASSUME NEW i \in Invoices, UNCHANGED <<status, payments>>,
           \A j \in Invoices : j # i => LinesOf(j)' = LinesOf(j)
    PROVE  Promise!Rewrite(i)
<1>1. Taken' = Taken
    BY SamePayments
<1>2. Bill' = [j \in Invoices |-> IF j = i THEN Bill'[i] ELSE Bill[j]]
    BY DEF Bill
<1>3. QED
    BY <1>1, <1>2 DEF Promise!Rewrite, Bill, Taken

LEMMA InitOfPromise == Init => Promise!Init
BY DEF Init, Promise!Init, LinesOf

LEMMA CreateOfPromise ==
    ASSUME NEW i \in Invoices, Create(i)
    PROVE  Promise!Open(i)
<1>1. Bill' = Bill /\ Taken' = Taken
    BY SameLines, SamePayments DEF Create
<1>2. QED
    BY <1>1 DEF Create, Promise!Open, Promise!To, Bill, Taken

LEMMA InsertOfPromise ==
    ASSUME NEW w, Workers = {w}, IInv, SerialInv(w), CommitInsert(w)
    PROVE  Promise!Next \/ UNCHANGED Promise!vars
<1>1. PICK i \in Invoices, n \in Line :
          /\ n.inv = i /\ status[i] \in {"draft", "issued"}
          /\ status[i] = "issued" => n.kind # "charge"
          /\ UNCHANGED <<status, payments>> /\ (lines' = lines \/ lines' = lines \cup {n})
    BY EditCases DEF CommitInsert, SerialInv, EditStillValid, IInv
<1>2. CASE lines' = lines
    BY <1>1, <1>2, StutterOfPromise
<1>3. CASE lines' = lines \cup {n}
    <2>1. /\ \A j \in Invoices : j # i => LinesOf(j)' = LinesOf(j)
          /\ LinesOf(i)' = LinesOf(i) \cup {n}
        BY <1>1, <1>3 DEF LinesOf
    <2>2. Promise!Rewrite(i)
        BY <1>1, <2>1, RewriteOfPromise
    <2>3. Bill[i] = LinesOf(i) /\ Bill'[i] = LinesOf(i)'
        BY <1>1 DEF Bill
    <2>4. Promise!Edit(i) \/ Promise!Correct(i)
        BY <1>1, <2>1, <2>2, <2>3 DEF Promise!Edit, Promise!Correct, Bill
    <2>5. QED
        BY <1>1, <2>4 DEF Promise!Next
<1>4. QED
    BY <1>1, <1>2, <1>3

LEMMA RemoveOfPromise ==
    ASSUME NEW w, Workers = {w}, IInv, SerialInv(w), CommitRemove(w)
    PROVE  Promise!Next
<1> DEFINE i == edit[w].inv
           d == edit[w].line
           After(l) == IF l.reverses = d.id THEN [l EXCEPT !.reverses = None] ELSE l
<1>1. /\ i \in Invoices /\ d \in lines /\ d.inv = i /\ d.id # None /\ status[i] = "draft"
      /\ UNCHANGED <<status, payments>>
    BY EditCases, NoneAssumption DEF CommitRemove, SerialInv, EditStillValid, IInv, TypeOK, Line
<1>2. lines' = {After(l) : l \in {x \in lines : x.id # d.id}}
    BY DEF CommitRemove
<1>3. \A l \in lines : After(l).inv = l.inv /\ (l.inv # i => l.id # d.id /\ After(l) = l)
    BY <1>1 DEF SerialInv, LinesLinked, IInv, TypeOK, Line
<1> HIDE DEF i, d, After
<1>4. \A j \in Invoices : j # i => LinesOf(j)' = LinesOf(j)
    BY <1>2, <1>3 DEF LinesOf
<1>5. Promise!Edit(i)
    BY <1>1, <1>4, RewriteOfPromise DEF Promise!Edit
<1>6. QED
    BY <1>1, <1>5 DEF Promise!Next

LEMMA StatusOfPromise ==
    ASSUME NEW w, Workers = {w}, IInv, SerialInv(w), CommitStatus(w)
    PROVE  Promise!Next
<1> DEFINE i == edit[w].inv
<1>1. i \in Invoices /\ Bill' = Bill /\ Taken' = Taken
    BY EditCases, SameLines, SamePayments DEF CommitStatus, IInv
<1>2. Bill[i] = LinesOf(i)
    BY <1>1 DEF Bill
<1>3. Promise!Send(i) \/ Promise!Withdraw(i)
    BY <1>1, <1>2 DEF CommitStatus, SerialInv, EditStillValid, Promise!Send, Promise!Withdraw,
                      Promise!To, Bill, Taken
<1>4. QED
    BY <1>1, <1>3 DEF Promise!Next

\* The one step that takes money: it takes what the lines add up to, once.
LEMMA RecordOfPromise ==
    ASSUME NEW w, Workers = {w}, IInv, SerialInv(w), Record(w)
    PROVE  Promise!Next \/ UNCHANGED Promise!vars
<1> DEFINE new == [ref |-> pay[w].ref, inv |-> pay[w].inv, key |-> pay[w].key,
                   amount |-> pay[w].amount,
                   status |-> IF pay[w].pc = "landed" THEN "succeeded" ELSE "failed"]
<1>1. PICK i \in Invoices :
          /\ i = pay[w].inv /\ status[i] = "issued" /\ UNCHANGED lines
          /\ payments' = payments \cup {new} /\ new.inv = i /\ new.amount = Total(i)
          /\ Total(i) > 0 /\ (Succeeded(new) <=> pay[w].pc = "landed")
    BY DEF Record, IInv, TypeOK, SerialInv, PayStillValid, Selling, Succeeded
<1>2. pay[w].pc = "landed" => status' = [status EXCEPT ![i] = "paid"]
    BY <1>1 DEF Record
<1>3. pay[w].pc # "landed" => status' = status
    BY DEF Record
<1>4. Bill' = Bill /\ Bill[i] = LinesOf(i)
    BY <1>1, SameLines DEF Bill
<1> HIDE DEF new
<1>5. CASE pay[w].pc = "landed"
    <2>1. Taken[i] = {}
        BY <1>1 DEF Taken, SerialInv, SuccessPays
    <2>2. \A j \in Invoices : {p \in payments' : p.inv = j /\ Succeeded(p)}
                             = IF j = i THEN {new} ELSE {p \in payments : p.inv = j /\ Succeeded(p)}
        BY <1>1, <1>5 DEF SerialInv, SuccessPays
    <2>3. Taken' = [Taken EXCEPT ![i] = {new}]
        BY <2>2 DEF Taken, Succeeded
    <2>4. Taken'[i] = {new}
        BY <1>1, <2>3 DEF Taken
    <2>5. Promise!Settle(i)
        BY <1>1, <1>2, <1>4, <1>5, <2>1, <2>3, <2>4
           DEF Promise!Settle, Promise!To, Bill, Taken, Total
    <2>6. QED
        BY <1>1, <2>5 DEF Promise!Next
<1>6. CASE pay[w].pc # "landed"
    <2>1. \A j \in Invoices : {p \in payments' : p.inv = j /\ Succeeded(p)}
                             = {p \in payments : p.inv = j /\ Succeeded(p)}
        BY <1>1, <1>6
    <2>2. Taken' = Taken
        BY <2>1 DEF Taken, Succeeded
    <2>3. QED
        BY <1>3, <1>4, <1>6, <2>2 DEF Promise!vars, Bill, Taken
<1>7. QED
    BY <1>5, <1>6

LEMMA StepOfPromise ==
    ASSUME NEW w, Workers = {w}, IInv, SerialInv(w), [Next]_vars
    PROVE  [Promise!Next]_(Promise!vars)
<1>1. CASE UNCHANGED <<status, lines, payments>>
    BY <1>1, StutterOfPromise
<1>2. CASE \E i \in Invoices : Create(i)
    BY <1>2, CreateOfPromise DEF Promise!Next
<1>3. CASE WriteStep(w)
    BY <1>3, InsertOfPromise, RemoveOfPromise, StatusOfPromise DEF WriteStep
<1>4. CASE Record(w)
    BY <1>4, RecordOfPromise
<1>5. \/ UNCHANGED <<status, lines, payments>>
      \/ \E i \in Invoices : Create(i)
      \/ WriteStep(w) \/ Record(w)
    BY DEF Next, vars, LoadStep, PayStep, AddLine, ReverseLine, RemoveLine, Issue, VoidInvoice, Begin,
           PayView, PayLock, PayRefuse, PayStart, SaleLands, SaleDeclined, PayUnanswered
<1>6. QED
    BY <1>1, <1>2, <1>3, <1>4, <1>5

\* While requests come one at a time, the ledger settles every invoice as promised: whatever a
\* request had loaded is still so when it writes, so no closed invoice changes, nothing is charged
\* to a sent one, and the one payment that is taken is what its lines add up to.
THEOREM BillingSettlesAsPromised ==
    ASSUME NEW w, Workers = {w}
    PROVE  Spec => SettlesAsPromised
<1>1. Init => SerialInv(w) /\ Promise!Init
    BY InitSerial, InitOfPromise
<1>2. IInv /\ SerialInv(w) /\ [Next]_vars => SerialInv(w)' /\ [Promise!Next]_(Promise!vars)
    BY SerialStep, StepOfPromise
<1>3. QED
    BY <1>1, <1>2, InitIInv, NextIInv, PTL DEF Spec, SettlesAsPromised, Promise!Spec
=============================================================================
