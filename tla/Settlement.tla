----------------------------- MODULE Settlement -----------------------------
(***************************************************************************)
(* What an invoice promises its traveler and its advisor, whatever rows,   *)
(* locks and calls it takes: it is put together, sent, and then either     *)
(* paid once, for exactly what its lines add up to, or withdrawn; a closed *)
(* invoice never changes (the module docstring of services/invoices.py and *)
(* of services/payments.py).                                               *)
(***************************************************************************)
EXTENDS Integers

CONSTANTS
  Accounts,   \* invoices
  Due(_)      \* what the lines of a bill add up to

VARIABLES
  state,      \* "none", "draft", "issued", "paid" or "void"
  bill,       \* the lines of each invoice, [kind, ...]
  taken       \* the payments it was settled with, [amount, ...]

vars == <<state, bill, taken>>

Init ==
  /\ state = [a \in Accounts |-> "none"]
  /\ bill = [a \in Accounts |-> {}]
  /\ taken = [a \in Accounts |-> {}]

To(a, s) == state' = [state EXCEPT ![a] = s]

Open(a) == state[a] = "none" /\ To(a, "draft") /\ UNCHANGED <<bill, taken>>

\* Only the lines of one invoice change.
Rewrite(a) ==
  /\ bill' = [b \in Accounts |-> IF b = a THEN bill'[a] ELSE bill[b]]
  /\ UNCHANGED <<state, taken>>

\* A draft is put together line by line, and lines may go again.
Edit(a) == state[a] = "draft" /\ Rewrite(a)

\* What was sent stays on it: corrections are new lines, and none of them is a charge.
Correct(a) ==
  /\ state[a] = "issued"
  /\ bill[a] \subseteq bill'[a]
  /\ \A l \in bill'[a] \ bill[a] : l.kind # "charge"
  /\ Rewrite(a)

\* An invoice that says nothing is not sent.
Send(a) == state[a] = "draft" /\ bill[a] # {} /\ To(a, "issued") /\ UNCHANGED <<bill, taken>>

Withdraw(a) == state[a] \in {"draft", "issued"} /\ To(a, "void") /\ UNCHANGED <<bill, taken>>

\* One payment, of what is due.
Settle(a) ==
  /\ state[a] = "issued"
  /\ taken[a] = {}
  /\ Due(bill[a]) > 0
  /\ \E p \in taken'[a] :
       /\ p.amount = Due(bill[a])
       /\ taken' = [taken EXCEPT ![a] = {p}]
  /\ To(a, "paid") /\ UNCHANGED bill

Next == \E a \in Accounts : Open(a) \/ Edit(a) \/ Correct(a) \/ Send(a) \/ Withdraw(a) \/ Settle(a)

Spec == Init /\ [][Next]_vars
=============================================================================
