----------------------------- MODULE BookingProofs -----------------------------
(***************************************************************************)
(* For any number of requests, nodes, invoices and attempts: money goes    *)
(* back for a booking only after the operator has let it go, and the       *)
(* operator never takes it up again.  While requests come one at a time,   *)
(* no order the supplier confirmed is lost track of, and what is booked    *)
(* without the override stays paid for, but for later discounts.           *)
(***************************************************************************)
EXTENDS Booking, FiniteSetTheorems, WellFoundedInduction, TLAPS

-----------------------------------------------------------------------------
(***************************************************************************)
(* Sums of the amounts of a finite set of lines, as the models write them  *)
(* with MapThenSumSet: which element the fold takes first does not matter, *)
(* and what one set holds more than another adds to its sum.               *)
(*                                                                         *)
(* The fold is a recursive function picked with CHOOSE, so that first one  *)
(* has to be shown to exist.  Induction over finite sets is by a minimal   *)
(* counterexample: strict inclusion is well founded.                       *)
(***************************************************************************)

AmountSum(S) == MapThenSumSet(LAMBDA l : l.amount, S)

First(s) == CHOOSE x \in s : TRUE

\* One unfolding of the fold, and the functions on the subsets of S that satisfy it.
Unfold(g, s)   == IF s = {} THEN 0 ELSE First(s).amount + g[s \ {First(s)}]
Solves(g, S)   == g = [s \in SUBSET S |-> Unfold(g, s)]
Solution(S)    == CHOOSE g : Solves(g, S)

-----------------------------------------------------------------------------
\* A set of finite sets has a member that includes no other.
LEMMA MinimalSet ==
    ASSUME NEW S, IsFiniteSet(S), NEW T, T \subseteq SUBSET S, T # {}
    PROVE  \E m \in T : \A t \in T : t \subseteq m => t = m
<1>1. IsWellFoundedOn(StrictSubsetOrdering(S), SUBSET S)
    BY FS_FiniteSubsetsOfFinite, FS_StrictSubsetOrderingWellFounded
<1>2. PICK m \in T : \A t \in T : ~(<<t, m>> \in StrictSubsetOrdering(S))
    BY <1>1, WFMin
<1>3. QED
    BY <1>2 DEF StrictSubsetOrdering

LEMMA SumIsSolution == ASSUME NEW S PROVE AmountSum(S) = Solution(S)[S]
BY DEF AmountSum, MapThenSumSet, MapThenFoldSet, Solution, Solves, Unfold, First

LEMMA FirstIn == ASSUME NEW s, s # {} PROVE First(s) \in s
BY DEF First

LEMMA SolvesAt ==
    ASSUME NEW S, NEW g, Solves(g, S), NEW s \in SUBSET S
    PROVE  g[s] = Unfold(g, s)
<1> DEFINE F(x) == Unfold(g, x)
<1>1. g = [x \in SUBSET S |-> F(x)]
    BY DEF Solves
<1> HIDE DEF F
<1>2. g[s] = F(s)
    BY <1>1
<1>3. QED
    BY <1>2 DEF F

\* Solutions agree where both are defined.
LEMMA SolutionsAgree ==
    ASSUME NEW S, NEW T, NEW g, NEW h, Solves(g, S), Solves(h, T),
           NEW U, IsFiniteSet(U), U \subseteq S, U \subseteq T
    PROVE  g[U] = h[U]
<1> DEFINE Differ == {s \in SUBSET U : g[s] # h[s]}
<1> SUFFICES ASSUME Differ # {} PROVE FALSE
    OBVIOUS
<1>1. PICK m \in Differ : \A t \in Differ : t \subseteq m => t = m
    <2>1. Differ \subseteq SUBSET U
        OBVIOUS
    <2> HIDE DEF Differ
    <2>2. QED
        BY <2>1, MinimalSet
<1>2. g[m] = Unfold(g, m) /\ h[m] = Unfold(h, m)
    BY SolvesAt
<1>3. CASE m = {}
    BY <1>1, <1>2, <1>3 DEF Unfold
<1>4. CASE m # {}
    <2>1. First(m) \in m
        BY <1>4, FirstIn
    <2>2. m \ {First(m)} \notin Differ
        BY <1>1, <2>1
    <2>3. g[m \ {First(m)}] = h[m \ {First(m)}]
        BY <2>2
    <2>4. QED
        BY <1>1, <1>2, <1>4, <2>3 DEF Unfold
<1>5. QED
    BY <1>3, <1>4

LEMMA SolutionExists == ASSUME NEW S, IsFiniteSet(S) PROVE Solves(Solution(S), S)
<1> DEFINE Bad == {s \in SUBSET S : ~Solves(Solution(s), s)}
<1> SUFFICES ASSUME Bad # {} PROVE FALSE
    OBVIOUS
<1>1. PICK m \in Bad : \A t \in Bad : t \subseteq m => t = m
    <2>1. Bad \subseteq SUBSET S
        OBVIOUS
    <2> HIDE DEF Bad
    <2>2. QED
        BY <2>1, MinimalSet
<1>2. \A s \in SUBSET m : s # m => Solves(Solution(s), s)
    BY <1>1
<1>3. \A s \in SUBSET m : IsFiniteSet(s)
    <2>1. IsFiniteSet(m)
        BY FS_Subset
    <2>2. QED
        BY <2>1, FS_Subset
<1> DEFINE below == [s \in SUBSET m |-> Solution(s)[s]]
           g == [s \in SUBSET m |-> Unfold(below, s)]
<1>4. \A s \in SUBSET m : s # m => g[s] = below[s]
    <2> SUFFICES ASSUME NEW s \in SUBSET m, s # m PROVE g[s] = below[s]
        OBVIOUS
    <2>1. below[s] = Unfold(Solution(s), s)
        BY <1>2, SolvesAt
    <2>2. s # {} => Solution(s)[s \ {First(s)}] = below[s \ {First(s)}]
        <3> SUFFICES ASSUME s # {} PROVE Solution(s)[s \ {First(s)}] = below[s \ {First(s)}]
            OBVIOUS
        <3> DEFINE r == s \ {First(s)}
        <3>1. First(s) \in s
            BY FirstIn
        <3>2. r \in SUBSET m /\ r # m /\ r \subseteq s /\ IsFiniteSet(r)
            BY <1>3, <3>1
        <3>3. Solution(s)[r] = Solution(r)[r]
            BY <1>2, <3>2, SolutionsAgree
        <3>4. QED
            BY <3>2, <3>3
    <2>3. QED
        BY <2>1, <2>2 DEF Unfold
<1>5. \A s \in SUBSET m : Unfold(g, s) = Unfold(below, s)
    <2> SUFFICES ASSUME NEW s \in SUBSET m, s # {}
                 PROVE  g[s \ {First(s)}] = below[s \ {First(s)}]
        BY DEF Unfold
    <2>1. First(s) \in s
        BY FirstIn
    <2>2. s \ {First(s)} \in SUBSET m /\ s \ {First(s)} # m
        BY <2>1
    <2>3. QED
        BY <1>4, <2>2
<1>6. Solves(g, m)
    <2> HIDE DEF below
    <2>1. g = [s \in SUBSET m |-> Unfold(g, s)]
        BY <1>5
    <2>2. QED
        BY <2>1 DEF Solves
<1>7. Solves(Solution(m), m)
    <2> HIDE DEF g
    <2>1. QED
        BY <1>6 DEF Solution
<1>8. QED
    BY <1>1, <1>7

-----------------------------------------------------------------------------
LEMMA SumEmpty == AmountSum({}) = 0
<1>1. Solves(Solution({}), {})
    BY SolutionExists, FS_EmptySet
<1>2. Solution({})[{}] = Unfold(Solution({}), {})
    BY <1>1, SolvesAt
<1>3. QED
    BY <1>2, SumIsSolution DEF Unfold

\* The fold takes First away.
LEMMA SumFirst ==
    ASSUME NEW S, IsFiniteSet(S), S # {}
    PROVE  AmountSum(S) = First(S).amount + AmountSum(S \ {First(S)})
<1> DEFINE r == S \ {First(S)}
<1>1. IsFiniteSet(r)
    BY FS_Subset
<1>2. Solves(Solution(S), S) /\ Solves(Solution(r), r)
    BY <1>1, SolutionExists
<1>3. Solution(S)[S] = First(S).amount + Solution(S)[r]
    BY <1>2, SolvesAt DEF Unfold
<1>4. Solution(S)[r] = Solution(r)[r]
    BY <1>1, <1>2, SolutionsAgree
<1>5. QED
    BY <1>3, <1>4, SumIsSolution

Amounts(S) == \A l \in S : l.amount \in Int

LEMMA SumInt == ASSUME NEW S, IsFiniteSet(S), Amounts(S) PROVE AmountSum(S) \in Int
<1> DEFINE Bad == {s \in SUBSET S : AmountSum(s) \notin Int}
<1> SUFFICES ASSUME Bad # {} PROVE FALSE
    OBVIOUS
<1>1. PICK m \in Bad : \A t \in Bad : t \subseteq m => t = m
    <2>1. Bad \subseteq SUBSET S
        OBVIOUS
    <2> HIDE DEF Bad
    <2>2. QED
        BY <2>1, MinimalSet
<1>2. m # {}
    <2>1. AmountSum(m) # 0
        BY <1>1
    <2>2. QED
        BY <2>1, SumEmpty
<1>3. First(m) \in m /\ IsFiniteSet(m)
    BY <1>2, FirstIn, FS_Subset
<1>4. AmountSum(m \ {First(m)}) \in Int
    BY <1>1, <1>3
<1>5. First(m).amount \in Int
    BY <1>3 DEF Amounts
<1>6. AmountSum(m) = First(m).amount + AmountSum(m \ {First(m)})
    BY <1>2, <1>3, SumFirst
<1>7. AmountSum(m) \in Int
    BY <1>4, <1>5, <1>6
<1>8. QED
    BY <1>1, <1>7

\* Whichever element is taken away, the rest sums to what the fold says.
LEMMA SumRemove ==
    ASSUME NEW S, IsFiniteSet(S), Amounts(S), NEW x \in S
    PROVE  AmountSum(S) = x.amount + AmountSum(S \ {x})
<1> DEFINE Bad == {s \in SUBSET S : \E y \in s : AmountSum(s) # y.amount + AmountSum(s \ {y})}
<1> SUFFICES ASSUME Bad # {} PROVE FALSE
    OBVIOUS
<1>1. PICK m \in Bad : \A t \in Bad : t \subseteq m => t = m
    <2>1. Bad \subseteq SUBSET S
        OBVIOUS
    <2> HIDE DEF Bad
    <2>2. QED
        BY <2>1, MinimalSet
<1>2. PICK y \in m : AmountSum(m) # y.amount + AmountSum(m \ {y})
    BY <1>1
<1> DEFINE f == First(m)
<1>3. f \in m /\ IsFiniteSet(m) /\ IsFiniteSet(m \ {f}) /\ IsFiniteSet(m \ {y})
    BY FirstIn, FS_Subset
<1>4. AmountSum(m) = f.amount + AmountSum(m \ {f})
    BY <1>3, SumFirst
<1>5. f # y
    BY <1>2, <1>4
<1>6. m \ {f} \notin Bad /\ m \ {y} \notin Bad /\ m \ {f} \in SUBSET S /\ m \ {y} \in SUBSET S
    BY <1>1, <1>3
<1>7. AmountSum(m \ {f}) = y.amount + AmountSum((m \ {f}) \ {y})
    BY <1>5, <1>6
<1>8. AmountSum(m \ {y}) = f.amount + AmountSum((m \ {y}) \ {f})
    BY <1>3, <1>5, <1>6
<1>9. (m \ {f}) \ {y} = (m \ {y}) \ {f}
    OBVIOUS
<1>10. AmountSum((m \ {f}) \ {y}) \in Int /\ f.amount \in Int /\ y.amount \in Int
    <2>1. IsFiniteSet((m \ {f}) \ {y}) /\ Amounts((m \ {f}) \ {y})
        BY <1>3, FS_Subset DEF Amounts
    <2>2. QED
        BY <1>3, <2>1, SumInt DEF Amounts
<1>11. ASSUME NEW v \in Int, NEW p \in Int, NEW q \in Int PROVE p + (q + v) = q + (p + v)
    OBVIOUS
<1>12. AmountSum(m) = y.amount + (f.amount + AmountSum((m \ {f}) \ {y}))
    BY <1>4, <1>7, <1>10, <1>11
<1>13. QED
    BY <1>2, <1>8, <1>9, <1>12

\* Lines of non-negative amounts sum to no less than nothing.
LEMMA SumNonNegative ==
    ASSUME NEW S, IsFiniteSet(S), Amounts(S), \A l \in S : l.amount >= 0
    PROVE  AmountSum(S) >= 0
<1> DEFINE Bad == {s \in SUBSET S : ~(AmountSum(s) >= 0)}
<1> SUFFICES ASSUME Bad # {} PROVE FALSE
    OBVIOUS
<1>1. PICK m \in Bad : \A t \in Bad : t \subseteq m => t = m
    <2>1. Bad \subseteq SUBSET S
        OBVIOUS
    <2> HIDE DEF Bad
    <2>2. QED
        BY <2>1, MinimalSet
<1>2. m \in SUBSET S /\ ~(AmountSum(m) >= 0)
    BY <1>1
<1>3. m # {}
    BY <1>2, SumEmpty
<1>4. First(m) \in m /\ IsFiniteSet(m)
    BY <1>2, <1>3, FirstIn, FS_Subset
<1>5. AmountSum(m) = First(m).amount + AmountSum(m \ {First(m)})
    BY <1>3, <1>4, SumFirst
<1>6. AmountSum(m \ {First(m)}) >= 0
    BY <1>1, <1>4
<1>7. AmountSum(m \ {First(m)}) \in Int /\ First(m).amount \in Int /\ First(m).amount >= 0
    <2>1. IsFiniteSet(m \ {First(m)}) /\ Amounts(m \ {First(m)})
        BY <1>2, <1>4, FS_Subset DEF Amounts
    <2>2. QED
        BY <1>2, <1>4, <2>1, SumInt DEF Amounts
<1>8. QED
    BY <1>2, <1>5, <1>6, <1>7

\* The sum over a set is that over a part of it and that over the rest.
LEMMA SumSplit ==
    ASSUME NEW S, IsFiniteSet(S), Amounts(S), NEW T \in SUBSET S
    PROVE  AmountSum(S) = AmountSum(T) + AmountSum(S \ T)
<1> DEFINE Bad == {s \in SUBSET S : AmountSum(s) # AmountSum(s \cap T) + AmountSum(s \ T)}
<1> SUFFICES ASSUME Bad # {} PROVE FALSE
    <2>1. S \notin Bad /\ S \cap T = T
        OBVIOUS
    <2>2. QED
        BY <2>1
<1>1. PICK m \in Bad : \A t \in Bad : t \subseteq m => t = m
    <2>1. Bad \subseteq SUBSET S
        OBVIOUS
    <2> HIDE DEF Bad
    <2>2. QED
        BY <2>1, MinimalSet
<1>2. m \in SUBSET S /\ AmountSum(m) # AmountSum(m \cap T) + AmountSum(m \ T)
    BY <1>1
<1>3. m # {}
    <2> SUFFICES ASSUME m = {} PROVE FALSE
        OBVIOUS
    <2>1. m \cap T = {} /\ m \ T = {}
        OBVIOUS
    <2>2. QED
        BY <1>2, <2>1, SumEmpty
<1> DEFINE x == First(m)
<1>4. x \in m /\ x.amount \in Int
    BY <1>2, <1>3, FirstIn DEF Amounts
<1>5. \A t \in SUBSET m : IsFiniteSet(t) /\ Amounts(t) /\ AmountSum(t) \in Int
    <2> SUFFICES ASSUME NEW t \in SUBSET m
                 PROVE  IsFiniteSet(t) /\ Amounts(t) /\ AmountSum(t) \in Int
        OBVIOUS
    <2>1. IsFiniteSet(t) /\ Amounts(t)
        BY <1>2, FS_Subset DEF Amounts
    <2>2. QED
        BY <2>1, SumInt
<1> DEFINE r == m \ {x}
<1> HIDE DEF x
<1>6. r \in SUBSET m /\ r # m /\ r \in SUBSET S
    BY <1>2, <1>4
<1>7. AmountSum(r) = AmountSum(r \cap T) + AmountSum(r \ T)
    BY <1>1, <1>6
<1>8. AmountSum(m) = x.amount + AmountSum(r)
    BY <1>4, <1>5, SumRemove
<1>9. /\ AmountSum(r \cap T) \in Int /\ AmountSum(r \ T) \in Int
      /\ \A u, v, z \in Int : z + (u + v) = (z + u) + v /\ z + (u + v) = u + (z + v)
    BY <1>5
<1>10. CASE x \in T
    <2>1. (m \cap T) \ {x} = r \cap T /\ m \ T = r \ T /\ x \in m \cap T
        BY <1>4, <1>10
    <2>2. AmountSum(m \cap T) = x.amount + AmountSum((m \cap T) \ {x})
        BY <1>5, <2>1, SumRemove
    <2>3. AmountSum(m \cap T) = x.amount + AmountSum(r \cap T) /\ AmountSum(m \ T) = AmountSum(r \ T)
        BY <2>1, <2>2
    <2>4. QED
        BY <1>2, <1>4, <1>7, <1>8, <1>9, <2>3
<1>11. CASE x \notin T
    <2>1. (m \ T) \ {x} = r \ T /\ m \cap T = r \cap T /\ x \in m \ T
        BY <1>4, <1>11
    <2>2. AmountSum(m \ T) = x.amount + AmountSum((m \ T) \ {x})
        BY <1>5, <2>1, SumRemove
    <2>3. AmountSum(m \cap T) = AmountSum(r \cap T) /\ AmountSum(m \ T) = x.amount + AmountSum(r \ T)
        BY <2>1, <2>2
    <2>4. QED
        BY <1>2, <1>4, <1>7, <1>8, <1>9, <2>3
<1>12. QED
    BY <1>10, <1>11

\* A finite set of numbers has a maximum.
LEMMA MaxInSet ==
    ASSUME NEW S, IsFiniteSet(S), S # {}, S \subseteq Int
    PROVE  Max(S) \in S /\ \A y \in S : Max(S) >= y
<1> DEFINE Bad == {s \in SUBSET S : s # {} /\ ~(\E x \in s : \A y \in s : x >= y)}
<1>1. Bad = {}
    <2> SUFFICES ASSUME Bad # {} PROVE FALSE
        OBVIOUS
    <2>1. PICK m \in Bad : \A t \in Bad : t \subseteq m => t = m
        <3>1. Bad \subseteq SUBSET S
            OBVIOUS
        <3> HIDE DEF Bad
        <3>2. IsFiniteSet(S) /\ Bad # {}
            OBVIOUS
        <3>3. QED
            BY ONLY <3>1, <3>2, MinimalSet
    <2>2. PICK x \in m : TRUE
        BY <2>1
    <2>3. CASE m = {x}
        BY <2>1, <2>3
    <2>4. CASE m # {x}
        <3>1. PICK z \in m \ {x} : \A y \in m \ {x} : z >= y
            <4>1. m \ {x} \subseteq m /\ m \ {x} # m /\ m \ {x} \in SUBSET S /\ m \ {x} # {}
                BY <2>1, <2>2, <2>4
            <4>2. m \ {x} \notin Bad
                <5> HIDE DEF Bad
                <5>1. QED
                    BY <2>1, <4>1
            <4>3. QED
                BY <4>1, <4>2
        <3>2. x \in Int /\ z \in Int /\ \A y \in m : y \in Int
            BY <2>1, <2>2, <3>1
        <3>3. CASE x >= z
            BY <2>1, <2>2, <3>1, <3>2, <3>3
        <3>4. CASE z >= x
            BY <2>1, <2>2, <3>1, <3>2, <3>4
        <3>5. QED
            BY <3>2, <3>3, <3>4
    <2>5. QED
        BY <2>3, <2>4
<1>2. QED
    BY <1>1 DEF Max

-----------------------------------------------------------------------------
(* What a request is, and what it relies on.                               *)

\* A request is a record with these fields.
ReqShape ==
    req = [w \in Workers |-> [pc |-> req[w].pc, id |-> req[w].id, node |-> req[w].node,
                             line |-> req[w].line, amount |-> req[w].amount,
                             unpaid |-> req[w].unpaid, reverse |-> req[w].reverse,
                             back |-> req[w].back]]

\* A request on its way to a booking row, and one that gives a booking up.
Placing(w)  == req[w].pc \in {"reserve", "confirm", "abort", "book"}
GivingUp(w) == req[w].pc \in {"unsupply", "refund", "cancel"}

\* Nothing was ordered under this attempt, or the operator has let go of it.
LetGo(a) == orders[a] \notin {"held", "confirmed"}

HasRow(a) == \E b \in bookings : b.id = a

\* What a request relies on.  The attempt it places is its own and has no row yet; what it gives up
\* has one; and what it gives money back for, the operator has let go of.
Own(w) ==
    /\ Placing(w) => /\ req[w].id \in Attempts /\ ~HasRow(req[w].id)
                     /\ \A x \in Workers : (x # w /\ Placing(x)) => req[x].id # req[w].id
    /\ GivingUp(w) => req[w].id \in Attempts /\ HasRow(req[w].id)
    /\ req[w].pc \in {"reserve", "confirm"} => req[w].node \in Supplied
    /\ (req[w].pc = "book" /\ req[w].node \notin Supplied) => LetGo(req[w].id)
    /\ req[w].pc \in {"refund", "cancel"} => LetGo(req[w].id)

\* Without a supplier there is no order; and what was given back for is a row that was let go.
RowsLetGo ==
    /\ \A b \in bookings : b.id \in Attempts /\ (b.node \notin Supplied => LetGo(b.id))
    /\ \A a \in Attempts : returned[a] # 0 => LetGo(a) /\ HasRow(a)

Counts == orders \in [Attempts -> OrderStatuses] /\ returned \in [Attempts -> Nat]

OperatorInv == ReqShape /\ Counts /\ RowsLetGo /\ \A w \in Workers : Own(w)

-----------------------------------------------------------------------------
LEMMA InitOperatorInv == Init => OperatorInv
BY DEF Init, OperatorInv, ReqShape, Counts, RowsLetGo, Own, Placing, GivingUp, NoReq, OrderStatuses

\* The advisor's and the outside parties' own steps: the operator only lets go by itself.
LEMMA SurroundingsKeepOperatorInv == OperatorInv /\ Surroundings => OperatorInv'
<1> SUFFICES ASSUME OperatorInv, Surroundings PROVE OperatorInv'
    OBVIOUS
<1>1. UNCHANGED <<bookings, returned, req>>
    BY DEF Surroundings, SetStatus, RefreshOffer, OfferExpires, Bill, Pay, Settle, HoldExpires, money
<1>2. orders' = orders \/ \E a \in Attempts : orders' = [orders EXCEPT ![a] = "released"]
    BY DEF Surroundings, SetStatus, RefreshOffer, OfferExpires, Bill, Pay, Settle, HoldExpires
<1>3. orders' \in [Attempts -> OrderStatuses] /\ \A a \in Attempts : LetGo(a) => LetGo(a)'
    BY <1>2 DEF OperatorInv, Counts, OrderStatuses, LetGo
<1>4. \A a : HasRow(a)' <=> HasRow(a)
    BY <1>1 DEF HasRow
<1>5. \A w \in Workers : Own(w)'
    BY <1>1, <1>3, <1>4 DEF OperatorInv, Own, Placing, GivingUp
<1>6. QED
    BY <1>1, <1>3, <1>4, <1>5 DEF OperatorInv, ReqShape, Counts, RowsLetGo

-----------------------------------------------------------------------------
(* The steps of a request. *)

\* What its step may do to what others rely on: only a request that is placing an order takes its
\* attempt up with the operator, money goes back for what was let go, and rows stay.
Frame(w) ==
    /\ ReqShape' /\ Counts'
    /\ \A x \in Workers : x # w => req'[x] = req[x]
    /\ \A a \in Attempts : LetGo(a) => LetGo(a)' \/ (Placing(w) /\ a = req[w].id)
    /\ \A a \in Attempts : returned'[a] # 0 => returned[a] # 0 \/ (LetGo(a)' /\ HasRow(a))
    /\ \A b \in bookings : \E c \in bookings' : c.id = b.id
    /\ \A c \in bookings' : \E b \in bookings : b.id = c.id /\ b.node = c.node

LEMMA FramedStep ==
    ASSUME OperatorInv, NEW w \in Workers, Frame(w), Own(w)'
    PROVE  OperatorInv'
<1>1. \A a : HasRow(a)' <=> HasRow(a)
    BY DEF Frame, HasRow
<1>2. \A a \in Attempts : HasRow(a) /\ LetGo(a) => LetGo(a)'
    BY DEF Frame, OperatorInv, Own
<1>3. ASSUME NEW x \in Workers, x # w PROVE Own(x)'
    <2>1. req'[x] = req[x] /\ (Placing(x)' <=> Placing(x)) /\ (GivingUp(x)' <=> GivingUp(x))
        BY <1>3 DEF Frame, Placing, GivingUp
    <2>2. Placing(x) => \A y \in Workers : (y # x /\ Placing(y)') => req'[y].id # req[x].id
        <3>1. CASE Placing(w)'
            BY <1>3, <3>1, <2>1 DEF OperatorInv, Own, Frame, Placing
        <3>2. CASE ~Placing(w)'
            BY <1>3, <3>2 DEF OperatorInv, Own, Frame, Placing
        <3>3. QED
            BY <3>1, <3>2
    <2>3. Placing(x) /\ LetGo(req[x].id) => LetGo(req[x].id)'
        <3>1. CASE Placing(w)
            BY <1>3, <2>1, <3>1 DEF OperatorInv, Own, Frame, LetGo
        <3>2. CASE ~Placing(w)
            BY <1>3, <2>1, <3>2 DEF OperatorInv, Own, Frame, LetGo
        <3>3. QED
            BY <3>1, <3>2
    <2>4. GivingUp(x) /\ LetGo(req[x].id) => LetGo(req[x].id)'
        BY <1>2, <1>3, <2>1 DEF OperatorInv, Own, LetGo
    <2>5. QED
        BY <1>1, <1>3, <2>1, <2>2, <2>3, <2>4 DEF OperatorInv, Own, Placing, GivingUp, LetGo, HasRow
<1>4. RowsLetGo'
    <2>1. ASSUME NEW c \in bookings' PROVE c.id \in Attempts /\ (c.node \notin Supplied => LetGo(c.id)')
        <3>1. PICK b \in bookings : b.id = c.id /\ b.node = c.node
            BY DEF Frame
        <3>2. QED
            BY <1>2, <3>1 DEF OperatorInv, RowsLetGo, HasRow
    <2>2. ASSUME NEW a \in Attempts, returned'[a] # 0 PROVE LetGo(a)' /\ HasRow(a)'
        BY <1>1, <1>2, <2>2 DEF OperatorInv, RowsLetGo, Frame
    <2>3. QED
        BY <2>1, <2>2 DEF RowsLetGo, LetGo
<1>5. QED
    BY <1>3, <1>4 DEF OperatorInv, Frame

\* A step on the way to a booking row, up to the supplier: it touches no order but the request's own.
LEMMA PlacingStep ==
    ASSUME OperatorInv, NEW w \in Workers, Placing(w), ReqShape', UNCHANGED <<bookings, returned>>,
           \A x \in Workers : x # w => req'[x] = req[x],
           orders' \in [Attempts -> OrderStatuses],
           \A a \in Attempts : a # req[w].id => orders'[a] = orders[a],
           \/ req'[w].pc = "idle"
           \/ /\ req'[w].pc \in {"confirm", "abort", "book"}
              /\ req'[w].id = req[w].id /\ req'[w].node = req[w].node /\ req[w].node \in Supplied
    PROVE  OperatorInv'
<1>1. Counts'
    BY DEF OperatorInv, Counts
<1>2. Frame(w)
    BY <1>1 DEF Frame, LetGo, Placing
<1>3. \A a : HasRow(a)' <=> HasRow(a)
    BY DEF HasRow
<1>4. Own(w)'
    BY <1>3 DEF OperatorInv, Own, Placing, GivingUp
<1>5. QED
    BY <1>2, <1>4, FramedStep

\* A step of a cancellation before its writes: the operator may let go, and money goes back after that.
LEMMA GivingUpStep ==
    ASSUME OperatorInv, NEW w \in Workers, GivingUp(w), ReqShape', bookings' = bookings,
           \A x \in Workers : x # w => req'[x] = req[x],
           orders' = orders \/ orders' = [orders EXCEPT ![req[w].id] = "released"],
           \/ returned' = returned
           \/ LetGo(req[w].id) /\ returned' = [returned EXCEPT ![req[w].id] = @ + 1],
           \/ req'[w].pc = "idle"
           \/ /\ req'[w].pc \in {"refund", "cancel"} /\ LetGo(req[w].id)'
              /\ req'[w].id = req[w].id
    PROVE  OperatorInv'
<1>1. req[w].id \in Attempts /\ HasRow(req[w].id)
    BY DEF OperatorInv, Own
<1>2. orders' \in [Attempts -> OrderStatuses] /\ \A a \in Attempts : LetGo(a) => LetGo(a)'
    BY <1>1 DEF OperatorInv, Counts, OrderStatuses, LetGo
<1>3. /\ returned' \in [Attempts -> Nat]
      /\ \A a \in Attempts : returned'[a] # 0 => returned[a] # 0 \/ (LetGo(a) /\ HasRow(a))
    BY <1>1 DEF OperatorInv, Counts
<1>4. Frame(w)
    BY <1>2, <1>3 DEF Frame, Counts
<1>5. req'[w].id = req[w].id => HasRow(req[w].id)'
    BY <1>1 DEF HasRow
<1>6. Own(w)'
    BY <1>1, <1>5 DEF Own, Placing, GivingUp, LetGo, HasRow
<1>7. QED
    BY <1>4, <1>6, FramedStep

LEMMA BookLoadKeepsOperatorInv ==
    ASSUME OperatorInv, NEW w \in Workers, NEW a \in Attempts, NEW n \in Nodes, NEW o \in BOOLEAN, BookLoad(w, a, n, o)
    PROVE  OperatorInv'
<1> USE DEF OperatorInv, BookLoad, BookRequest, Free, NoReq, FreshAttempts, money, ledger
<1>1. ReqShape' /\ \A x \in Workers : x # w => req'[x] = req[x]
    BY DEF ReqShape
<1>2. Counts'
    BY DEF Counts, OrderStatuses, Own, Placing, GivingUp
<1>3. Frame(w)
    BY <1>1, <1>2 DEF Frame, Counts, Own, Placing, GivingUp, LetGo
<1>4. Own(w)'
    BY <1>1 DEF ReqShape, Counts, RowsLetGo, Own, Placing, GivingUp, HasRow, LetGo
<1>5. QED
    BY <1>3, <1>4, FramedStep

LEMMA ReserveKeepsOperatorInv ==
    ASSUME OperatorInv, NEW w \in Workers, Reserve(w)
    PROVE  OperatorInv'
<1>1. Placing(w) /\ req[w].id \in Attempts /\ req[w].node \in Supplied
    BY DEF OperatorInv, Own, Placing, Reserve
<1>2. /\ ReqShape' /\ \A x \in Workers : x # w => req'[x] = req[x]
      /\ \/ req'[w].pc = "idle"
         \/ req'[w].pc = "confirm" /\ req'[w].id = req[w].id /\ req'[w].node = req[w].node
    BY DEF OperatorInv, ReqShape, Reserve, Go, End, NoReq
<1>3. /\ orders' \in [Attempts -> OrderStatuses] /\ UNCHANGED <<bookings, returned>>
      /\ \A a \in Attempts : a # req[w].id => orders'[a] = orders[a]
    BY <1>1 DEF OperatorInv, Counts, OrderStatuses, Reserve, money
<1>4. QED
    BY <1>1, <1>2, <1>3, PlacingStep

LEMMA ConfirmKeepsOperatorInv ==
    ASSUME OperatorInv, NEW w \in Workers, Confirm(w)
    PROVE  OperatorInv'
<1>1. Placing(w) /\ req[w].id \in Attempts /\ req[w].node \in Supplied
    BY DEF OperatorInv, Own, Placing, Confirm
<1>2. /\ ReqShape' /\ \A x \in Workers : x # w => req'[x] = req[x]
      /\ req'[w].pc \in {"book", "abort"} /\ req'[w].id = req[w].id /\ req'[w].node = req[w].node
    BY DEF OperatorInv, ReqShape, Confirm, Go
<1>3. /\ orders' \in [Attempts -> OrderStatuses] /\ UNCHANGED <<bookings, returned>>
      /\ \A a \in Attempts : a # req[w].id => orders'[a] = orders[a]
    BY <1>1 DEF OperatorInv, Counts, OrderStatuses, Confirm, Confirmed, money
<1>4. QED
    BY <1>1, <1>2, <1>3, PlacingStep

LEMMA AbortKeepsOperatorInv ==
    ASSUME OperatorInv, NEW w \in Workers, Abort(w)
    PROVE  OperatorInv'
<1>1. Placing(w) /\ req[w].id \in Attempts
    BY DEF OperatorInv, Own, Placing, Abort
<1>2. ReqShape' /\ req'[w].pc = "idle" /\ \A x \in Workers : x # w => req'[x] = req[x]
    BY DEF OperatorInv, ReqShape, Abort, End, NoReq
<1>3. /\ orders' \in [Attempts -> OrderStatuses] /\ UNCHANGED <<bookings, returned>>
      /\ \A a \in Attempts : a # req[w].id => orders'[a] = orders[a]
    BY <1>1 DEF OperatorInv, Counts, OrderStatuses, Abort, money
<1>4. QED
    BY <1>1, <1>2, <1>3, PlacingStep

\* The row is written: the attempt is from now on everybody's.
LEMMA BookKeepsOperatorInv ==
    ASSUME OperatorInv, NEW w \in Workers, Book(w)
    PROVE  OperatorInv'
<1>1. /\ ReqShape' /\ \A x \in Workers : x # w => req'[x] = req[x]
      /\ req'[w].pc = "idle"
    BY DEF Book, End, NoReq, OperatorInv, ReqShape
<1>2. UNCHANGED <<orders, returned>>
    BY DEF Book, money
<1>3. /\ bookings \subseteq bookings'
      /\ \A b \in bookings' \ bookings : b.id = req[w].id /\ b.node = req[w].node
    BY DEF Book
<1>4. ASSUME NEW x \in Workers PROVE Own(x)'
    BY <1>1, <1>2, <1>3 DEF Book, OperatorInv, Own, Placing, GivingUp, HasRow, LetGo
<1>5. RowsLetGo'
    BY <1>2, <1>3 DEF Book, OperatorInv, RowsLetGo, Own, Placing, HasRow, LetGo
<1>6. QED
    BY <1>1, <1>2, <1>4, <1>5 DEF OperatorInv, Counts

LEMMA ConfirmationKeepsOperatorInv ==
    ASSUME OperatorInv, NEW w \in Workers, (\E n \in Nodes : ConfirmationLoad(w, n)) \/ RecordConfirmation(w)
    PROVE  OperatorInv'
<1> USE DEF OperatorInv, ConfirmationLoad, RequestOn, RecordConfirmation, End, Free, NoReq, money, ledger
<1>1. ReqShape' /\ \A x \in Workers : x # w => req'[x] = req[x]
    BY DEF ReqShape
<1>2. Counts'
    BY DEF Counts, OrderStatuses, Own, Placing, GivingUp
<1>3. Frame(w)
    BY <1>1, <1>2 DEF Frame, Counts, Own, Placing, GivingUp, LetGo
<1>4. Own(w)'
    BY <1>1 DEF ReqShape, Counts, RowsLetGo, Own, Placing, GivingUp, HasRow, LetGo
<1>5. QED
    BY <1>3, <1>4, FramedStep

LEMMA CancelLoadKeepsOperatorInv ==
    ASSUME OperatorInv, NEW w \in Workers, NEW n \in Nodes, CancelLoad(w, n)
    PROVE  OperatorInv'
<1>1. PICK b \in Live(n) : RequestOn(w, b, IF n \in Supplied THEN "unsupply" ELSE "refund")
    BY DEF CancelLoad
<1>2. b \in bookings /\ b.node = n /\ b.id \in Attempts /\ HasRow(b.id)
    BY DEF Live, OperatorInv, RowsLetGo, HasRow
<1>3. /\ ReqShape' /\ ~Placing(w) /\ \A x \in Workers : x # w => req'[x] = req[x]
      /\ req'[w].id = b.id /\ req'[w].pc = IF n \in Supplied THEN "unsupply" ELSE "refund"
    <2> DEFINE pc == IF n \in Supplied THEN "unsupply" ELSE "refund"
    <2>1. RequestOn(w, b, pc)
        BY <1>1
    <2> HIDE DEF pc
    <2>2. /\ ReqShape' /\ \A x \in Workers : x # w => req'[x] = req[x]
          /\ req'[w].id = b.id /\ req'[w].pc = pc
        BY <2>1 DEF OperatorInv, ReqShape, RequestOn
    <2>3. ~Placing(w)
        BY DEF CancelLoad, Free, NoReq, Placing
    <2>4. QED
        BY <2>2, <2>3 DEF pc
<1>4. UNCHANGED <<orders, bookings, returned>>
    BY DEF CancelLoad, money
<1>5. Frame(w)
    BY <1>3, <1>4 DEF OperatorInv, Frame, Counts, LetGo
<1>6. n \notin Supplied => LetGo(b.id)
    BY <1>2 DEF OperatorInv, RowsLetGo
<1>7. Own(w)'
    BY <1>2, <1>3, <1>4, <1>6 DEF Own, Placing, GivingUp, HasRow, LetGo
<1>8. QED
    BY <1>5, <1>7, FramedStep

LEMMA CancelOrderKeepsOperatorInv ==
    ASSUME OperatorInv, NEW w \in Workers, CancelOrder(w)
    PROVE  OperatorInv'
<1>1. GivingUp(w) /\ req[w].id \in Attempts
    BY DEF OperatorInv, Own, GivingUp, CancelOrder
<1>2. ReqShape' /\ \A x \in Workers : x # w => req'[x] = req[x]
    BY DEF OperatorInv, ReqShape, CancelOrder, Go, End, NoReq
<1>3. UNCHANGED <<bookings, returned>>
    BY DEF CancelOrder, money
<1>4. CASE Released(w) /\ Go(w, "refund")
    <2>1. req'[w].pc = "refund" /\ req'[w].id = req[w].id
        BY <1>4 DEF OperatorInv, ReqShape, Go
    <2>2. LetGo(req[w].id)'
        BY <1>1, <1>4, <2>1 DEF OperatorInv, Counts, Released, LetGo
    <2>3. QED
        BY <1>1, <1>2, <1>3, <1>4, <2>1, <2>2, GivingUpStep DEF Released
<1>5. CASE (Released(w) \/ UNCHANGED orders) /\ End(w)
    <2>1. req'[w].pc = "idle"
        BY <1>5 DEF OperatorInv, ReqShape, End, NoReq
    <2>2. QED
        BY <1>1, <1>2, <1>3, <1>5, <2>1, GivingUpStep DEF Released
<1>6. QED
    BY <1>4, <1>5 DEF CancelOrder

LEMMA RefundKeepsOperatorInv ==
    ASSUME OperatorInv, NEW w \in Workers, \/ NothingToRefund(w) \/ RefundRefused(w)
           \/ \E back \in {"refunded", "voided"} : Refund(w, back) \/ RefundUnanswered(w, back)
    PROVE  OperatorInv'
<1>1. GivingUp(w) /\ LetGo(req[w].id)
    BY DEF OperatorInv, Own, GivingUp, NothingToRefund, RefundRefused, Refund, RefundUnanswered
<1>2. UNCHANGED <<bookings, orders>>
    BY DEF NothingToRefund, RefundRefused, Refund, RefundUnanswered
<1>3. returned' = returned \/ returned' = [returned EXCEPT ![req[w].id] = @ + 1]
    BY DEF NothingToRefund, RefundRefused, Refund, RefundUnanswered, GiveBack, money
<1>4. End(w) \/ \E back \in {"none", "refunded", "voided"} : ToCancel(w, back)
    BY DEF NothingToRefund, RefundRefused, Refund, RefundUnanswered
<1>5. /\ ReqShape' /\ \A x \in Workers : x # w => req'[x] = req[x]
      /\ req'[w].pc = "idle" \/ (req'[w].pc = "cancel" /\ req'[w].id = req[w].id)
    <2>1. ReqShape
        BY DEF OperatorInv
    <2>2. CASE End(w)
        BY <2>1, <2>2 DEF ReqShape, End, NoReq
    <2>3. ASSUME NEW back, ToCancel(w, back)
          PROVE  /\ ReqShape' /\ \A x \in Workers : x # w => req'[x] = req[x]
                 /\ req'[w].pc = "cancel" /\ req'[w].id = req[w].id
        <3> DEFINE reverse == IF req[w].line \in reversed \cup {0} THEN "no" ELSE "yes"
                   next == [pc |-> "cancel", id |-> req[w].id, node |-> req[w].node,
                            line |-> req[w].line, amount |-> req[w].amount,
                            unpaid |-> req[w].unpaid, reverse |-> reverse, back |-> back]
        <3>1. req' = [req EXCEPT ![w] = next]
            BY <2>1, <2>3 DEF ReqShape, ToCancel
        <3> HIDE DEF reverse
        <3>2. next.pc = "cancel" /\ next.id = req[w].id
              /\ next = [pc |-> next.pc, id |-> next.id, node |-> next.node, line |-> next.line,
                         amount |-> next.amount, unpaid |-> next.unpaid,
                         reverse |-> next.reverse, back |-> next.back]
            OBVIOUS
        <3> HIDE DEF next
        <3>3. QED
            BY <2>1, <3>1, <3>2 DEF ReqShape
    <2>4. QED
        BY <1>4, <2>2, <2>3
<1>6. LetGo(req[w].id) => orders'[req[w].id] \notin {"held", "confirmed"}
    BY <1>2 DEF LetGo
<1>7. (req'[w].pc = "cancel" /\ req'[w].id = req[w].id) => LetGo(req[w].id)'
    BY <1>1, <1>6 DEF LetGo
<1>8. QED
    BY <1>1, <1>2, <1>3, <1>5, <1>7, GivingUpStep

LEMMA CancelKeepsOperatorInv ==
    ASSUME OperatorInv, NEW w \in Workers, Cancel(w)
    PROVE  OperatorInv'
<1>1. ReqShape' /\ req'[w].pc = "idle" /\ \A x \in Workers : x # w => req'[x] = req[x]
    BY DEF OperatorInv, ReqShape, Cancel, End, NoReq
<1>2. UNCHANGED <<orders, returned>>
    BY DEF Cancel
<1>3. bookings' = bookings \/ bookings' = Cancelled(w)
    BY DEF Cancel
<1>4. \A b \in bookings : \E c \in bookings' : c.id = b.id
    <2>1. SUFFICES ASSUME bookings' = Cancelled(w), NEW b \in bookings
                   PROVE  \E c \in bookings' : c.id = b.id
        BY <1>3
    <2>2. CASE b.id = req[w].id
        <3> DEFINE c == [id |-> b.id, node |-> b.node, line |-> b.line, amount |-> b.amount,
                         unpaid |-> b.unpaid, state |-> "cancelled", back |-> req[w].back]
        <3>1. c \in Cancelled(w)
            BY <2>2 DEF Cancelled
        <3>2. QED
            BY <2>1, <3>1
    <2>3. CASE b.id # req[w].id
        <3>1. b \in Cancelled(w)
            BY <2>3 DEF Cancelled
        <3>2. QED
            BY <2>1, <3>1
    <2>4. QED
        BY <2>2, <2>3
<1>5. \A c \in bookings' : \E b \in bookings : b.id = c.id /\ b.node = c.node
    BY <1>3 DEF Cancelled
<1>6. Frame(w)
    BY <1>1, <1>2, <1>4, <1>5 DEF OperatorInv, Counts, Frame, LetGo
<1>7. Own(w)'
    BY <1>1 DEF Own, Placing, GivingUp
<1>8. QED
    BY <1>6, <1>7, FramedStep

-----------------------------------------------------------------------------
LEMMA NextOperatorInv == OperatorInv /\ [Next]_vars => OperatorInv'
<1> SUFFICES ASSUME OperatorInv, [Next]_vars PROVE OperatorInv'
    OBVIOUS
<1>1. CASE UNCHANGED vars
    BY <1>1 DEF vars, OperatorInv, ReqShape, Counts, RowsLetGo, Own, Placing, GivingUp, HasRow, LetGo
<1>2. CASE Surroundings
    BY <1>2, SurroundingsKeepOperatorInv
<1>3. ASSUME NEW w \in Workers, BookStep(w) PROVE OperatorInv'
    BY <1>3, BookLoadKeepsOperatorInv, ReserveKeepsOperatorInv, ConfirmKeepsOperatorInv,
       AbortKeepsOperatorInv, BookKeepsOperatorInv DEF BookStep
<1>4. ASSUME NEW w \in Workers, CancelStep(w) PROVE OperatorInv'
    BY <1>4, CancelLoadKeepsOperatorInv, CancelOrderKeepsOperatorInv, RefundKeepsOperatorInv,
       CancelKeepsOperatorInv DEF CancelStep
<1>5. QED
    BY <1>1, <1>2, <1>3, <1>4, ConfirmationKeepsOperatorInv DEF Next

\* "We never return the traveler's money while the operator still holds the booking": whatever
\* requests overlap and whichever answers are lost, what was given back for is let go, for good.
THEOREM BookingOperatorLetsGoFirst == Spec => []OperatorLetsGoFirst
<1>1. OperatorInv => OperatorLetsGoFirst
    BY DEF OperatorInv, Counts, RowsLetGo, LetGo, OperatorLetsGoFirst
<1>2. QED
    BY <1>1, InitOperatorInv, NextOperatorInv, PTL DEF Spec
-----------------------------------------------------------------------------
(* One request at a time: no confirmed order is forgotten. *)

\* While a request places an order, nobody else has booked its node.
PlaceFree(w) == Placing(w) => Live(req[w].node) = {}

AccountedInv(w) == PlaceFree(w) /\ OrdersAccounted

\* What a step may do: a confirmation is new only if it went unheard or its request is about to write
\* its row, a live row of a confirmed order stays, and a request about to write a row writes it.
LEMMA AccountedStep ==
    ASSUME NEW w, Workers = {w}, OrdersAccounted,
           unheard \subseteq unheard',
           \A a \in Attempts : orders'[a] = "confirmed" =>
               orders[a] = "confirmed" \/ a \in unheard' \/ (req'[w].pc = "book" /\ req'[w].id = a),
           \A b \in bookings : (b.state = "live" /\ orders'[b.id] = "confirmed") =>
               \E c \in bookings' : c.id = b.id /\ c.state = "live",
           req[w].pc = "book" => \/ req'[w].pc = "book" /\ req'[w].id = req[w].id
                                \/ \E c \in bookings' : c.id = req[w].id /\ c.state = "live"
    PROVE  OrdersAccounted'
BY DEF OrdersAccounted

LEMMA SurroundingsKeepAccounted ==
    ASSUME NEW w, Workers = {w}, OperatorInv, AccountedInv(w), Surroundings
    PROVE  AccountedInv(w)'
<1>1. UNCHANGED <<bookings, req, unheard>>
    BY DEF Surroundings, SetStatus, RefreshOffer, OfferExpires, Bill, Pay, Settle, HoldExpires
<1>2. orders' = orders \/ \E a \in Attempts : orders' = [orders EXCEPT ![a] = "released"]
    BY DEF Surroundings, SetStatus, RefreshOffer, OfferExpires, Bill, Pay, Settle, HoldExpires
<1>3. \A a \in Attempts : orders'[a] = "confirmed" => orders[a] = "confirmed"
    BY <1>2 DEF OperatorInv, Counts
<1>4. OrdersAccounted'
    BY <1>1, <1>3, AccountedStep DEF AccountedInv
<1>5. QED
    BY <1>1, <1>4 DEF AccountedInv, PlaceFree, Placing, Live

LEMMA BookStepKeepsAccounted ==
    ASSUME NEW w, Workers = {w}, OperatorInv, AccountedInv(w), BookStep(w)
    PROVE  AccountedInv(w)'
<1> USE DEF AccountedInv
<1>1. ASSUME NEW a \in Attempts, NEW n \in Nodes, NEW o \in BOOLEAN, BookLoad(w, a, n, o)
      PROVE  AccountedInv(w)'
    <2>1. /\ UNCHANGED <<bookings, orders, unheard>> /\ req[w].pc = "idle"
          /\ req'[w].node = n /\ Live(n) = {}
        BY <1>1 DEF BookLoad, BookRequest, Bookable, Free, NoReq, OperatorInv, ReqShape
    <2>2. OrdersAccounted'
        BY <2>1, AccountedStep
    <2>3. QED
        BY <2>1, <2>2 DEF PlaceFree, Live
<1>2. CASE Reserve(w)
    <2>1. /\ UNCHANGED <<bookings, unheard>> /\ req[w].pc = "reserve"
          /\ \A a \in Attempts : orders'[a] = "confirmed" => orders[a] = "confirmed"
          /\ req'[w].pc = "idle" \/ req'[w].node = req[w].node
        BY <1>2 DEF Reserve, Go, End, NoReq, OperatorInv, ReqShape, Counts
    <2>2. OrdersAccounted'
        BY <2>1, AccountedStep
    <2>3. QED
        BY <2>1, <2>2 DEF PlaceFree, Placing, Live
<1>3. CASE Confirm(w)
    <2>1. /\ UNCHANGED bookings /\ req[w].pc = "confirm" /\ unheard \subseteq unheard'
          /\ req'[w].node = req[w].node /\ req'[w].id = req[w].id
          /\ \A a \in Attempts : orders'[a] = "confirmed" =>
                 orders[a] = "confirmed" \/ a \in unheard' \/ (req'[w].pc = "book" /\ req[w].id = a)
        BY <1>3 DEF Confirm, Confirmed, Go, OperatorInv, ReqShape, Counts
    <2>2. OrdersAccounted'
        BY <2>1, AccountedStep
    <2>3. QED
        BY <2>1, <2>2 DEF PlaceFree, Placing, Live
<1>4. CASE Abort(w)
    <2>1. /\ UNCHANGED <<bookings, unheard>> /\ req[w].pc = "abort" /\ req'[w].pc = "idle"
          /\ \A a \in Attempts : orders'[a] = "confirmed" => orders[a] = "confirmed"
        BY <1>4 DEF Abort, End, NoReq, OperatorInv, ReqShape, Counts
    <2>2. OrdersAccounted'
        BY <2>1, AccountedStep
    <2>3. QED
        BY <2>1, <2>2 DEF PlaceFree, Placing, Live
<1>5. CASE Book(w)
    <2> DEFINE new == [id |-> req[w].id, node |-> req[w].node, line |-> req[w].line,
                       amount |-> req[w].amount, unpaid |-> req[w].unpaid, state |-> "live",
                       back |-> "none"]
    <2>1. /\ bookings' = bookings \cup {new} /\ new.id = req[w].id /\ new.state = "live"
          /\ UNCHANGED <<orders, unheard>> /\ req'[w].pc = "idle"
        BY <1>5 DEF Book, NoOtherLive, PlaceFree, Placing, End, NoReq, OperatorInv, ReqShape
    <2> HIDE DEF new
    <2>2. OrdersAccounted'
        BY <2>1, AccountedStep
    <2>3. QED
        BY <2>1, <2>2 DEF PlaceFree, Placing
<1>6. QED
    BY <1>1, <1>2, <1>3, <1>4, <1>5 DEF BookStep

\* A cancellation never lets go of the row of an order the operator still holds.
LEMMA CancelStepKeepsAccounted ==
    ASSUME NEW w, Workers = {w}, OperatorInv, AccountedInv(w), CancelStep(w)
    PROVE  AccountedInv(w)'
<1> USE DEF AccountedInv
<1>1. unheard \subseteq unheard' /\ req[w].pc # "book"
    BY DEF CancelStep, CancelLoad, CancelOrder, NothingToRefund, Refund, RefundUnanswered,
           RefundRefused, Cancel, Free, NoReq
<1>2. req'[w].pc \notin {"reserve", "confirm", "abort", "book"}
    <2>1. \/ End(w) \/ Go(w, "refund") \/ \E back \in {"none", "refunded", "voided"} : ToCancel(w, back)
          \/ \E n \in Nodes, b \in bookings : RequestOn(w, b, IF n \in Supplied THEN "unsupply" ELSE "refund")
        BY DEF CancelStep, CancelLoad, CancelOrder, NothingToRefund, Refund, RefundUnanswered,
               RefundRefused, Cancel, Live
    <2>2. CASE End(w) \/ Go(w, "refund") \/ \E back \in {"none", "refunded", "voided"} : ToCancel(w, back)
        BY <2>2 DEF End, Go, ToCancel, NoReq, OperatorInv, ReqShape
    <2>3. ASSUME NEW n \in Nodes, NEW b \in bookings, NEW pc \in {"unsupply", "refund"}, RequestOn(w, b, pc)
          PROVE  req'[w].pc = pc
        BY <2>3 DEF RequestOn, OperatorInv, ReqShape
    <2>4. QED
        BY <2>1, <2>2, <2>3
<1>3. orders' = orders \/ orders' = [orders EXCEPT ![req[w].id] = "released"]
    BY DEF CancelStep, CancelLoad, CancelOrder, NothingToRefund, Refund, RefundUnanswered,
           RefundRefused, Cancel, Released
<1>4. \A a \in Attempts : orders'[a] = "confirmed" => orders[a] = "confirmed"
    BY <1>3 DEF OperatorInv, Counts
<1>5. ASSUME NEW b \in bookings, b.state = "live", orders'[b.id] = "confirmed"
      PROVE  b \in bookings'
    <2>1. CASE bookings' = bookings
        BY <2>1
    <2>2. CASE Cancel(w) /\ bookings' = Cancelled(w)
        <3>1. LetGo(req[w].id) /\ UNCHANGED orders
            BY <2>2 DEF Cancel, OperatorInv, Own
        <3>2. b.id # req[w].id
            BY <1>5, <3>1 DEF LetGo
        <3>3. QED
            BY <2>2, <3>2 DEF Cancelled
    <2>3. QED
        BY <2>1, <2>2
           DEF CancelStep, CancelLoad, CancelOrder, NothingToRefund, Refund, RefundUnanswered,
               RefundRefused, Cancel
<1>6. OrdersAccounted'
    BY <1>1, <1>4, <1>5, AccountedStep
<1>7. QED
    BY <1>2, <1>6 DEF PlaceFree, Placing

LEMMA ConfirmationKeepsAccounted ==
    ASSUME NEW w, Workers = {w}, OperatorInv, AccountedInv(w),
           (\E n \in Nodes : ConfirmationLoad(w, n)) \/ RecordConfirmation(w)
    PROVE  AccountedInv(w)'
<1>1. UNCHANGED <<bookings, orders, unheard>> /\ req[w].pc # "book"
      /\ req'[w].pc \notin {"reserve", "confirm", "abort", "book"}
    BY DEF ConfirmationLoad, RequestOn, RecordConfirmation, End, Free, NoReq, OperatorInv, ReqShape
<1>2. OrdersAccounted'
    BY <1>1, AccountedStep DEF AccountedInv
<1>3. QED
    BY <1>1, <1>2 DEF AccountedInv, PlaceFree, Placing

LEMMA NextAccounted ==
    ASSUME NEW w, Workers = {w}, OperatorInv, AccountedInv(w), [Next]_vars
    PROVE  AccountedInv(w)'
<1>1. CASE UNCHANGED vars
    BY <1>1 DEF vars, AccountedInv, PlaceFree, Placing, Live, OrdersAccounted
<1>2. CASE Next
    BY <1>2, SurroundingsKeepAccounted, BookStepKeepsAccounted, CancelStepKeepsAccounted,
       ConfirmationKeepsAccounted DEF Next
<1>3. QED
    BY <1>1, <1>2

\* While requests come one at a time, an order the supplier confirmed is a live booking, or about to be
\* one, unless the answer that confirmed it was never heard: no step of a booking or of a cancellation,
\* failed or not, loses track of it.
THEOREM BookingOrdersAccounted ==
    ASSUME NEW w, Workers = {w}
    PROVE  Spec => []OrdersAccounted
<1>1. Init => AccountedInv(w)
    BY DEF Init, AccountedInv, PlaceFree, Placing, OrdersAccounted, NoReq
<1>2. OperatorInv /\ AccountedInv(w) /\ [Next]_vars => AccountedInv(w)'
    BY NextAccounted
<1>3. AccountedInv(w) => OrdersAccounted
    BY DEF AccountedInv
<1>4. QED
    BY <1>1, <1>2, <1>3, InitOperatorInv, NextOperatorInv, PTL DEF Spec

-----------------------------------------------------------------------------
(* One request at a time: pay before book. *)

\* The charge a booking or a request names is one of its node's.
OwnLine(r) == \A l \in Lines : l.id = r.line => l.node = r.node

\* What covers a node, and would but for the discounts paid for since its gate.
Paid(n) == Coverage(n, {"paid"})
Held(n) == Paid(n) + waived[n]

\* What a request that places an order has established at its gate.
Gated(w) == Placing(w) => /\ req[w].node \in Nodes /\ req[w].amount \in Nat /\ OwnLine(req[w])
                          /\ \A n \in {req[w].node} : req[w].unpaid = "no" => Held(n) >= req[w].amount

\* What a cancellation gives up is the live booking it read.
GivesUpLive(w) == GivingUp(w) =>
    \E b \in bookings : b.state = "live" /\ b.id = req[w].id /\ b.node = req[w].node /\ b.line = req[w].line

RowsGated ==
    /\ \A b \in bookings : b.node \in Nodes /\ b.amount \in Nat /\ OwnLine(b)
    /\ \A b, c \in bookings : (b.state = "live" /\ c.state = "live" /\ b.node = c.node) => b = c

Typed == /\ quote \in [Nodes -> Quotes \cup {None}]
         /\ invoice \in [Invoices -> {"none", "issued", "paid"}]
         /\ waived \in [Nodes -> Int]

GateInv(w) == Typed /\ RowsGated /\ Gated(w) /\ GivesUpLive(w) /\ MoneyGate

LEMMA SumIsAmountSum == ASSUME NEW S PROVE Sum(S) = AmountSum(S)
BY DEF Sum, AmountSum

LEMMA LinesFinite ==
    ASSUME NEW S \in SUBSET Lines
    PROVE  IsFiniteSet(S) /\ Amounts(S) /\ Sum(S) \in Int
<1>1. IsFiniteSet(S) /\ Amounts(S)
    BY BookingAssumption, FS_Subset DEF Amounts
<1>2. QED
    BY <1>1, SumIsAmountSum, SumInt

CountedLines(n, statuses) == Counted(LinesOn(n, statuses))

LEMMA PaidInt ==
    ASSUME Typed, NEW n \in Nodes
    PROVE  Paid(n) \in Int /\ Held(n) \in Int
<1>1. CountedLines(n, {"paid"}) \in SUBSET Lines
    BY DEF CountedLines, Counted, LinesOn
<1>2. Paid(n) \in Int
    BY <1>1, LinesFinite DEF Paid, Coverage, CountedLines
<1>3. QED
    BY <1>2 DEF Held, Typed

LEMMA PaidIntNext ==
    ASSUME Typed', NEW n \in Nodes
    PROVE  Held(n)' \in Int
<1>1. CountedLines(n, {"paid"})' \in SUBSET Lines
    BY DEF CountedLines, Counted, LinesOn
<1>2. Sum(CountedLines(n, {"paid"})') \in Int
    BY <1>1, LinesFinite
<1>3. Paid(n)' \in Int
    BY <1>2 DEF Paid, Coverage, CountedLines
<1>4. QED
    BY <1>3 DEF Held, Typed

\* Where the lines that count and the discounts are the same, what is held is.
LEMMA SameHeld ==
    ASSUME NEW n \in Nodes, CountedLines(n, {"paid"})' = CountedLines(n, {"paid"}), waived'[n] = waived[n]
    PROVE  Held(n)' = Held(n)
BY DEF Held, Paid, Coverage, CountedLines

\* The charge the gate names is the node's own, if it names one.
LEMMA CoveringLineIsOwn ==
    ASSUME Typed, NEW n \in Nodes, NEW statuses, Amount(n) # None, Covers(n, statuses)
    PROVE  /\ Amount(n) \in Nat
           /\ \A l \in Lines : l.id = CoveringLine(n, statuses) => l.node = n
<1> DEFINE S == ChargesOn(n, statuses)
           I == {l.id : l \in S}
<1>1. Amount(n) \in Nat \ {0}
    BY BookingAssumption DEF Typed, Amount
<1>3. S \subseteq Lines /\ \A l \in S : l.node = n
    BY DEF ChargesOn, LinesOn
<1>4. IsFiniteSet(I \cup {0}) /\ I \cup {0} # {} /\ I \cup {0} \subseteq Int
    <2> DEFINE f == [l \in S |-> l.id]
    <2>1. IsFiniteSet(S)
        BY <1>3, LinesFinite
    <2>2. f \in Surjection(S, I)
        BY DEF Surjection
    <2>3. IsFiniteSet(I)
        BY <2>1, <2>2, FS_Surjection
    <2>4. \A l \in S : l.id \in Int
        BY <1>3, BookingAssumption
    <2> HIDE DEF S
    <2>5. QED
        BY <2>3, <2>4, FS_AddElement
<1>5. CoveringLine(n, statuses) \in I \cup {0}
    <2> HIDE DEF I
    <2>1. Max(I \cup {0}) \in I \cup {0}
        BY <1>4, MaxInSet
    <2>2. Max({0} \cup I) = Max(I \cup {0})
        <3>1. {0} \cup I = I \cup {0}
            OBVIOUS
        <3>2. QED
            BY <3>1
    <2>3. QED
        BY <2>1, <2>2 DEF CoveringLine, I
<1>6. QED
    BY <1>1, <1>3, <1>5, BookingAssumption

\* A step that leaves the rows alone and keeps what they hold.
Keeping ==
    /\ UNCHANGED bookings /\ Typed'
    /\ \A n \in Nodes : Held(n)' >= Held(n)

LEMMA KeepingLedger ==
    ASSUME Typed, Typed', UNCHANGED <<bookings, reversed, invoice, waived>>
    PROVE  Keeping
<1> SUFFICES ASSUME NEW n \in Nodes PROVE Held(n)' >= Held(n)
    BY DEF Keeping
<1>1. CountedLines(n, {"paid"})' = CountedLines(n, {"paid"})
    BY DEF CountedLines, Counted, LinesOn
<1>2. Held(n)' = Held(n)
    BY <1>1, SameHeld
<1>3. QED
    BY <1>2, PaidInt

\* Billing changes nothing that is paid.
LEMMA BillKeeps ==
    ASSUME Typed, NEW i \in Invoices, Bill(i)
    PROVE  Keeping
<1>1. /\ UNCHANGED <<bookings, reversed, waived, quote>>
      /\ invoice[i] = "none" /\ invoice' = [invoice EXCEPT ![i] = "issued"]
    BY DEF Bill
<1>2. Typed'
    BY <1>1 DEF Typed
<1> SUFFICES ASSUME NEW n \in Nodes PROVE Held(n)' >= Held(n)
    BY <1>1, <1>2 DEF Keeping
<1>3. \A j \in Invoices : invoice'[j] = "paid" <=> invoice[j] = "paid"
    BY <1>1 DEF Typed
<1>4. CountedLines(n, {"paid"})' = CountedLines(n, {"paid"})
    BY <1>1, <1>3, BookingAssumption DEF CountedLines, Counted, LinesOn
<1>5. Held(n)' = Held(n)
    BY <1>1, <1>4, SameHeld
<1>6. QED
    BY <1>5, PaidInt

\* Paying takes away from a node what its discounts are, which is what is waived more.
LEMMA PayKeeps ==
    ASSUME Typed, NEW i \in Invoices, Pay(i)
    PROVE  Keeping
<1>1. /\ UNCHANGED <<bookings, reversed, quote>>
      /\ invoice[i] = "issued" /\ invoice' = [invoice EXCEPT ![i] = "paid"]
      /\ waived' = [n \in Nodes |-> waived[n] - Sum(Discounts(n, i))]
    BY DEF Pay
<1>2. \A n \in Nodes : Discounts(n, i) \in SUBSET Lines
    BY DEF Discounts, Counted, LinesOf
<1>3. Typed'
    <2>1. \A n \in Nodes : waived[n] - Sum(Discounts(n, i)) \in Int
        BY <1>2, LinesFinite DEF Typed
    <2>2. QED
        BY <1>1, <2>1 DEF Typed
<1> SUFFICES ASSUME NEW n \in Nodes PROVE Held(n)' >= Held(n)
    BY <1>1, <1>3 DEF Keeping
<1> DEFINE old  == CountedLines(n, {"paid"})
           new  == CountedLines(n, {"paid"})'
           less == Discounts(n, i)
           more == {l \in Counted(LinesOf(i)) : l.node = n /\ ~(l.amount < 0)}
<1>4. /\ old \in SUBSET Lines /\ new \in SUBSET Lines /\ less \in SUBSET Lines /\ more \in SUBSET Lines
      /\ old \in SUBSET new /\ less \in SUBSET (new \ old) /\ (new \ old) \ less = more
      /\ \A l \in more : l.amount >= 0
    <2>1. \A l \in Lines : l.inv \in Invoices /\ l.amount \in Int
        BY BookingAssumption
    <2>2. \A l \in Lines : /\ l \in new <=> (/\ l.node = n /\ l.id \notin reversed
                                              /\ (invoice[l.inv] = "paid" \/ l.inv = i))
                           /\ l \in old <=> (l.node = n /\ l.id \notin reversed /\ invoice[l.inv] = "paid")
        BY <1>1, <2>1 DEF CountedLines, Counted, LinesOn, Typed
    <2>3. \A l \in Lines : /\ l \in less <=> (l.inv = i /\ l.node = n /\ l.id \notin reversed /\ l.amount < 0)
                           /\ l \in more <=> (/\ l.inv = i /\ l.node = n /\ l.id \notin reversed
                                              /\ ~(l.amount < 0))
        BY DEF Discounts, Counted, LinesOf
    <2>4. /\ old \in SUBSET Lines /\ new \in SUBSET Lines /\ less \in SUBSET Lines
          /\ more \in SUBSET Lines
        BY DEF CountedLines, Counted, LinesOn, Discounts, LinesOf
    <2> HIDE DEF old, new, less, more
    <2>5. \A l \in Lines : l \in new \ old <=> l.node = n /\ l.id \notin reversed /\ l.inv = i
        BY <1>1, <2>2
    <2>6. QED
        BY <2>1, <2>2, <2>3, <2>4, <2>5
<1>5. Paid(n) = AmountSum(old) /\ Paid(n)' = AmountSum(new)
    BY SumIsAmountSum DEF Paid, Coverage, CountedLines
<1>6. waived'[n] = waived[n] - AmountSum(less)
    BY <1>1, SumIsAmountSum
<1> HIDE DEF old, new, less, more
<1>7. /\ new \ old \in SUBSET Lines
      /\ \A T \in SUBSET Lines : IsFiniteSet(T) /\ Amounts(T) /\ AmountSum(T) \in Int
    BY <1>4, LinesFinite, SumIsAmountSum
<1>8. AmountSum(new) = AmountSum(old) + AmountSum(new \ old)
    BY <1>4, <1>7, SumSplit
<1>9. AmountSum(new \ old) = AmountSum(less) + AmountSum(more)
    <2>1. AmountSum(new \ old) = AmountSum(less) + AmountSum((new \ old) \ less)
        BY <1>4, <1>7, SumSplit
    <2>2. QED
        BY <1>4, <2>1
<1>10. AmountSum(more) >= 0
    BY <1>4, <1>7, SumNonNegative
<1>11. /\ AmountSum(old) \in Int /\ AmountSum(new) \in Int /\ AmountSum(less) \in Int
       /\ AmountSum(more) \in Int /\ AmountSum(new \ old) \in Int /\ waived[n] \in Int
    BY <1>4, <1>7 DEF Typed
<1>12. QED
    BY <1>5, <1>6, <1>8, <1>9, <1>10, <1>11 DEF Held

LEMMA KeepingRows ==
    ASSUME Typed, RowsGated, MoneyGate, Keeping
    PROVE  RowsGated' /\ MoneyGate'
<1>1. RowsGated'
    BY DEF Keeping, RowsGated, OwnLine
<1>2. MoneyGate'
    <2> SUFFICES ASSUME NEW b \in bookings, b.state = "live", b.unpaid = "no"
                 PROVE  Coverage(b.node, {"paid"})' + waived'[b.node] >= b.amount
        BY DEF MoneyGate, Keeping
    <2>1. Held(b.node) >= b.amount /\ b.amount \in Nat /\ b.node \in Nodes
        BY DEF MoneyGate, RowsGated, Held, Paid
    <2>2. Held(b.node)' >= Held(b.node) /\ Held(b.node)' \in Int /\ Held(b.node) \in Int
        <3>1. QED
            BY <2>1, PaidInt, PaidIntNext DEF Keeping
    <2>3. Held(b.node)' >= b.amount
        BY <2>1, <2>2
    <2>4. QED
        BY <2>3 DEF Held, Paid
<1>3. QED
    BY <1>1, <1>2

LEMMA KeepingStep ==
    ASSUME NEW w, GateInv(w), Keeping,
           Placing(w)' => /\ Placing(w) /\ req'[w].node = req[w].node /\ req'[w].line = req[w].line
                          /\ req'[w].amount = req[w].amount /\ req'[w].unpaid = req[w].unpaid,
           GivingUp(w)' => \/ /\ GivingUp(w) /\ req'[w].id = req[w].id
                              /\ req'[w].node = req[w].node /\ req'[w].line = req[w].line
                           \/ \E b \in bookings : /\ b.state = "live" /\ b.id = req'[w].id
                                                  /\ b.node = req'[w].node /\ b.line = req'[w].line
    PROVE  GateInv(w)'
<1>1. RowsGated' /\ MoneyGate'
    BY KeepingRows DEF GateInv
<1>2. Gated(w)'
    <2> SUFFICES ASSUME Placing(w)'
                 PROVE  /\ req'[w].node \in Nodes /\ req'[w].amount \in Nat /\ OwnLine(req[w])'
                        /\ \A n \in {req'[w].node} : req'[w].unpaid = "no" => Held(n)' >= req'[w].amount
        BY DEF Gated
    <2>1. req'[w].node \in Nodes /\ req'[w].amount \in Nat /\ OwnLine(req[w])'
        BY DEF GateInv, Gated, OwnLine
    <2>2. ASSUME NEW n \in {req'[w].node}, req'[w].unpaid = "no" PROVE Held(n)' >= req'[w].amount
        <3>1. Held(n) >= req[w].amount /\ req[w].amount \in Nat /\ n \in Nodes
            BY <2>2 DEF GateInv, Gated
        <3>2. Held(n)' >= Held(n) /\ Held(n)' \in Int /\ Held(n) \in Int
            BY <3>1, PaidInt, PaidIntNext DEF Keeping, GateInv
        <3>3. QED
            BY <3>1, <3>2
    <2>3. QED
        BY <2>1, <2>2
<1>3. GivesUpLive(w)'
    BY DEF GateInv, GivesUpLive, Keeping
<1>4. QED
    BY <1>1, <1>2, <1>3 DEF GateInv, Keeping

LEMMA SurroundingsKeepGate ==
    ASSUME NEW w, GateInv(w), Surroundings
    PROVE  GateInv(w)'
<1>1. UNCHANGED <<bookings, req>>
    BY DEF Surroundings, SetStatus, RefreshOffer, OfferExpires, Bill, Pay, Settle, HoldExpires
<1>2. Keeping
    <2>1. CASE \E i \in Invoices : Bill(i) \/ Pay(i)
        BY <2>1, BillKeeps, PayKeeps DEF GateInv
    <2>2. CASE UNCHANGED <<invoice, reversed, waived>>
        <3>1. quote' = quote \/ \E n \in Nodes, q \in Quotes \cup {None} : quote' = [quote EXCEPT ![n] = q]
            BY DEF Surroundings, SetStatus, RefreshOffer, OfferExpires, Bill, Pay, Settle, HoldExpires
        <3>2. Typed'
            BY <2>2, <3>1 DEF GateInv, Typed
        <3>3. QED
            BY <1>1, <2>2, <3>2, KeepingLedger DEF GateInv
    <2>3. QED
        BY <2>1, <2>2
           DEF Surroundings, SetStatus, RefreshOffer, OfferExpires, Settle, HoldExpires, ledger
<1>3. QED
    BY <1>1, <1>2, KeepingStep DEF Placing, GivingUp

\* What passes the gate is covered by what is paid, or was let through by an override; no other
\* booking on its node lives.
LEMMA BookLoadKeepsGate ==
    ASSUME NEW w, Workers = {w}, OperatorInv, GateInv(w),
           NEW a \in Attempts, NEW n \in Nodes, NEW o \in BOOLEAN, BookLoad(w, a, n, o)
    PROVE  GateInv(w)'
<1>1. /\ UNCHANGED <<bookings, reversed, quote, invoice>> /\ Amount(n) # None /\ Live(n) = {}
      /\ waived' = [waived EXCEPT ![n] = 0]
    BY DEF BookLoad, Bookable
<1>2. PICK statuses \in {{"paid"}, {"paid", "issued"}}, unpaid \in {"no", "yes"} :
          /\ Covers(n, statuses) /\ BookRequest(w, a, n, statuses, unpaid)
          /\ unpaid = "no" => statuses = {"paid"}
    BY DEF BookLoad
<1>3. /\ req'[w].node = n /\ req'[w].line = CoveringLine(n, statuses) /\ req'[w].unpaid = unpaid
      /\ req'[w].amount = Amount(n) /\ req'[w].pc \in {"reserve", "book"}
    BY <1>2 DEF BookRequest, OperatorInv, ReqShape
<1>4. /\ Amount(n) \in Nat
      /\ \A l \in Lines : l.id = CoveringLine(n, statuses) => l.node = n
    BY <1>1, <1>2, CoveringLineIsOwn DEF GateInv
<1>5. Typed'
    BY <1>1 DEF Typed, GateInv
<1>6. \A m \in Nodes : Paid(m)' = Paid(m) /\ (m # n => waived'[m] = waived[m])
    BY <1>1 DEF Paid, Coverage, Counted, LinesOn, GateInv, Typed
<1>7. Gated(w)'
    <2>1. req'[w].node \in Nodes /\ req'[w].amount \in Nat /\ OwnLine(req[w])'
        BY <1>3, <1>4 DEF OwnLine
    <2>2. ASSUME unpaid = "no" PROVE Held(n)' >= Amount(n)
        <3>1. Paid(n) >= Amount(n) /\ Paid(n) \in Int
            BY <1>2, <2>2, PaidInt DEF Covers, Paid, GateInv
        <3>2. Held(n)' = Paid(n) + 0
            BY <1>1, <1>6 DEF Held, GateInv, Typed
        <3>3. QED
            BY <1>4, <3>1, <3>2
    <2>3. QED
        BY <1>3, <2>1, <2>2 DEF Gated
<1>8. ~GivingUp(w)'
    BY <1>3 DEF GivingUp
<1>9. RowsGated'
    BY <1>1 DEF GateInv, RowsGated, OwnLine
<1>10. MoneyGate'
    <2> SUFFICES ASSUME NEW b \in bookings, b.state = "live", b.unpaid = "no"
                 PROVE  Coverage(b.node, {"paid"})' + waived'[b.node] >= b.amount
        BY <1>1 DEF MoneyGate
    <2>1. b.node # n /\ b.node \in Nodes
        BY <1>1 DEF Live, GateInv, RowsGated
    <2>2. Paid(b.node) + waived[b.node] >= b.amount
        BY DEF GateInv, MoneyGate, Paid
    <2>3. Paid(b.node)' + waived'[b.node] >= b.amount
        BY <1>6, <2>1, <2>2
    <2>4. QED
        BY <2>3 DEF Paid
<1>11. QED
    BY <1>5, <1>7, <1>8, <1>9, <1>10 DEF GateInv, GivesUpLive

\* The row written is covered as its request was, and is the only live one on its node.
LEMMA BookKeepsGate ==
    ASSUME NEW w, Workers = {w}, OperatorInv, GateInv(w), Book(w)
    PROVE  GateInv(w)'
<1>1. /\ UNCHANGED <<reversed, waived, quote, invoice>> /\ req[w].pc = "book" /\ req'[w].pc = "idle"
    BY DEF Book, ledger, End, NoReq, OperatorInv, ReqShape
<1>2. Typed' /\ Gated(w)' /\ GivesUpLive(w)'
    BY <1>1 DEF GateInv, Typed, Gated, GivesUpLive, Placing, GivingUp
<1>3. CASE UNCHANGED bookings
    BY <1>1, <1>2, <1>3, KeepingLedger, KeepingRows DEF GateInv
<1>4. CASE bookings' # bookings
    <2> DEFINE new == [id |-> req[w].id, node |-> req[w].node, line |-> req[w].line,
                       amount |-> req[w].amount, unpaid |-> req[w].unpaid, state |-> "live",
                       back |-> "none"]
    <2>1. bookings' = bookings \cup {new} /\ Live(req[w].node) = {}
        BY <1>4 DEF Book, NoOtherLive
    <2>2. /\ new.node = req[w].node /\ new.line = req[w].line /\ new.amount = req[w].amount
          /\ new.unpaid = req[w].unpaid
        OBVIOUS
    <2> HIDE DEF new
    <2>3. \A n : Held(n)' = Held(n)
        BY <1>1 DEF Held, Paid, Coverage, Counted, LinesOn
    <2>4. /\ new.node \in Nodes /\ new.amount \in Nat /\ OwnLine(new)
          /\ new.unpaid = "no" => Held(new.node) >= new.amount
        BY <1>1, <2>2 DEF GateInv, Gated, Placing, OwnLine
    <2>5. RowsGated'
        <3>1. \A b \in bookings' : b.node \in Nodes /\ b.amount \in Nat /\ OwnLine(b)
            BY <2>1, <2>4 DEF GateInv, RowsGated
        <3>2. \A b \in bookings : b.state = "live" => b.node # new.node
            BY <2>1, <2>2 DEF Live
        <3>3. \A b, c \in bookings' : (b.state = "live" /\ c.state = "live" /\ b.node = c.node) => b = c
            BY <2>1, <3>2 DEF GateInv, RowsGated
        <3>4. QED
            BY <3>1, <3>3 DEF RowsGated, OwnLine
    <2>6. MoneyGate'
        BY <2>1, <2>3, <2>4 DEF GateInv, MoneyGate, Held, Paid
    <2>7. QED
        BY <1>2, <2>5, <2>6 DEF GateInv
<1>5. QED
    BY <1>3, <1>4

\* A cancellation reverses a charge of its own node, where nothing else is live.
LEMMA CancelKeepsGate ==
    ASSUME NEW w, Workers = {w}, OperatorInv, GateInv(w), Cancel(w)
    PROVE  GateInv(w)'
<1>1. /\ UNCHANGED <<quote, invoice, waived>> /\ req[w].pc = "cancel" /\ req'[w].pc = "idle"
    BY DEF Cancel, End, NoReq, OperatorInv, ReqShape
<1>2. Typed' /\ Gated(w)' /\ GivesUpLive(w)'
    BY <1>1 DEF GateInv, Typed, Gated, GivesUpLive, Placing, GivingUp
<1>3. CASE UNCHANGED <<bookings, reversed>>
    BY <1>1, <1>2, <1>3, KeepingLedger, KeepingRows DEF GateInv
<1>4. CASE bookings' = Cancelled(w) /\ reversed' \subseteq reversed \cup {req[w].line}
                                   /\ reversed \subseteq reversed'
    <2>1. PICK d \in bookings : /\ d.state = "live" /\ d.id = req[w].id
                                /\ d.node = req[w].node /\ d.line = req[w].line
        BY <1>1 DEF GateInv, GivesUpLive, GivingUp
    <2>2. \A c \in bookings' : \E b \in bookings :
              /\ c.node = b.node /\ c.line = b.line /\ c.amount = b.amount /\ c.unpaid = b.unpaid
              /\ c.state = "live" => c = b /\ b.id # req[w].id
        BY <1>4 DEF Cancelled
    <2>3. RowsGated'
        <3>1. \A c \in bookings' : c.node \in Nodes /\ c.amount \in Nat /\ OwnLine(c)
            BY <2>2 DEF GateInv, RowsGated, OwnLine
        <3>2. \A b, c \in bookings' : (b.state = "live" /\ c.state = "live" /\ b.node = c.node) => b = c
            BY <2>2 DEF GateInv, RowsGated
        <3>3. QED
            BY <3>1, <3>2 DEF RowsGated, OwnLine
    <2>4. MoneyGate'
        <3> SUFFICES ASSUME NEW c \in bookings', c.state = "live", c.unpaid = "no"
                     PROVE  Coverage(c.node, {"paid"})' + waived'[c.node] >= c.amount
            BY DEF MoneyGate
        <3>1. c \in bookings /\ c.id # req[w].id
            BY <2>2
        <3>2. c.node # d.node
            BY <2>1, <3>1 DEF GateInv, RowsGated
        <3>3. \A l \in Lines : l.id = req[w].line => l.node # c.node
            BY <2>1, <3>2 DEF GateInv, RowsGated, OwnLine
        <3>4. CountedLines(c.node, {"paid"})' = CountedLines(c.node, {"paid"})
            BY <1>1, <1>4, <3>3 DEF CountedLines, Counted, LinesOn
        <3>5. c.node \in Nodes /\ Held(c.node) >= c.amount
            BY <3>1 DEF GateInv, MoneyGate, RowsGated, Held, Paid
        <3>6. Held(c.node)' >= c.amount
            BY <1>1, <3>4, <3>5, SameHeld
        <3>7. QED
            BY <3>6 DEF Held, Paid
    <2>5. QED
        BY <1>2, <2>3, <2>4 DEF GateInv
<1>5. QED
    BY <1>3, <1>4 DEF Cancel

\* The other steps of a request change what it is doing, and no row.
LEMMA RequestKeepsGate ==
    ASSUME NEW w, Workers = {w}, OperatorInv, GateInv(w),
           \/ Reserve(w) \/ Confirm(w) \/ Abort(w)
           \/ \E n \in Nodes : ConfirmationLoad(w, n) \/ CancelLoad(w, n)
           \/ RecordConfirmation(w) \/ CancelOrder(w) \/ NothingToRefund(w) \/ RefundRefused(w)
           \/ \E back \in {"refunded", "voided"} : Refund(w, back) \/ RefundUnanswered(w, back)
    PROVE  GateInv(w)'
<1>1. UNCHANGED <<bookings, reversed, waived, quote, invoice>>
    BY DEF Reserve, Confirm, Abort, ConfirmationLoad, CancelLoad, RecordConfirmation, CancelOrder,
           NothingToRefund, RefundRefused, Refund, RefundUnanswered, ledger
<1>2. Keeping
    <2>1. Typed'
        BY <1>1 DEF Typed, GateInv
    <2>2. QED
        BY <1>1, <2>1, KeepingLedger DEF GateInv
<1>3. CASE Reserve(w) \/ Confirm(w) \/ Abort(w)
    <2>1. /\ Placing(w) /\ req'[w].pc \in {"idle", "confirm", "abort", "book"}
          /\ req'[w].pc # "idle" => /\ req'[w].node = req[w].node /\ req'[w].line = req[w].line
                                    /\ req'[w].amount = req[w].amount /\ req'[w].unpaid = req[w].unpaid
        <3>1. /\ req[w].pc \in {"reserve", "confirm", "abort"}
              /\ End(w) \/ \E pc \in {"confirm", "abort", "book"} : Go(w, pc)
            BY <1>3 DEF Reserve, Confirm, Abort
        <3>2. CASE End(w)
            BY <3>1, <3>2 DEF End, NoReq, Placing, OperatorInv, ReqShape
        <3>3. ASSUME NEW pc \in {"confirm", "abort", "book"}, Go(w, pc)
              PROVE  /\ req'[w].pc = pc /\ req'[w].node = req[w].node /\ req'[w].line = req[w].line
                     /\ req'[w].amount = req[w].amount /\ req'[w].unpaid = req[w].unpaid
            BY <3>3 DEF Go, OperatorInv, ReqShape
        <3>4. QED
            BY <3>1, <3>2, <3>3 DEF Placing
    <2>2. QED
        BY <1>2, <2>1, KeepingStep DEF Placing, GivingUp
<1>4. ASSUME NEW n \in Nodes, ConfirmationLoad(w, n) \/ CancelLoad(w, n) PROVE GateInv(w)'
    <2>1. PICK b \in bookings, pc \in {"advance", "unsupply", "refund"} : b.state = "live" /\ RequestOn(w, b, pc)
        BY <1>4 DEF ConfirmationLoad, CancelLoad, Live
    <2>2. /\ req'[w].pc = pc /\ req'[w].id = b.id /\ req'[w].node = b.node /\ req'[w].line = b.line
        BY <2>1 DEF RequestOn, OperatorInv, ReqShape
    <2>3. QED
        BY <1>2, <2>1, <2>2, KeepingStep DEF Placing, GivingUp
<1>5. CASE RecordConfirmation(w)
    <2>1. req'[w].pc = "idle"
        BY <1>5 DEF RecordConfirmation, End, NoReq, OperatorInv, ReqShape
    <2>2. QED
        BY <1>2, <2>1, KeepingStep DEF Placing, GivingUp
<1>6. CASE \/ CancelOrder(w) \/ NothingToRefund(w) \/ RefundRefused(w)
           \/ \E back \in {"refunded", "voided"} : Refund(w, back) \/ RefundUnanswered(w, back)
    <2>1. /\ GivingUp(w) /\ req'[w].pc \in {"idle", "refund", "cancel"}
          /\ req'[w].pc # "idle" => /\ req'[w].id = req[w].id /\ req'[w].node = req[w].node
                                    /\ req'[w].line = req[w].line
        <3>1. /\ GivingUp(w)
              /\ End(w) \/ Go(w, "refund") \/ \E back \in {"none", "refunded", "voided"} : ToCancel(w, back)
            BY <1>6 DEF CancelOrder, NothingToRefund, RefundRefused, Refund, RefundUnanswered, GivingUp
        <3>2. CASE End(w)
            BY <3>1, <3>2 DEF End, NoReq, OperatorInv, ReqShape
        <3>3. CASE Go(w, "refund")
            BY <3>1, <3>3 DEF Go, OperatorInv, ReqShape
        <3>4. ASSUME NEW back \in {"none", "refunded", "voided"}, ToCancel(w, back)
              PROVE  /\ req'[w].pc = "cancel" /\ req'[w].id = req[w].id /\ req'[w].node = req[w].node
                     /\ req'[w].line = req[w].line
            BY <3>4 DEF ToCancel, OperatorInv, ReqShape
        <3>5. QED
            BY <3>1, <3>2, <3>3, <3>4
    <2>2. QED
        BY <1>2, <2>1, KeepingStep DEF Placing, GivingUp
<1>7. QED
    BY <1>3, <1>4, <1>5, <1>6

LEMMA NextGate ==
    ASSUME NEW w, Workers = {w}, OperatorInv, GateInv(w), [Next]_vars
    PROVE  GateInv(w)'
<1>1. CASE UNCHANGED vars
    <2>1. UNCHANGED <<bookings, reversed, waived, quote, invoice, req>>
        BY <1>1 DEF vars
    <2>2. Keeping
        <3>1. Typed'
            BY <2>1 DEF Typed, GateInv
        <3>2. QED
            BY <2>1, <3>1, KeepingLedger DEF GateInv
    <2>3. QED
        BY <2>1, <2>2, KeepingStep DEF Placing, GivingUp
<1>2. CASE Next
    BY <1>2, SurroundingsKeepGate, BookLoadKeepsGate, BookKeepsGate, CancelKeepsGate, RequestKeepsGate
       DEF Next, BookStep, CancelStep
<1>3. QED
    BY <1>1, <1>2

\* "Pay before book": while requests come one at a time, a booking made without an override stays
\* covered by paid lines for as long as it lives, but for the discounts on its node that were paid for
\* after its gate: nothing that is billed, cancelled, refunded or re-quoted meanwhile takes cover away.
THEOREM BookingMoneyGate ==
    ASSUME NEW w, Workers = {w}
    PROVE  Spec => []MoneyGate
<1>1. Init => GateInv(w)
    <2> SUFFICES ASSUME Init PROVE GateInv(w)
        OBVIOUS
    <2>1. Typed /\ bookings = {} /\ req[w].pc = "idle"
        BY DEF Init, Typed, NoReq
    <2>2. QED
        BY <2>1 DEF GateInv, RowsGated, Gated, GivesUpLive, Placing, GivingUp, MoneyGate
<1>2. OperatorInv /\ GateInv(w) /\ [Next]_vars => GateInv(w)'
    BY NextGate
<1>3. GateInv(w) => MoneyGate
    BY DEF GateInv
<1>4. QED
    BY <1>1, <1>2, <1>3, InitOperatorInv, NextOperatorInv, PTL DEF Spec
=============================================================================
