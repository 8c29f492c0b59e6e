------------------------- MODULE TradingBooksProofs -------------------------
(***************************************************************************)
(* BooksInv is an inductive invariant of TradingBooks, for every policy,   *)
(* every set of signals and exits and every assignment of tokens.          *)
(***************************************************************************)
EXTENDS TradingBooks, SumTheorems

\* The two sets the limits count are finite.
LEMMA FiniteStakes ==
  /\ IsFiniteSet(OpenPositions) /\ Cardinality(OpenPositions) \in Nat
  /\ IsFiniteSet(PendingBuys) /\ Cardinality(PendingBuys) \in Nat
<1>1. OpenPositions \in SUBSET Signals /\ PendingBuys \in SUBSET Signals
  BY DEF OpenPositions, PendingBuys
<1> QED BY <1>1, FS_Subset, FS_CardinalityType, UniverseAssumption

\* Policy fields are positive naturals, fees are bounded, prices are naturals.
LEMMA Numbers ==
  /\ EntryUsdc \in Nat /\ EntryUsdc > 0
  /\ MaxPositions \in Nat /\ MaxExposure \in Nat /\ MinSol \in Nat /\ MaxFee \in Nat
  /\ MaxFee > 0
  /\ InitialUsdc \in Nat /\ InitialSol \in Nat
  /\ \A a \in Amounts : a \in Nat /\ a > 0
  /\ \A f \in Fees : f \in Nat /\ f <= MaxFee
  /\ \A f \in FailureFees : f \in Nat /\ f <= MaxFee
  /\ \A g \in GasCosts : g \in Nat
  /\ \A g \in FailureGas : g \in Nat
<1>1. \A f \in Fees : f \in Nat /\ f <= MaxFee
  BY PolicyAssumption, AmountAssumption
<1>2. \A f \in FailureFees : f \in Nat /\ f <= MaxFee
  BY <1>1, PolicyAssumption DEF FailureFees
<1>3. \A g \in FailureGas : g \in Nat
  BY AmountAssumption DEF FailureGas
<1> QED BY <1>1, <1>2, <1>3, PolicyAssumption, AmountAssumption

LEMMA InitBooksInv == BooksInit => BooksInv
<1> SUFFICES ASSUME BooksInit PROVE BooksInv
  OBVIOUS
<1> USE DEF BooksInit
<1>1. OpenPositions = {} /\ PendingBuys = {}
  BY DEF OpenPositions, PendingBuys, IsActive, OrderIds, Unresolved, NoOrder, NoPosition
<1>2. Cardinality(OpenPositions) = 0 /\ Cardinality(PendingBuys) = 0
  BY <1>1, FS_EmptySet
<1>3. BooksTypeOK
  BY Numbers DEF BooksTypeOK, Account, Order, Position, Row, NoOrder, NoPosition, NoRow,
                 SignalStates, OrderIds
<1>4. OrderShape /\ CostIsEntry /\ RowsAreResolved
  BY DEF OrderShape, CostIsEntry, RowsAreResolved, OrderIds, NoOrder, NoPosition
<1>5. OnePendingPerMint /\ OneStakePerMint /\ ExitsMatchPositions
  BY <1>1 DEF OnePendingPerMint, OneStakePerMint, ExitsMatchPositions, Stakes, IsActive,
              OrderIds, NoOrder, Unresolved
<1>6. ReservationExact /\ LimitsHold
  BY <1>2, Numbers DEF ReservationExact, LimitsHold
<1>7. GasCovers
  <2>1. ASSUME NEW f \in 0..MaxFee
        PROVE  InitialSol + MaxPositions * f >= MinSol + GasOwed * f
    <3>1. GasOwed = 0
      BY <1>2 DEF GasOwed
    <3>2. MaxPositions * f \in Nat /\ GasOwed * f = 0
      BY <3>1, Numbers
    <3> QED BY <3>1, <3>2, Numbers, PolicyAssumption
  <2> QED BY <2>1 DEF GasCovers
<1> QED BY <1>3, <1>4, <1>5, <1>6, <1>7 DEF BooksInv

-----------------------------------------------------------------------------
\* Steps that touch neither orders, positions' status nor money.
LEMMA SignalSteps ==
  ASSUME BooksInv, (\E new \in SUBSET Signals : Observe(new)) \/ (\E s \in Signals : Skip(s))
  PROVE  BooksInv'
<1> USE DEF Observe, Skip
<1>1. UNCHANGED <<acct, orders, positions, book>>
  OBVIOUS
<1>2. BooksTypeOK'
  BY <1>1 DEF BooksInv, BooksTypeOK, SignalStates
<1>3. OpenPositions' = OpenPositions /\ PendingBuys' = PendingBuys
  BY <1>1 DEF OpenPositions, PendingBuys, IsActive
<1> QED
  BY <1>1, <1>2, <1>3 DEF BooksInv, OrderShape, CostIsEntry, RowsAreResolved, OnePendingPerMint,
     ReservationExact, LimitsHold, OneStakePerMint, Stakes, ExitsMatchPositions, GasCovers,
     GasOwed, IsActive, OrderMint

LEMMA PauseSteps ==
  ASSUME BooksInv, NEW paused \in BOOLEAN, pause(paused)
  PROVE  BooksInv'
<1>1. /\ UNCHANGED <<signals, orders, positions, book>>
      /\ acct' \in Account
      /\ acct'.cash = acct.cash /\ acct'.reserved = acct.reserved /\ acct'.sol = acct.sol
  BY DEF pause, BooksInv, BooksTypeOK, Account
<1>2. BooksTypeOK'
  BY <1>1 DEF BooksInv, BooksTypeOK
<1>3. OpenPositions' = OpenPositions /\ PendingBuys' = PendingBuys
  BY <1>1 DEF OpenPositions, PendingBuys, IsActive
<1> QED
  BY <1>1, <1>2, <1>3 DEF BooksInv, OrderShape, CostIsEntry, RowsAreResolved, OnePendingPerMint,
     ReservationExact, LimitsHold, OneStakePerMint, Stakes, ExitsMatchPositions, GasCovers,
     GasOwed, IsActive, OrderMint

\* A reservation adds one pending buy, and the guards leave room for it.
LEMMA ReserveSteps ==
  ASSUME BooksInv, NEW s \in Signals, reserve_buy(s)
  PROVE  BooksInv'
<1> DEFINE new == [status |-> "queued", position |-> NoOwner,
                   input |-> EntryUsdc, reserved |-> EntryUsdc]
<1>a. /\ signals[s] = "observed" /\ CanReserve(s)
      /\ orders' = [orders EXCEPT ![s] = new]
      /\ acct' = [acct EXCEPT !.reserved = @ + EntryUsdc]
      /\ signals' = [signals EXCEPT ![s] = "ordered"]
      /\ positions' = positions /\ book' = book
  BY DEF reserve_buy
<1>b. /\ orders \in [OrderIds -> Order] /\ acct \in Account /\ s \in OrderIds
      /\ Signals \cap Exits = {}
  BY UniverseAssumption DEF BooksInv, BooksTypeOK, OrderIds
<1>c. orders'[s] = new /\ \A o \in OrderIds : o # s => orders'[o] = orders[o]
  BY <1>a, <1>b
<1>d. /\ IsActive(s)' /\ ~IsActive(s)
      /\ \A o \in OrderIds : o # s => (IsActive(o)' <=> IsActive(o))
  BY <1>a, <1>b, <1>c DEF CanReserve, IsActive, Unresolved
<1>e. PendingBuys' = PendingBuys \cup {s} /\ s \notin PendingBuys
  BY <1>d DEF PendingBuys, OrderIds
<1>f. OpenPositions' = OpenPositions
  BY <1>a DEF OpenPositions
<1>g. Cardinality(PendingBuys') = Cardinality(PendingBuys) + 1
  BY <1>e, FiniteStakes, FS_AddElement
<1>h. /\ acct'.cash = acct.cash /\ acct'.sol = acct.sol
      /\ acct'.reserved = acct.reserved + EntryUsdc
  BY <1>a, <1>b DEF Account
<1>i. \A o \in OrderIds : o # s => OrderMint(o)' = OrderMint(o)
  BY <1>a, <1>c DEF OrderMint
<1>j. OrderMint(s)' = MintOf[s] /\ OrderMint(s) = MintOf[s]
  BY DEF OrderMint
<1>1. BooksTypeOK'
  <2>1. acct' \in Account
    BY <1>a, <1>b, Numbers DEF Account
  <2>2. orders' \in [OrderIds -> Order]
    BY <1>a, <1>b, Numbers DEF Order, Unresolved
  <2> QED BY <1>a, <2>1, <2>2 DEF BooksInv, BooksTypeOK, SignalStates
<1>2. OrderShape'
  BY <1>b, <1>c DEF BooksInv, OrderShape
<1>3. CostIsEntry'
  BY <1>a, <1>c, <1>b DEF BooksInv, CostIsEntry, CanReserve, OrderIds
<1>4. RowsAreResolved'
  BY <1>a, <1>c, <1>b DEF BooksInv, RowsAreResolved, CanReserve, Resolved
<1>5. OnePendingPerMint'
  <2>1. \A o \in OrderIds : IsActive(o) => OrderMint(o) # MintOf[s]
    BY <1>a DEF CanReserve, PendingOn
  <2> QED BY <2>1, <1>d, <1>i, <1>j DEF BooksInv, OnePendingPerMint
<1>6. ReservationExact'
  BY <1>g, <1>h, Numbers, FiniteStakes DEF BooksInv, ReservationExact
<1>7. LimitsHold'
  <2>1. /\ Cardinality(OpenPositions) + Cardinality(PendingBuys) < MaxPositions
        /\ acct.cash - acct.reserved >= EntryUsdc
        /\ EntryUsdc * Cardinality(OpenPositions) + acct.reserved + EntryUsdc <= MaxExposure
    BY <1>a DEF CanReserve, SlotFree, OpenCost
  <2>2. acct.reserved = EntryUsdc * Cardinality(PendingBuys)
    BY DEF BooksInv, ReservationExact
  <2>3. acct.cash \in Nat /\ acct.reserved \in Nat
    BY <1>b DEF Account
  <2>4. acct'.reserved <= acct'.cash
    BY <2>1, <2>3, <1>h, Numbers
  <2>5. Cardinality(OpenPositions)' + Cardinality(PendingBuys)' <= MaxPositions
    BY <2>1, <1>f, <1>g, FiniteStakes, Numbers
  <2>6. EntryUsdc * (Cardinality(OpenPositions)' + Cardinality(PendingBuys)') <= MaxExposure
    BY <2>1, <2>2, <1>f, <1>g, FiniteStakes, Numbers
  <2> QED BY <2>4, <2>5, <2>6 DEF LimitsHold
<1>8. OneStakePerMint'
  <2>1. \A p \in Stakes : MintOf[p] # MintOf[s]
    BY <1>a DEF CanReserve, OpenOn, PendingOn, Stakes, PendingBuys, OrderMint, OrderIds
  <2>2. Stakes' = Stakes \cup {s}
    BY <1>e, <1>f DEF Stakes
  <2> QED BY <2>1, <2>2 DEF BooksInv, OneStakePerMint
<1>9. ExitsMatchPositions'
  BY <1>a, <1>b, <1>c, <1>d DEF BooksInv, ExitsMatchPositions, OrderIds
<1>10. GasCovers'
  <2> SUFFICES ASSUME Mode = "paper", NEW f \in 0..MaxFee, NoneAbove(f)
               PROVE  acct'.sol + MaxPositions * f >= MinSol + GasOwed' * f
    BY DEF GasCovers, NoneAbove
  <2> DEFINE P == Cardinality(PendingBuys)
             O == Cardinality(OpenPositions)
  <2>1. P \in Nat /\ O \in Nat /\ acct.sol \in Nat /\ f \in Nat /\ f <= MaxFee
    BY FiniteStakes, <1>b, Numbers DEF Account
  <2>2. O + P + 1 <= MaxPositions
    BY <1>a, <2>1, Numbers DEF CanReserve, SlotFree
  <2>3. acct.sol >= MinSol + (P + 1) * MaxFee
    BY <1>a DEF CanReserve, GasAtHand
  <2>4. GasOwed' = 2 * (P + 1) + O
    BY <1>f, <1>g DEF GasOwed
  <2> HIDE DEF P, O
  <2>5. (P + 1) * MaxFee >= (P + 1) * f
    BY <2>1, Numbers
  <2>6. MaxPositions * f >= (O + P + 1) * f
    BY <2>1, <2>2, Numbers
  <2>7. (2 * (P + 1) + O) * f = (P + 1) * f + (O + P + 1) * f
    BY <2>1
  <2>8. /\ (P + 1) * f \in Int /\ (O + P + 1) * f \in Int /\ MaxPositions * f \in Int
        /\ (P + 1) * MaxFee \in Int
    BY <2>1, Numbers
  <2>9. acct.sol + MaxPositions * f >= MinSol + (2 * (P + 1) + O) * f
    BY <2>1, <2>3, <2>5, <2>6, <2>7, <2>8, Numbers
  <2> QED BY <2>4, <2>9, <1>h
<1> QED BY <1>1, <1>2, <1>3, <1>4, <1>5, <1>6, <1>7, <1>8, <1>9, <1>10 DEF BooksInv

\* An exit is queued for an open position that has no pending order.
LEMMA QueueExitSteps ==
  ASSUME BooksInv, NEW p \in Signals, NEW e \in Exits, queue_exit(p, e)
  PROVE  BooksInv'
<1> DEFINE new == [status |-> "queued", position |-> p,
                   input |-> positions[p].quantity, reserved |-> 0]
<1>a. /\ positions[p].status = "open" /\ orders[e].status = "none" /\ ~PendingOn(MintOf[p])
      /\ orders' = [orders EXCEPT ![e] = new]
      /\ acct' = acct /\ signals' = signals /\ positions' = positions /\ book' = book
  BY DEF queue_exit
<1>b. /\ orders \in [OrderIds -> Order] /\ positions \in [Signals -> Position]
      /\ e \in OrderIds /\ e \notin Signals
  BY UniverseAssumption DEF BooksInv, BooksTypeOK, OrderIds
<1>c. orders'[e] = new /\ \A o \in OrderIds : o # e => orders'[o] = orders[o]
  BY <1>a, <1>b
<1>d. /\ IsActive(e)' /\ ~IsActive(e)
      /\ \A o \in OrderIds : o # e => (IsActive(o)' <=> IsActive(o))
  BY <1>a, <1>b, <1>c DEF IsActive, Unresolved
<1>e. PendingBuys' = PendingBuys /\ OpenPositions' = OpenPositions
  BY <1>a, <1>b, <1>d DEF PendingBuys, OpenPositions, OrderIds
<1>f. \A o \in OrderIds : o # e => OrderMint(o)' = OrderMint(o)
  BY <1>a, <1>c DEF OrderMint
<1>g. OrderMint(e)' = MintOf[p]
  BY <1>b, <1>c DEF OrderMint
<1>1. BooksTypeOK'
  <2>1. orders' \in [OrderIds -> Order]
    BY <1>a, <1>b DEF Order, Unresolved, Position
  <2> QED BY <1>a, <2>1 DEF BooksInv, BooksTypeOK
<1>2. OrderShape'
  BY <1>b, <1>c DEF BooksInv, OrderShape
<1>3. CostIsEntry' /\ RowsAreResolved'
  BY <1>a, <1>b, <1>c DEF BooksInv, CostIsEntry, RowsAreResolved, OrderIds, Resolved
<1>4. OnePendingPerMint'
  <2>1. \A o \in OrderIds : IsActive(o) => OrderMint(o) # MintOf[p]
    BY <1>a DEF PendingOn
  <2> QED BY <2>1, <1>d, <1>f, <1>g DEF BooksInv, OnePendingPerMint
<1>5. ReservationExact' /\ LimitsHold' /\ OneStakePerMint' /\ GasCovers'
  BY <1>a, <1>e DEF BooksInv, ReservationExact, LimitsHold, OneStakePerMint, Stakes, GasCovers,
     GasOwed
<1>6. ExitsMatchPositions'
  BY <1>a, <1>b, <1>c, <1>d DEF BooksInv, ExitsMatchPositions, OrderIds
<1> QED BY <1>1, <1>2, <1>3, <1>4, <1>5, <1>6 DEF BooksInv

\* The steps of a live order between its insert and its resolution.
LEMMA MarkSteps ==
  ASSUME BooksInv, NEW o \in OrderIds, MarkPrepared(o) \/ MarkChecking(o) \/ MarkReview(o)
  PROVE  BooksInv'
<1> PICK st \in {"prepared", "checking"} : orders' = [orders EXCEPT ![o].status = st]
  BY DEF MarkPrepared, MarkChecking, MarkReview
<1>a. /\ IsActive(o) /\ signals' = signals /\ positions' = positions /\ book' = book
      /\ acct \in Account /\ acct' \in Account
      /\ acct'.cash = acct.cash /\ acct'.reserved = acct.reserved /\ acct'.sol = acct.sol
  BY DEF MarkPrepared, MarkChecking, MarkReview, IsActive, Unresolved, BooksInv, BooksTypeOK, Account
<1>b. orders \in [OrderIds -> Order]
  BY DEF BooksInv, BooksTypeOK
<1>c. /\ \A r \in OrderIds : r # o => orders'[r] = orders[r]
      /\ orders'[o].status = st /\ orders'[o].position = orders[o].position
      /\ orders'[o].input = orders[o].input /\ orders'[o].reserved = orders[o].reserved
  BY <1>b DEF Order
<1>d. \A r \in OrderIds : (IsActive(r)' <=> IsActive(r)) /\ OrderMint(r)' = OrderMint(r)
  BY <1>a, <1>c DEF IsActive, Unresolved, OrderMint
<1>e. PendingBuys' = PendingBuys /\ OpenPositions' = OpenPositions
  BY <1>a, <1>d DEF PendingBuys, OpenPositions, OrderIds
<1>1. BooksTypeOK'
  <2>1. orders' \in [OrderIds -> Order]
    BY <1>b DEF Order, Unresolved
  <2> QED BY <1>a, <2>1 DEF BooksInv, BooksTypeOK
<1>2. OrderShape'
  BY <1>a, <1>c DEF BooksInv, OrderShape, IsActive, Unresolved
<1>3. CostIsEntry'
  BY <1>a, <1>c DEF BooksInv, CostIsEntry, IsActive, Unresolved, OrderIds
<1>4. RowsAreResolved'
  BY <1>a, <1>c DEF BooksInv, RowsAreResolved, IsActive, Unresolved, Resolved
<1>5. OnePendingPerMint'
  BY <1>d DEF BooksInv, OnePendingPerMint
<1>6. ReservationExact' /\ LimitsHold' /\ OneStakePerMint' /\ GasCovers'
  BY <1>a, <1>e DEF BooksInv, ReservationExact, LimitsHold, OneStakePerMint, Stakes, GasCovers,
     GasOwed
<1>7. ExitsMatchPositions'
  BY <1>a, <1>c, <1>d DEF BooksInv, ExitsMatchPositions, OrderIds
<1> QED BY <1>1, <1>2, <1>3, <1>4, <1>5, <1>6, <1>7 DEF BooksInv

\* The operator's exit request only sets a flag of an open position.
LEMMA RequestExitSteps ==
  ASSUME BooksInv, NEW p \in Signals, RequestExit(p)
  PROVE  BooksInv'
<1>a. /\ positions' = [positions EXCEPT ![p].exit_requested = TRUE]
      /\ acct' = acct /\ signals' = signals /\ orders' = orders /\ book' = book
      /\ positions \in [Signals -> Position]
  BY DEF RequestExit, BooksInv, BooksTypeOK
<1>b. \A q \in Signals : /\ positions'[q].status = positions[q].status
                         /\ positions'[q].quantity = positions[q].quantity
                         /\ positions'[q].cost = positions[q].cost
  BY <1>a DEF Position
<1>c. OpenPositions' = OpenPositions /\ PendingBuys' = PendingBuys
  BY <1>a, <1>b DEF OpenPositions, PendingBuys, IsActive
<1>1. BooksTypeOK'
  <2>1. positions' \in [Signals -> Position]
    BY <1>a DEF Position
  <2> QED BY <1>a, <2>1 DEF BooksInv, BooksTypeOK
<1>2. ExitsMatchPositions'
  BY <1>a, <1>b DEF BooksInv, ExitsMatchPositions, OrderShape, IsActive, Unresolved, OrderIds
<1>3. CostIsEntry'
  BY <1>a, <1>b DEF BooksInv, CostIsEntry
<1> QED
  BY <1>a, <1>1, <1>2, <1>3, <1>c DEF BooksInv, OrderShape, RowsAreResolved, OnePendingPerMint,
     ReservationExact, LimitsHold, OneStakePerMint, Stakes, GasCovers, GasOwed,
     IsActive, OrderMint

-----------------------------------------------------------------------------
\* What every settlement does to the books: one active order resolves, its
\* reservation goes, and its row is the only one written.
Settles(o, status, cash, fee, gas, realized, row) ==
  /\ IsActive(o)
  /\ status \in Resolved
  /\ orders' = [orders EXCEPT ![o].status = status]
  /\ acct' = Settled(o, cash, fee, gas, realized)
  /\ AccountCheck(acct')
  /\ row \in Row
  /\ book' = [book EXCEPT ![o] = row]

SettlementEffect(o, status, cash, fee) ==
  /\ acct' \in Account /\ orders' \in [OrderIds -> Order] /\ book' \in [OrderIds -> Row]
  /\ orders'[o].status = status
  /\ \A r \in OrderIds : r # o => orders'[r] = orders[r]
  /\ \A r \in OrderIds : /\ IsActive(r)' <=> IsActive(r) /\ r # o
                         /\ OrderMint(r)' = OrderMint(r)
                         /\ orders'[r].input = orders[r].input
                         /\ orders'[r].position = orders[r].position
  /\ PendingBuys' = PendingBuys \ {o}
  /\ acct'.cash = acct.cash + cash /\ acct'.sol = acct.sol - fee
  /\ acct'.reserved = acct.reserved - orders[o].reserved
  /\ acct'.reserved <= acct'.cash
  /\ OrderShape' /\ RowsAreResolved' /\ OnePendingPerMint' /\ ReservationExact'

LEMMA SettlementFacts ==
  ASSUME BooksInv, NEW o \in OrderIds, NEW status, NEW cash \in Int, NEW fee \in Nat,
         NEW gas \in Nat, NEW realized \in Int, NEW row,
         Settles(o, status, cash, fee, gas, realized, row)
  PROVE  SettlementEffect(o, status, cash, fee)
<1>a. /\ orders \in [OrderIds -> Order] /\ acct \in Account /\ book \in [OrderIds -> Row]
      /\ Signals \cap Exits = {}
  BY UniverseAssumption DEF BooksInv, BooksTypeOK
<1>b. /\ IsActive(o) /\ status \in Resolved
      /\ orders' = [orders EXCEPT ![o].status = status]
      /\ book' = [book EXCEPT ![o] = row] /\ row \in Row
  BY DEF Settles
<1>1. /\ orders' \in [OrderIds -> Order] /\ book' \in [OrderIds -> Row]
  BY <1>a, <1>b DEF Order
<1>2. /\ orders'[o].status = status
      /\ \A r \in OrderIds : r # o => orders'[r] = orders[r]
      /\ \A r \in OrderIds : /\ orders'[r].input = orders[r].input
                             /\ orders'[r].reserved = orders[r].reserved
                             /\ orders'[r].position = orders[r].position
  BY <1>a, <1>b DEF Order
<1>3. \A r \in OrderIds : /\ IsActive(r)' <=> IsActive(r) /\ r # o
                         /\ OrderMint(r)' = OrderMint(r)
  BY <1>b, <1>2 DEF IsActive, Unresolved, Resolved, OrderMint
<1>4. PendingBuys' = PendingBuys \ {o}
  BY <1>3 DEF PendingBuys, OrderIds
<1>5. /\ acct'.cash = acct.cash + cash /\ acct'.sol = acct.sol - fee
      /\ acct'.reserved = acct.reserved - orders[o].reserved
      /\ acct'.gas = acct.gas + gas /\ acct'.realized = acct.realized + realized
      /\ acct'.paused = acct.paused
      /\ acct' = [cash |-> acct'.cash, reserved |-> acct'.reserved, sol |-> acct'.sol,
                  gas |-> acct'.gas, realized |-> acct'.realized, paused |-> acct'.paused]
  BY <1>a DEF Settles, Settled, Account
<1>6. acct'.cash >= 0 /\ acct'.reserved >= 0 /\ acct'.sol >= 0 /\ acct'.reserved <= acct'.cash
  BY DEF Settles, AccountCheck
<1>7. acct' \in Account
  <2>1. /\ acct.cash \in Nat /\ acct.reserved \in Nat /\ acct.sol \in Nat /\ acct.gas \in Nat
        /\ acct.realized \in Int /\ acct.paused \in BOOLEAN /\ orders[o].reserved \in Nat
    BY <1>a DEF Account, Order
  <2>2. /\ acct'.cash \in Nat /\ acct'.reserved \in Nat /\ acct'.sol \in Nat /\ acct'.gas \in Nat
        /\ acct'.realized \in Int /\ acct'.paused \in BOOLEAN
    BY <1>5, <1>6, <2>1
  <2> QED BY <1>5, <2>2 DEF Account
<1>8. OrderShape'
  BY <1>a, <1>b, <1>2 DEF BooksInv, OrderShape, IsActive, Unresolved, Resolved
<1>9. RowsAreResolved'
  BY <1>a, <1>b, <1>2 DEF BooksInv, RowsAreResolved
<1>10. OnePendingPerMint'
  BY <1>3 DEF BooksInv, OnePendingPerMint
<1>11. ReservationExact'
  <2>1. acct.reserved = EntryUsdc * Cardinality(PendingBuys) /\ acct.reserved \in Nat
    BY <1>a DEF BooksInv, ReservationExact, Account
  <2>2. CASE o \in Signals
    <3>1. orders[o].reserved = EntryUsdc /\ o \in PendingBuys
      BY <2>2, <1>b DEF BooksInv, OrderShape, IsActive, Unresolved, PendingBuys
    <3>2. Cardinality(PendingBuys') = Cardinality(PendingBuys) - 1
      BY <3>1, <1>4, FiniteStakes, FS_RemoveElement
    <3> QED BY <2>1, <3>1, <3>2, <1>5, FiniteStakes, Numbers DEF ReservationExact
  <2>3. CASE o \notin Signals
    <3>1. orders[o].reserved = 0 /\ PendingBuys' = PendingBuys
      BY <2>3, <1>b, <1>4 DEF BooksInv, OrderShape, IsActive, Unresolved, PendingBuys
    <3> QED BY <2>1, <3>1, <1>5 DEF ReservationExact
  <2> QED BY <2>2, <2>3
<1> QED BY <1>1, <1>2, <1>3, <1>4, <1>5, <1>6, <1>7, <1>8, <1>9, <1>10, <1>11
       DEF SettlementEffect

\* Removing an order from the pending buys never breaks the limits.
LEMMA FewerPending ==
  ASSUME NEW o
  PROVE  /\ IsFiniteSet(PendingBuys \ {o})
         /\ Cardinality(PendingBuys \ {o}) \in Nat
         /\ Cardinality(PendingBuys \ {o}) <= Cardinality(PendingBuys)
         /\ o \in PendingBuys => Cardinality(PendingBuys \ {o}) = Cardinality(PendingBuys) - 1
<1>1. /\ IsFiniteSet(PendingBuys \ {o})
      /\ Cardinality(PendingBuys \ {o}) =
           IF o \in PendingBuys THEN Cardinality(PendingBuys) - 1 ELSE Cardinality(PendingBuys)
  BY FiniteStakes, FS_RemoveElement
<1>2. Cardinality(PendingBuys \ {o}) \in Nat
  BY <1>1, FS_CardinalityType
<1> QED BY <1>1, <1>2, FiniteStakes

LEMMA FailSteps ==
  ASSUME BooksInv, NEW o \in OrderIds, NEW fee \in FailureFees, NEW gas \in FailureGas,
         fail_order(o, fee, gas)
  PROVE  BooksInv'
<1>a. fee \in Nat /\ gas \in Nat
  BY Numbers
<1>b. FailedRow(fee, gas) \in Row
  BY <1>a DEF FailedRow, Row
<1>c. Settles(o, "failed", 0, fee, gas, 0, FailedRow(fee, gas))
  <2>1. acct' = Settled(o, 0, fee, gas, 0) /\ AccountCheck(Settled(o, 0, fee, gas, 0))
    BY DEF fail_order
  <2>2. AccountCheck(acct')
    BY <2>1 DEF AccountCheck
  <2> QED BY <1>b, <2>1, <2>2 DEF fail_order, Settles, Resolved
<1>d. positions' = positions /\ OpenPositions' = OpenPositions
  BY DEF fail_order, OpenPositions
<1>s. /\ acct' \in Account /\ orders' \in [OrderIds -> Order] /\ book' \in [OrderIds -> Row]
      /\ \A r \in OrderIds : r # o => orders'[r] = orders[r]
      /\ \A r \in OrderIds : /\ IsActive(r)' <=> IsActive(r) /\ r # o
                             /\ orders'[r].input = orders[r].input
                             /\ orders'[r].position = orders[r].position
      /\ PendingBuys' = PendingBuys \ {o}
      /\ acct'.sol = acct.sol - fee /\ acct'.reserved <= acct'.cash
      /\ OrderShape' /\ RowsAreResolved' /\ OnePendingPerMint' /\ ReservationExact'
  <2>1. SettlementEffect(o, "failed", 0, fee)
    BY <1>a, <1>b, <1>c, SettlementFacts
  <2> QED BY <2>1 DEF SettlementEffect
<1>1. BooksTypeOK'
  <2>1. signals' \in [Signals -> SignalStates]
    BY DEF fail_order, BooksInv, BooksTypeOK, SignalStates
  <2> QED BY <1>s, <1>d, <2>1 DEF BooksInv, BooksTypeOK
<1>2. CostIsEntry'
  <2>1. IsActive(o)
    BY DEF fail_order
  <2> QED BY <2>1, <1>d, <1>s DEF BooksInv, CostIsEntry, IsActive, Unresolved, OrderIds
<1>3. LimitsHold'
  <2>1. Cardinality(PendingBuys') <= Cardinality(PendingBuys) /\ Cardinality(PendingBuys') \in Nat
    BY <1>s, FewerPending
  <2>2. EntryUsdc * (Cardinality(OpenPositions) + Cardinality(PendingBuys'))
          <= EntryUsdc * (Cardinality(OpenPositions) + Cardinality(PendingBuys))
    BY <2>1, FiniteStakes, Numbers
  <2> QED BY <2>1, <2>2, <1>s, <1>d, FiniteStakes, Numbers DEF BooksInv, LimitsHold
<1>4. OneStakePerMint'
  BY <1>s, <1>d DEF BooksInv, OneStakePerMint, Stakes
<1>5. ExitsMatchPositions'
  BY <1>s, <1>d DEF BooksInv, ExitsMatchPositions, OrderIds
<1>6. GasCovers'
  <2> SUFFICES ASSUME Mode = "paper", NEW f \in 0..MaxFee, NoneAbove(f)
               PROVE  acct'.sol + MaxPositions * f >= MinSol + GasOwed' * f
    BY DEF GasCovers, NoneAbove
  <2> DEFINE P == Cardinality(PendingBuys)
             O == Cardinality(OpenPositions)
             Q == Cardinality(PendingBuys')
  <2>1. /\ acct.sol + MaxPositions * f >= MinSol + (2 * P + O) * f
        /\ acct.sol \in Nat /\ P \in Nat /\ O \in Nat /\ f \in Nat
    BY FiniteStakes, Numbers DEF BooksInv, GasCovers, GasOwed, BooksTypeOK, Account
  <2>2. acct'.sol = acct.sol
    BY <1>s, <2>1 DEF FailureFees
  <2>3. Q <= P /\ Q \in Nat
    BY <1>s, FewerPending
  <2>4. GasOwed' = 2 * Q + O
    BY <1>d DEF GasOwed
  <2> HIDE DEF P, O, Q
  <2>5. (2 * Q + O) * f <= (2 * P + O) * f
    BY <2>1, <2>3
  <2>6. (2 * Q + O) * f \in Int /\ (2 * P + O) * f \in Int /\ MaxPositions * f \in Int
    BY <2>1, <2>3, Numbers
  <2> QED BY <2>1, <2>2, <2>4, <2>5, <2>6, Numbers
<1> QED BY <1>1, <1>2, <1>3, <1>4, <1>5, <1>6, <1>s DEF BooksInv

\* A filled buy turns a pending stake into an open one: the limits count both.
LEMMA FillBuySteps ==
  ASSUME BooksInv, NEW s \in Signals, NEW input \in Amounts, NEW output \in Amounts,
         NEW fee \in Fees, NEW gas \in GasCosts, FillBuy(s, input, output, fee, gas)
  PROVE  BooksInv'
<1> DEFINE new == [status |-> "open", quantity |-> output, cost |-> input,
                   entry_fee |-> gas, exit_requested |-> FALSE]
<1>a. /\ fee \in Nat /\ fee <= MaxFee /\ gas \in Nat /\ input \in Nat /\ output \in Nat
      /\ -input \in Int /\ s \in OrderIds
  BY Numbers DEF OrderIds
<1>b. BuyRow(input, output, fee, gas) \in Row
  BY <1>a DEF BuyRow, Row
<1>c. Settles(s, "filled", -input, fee, gas, 0, BuyRow(input, output, fee, gas))
  <2>1. acct' = Settled(s, -input, fee, gas, 0) /\ AccountCheck(Settled(s, -input, fee, gas, 0))
    BY DEF FillBuy
  <2>2. AccountCheck(acct')
    BY <2>1 DEF AccountCheck
  <2> QED BY <1>b, <2>1, <2>2 DEF FillBuy, Settles, Resolved
<1>s. /\ acct' \in Account /\ orders' \in [OrderIds -> Order] /\ book' \in [OrderIds -> Row]
      /\ orders'[s].status = "filled"
      /\ \A r \in OrderIds : r # s => orders'[r] = orders[r]
      /\ \A r \in OrderIds : /\ IsActive(r)' <=> IsActive(r) /\ r # s
                             /\ orders'[r].input = orders[r].input
                             /\ orders'[r].position = orders[r].position
      /\ PendingBuys' = PendingBuys \ {s}
      /\ acct'.sol = acct.sol - fee /\ acct'.reserved <= acct'.cash
      /\ OrderShape' /\ RowsAreResolved' /\ OnePendingPerMint' /\ ReservationExact'
  <2>1. SettlementEffect(s, "filled", -input, fee)
    BY <1>a, <1>b, <1>c, SettlementFacts
  <2> QED BY <2>1 DEF SettlementEffect
<1>d. /\ IsActive(s) /\ input = orders[s].input /\ positions[s].status = "none"
      /\ positions \in [Signals -> Position]
      /\ positions' = [positions EXCEPT ![s] = new]
      /\ signals' = [signals EXCEPT ![s] = "entered"]
  BY DEF FillBuy, BooksInv, BooksTypeOK
<1>e. positions'[s] = new /\ \A q \in Signals : q # s => positions'[q] = positions[q]
  BY <1>d
<1>f. OpenPositions' = OpenPositions \cup {s} /\ s \notin OpenPositions /\ s \in PendingBuys
  BY <1>d, <1>e DEF OpenPositions, PendingBuys
<1>g. /\ Cardinality(OpenPositions') = Cardinality(OpenPositions) + 1
      /\ Cardinality(PendingBuys') = Cardinality(PendingBuys) - 1
  BY <1>f, <1>s, FiniteStakes, FS_AddElement, FS_RemoveElement
<1>1. BooksTypeOK'
  <2>1. positions' \in [Signals -> Position]
    BY <1>a, <1>d DEF Position
  <2>2. signals' \in [Signals -> SignalStates]
    BY <1>d DEF BooksInv, BooksTypeOK, SignalStates
  <2> QED BY <1>s, <2>1, <2>2 DEF BooksTypeOK
<1>2. CostIsEntry'
  <2>1. input = EntryUsdc
    BY <1>d, <1>a DEF BooksInv, OrderShape, IsActive, Unresolved
  <2> QED BY <2>1, <1>e, <1>s DEF BooksInv, CostIsEntry, OrderIds
<1>3. LimitsHold'
  BY <1>g, <1>s, FiniteStakes, Numbers DEF BooksInv, LimitsHold
<1>4. OneStakePerMint'
  <2>1. Stakes' = Stakes
    BY <1>f, <1>s DEF Stakes
  <2> QED BY <2>1 DEF BooksInv, OneStakePerMint
<1>5. ExitsMatchPositions'
  <2>1. \A e \in Exits : IsActive(e) => orders[e].position # s
    BY <1>d DEF BooksInv, ExitsMatchPositions
  <2>2. \A e \in Exits : IsActive(e) => orders[e].position \in Signals
    BY UniverseAssumption DEF BooksInv, OrderShape, IsActive, Unresolved, OrderIds
  <2> QED BY <2>1, <2>2, <1>e, <1>s DEF BooksInv, ExitsMatchPositions, OrderIds
<1>6. GasCovers'
  <2> SUFFICES ASSUME Mode = "paper", NEW f \in 0..MaxFee, NoneAbove(f)
               PROVE  acct'.sol + MaxPositions * f >= MinSol + GasOwed' * f
    BY DEF GasCovers, NoneAbove
  <2> DEFINE P == Cardinality(PendingBuys)
             O == Cardinality(OpenPositions)
  <2>1. /\ acct.sol + MaxPositions * f >= MinSol + (2 * P + O) * f
        /\ acct.sol \in Nat /\ P \in Nat /\ O \in Nat /\ f \in Nat
    BY FiniteStakes, Numbers DEF BooksInv, GasCovers, GasOwed, BooksTypeOK, Account
  <2>2. fee <= f
    BY DEF NoneAbove
  <2>3. GasOwed' = 2 * (P - 1) + (O + 1)
    BY <1>g DEF GasOwed
  <2> HIDE DEF P, O
  <2>4. (2 * (P - 1) + (O + 1)) * f = (2 * P + O) * f - f
    BY <2>1
  <2>5. (2 * P + O) * f \in Int /\ MaxPositions * f \in Int
    BY <2>1, Numbers
  <2> QED BY <2>1, <2>2, <2>3, <2>4, <2>5, <1>a, <1>s, Numbers
<1> QED BY <1>1, <1>2, <1>3, <1>4, <1>5, <1>6, <1>s DEF BooksInv

\* A filled sell closes the position its quantity was read from.
LEMMA FillSellSteps ==
  ASSUME BooksInv, NEW e \in Exits, NEW input \in Amounts, NEW output \in Amounts,
         NEW fee \in Fees, NEW gas \in GasCosts, FillSell(e, input, output, fee, gas)
  PROVE  BooksInv'
<1> DEFINE p == orders[e].position
           pnl == Realized(p, output, gas)
<1>a. /\ fee \in Nat /\ fee <= MaxFee /\ gas \in Nat /\ input \in Nat /\ output \in Nat
      /\ e \in OrderIds /\ e \notin Signals
  BY Numbers, UniverseAssumption DEF OrderIds
<1>d. /\ IsActive(e) /\ positions[p].status = "open"
      /\ positions' = [positions EXCEPT ![p].status = "closed"]
      /\ signals' = signals
      /\ positions \in [Signals -> Position] /\ orders \in [OrderIds -> Order]
  BY DEF FillSell, BooksInv, BooksTypeOK
<1>p. p \in Signals
  BY <1>a, <1>d DEF BooksInv, OrderShape, IsActive, Unresolved
<1>b. SellRow(input, output, fee, gas) \in Row /\ pnl \in Int
  <2>1. /\ positions[p].cost \in Nat /\ positions[p].entry_fee \in Nat
    BY <1>d, <1>p DEF Position
  <2> QED BY <1>a, <2>1 DEF SellRow, Row, Realized
<1>c. Settles(e, "filled", output, fee, gas, pnl, SellRow(input, output, fee, gas))
  <2>1. acct' = Settled(e, output, fee, gas, pnl) /\ AccountCheck(Settled(e, output, fee, gas, pnl))
    BY DEF FillSell
  <2>2. AccountCheck(acct')
    BY <2>1 DEF AccountCheck
  <2> QED BY <1>b, <2>1, <2>2 DEF FillSell, Settles, Resolved
<1>s. /\ acct' \in Account /\ orders' \in [OrderIds -> Order] /\ book' \in [OrderIds -> Row]
      /\ \A r \in OrderIds : r # e => orders'[r] = orders[r]
      /\ \A r \in OrderIds : /\ IsActive(r)' <=> IsActive(r) /\ r # e
                             /\ orders'[r].input = orders[r].input
                             /\ orders'[r].position = orders[r].position
      /\ PendingBuys' = PendingBuys \ {e}
      /\ acct'.sol = acct.sol - fee /\ acct'.reserved <= acct'.cash
      /\ OrderShape' /\ RowsAreResolved' /\ OnePendingPerMint' /\ ReservationExact'
  <2>0. output \in Int
    BY <1>a
  <2> HIDE DEF pnl
  <2>1. SettlementEffect(e, "filled", output, fee)
    BY <1>a, <1>b, <1>c, <2>0, SettlementFacts
  <2> QED BY <2>1 DEF SettlementEffect
<1>e. /\ positions'[p].status = "closed"
      /\ \A q \in Signals : q # p => positions'[q] = positions[q]
      /\ \A q \in Signals : positions'[q].cost = positions[q].cost
  BY <1>d, <1>p DEF Position
<1>f. OpenPositions' = OpenPositions \ {p} /\ p \in OpenPositions /\ PendingBuys' = PendingBuys
  BY <1>a, <1>d, <1>e, <1>p, <1>s DEF OpenPositions, PendingBuys
<1>g. Cardinality(OpenPositions') = Cardinality(OpenPositions) - 1
  BY <1>f, FiniteStakes, FS_RemoveElement
<1>1. BooksTypeOK'
  <2>1. positions' \in [Signals -> Position]
    BY <1>d, <1>p DEF Position
  <2> QED BY <1>s, <1>d, <2>1 DEF BooksInv, BooksTypeOK
<1>2. CostIsEntry'
  <2>1. \A q \in Signals : orders'[q] = orders[q]
    BY <1>a, <1>s DEF OrderIds
  <2> QED BY <2>1, <1>d, <1>e, <1>p DEF BooksInv, CostIsEntry
<1>3. LimitsHold'
  <2>1. /\ Cardinality(OpenPositions) \in Nat /\ Cardinality(PendingBuys) \in Nat
        /\ Cardinality(OpenPositions) + Cardinality(PendingBuys) <= MaxPositions
        /\ EntryUsdc * (Cardinality(OpenPositions) + Cardinality(PendingBuys)) <= MaxExposure
    BY FiniteStakes DEF BooksInv, LimitsHold
  <2>2. EntryUsdc * ((Cardinality(OpenPositions) - 1) + Cardinality(PendingBuys)) <= MaxExposure
    BY <2>1, Numbers
  <2> QED BY <2>1, <2>2, <1>f, <1>g, <1>s, Numbers DEF LimitsHold
<1>4. OneStakePerMint'
  BY <1>f DEF BooksInv, OneStakePerMint, Stakes
<1>5. ExitsMatchPositions'
  <2> SUFFICES ASSUME NEW x \in Exits, IsActive(x)'
               PROVE  /\ positions'[orders'[x].position].status = "open"
                      /\ orders'[x].input = positions'[orders'[x].position].quantity
    BY DEF ExitsMatchPositions
  <2>1. x \in OrderIds /\ x \notin Signals /\ IsActive(x) /\ x # e
    BY <1>s, UniverseAssumption DEF OrderIds
  <2>2. orders[x].position \in Signals
    BY <2>1 DEF BooksInv, OrderShape, IsActive, Unresolved
  <2>3. orders[x].position # p
    BY <2>1, <1>a, <1>d DEF BooksInv, OnePendingPerMint, OrderMint
  <2> QED BY <2>1, <2>2, <2>3, <1>e, <1>s DEF BooksInv, ExitsMatchPositions
<1>6. GasCovers'
  <2> SUFFICES ASSUME Mode = "paper", NEW f \in 0..MaxFee, NoneAbove(f)
               PROVE  acct'.sol + MaxPositions * f >= MinSol + GasOwed' * f
    BY DEF GasCovers, NoneAbove
  <2> DEFINE P == Cardinality(PendingBuys)
             O == Cardinality(OpenPositions)
  <2>1. /\ acct.sol + MaxPositions * f >= MinSol + (2 * P + O) * f
        /\ acct.sol \in Nat /\ P \in Nat /\ O \in Nat /\ f \in Nat
    BY FiniteStakes, Numbers DEF BooksInv, GasCovers, GasOwed, BooksTypeOK, Account
  <2>2. fee <= f
    BY DEF NoneAbove
  <2>3. GasOwed' = 2 * P + (O - 1)
    BY <1>f, <1>g DEF GasOwed
  <2> HIDE DEF P, O
  <2>4. (2 * P + (O - 1)) * f = (2 * P + O) * f - f
    BY <2>1
  <2>5. (2 * P + O) * f \in Int /\ MaxPositions * f \in Int
    BY <2>1, Numbers
  <2> QED BY <2>1, <2>2, <2>3, <2>4, <2>5, <1>a, <1>s, Numbers
<1> QED BY <1>1, <1>2, <1>3, <1>4, <1>5, <1>6, <1>s DEF BooksInv

-----------------------------------------------------------------------------
LEMMA NextBooksInv == BooksInv /\ [BooksNext]_booksVars => BooksInv'
<1> SUFFICES ASSUME BooksInv, [BooksNext]_booksVars PROVE BooksInv'
  OBVIOUS
<1>1. CASE (\E new \in SUBSET Signals : Observe(new)) \/ (\E s \in Signals : Skip(s))
  BY <1>1, SignalSteps
<1>2. CASE \E s \in Signals : reserve_buy(s)
  BY <1>2, ReserveSteps
<1>3. CASE \E p \in Signals, e \in Exits : queue_exit(p, e)
  BY <1>3, QueueExitSteps
<1>4. CASE \E o \in OrderIds, fee \in FailureFees, gas \in FailureGas : fail_order(o, fee, gas)
  BY <1>4, FailSteps
<1>5. CASE \E o \in OrderIds, input, output \in Amounts, fee \in Fees, gas \in GasCosts :
             fill(o, input, output, fee, gas)
  BY <1>5, FillBuySteps, FillSellSteps DEF fill
<1>6. CASE \E o \in OrderIds : MarkPrepared(o) \/ MarkChecking(o) \/ MarkReview(o)
  BY <1>6, MarkSteps
<1>7. CASE \E paused \in BOOLEAN : pause(paused)
  BY <1>7, PauseSteps
<1>8. CASE \E p \in Signals : RequestExit(p)
  BY <1>8, RequestExitSteps
<1>9. CASE UNCHANGED booksVars
  <2>1. /\ acct' = acct /\ signals' = signals /\ orders' = orders
        /\ positions' = positions /\ book' = book
    BY <1>9 DEF booksVars
  <2>2. OpenPositions' = OpenPositions /\ PendingBuys' = PendingBuys
    BY <2>1 DEF OpenPositions, PendingBuys, IsActive
  <2> QED
    BY <2>1, <2>2 DEF BooksInv, BooksTypeOK, OrderShape, CostIsEntry, RowsAreResolved,
       OnePendingPerMint, ReservationExact, LimitsHold, OneStakePerMint, Stakes,
       ExitsMatchPositions, GasCovers, GasOwed, IsActive, OrderMint
<1> QED BY <1>1, <1>2, <1>3, <1>4, <1>5, <1>6, <1>7, <1>8, <1>9 DEF BooksNext

\* Every reachable state of the books satisfies the inductive invariant,
\* whatever order the callers of ledger.py run its transactions in.
THEOREM BooksInvariant == BooksSpec => []BooksInv
<1>1. BooksInit => BooksInv
  BY InitBooksInv
<1>2. BooksInv /\ [BooksNext]_booksVars => BooksInv'
  BY NextBooksInv
<1> QED BY <1>1, <1>2, PTL DEF BooksSpec

\* The account's rows always have the shape the schema declares: balances never
\* go below zero although fill and fail_order subtract from them.
THEOREM BooksTypeCorrect == BooksSpec => []BooksTypeOK
<1>1. BooksInv => BooksTypeOK
  BY DEF BooksInv
<1> QED BY <1>1, BooksInvariant, PTL

\* Reservations are exact: reserved_usdc is the sum over the unresolved buys.
THEOREM ReservationsExact == BooksSpec => []ReservationExact
<1>1. BooksInv => ReservationExact
  BY DEF BooksInv
<1> QED BY <1>1, BooksInvariant, PTL

\* The position, exposure and cash limits of the policy hold at all times.
THEOREM LimitsAlwaysHold == BooksSpec => []LimitsHold
<1>1. BooksInv => LimitsHold
  BY DEF BooksInv
<1> QED BY <1>1, BooksInvariant, PTL

\* A token never carries two stakes.
THEOREM StakesAreUnique == BooksSpec => []OneStakePerMint
<1>1. BooksInv => OneStakePerMint
  BY DEF BooksInv
<1> QED BY <1>1, BooksInvariant, PTL

\* A pending exit always fits the open position it was queued for.
THEOREM ExitsAlwaysMatch == BooksSpec => []ExitsMatchPositions
<1>1. BooksInv => ExitsMatchPositions
  BY DEF BooksInv
<1> QED BY <1>1, BooksInvariant, PTL

\* No settlement is refused by the account's constraints, as long as the costs
\* stay under a bound that the gas reserve and what is owed of it can carry; no
\* relation between the fields of the policy is assumed.
THEOREM SettlementsNeverBlocked == BooksSpec => []SettlementNeverBlocked
<1>1. BooksInv => SettlementNeverBlocked
  <2> SUFFICES ASSUME BooksInv, NEW o \in OrderIds, IsActive(o)
               PROVE  /\ Mode = "paper" => \A f \in 0..MaxFee : ReserveCarries(f) => acct.sol >= f
                      /\ acct.reserved >= orders[o].reserved
                      /\ o \in Signals => /\ acct.cash - acct.reserved >= 0
                                          /\ acct.cash >= orders[o].input
                                          /\ ~OpenOn(MintOf[o])
                                          /\ positions[o].status = "none"
                      /\ book[o] = NoRow
    BY DEF SettlementNeverBlocked
  <2> DEFINE P == Cardinality(PendingBuys)
             O == Cardinality(OpenPositions)
  <2>1. /\ P \in Nat /\ O \in Nat /\ acct.sol \in Nat /\ acct.cash \in Nat /\ acct.reserved \in Nat
        /\ acct.reserved = EntryUsdc * P /\ acct.reserved <= acct.cash
    BY FiniteStakes DEF BooksInv, BooksTypeOK, Account, ReservationExact, LimitsHold
  <2>2. book[o] = NoRow
    BY DEF BooksInv, RowsAreResolved, IsActive, Resolved, Unresolved
  <2>3. ASSUME Mode = "paper", NEW f \in 0..MaxFee, ReserveCarries(f)
        PROVE  acct.sol >= f
    <3>1. /\ acct.sol + MaxPositions * f >= MinSol + GasOwed * f
          /\ MinSol + GasOwed * f >= (MaxPositions + 1) * f
      BY <2>3 DEF BooksInv, GasCovers, ReserveCarries
    <3>2. (MaxPositions + 1) * f = MaxPositions * f + f
      BY Numbers
    <3>3. MaxPositions * f \in Int /\ GasOwed * f \in Int
      BY <2>1, Numbers DEF GasOwed
    <3> QED BY <2>1, <3>1, <3>2, <3>3, Numbers
  <2>4. CASE o \in Signals
    <3>1. /\ orders[o].reserved = EntryUsdc /\ orders[o].input = EntryUsdc
          /\ o \in PendingBuys /\ o \in Stakes
      BY <2>4 DEF BooksInv, OrderShape, IsActive, Unresolved, PendingBuys, Stakes
    <3>2. P >= 1
      BY <2>1, <3>1, FiniteStakes, FS_EmptySet
    <3>3. EntryUsdc * P >= EntryUsdc
      BY <2>1, <3>2, Numbers
    <3>4. positions[o].status = "none"
      BY <2>4 DEF BooksInv, CostIsEntry, IsActive, Unresolved
    <3>5. ~OpenOn(MintOf[o])
      BY <2>4, <3>1, <3>4 DEF BooksInv, OneStakePerMint, OpenOn, OpenPositions, Stakes
    <3> HIDE DEF P, O
    <3>6. acct.reserved >= EntryUsdc /\ acct.cash >= EntryUsdc
      BY <2>1, <3>3, Numbers
    <3> QED BY <2>1, <2>2, <2>3, <3>1, <3>4, <3>5, <3>6
  <2>5. CASE o \notin Signals
    <3>1. orders[o].reserved = 0
      BY <2>5 DEF BooksInv, OrderShape, IsActive, Unresolved
    <3> QED BY <2>1, <2>2, <2>3, <2>5, <3>1
  <2> QED BY <2>4, <2>5
<1> QED BY <1>1, BooksInvariant, PTL

\* A resolved order, its settlement row and a closed position never change
\* again, whatever is retried.
THEOREM SettlementsNeverChange == BooksSpec => SettlementsAreFinal
<1> DEFINE Final ==
      \A o \in OrderIds :
        /\ orders[o].status \in Resolved => orders'[o] = orders[o]
        /\ book[o] # NoRow => book'[o] = book[o]
        /\ book'[o] # book[o] => orders[o].status \in Unresolved /\ orders'[o].status \in Resolved
        /\ o \in Signals /\ positions[o].status = "closed" => positions'[o] = positions[o]
<1>1. ASSUME BooksInv, BooksNext PROVE Final
  <2> SUFFICES ASSUME NEW o \in OrderIds
               PROVE  /\ orders[o].status \in Resolved => orders'[o] = orders[o]
                      /\ book[o] # NoRow => book'[o] = book[o]
                      /\ book'[o] # book[o] => /\ orders[o].status \in Unresolved
                                              /\ orders'[o].status \in Resolved
                      /\ o \in Signals /\ positions[o].status = "closed" => positions'[o] = positions[o]
    OBVIOUS
  <2>a. /\ orders \in [OrderIds -> Order] /\ positions \in [Signals -> Position]
        /\ book \in [OrderIds -> Row] /\ Signals \cap Exits = {}
    BY <1>1, UniverseAssumption DEF BooksInv, BooksTypeOK
  <2>1. CASE (\E new \in SUBSET Signals : Observe(new)) \/ (\E s \in Signals : Skip(s))
    BY <2>1 DEF Observe, Skip
  <2>2. CASE \E s \in Signals : reserve_buy(s)
    BY <2>2, <2>a DEF reserve_buy, CanReserve, Resolved, OrderIds
  <2>3. CASE \E p \in Signals, e \in Exits : queue_exit(p, e)
    BY <2>3, <2>a DEF queue_exit, Resolved, OrderIds
  <2>4. CASE \E r \in OrderIds, fee \in FailureFees, gas \in FailureGas : fail_order(r, fee, gas)
    BY <2>4, <2>a DEF fail_order, IsActive, Unresolved, Resolved, Order
  <2>5. CASE \E r \in OrderIds, input, output \in Amounts, fee \in Fees, gas \in GasCosts :
               fill(r, input, output, fee, gas)
    <3> PICK r \in OrderIds, input \in Amounts, output \in Amounts, fee \in Fees, gas \in GasCosts :
               fill(r, input, output, fee, gas)
      BY <2>5
    <3>1. CASE r \in Signals /\ FillBuy(r, input, output, fee, gas)
      BY <3>1, <2>a DEF FillBuy, IsActive, Unresolved, Resolved, Order
    <3>2. CASE r \in Exits /\ FillSell(r, input, output, fee, gas)
      BY <3>2, <2>a DEF FillSell, IsActive, Unresolved, Resolved, Order
    <3> QED BY <3>1, <3>2 DEF fill
  <2>6. CASE \E r \in OrderIds : MarkPrepared(r) \/ MarkChecking(r) \/ MarkReview(r)
    BY <2>6, <2>a DEF MarkPrepared, MarkChecking, MarkReview, IsActive, Unresolved, Resolved
  <2>7. CASE \E paused \in BOOLEAN : pause(paused)
    BY <2>7 DEF pause
  <2>8. CASE \E p \in Signals : RequestExit(p)
    BY <2>8, <2>a DEF RequestExit
  <2> QED BY <1>1, <2>1, <2>2, <2>3, <2>4, <2>5, <2>6, <2>7, <2>8 DEF BooksNext
<1>2. BooksInv /\ [BooksNext]_booksVars => [Final]_booksVars
  BY <1>1
<1> QED BY <1>2, BooksInvariant, PTL DEF BooksSpec, SettlementsAreFinal

-----------------------------------------------------------------------------
(***************************************************************************)
(* The ledger explains the account.                                        *)
(***************************************************************************)
RowCash == [o \in OrderIds |-> book[o].cash]
RowSol == [o \in OrderIds |-> book[o].sol]
RowGas == [o \in OrderIds |-> book[o].gas]
RowQuantity == [o \in OrderIds |-> book[o].quantity]
Quantity == [p \in Signals |-> positions[p].quantity]
Invested == [p \in Signals |-> positions[p].cost + positions[p].entry_fee]

\* The five equations of LedgerExplainsAccount, over named functions.
LedgerSums ==
  /\ acct.cash = InitialUsdc + SumFunctionOnSet(RowCash, OrderIds)
  /\ acct.sol = InitialSol + SumFunctionOnSet(RowSol, OrderIds)
  /\ acct.gas = SumFunctionOnSet(RowGas, OrderIds)
  /\ \A m \in Mints : SumFunctionOnSet(RowQuantity, OrdersOn(m))
                        = SumFunctionOnSet(Quantity, PositionsOn(m))
  /\ acct.cash - acct.gas + SumFunctionOnSet(Invested, OpenPositions)
       + SumFunctionOnSet(RowGas, FailedOrders) = InitialUsdc + acct.realized

LEMMA LedgerIsSums == LedgerExplainsAccount <=> LedgerSums
BY DEF LedgerExplainsAccount, LedgerSums, BalancesExplained, HoldingsExplained, ResultsExplained,
       RowCash, RowSol, RowGas, RowQuantity, Quantity, Invested, SumFunction

LEMMA FiniteBooks ==
  /\ IsFiniteSet(OrderIds) /\ \A T \in SUBSET OrderIds : IsFiniteSet(T)
  /\ \A T \in SUBSET Signals : IsFiniteSet(T)
  /\ \A m : OrdersOn(m) \in SUBSET OrderIds /\ PositionsOn(m) \in SUBSET Signals
  /\ FailedOrders \in SUBSET OrderIds /\ OpenPositions \in SUBSET Signals
  /\ \A m : OrdersOn(m)' \in SUBSET OrderIds /\ PositionsOn(m)' \in SUBSET Signals
  /\ FailedOrders' \in SUBSET OrderIds /\ OpenPositions' \in SUBSET Signals
<1>1. IsFiniteSet(OrderIds)
  BY UniverseAssumption, FS_Union DEF OrderIds
<1>2. \A T \in SUBSET OrderIds : IsFiniteSet(T)
  BY <1>1, FS_Subset
<1>3. \A T \in SUBSET Signals : IsFiniteSet(T)
  BY UniverseAssumption, FS_Subset
<1> QED BY <1>1, <1>2, <1>3 DEF OrdersOn, PositionsOn, FailedOrders, OpenPositions

LEMMA LedgerTyped ==
  ASSUME BooksTypeOK
  PROVE  /\ \A o \in OrderIds : /\ RowCash[o] \in Int /\ RowSol[o] \in Int
                                /\ RowGas[o] \in Int /\ RowQuantity[o] \in Int
         /\ \A p \in Signals : Quantity[p] \in Nat /\ Invested[p] \in Nat
         /\ acct.cash \in Nat /\ acct.sol \in Nat /\ acct.gas \in Nat /\ acct.realized \in Int
BY DEF BooksTypeOK, RowCash, RowSol, RowGas, RowQuantity, Quantity, Invested, Row, Position,
       Account

\* A state in which the ledger, the balances and the open positions are what
\* they were.  An order that is only inserted has no row yet.
LEMMA QuietLedger ==
  ASSUME BooksInv, BooksInv', LedgerSums, book' = book,
         acct'.cash = acct.cash, acct'.sol = acct.sol, acct'.gas = acct.gas,
         acct'.realized = acct.realized,
         \A o \in OrderIds : orders[o].status # "none" =>
            orders'[o].status # "none" /\ OrderMint(o)' = OrderMint(o),
         \A p \in Signals : /\ positions'[p].status = positions[p].status
                            /\ positions'[p].quantity = positions[p].quantity
                            /\ positions'[p].cost = positions[p].cost
                            /\ positions'[p].entry_fee = positions[p].entry_fee
  PROVE  LedgerSums'
<1>1. /\ RowCash' = RowCash /\ RowSol' = RowSol /\ RowGas' = RowGas /\ RowQuantity' = RowQuantity
      /\ Quantity' = Quantity /\ Invested' = Invested
      /\ FailedOrders' = FailedOrders /\ OpenPositions' = OpenPositions
  BY DEF RowCash, RowSol, RowGas, RowQuantity, Quantity, Invested, FailedOrders, OpenPositions
<1>2. ASSUME NEW m \in Mints
      PROVE  SumFunctionOnSet(RowQuantity, OrdersOn(m)') = SumFunctionOnSet(RowQuantity, OrdersOn(m))
  <2>1. OrdersOn(m) \in SUBSET OrdersOn(m)' /\ IsFiniteSet(OrdersOn(m)')
    BY FiniteBooks DEF OrdersOn
  <2>2. \A o \in OrderIds : orders[o].status = "none" => RowQuantity[o] = 0
    BY DEF BooksInv, RowsAreResolved, Resolved, NoRow, RowQuantity
  <2>3. \A o \in OrdersOn(m)' \ OrdersOn(m) : RowQuantity[o] = 0
    BY <2>2 DEF OrdersOn
  <2>4. \A o \in OrdersOn(m)' : RowQuantity[o] \in Int
    BY LedgerTyped, FiniteBooks DEF BooksInv
  <2> QED BY <2>1, <2>3, <2>4, SumWithin
<1>3. \A m \in Mints : PositionsOn(m)' = PositionsOn(m)
  BY <1>1 DEF PositionsOn
<1> QED BY <1>1, <1>2, <1>3 DEF LedgerSums

\* One order gets its row: each sum over the rows changes by what the row says.
RowEffect(o, row) ==
  /\ SumFunctionOnSet(RowCash', OrderIds) = SumFunctionOnSet(RowCash, OrderIds) + row.cash
  /\ SumFunctionOnSet(RowSol', OrderIds) = SumFunctionOnSet(RowSol, OrderIds) + row.sol
  /\ SumFunctionOnSet(RowGas', OrderIds) = SumFunctionOnSet(RowGas, OrderIds) + row.gas
  /\ \A m : SumFunctionOnSet(RowQuantity', OrdersOn(m)')
              = SumFunctionOnSet(RowQuantity, OrdersOn(m))
                  + (IF OrderMint(o) = m THEN row.quantity ELSE 0)
  /\ SumFunctionOnSet(RowGas', FailedOrders')
       = SumFunctionOnSet(RowGas, FailedOrders) + (IF row.kind = "failed" THEN row.gas ELSE 0)

LEMMA RowBooked ==
  ASSUME BooksInv, NEW o \in OrderIds, NEW status, NEW cash \in Int, NEW fee \in Nat,
         NEW gas \in Nat, NEW realized \in Int, NEW row, book[o] = NoRow,
         Settles(o, status, cash, fee, gas, realized, row)
  PROVE  RowEffect(o, row)
<1>a. SettlementEffect(o, status, cash, fee)
  BY SettlementFacts
<1>b. /\ book \in [OrderIds -> Row] /\ book' \in [OrderIds -> Row] /\ row \in Row
      /\ book' = [book EXCEPT ![o] = row] /\ book'[o] = row
      /\ \A r \in OrderIds \ {o} : book'[r] = book[r]
  BY <1>a DEF SettlementEffect, Settles, BooksInv, BooksTypeOK
<1>c. \A r \in OrderIds : /\ RowCash[r] \in Int /\ RowCash'[r] \in Int
                          /\ RowSol[r] \in Int /\ RowSol'[r] \in Int
                          /\ RowGas[r] \in Int /\ RowGas'[r] \in Int
                          /\ RowQuantity[r] \in Int /\ RowQuantity'[r] \in Int
  BY <1>b DEF RowCash, RowSol, RowGas, RowQuantity, Row
<1>d. \A r \in OrderIds \ {o} : /\ RowCash'[r] = RowCash[r] /\ RowSol'[r] = RowSol[r]
                                /\ RowGas'[r] = RowGas[r] /\ RowQuantity'[r] = RowQuantity[r]
  BY <1>b DEF RowCash, RowSol, RowGas, RowQuantity
<1>e. /\ RowCash[o] = 0 /\ RowSol[o] = 0 /\ RowGas[o] = 0 /\ RowQuantity[o] = 0
      /\ RowCash'[o] = row.cash /\ RowSol'[o] = row.sol /\ RowGas'[o] = row.gas
      /\ RowQuantity'[o] = row.quantity
  BY <1>b DEF RowCash, RowSol, RowGas, RowQuantity, NoRow
<1>f. IsFiniteSet(OrderIds) /\ \A T \in SUBSET OrderIds : IsFiniteSet(T)
  BY FiniteBooks
<1>g. row.cash \in Int /\ row.sol \in Int /\ row.gas \in Int /\ row.quantity \in Int
  BY <1>b DEF Row
<1>h. /\ SumFunctionOnSet(RowCash, OrderIds) \in Int /\ SumFunctionOnSet(RowSol, OrderIds) \in Int
      /\ \A T \in SUBSET OrderIds : /\ SumFunctionOnSet(RowGas, T) \in Int
                                    /\ SumFunctionOnSet(RowQuantity, T) \in Int
  BY <1>c, <1>f, SumInt
<1>1. SumFunctionOnSet(RowCash', OrderIds) = SumFunctionOnSet(RowCash, OrderIds) + row.cash
  <2>1. SumFunctionOnSet(RowCash', OrderIds)
          = SumFunctionOnSet(RowCash, OrderIds) - RowCash[o] + RowCash'[o]
    BY <1>c, <1>d, <1>f, SumUpdate
  <2> QED BY <2>1, <1>e, <1>g, <1>h
<1>2. SumFunctionOnSet(RowSol', OrderIds) = SumFunctionOnSet(RowSol, OrderIds) + row.sol
  <2>1. SumFunctionOnSet(RowSol', OrderIds)
          = SumFunctionOnSet(RowSol, OrderIds) - RowSol[o] + RowSol'[o]
    BY <1>c, <1>d, <1>f, SumUpdate
  <2> QED BY <2>1, <1>e, <1>g, <1>h
<1>3. SumFunctionOnSet(RowGas', OrderIds) = SumFunctionOnSet(RowGas, OrderIds) + row.gas
  <2>1. SumFunctionOnSet(RowGas', OrderIds)
          = SumFunctionOnSet(RowGas, OrderIds) - RowGas[o] + RowGas'[o]
    BY <1>c, <1>d, <1>f, SumUpdate
  <2> QED BY <2>1, <1>e, <1>f, <1>g, <1>h
<1>4. ASSUME NEW m
      PROVE  SumFunctionOnSet(RowQuantity', OrdersOn(m)')
               = SumFunctionOnSet(RowQuantity, OrdersOn(m))
                   + (IF OrderMint(o) = m THEN row.quantity ELSE 0)
  <2>1. OrdersOn(m)' = OrdersOn(m) /\ OrdersOn(m) \in SUBSET OrderIds
        /\ (o \in OrdersOn(m) <=> OrderMint(o) = m)
    <3>1. IsActive(o) /\ status \in Resolved
      BY DEF Settles
    <3> QED BY <1>a, <3>1 DEF SettlementEffect, OrdersOn, IsActive, Unresolved, Resolved
  <2>2. SumFunctionOnSet(RowQuantity', OrdersOn(m))
          = SumFunctionOnSet(RowQuantity, OrdersOn(m)) - Share(RowQuantity, OrdersOn(m), o)
              + Share(RowQuantity', OrdersOn(m), o)
    <3>1. /\ IsFiniteSet(OrdersOn(m))
          /\ \A r \in OrdersOn(m) : RowQuantity[r] \in Int
          /\ \A r \in OrdersOn(m) : RowQuantity'[r] \in Int
          /\ \A r \in OrdersOn(m) \ {o} : RowQuantity[r] = RowQuantity'[r]
      BY <2>1, <1>c, <1>d, <1>f
    <3> QED BY <3>1, SumChange
  <2>3. Share(RowQuantity, OrdersOn(m), o) = 0
        /\ Share(RowQuantity', OrdersOn(m), o) = (IF OrderMint(o) = m THEN row.quantity ELSE 0)
    BY <2>1, <1>e DEF Share
  <2>4. SumFunctionOnSet(RowQuantity, OrdersOn(m)) \in Int
    BY <2>1, <1>h
  <2>5. SumFunctionOnSet(RowQuantity', OrdersOn(m)')  = SumFunctionOnSet(RowQuantity', OrdersOn(m))
    BY <2>1, Zenon
  <2> QED BY <2>2, <2>3, <2>4, <2>5, <1>g
<1>5. SumFunctionOnSet(RowGas', FailedOrders')
        = SumFunctionOnSet(RowGas, FailedOrders) + (IF row.kind = "failed" THEN row.gas ELSE 0)
  <2>1. /\ FailedOrders \in SUBSET OrderIds /\ FailedOrders' \in SUBSET OrderIds
        /\ FailedOrders' \ {o} = FailedOrders \ {o}
        /\ o \notin FailedOrders /\ (o \in FailedOrders' <=> row.kind = "failed")
    BY <1>b DEF FailedOrders, NoRow
  <2>2. SumFunctionOnSet(RowGas', FailedOrders')
          = SumFunctionOnSet(RowGas, FailedOrders) - Share(RowGas, FailedOrders, o)
              + Share(RowGas', FailedOrders', o)
    <3>1. /\ IsFiniteSet(FailedOrders) /\ IsFiniteSet(FailedOrders')
          /\ \A r \in FailedOrders : RowGas[r] \in Int
          /\ \A r \in FailedOrders' : RowGas'[r] \in Int
          /\ \A r \in FailedOrders \ {o} : RowGas[r] = RowGas'[r]
      BY <2>1, <1>c, <1>d, <1>f
    <3> QED BY <2>1, <3>1, SumChange
  <2>3. /\ Share(RowGas, FailedOrders, o) = 0
        /\ Share(RowGas', FailedOrders', o) = (IF row.kind = "failed" THEN row.gas ELSE 0)
    BY <2>1, <1>e DEF Share
  <2>4. SumFunctionOnSet(RowGas, FailedOrders) \in Int
    BY <2>1, <1>h
  <2> QED BY <2>2, <2>3, <2>4, <1>g
<1> QED BY <1>1, <1>2, <1>3, <1>4, <1>5 DEF RowEffect

LEMMA AccountBooked ==
  ASSUME BooksInv, NEW o \in OrderIds, NEW status, NEW cash \in Int, NEW fee \in Nat,
         NEW gas \in Nat, NEW realized \in Int, NEW row,
         Settles(o, status, cash, fee, gas, realized, row)
  PROVE  /\ acct'.cash = acct.cash + cash /\ acct'.sol = acct.sol - fee
         /\ acct'.gas = acct.gas + gas /\ acct'.realized = acct.realized + realized
BY DEF BooksInv, BooksTypeOK, Settles, Settled, Account

LEMMA PositionSums ==
  ASSUME BooksInv
  PROVE  /\ \A m : SumFunctionOnSet(Quantity, PositionsOn(m)) \in Int
         /\ SumFunctionOnSet(Invested, OpenPositions) \in Int
<1>1. \A p \in Signals : Quantity[p] \in Int /\ Invested[p] \in Int
  BY LedgerTyped DEF BooksInv
<1>2. \A T \in SUBSET Signals : /\ SumFunctionOnSet(Quantity, T) \in Int
                                /\ SumFunctionOnSet(Invested, T) \in Int
  BY <1>1, FiniteBooks, SumInt
<1> QED BY <1>2, FiniteBooks

\* What is left to show of a settlement: the holdings and the results.
LEMMA SettledLedger ==
  ASSUME BooksInv, BooksInv', LedgerSums, NEW o \in OrderIds, NEW status, NEW cash \in Int, NEW fee \in Nat,
         NEW gas \in Nat, NEW realized \in Int, NEW row, book[o] = NoRow,
         Settles(o, status, cash, fee, gas, realized, row),
         row.cash = cash, row.sol = -fee, row.gas = gas,
         \A m \in Mints : SumFunctionOnSet(Quantity', PositionsOn(m)')
                            = SumFunctionOnSet(Quantity, PositionsOn(m))
                                + (IF OrderMint(o) = m THEN row.quantity ELSE 0),
         cash - gas - realized + (IF row.kind = "failed" THEN row.gas ELSE 0)
           = SumFunctionOnSet(Invested, OpenPositions) - SumFunctionOnSet(Invested', OpenPositions')
  PROVE  LedgerSums'
<1>1. /\ acct'.cash = acct.cash + cash /\ acct'.sol = acct.sol - fee
      /\ acct'.gas = acct.gas + gas /\ acct'.realized = acct.realized + realized
  BY AccountBooked
<1>2. /\ SumFunctionOnSet(RowCash', OrderIds) = SumFunctionOnSet(RowCash, OrderIds) + row.cash
      /\ SumFunctionOnSet(RowSol', OrderIds) = SumFunctionOnSet(RowSol, OrderIds) + row.sol
      /\ SumFunctionOnSet(RowGas', OrderIds) = SumFunctionOnSet(RowGas, OrderIds) + row.gas
      /\ \A m : SumFunctionOnSet(RowQuantity', OrdersOn(m)')
                  = SumFunctionOnSet(RowQuantity, OrdersOn(m))
                      + (IF OrderMint(o) = m THEN row.quantity ELSE 0)
      /\ SumFunctionOnSet(RowGas', FailedOrders')
           = SumFunctionOnSet(RowGas, FailedOrders)
               + (IF row.kind = "failed" THEN row.gas ELSE 0)
  <2>1. RowEffect(o, row)
    BY RowBooked
  <2> QED BY <2>1 DEF RowEffect
<1>3. /\ acct.cash \in Nat /\ acct.sol \in Nat /\ acct.gas \in Nat /\ acct.realized \in Int
      /\ SumFunctionOnSet(RowCash, OrderIds) \in Int /\ SumFunctionOnSet(RowSol, OrderIds) \in Int
      /\ SumFunctionOnSet(RowGas, OrderIds) \in Int
      /\ SumFunctionOnSet(RowGas, FailedOrders) \in Int
      /\ SumFunctionOnSet(Invested, OpenPositions) \in Int
      /\ SumFunctionOnSet(Invested', OpenPositions') \in Int
  <2>1. /\ acct.cash \in Nat /\ acct.sol \in Nat /\ acct.gas \in Nat /\ acct.realized \in Int
        /\ \A r \in OrderIds : RowCash[r] \in Int /\ RowSol[r] \in Int /\ RowGas[r] \in Int
        /\ \A p \in Signals : Invested[p] \in Int /\ Invested'[p] \in Int
    BY DEF BooksInv, BooksTypeOK, RowCash, RowSol, RowGas, Invested, Row, Position, Account
  <2>2. /\ IsFiniteSet(OrderIds) /\ IsFiniteSet(FailedOrders) /\ IsFiniteSet(OpenPositions)
        /\ IsFiniteSet(OpenPositions') /\ FailedOrders \in SUBSET OrderIds
        /\ OpenPositions \in SUBSET Signals /\ OpenPositions' \in SUBSET Signals
    BY FiniteBooks
  <2>3. /\ SumFunctionOnSet(RowCash, OrderIds) \in Int /\ SumFunctionOnSet(RowSol, OrderIds) \in Int
        /\ SumFunctionOnSet(RowGas, OrderIds) \in Int
    BY <2>1, <2>2, SumInt
  <2>4. SumFunctionOnSet(RowGas, FailedOrders) \in Int
    BY <2>1, <2>2, SumInt
  <2>5. SumFunctionOnSet(Invested, OpenPositions) \in Int
    BY <2>1, <2>2, SumInt
  <2>6. SumFunctionOnSet(Invested', OpenPositions') \in Int
    BY <2>1, <2>2, SumInt
  <2> QED BY <2>1, <2>3, <2>4, <2>5, <2>6
<1> QED
  <2>1. /\ acct'.cash = InitialUsdc + SumFunctionOnSet(RowCash', OrderIds)
        /\ acct'.sol = InitialSol + SumFunctionOnSet(RowSol', OrderIds)
        /\ acct'.gas = SumFunctionOnSet(RowGas', OrderIds)
    BY <1>1, <1>2, <1>3, Numbers DEF LedgerSums
  <2>2. \A m \in Mints : SumFunctionOnSet(RowQuantity', OrdersOn(m)')
                            = SumFunctionOnSet(Quantity', PositionsOn(m)')
    BY <1>2 DEF LedgerSums
  <2>3. acct'.cash - acct'.gas + SumFunctionOnSet(Invested', OpenPositions')
          + SumFunctionOnSet(RowGas', FailedOrders') = InitialUsdc + acct'.realized
    <3>1. row.gas \in Nat
      OBVIOUS
    <3> QED BY <1>1, <1>2, <1>3, <3>1, Numbers DEF LedgerSums
  <2> QED BY <2>1, <2>2, <2>3 DEF LedgerSums

LEMMA FailLedger ==
  ASSUME BooksInv, BooksInv', LedgerSums, NEW o \in OrderIds, NEW fee \in FailureFees,
         NEW gas \in FailureGas, fail_order(o, fee, gas)
  PROVE  LedgerSums'
<1> DEFINE row == FailedRow(fee, gas)
<1>1. /\ fee \in Nat /\ gas \in Nat
      /\ row.kind = "failed" /\ row.cash = 0 /\ row.sol = -fee /\ row.gas = gas
      /\ row.quantity = 0 /\ row \in Row
  BY Numbers DEF FailedRow, Row
<1>2. book[o] = NoRow /\ positions' = positions
  BY DEF fail_order
<1>3. Settles(o, "failed", 0, fee, gas, 0, row)
  <2>1. acct' = Settled(o, 0, fee, gas, 0) /\ AccountCheck(Settled(o, 0, fee, gas, 0))
    BY DEF fail_order
  <2>2. AccountCheck(acct')
    BY <2>1 DEF AccountCheck
  <2> QED BY <1>1, <2>1, <2>2 DEF fail_order, Settles, Resolved
<1>4. /\ Quantity' = Quantity /\ Invested' = Invested /\ OpenPositions' = OpenPositions
      /\ \A m : PositionsOn(m)' = PositionsOn(m)
  BY <1>2 DEF Quantity, Invested, OpenPositions, PositionsOn
<1>5. /\ \A m : SumFunctionOnSet(Quantity, PositionsOn(m)) \in Int
      /\ SumFunctionOnSet(Invested, OpenPositions) \in Int
  BY PositionSums
<1> HIDE DEF row
<1> QED BY <1>1, <1>2, <1>3, <1>4, <1>5, SettledLedger

LEMMA FillBuyLedger ==
  ASSUME BooksInv, BooksInv', LedgerSums, NEW s \in Signals, NEW input \in Amounts,
         NEW output \in Amounts, NEW fee \in Fees, NEW gas \in GasCosts,
         FillBuy(s, input, output, fee, gas)
  PROVE  LedgerSums'
<1> DEFINE row == BuyRow(input, output, fee, gas)
           new == [status |-> "open", quantity |-> output, cost |-> input,
                   entry_fee |-> gas, exit_requested |-> FALSE]
<1>1. /\ fee \in Nat /\ gas \in Nat /\ input \in Nat /\ output \in Nat /\ -input \in Int
      /\ row.kind = "buy" /\ row.cash = -input /\ row.sol = -fee /\ row.gas = gas
      /\ row.quantity = output /\ row \in Row /\ s \in OrderIds
  BY Numbers DEF BuyRow, Row, OrderIds
<1>2. /\ book[s] = NoRow /\ positions[s].status = "none"
      /\ positions' = [positions EXCEPT ![s] = new] /\ positions \in [Signals -> Position]
  BY DEF FillBuy, BooksInv, BooksTypeOK
<1>3. Settles(s, "filled", -input, fee, gas, 0, row)
  <2>1. acct' = Settled(s, -input, fee, gas, 0) /\ AccountCheck(Settled(s, -input, fee, gas, 0))
    BY DEF FillBuy
  <2>2. AccountCheck(acct')
    BY <2>1 DEF AccountCheck
  <2> QED BY <1>1, <2>1, <2>2 DEF FillBuy, Settles, Resolved
<1>4. /\ OpenPositions' = OpenPositions \cup {s} /\ s \notin OpenPositions
      /\ \A m : /\ PositionsOn(m)' \ {s} = PositionsOn(m) \ {s} /\ s \notin PositionsOn(m)
                /\ s \in PositionsOn(m)' <=> MintOf[s] = m
      /\ \A p \in Signals \ {s} : Quantity'[p] = Quantity[p] /\ Invested'[p] = Invested[p]
      /\ Quantity'[s] = output /\ Invested'[s] = input + gas
  BY <1>2 DEF OpenPositions, PositionsOn, Quantity, Invested
<1>5. \A p \in Signals : /\ Quantity[p] \in Int /\ Quantity'[p] \in Int
                         /\ Invested[p] \in Int /\ Invested'[p] \in Int
  BY DEF BooksInv, BooksTypeOK, Quantity, Invested, Position
<1>6. ASSUME NEW m
      PROVE  SumFunctionOnSet(Quantity', PositionsOn(m)')
               = SumFunctionOnSet(Quantity, PositionsOn(m))
                   + (IF OrderMint(s) = m THEN row.quantity ELSE 0)
  <2>1. /\ IsFiniteSet(PositionsOn(m)) /\ IsFiniteSet(PositionsOn(m)')
        /\ PositionsOn(m) \in SUBSET Signals /\ PositionsOn(m)' \in SUBSET Signals
    BY FiniteBooks
  <2>2. /\ PositionsOn(m) \ {s} = PositionsOn(m)' \ {s}
        /\ \A p \in PositionsOn(m) : Quantity[p] \in Int
        /\ \A p \in PositionsOn(m)' : Quantity'[p] \in Int
        /\ \A p \in PositionsOn(m) \ {s} : Quantity[p] = Quantity'[p]
    BY <1>4, <1>5, <2>1
  <2>3. SumFunctionOnSet(Quantity', PositionsOn(m)')
          = SumFunctionOnSet(Quantity, PositionsOn(m)) - Share(Quantity, PositionsOn(m), s)
              + Share(Quantity', PositionsOn(m)', s)
    BY <2>1, <2>2, SumChange
  <2>4. /\ Share(Quantity, PositionsOn(m), s) = 0
        /\ Share(Quantity', PositionsOn(m)', s) = (IF OrderMint(s) = m THEN output ELSE 0)
    BY <1>4 DEF Share, OrderMint
  <2>5. SumFunctionOnSet(Quantity, PositionsOn(m)) \in Int
    BY <2>1, <2>2, SumInt
  <2> HIDE DEF row
  <2> QED BY <2>3, <2>4, <2>5, <1>1
<1>7. SumFunctionOnSet(Invested', OpenPositions')
        = SumFunctionOnSet(Invested, OpenPositions) + input + gas
  <2>1. /\ IsFiniteSet(OpenPositions) /\ IsFiniteSet(OpenPositions')
        /\ OpenPositions \in SUBSET Signals /\ OpenPositions' \in SUBSET Signals
    BY FiniteBooks
  <2>2. /\ OpenPositions \ {s} = OpenPositions' \ {s}
        /\ \A p \in OpenPositions : Invested[p] \in Int
        /\ \A p \in OpenPositions' : Invested'[p] \in Int
        /\ \A p \in OpenPositions \ {s} : Invested[p] = Invested'[p]
    BY <1>4, <1>5, <2>1
  <2>3. SumFunctionOnSet(Invested', OpenPositions')
          = SumFunctionOnSet(Invested, OpenPositions) - Share(Invested, OpenPositions, s)
              + Share(Invested', OpenPositions', s)
    BY <2>1, <2>2, SumChange
  <2>4. /\ Share(Invested, OpenPositions, s) = 0
        /\ Share(Invested', OpenPositions', s) = input + gas
    BY <1>4 DEF Share
  <2>5. SumFunctionOnSet(Invested, OpenPositions) \in Int
    BY <2>1, <2>2, SumInt
  <2> QED BY <2>3, <2>4, <2>5, <1>1
<1>8. SumFunctionOnSet(Invested, OpenPositions) \in Int
  BY PositionSums
<1>9. -input - gas - 0 + (IF row.kind = "failed" THEN row.gas ELSE 0)
        = SumFunctionOnSet(Invested, OpenPositions) - SumFunctionOnSet(Invested', OpenPositions')
  <2> HIDE DEF row
  <2> QED BY <1>1, <1>7, <1>8
<1> HIDE DEF row
<1> QED BY <1>1, <1>2, <1>3, <1>6, <1>9, SettledLedger

LEMMA FillSellLedger ==
  ASSUME BooksInv, BooksInv', LedgerSums, NEW e \in Exits, NEW input \in Amounts,
         NEW output \in Amounts, NEW fee \in Fees, NEW gas \in GasCosts,
         FillSell(e, input, output, fee, gas)
  PROVE  LedgerSums'
<1> DEFINE p == orders[e].position
           pnl == Realized(p, output, gas)
           row == SellRow(input, output, fee, gas)
<1>1. /\ fee \in Nat /\ gas \in Nat /\ input \in Nat /\ output \in Nat /\ -input \in Int
      /\ output \in Int
      /\ row.kind = "sell" /\ row.cash = output /\ row.sol = -fee /\ row.gas = gas
      /\ row.quantity = -input /\ row \in Row /\ e \in OrderIds /\ e \notin Signals
  BY Numbers, UniverseAssumption DEF SellRow, Row, OrderIds
<1>2. /\ book[e] = NoRow /\ positions[p].status = "open" /\ positions[p].quantity = input
      /\ positions' = [positions EXCEPT ![p].status = "closed"]
      /\ positions \in [Signals -> Position]
  BY DEF FillSell, BooksInv, BooksTypeOK
<1>3. p \in Signals
  <2>1. IsActive(e)
    BY DEF FillSell
  <2> QED BY <1>1, <2>1 DEF BooksInv, OrderShape, IsActive, Unresolved
<1>4. /\ positions[p].cost \in Nat /\ positions[p].entry_fee \in Nat
      /\ pnl = output - positions[p].cost - positions[p].entry_fee - gas /\ pnl \in Int
  <2>1. positions[p].cost \in Nat /\ positions[p].entry_fee \in Nat
    BY <1>2, <1>3 DEF Position
  <2> QED BY <1>1, <2>1 DEF Realized
<1>5. Settles(e, "filled", output, fee, gas, pnl, row)
  <2>1. acct' = Settled(e, output, fee, gas, pnl) /\ AccountCheck(Settled(e, output, fee, gas, pnl))
    BY DEF FillSell
  <2>2. AccountCheck(acct')
    BY <2>1 DEF AccountCheck
  <2> QED BY <1>1, <2>1, <2>2 DEF FillSell, Settles, Resolved
<1> HIDE DEF pnl, row
<1>6. /\ OpenPositions' = OpenPositions \ {p} /\ p \in OpenPositions
      /\ \A m : /\ PositionsOn(m)' \ {p} = PositionsOn(m) \ {p} /\ p \notin PositionsOn(m)'
                /\ p \in PositionsOn(m) <=> MintOf[p] = m
      /\ \A q \in Signals : Quantity'[q] = Quantity[q] /\ Invested'[q] = Invested[q]
      /\ Quantity[p] = input /\ Invested[p] = positions[p].cost + positions[p].entry_fee
  BY <1>2, <1>3 DEF OpenPositions, PositionsOn, Quantity, Invested, Position
<1>7. \A q \in Signals : /\ Quantity[q] \in Int /\ Quantity'[q] \in Int
                         /\ Invested[q] \in Int /\ Invested'[q] \in Int
  BY DEF BooksInv, BooksTypeOK, Quantity, Invested, Position
<1>8. ASSUME NEW m
      PROVE  SumFunctionOnSet(Quantity', PositionsOn(m)')
               = SumFunctionOnSet(Quantity, PositionsOn(m))
                   + (IF OrderMint(e) = m THEN row.quantity ELSE 0)
  <2>1. /\ IsFiniteSet(PositionsOn(m)) /\ IsFiniteSet(PositionsOn(m)')
        /\ PositionsOn(m) \in SUBSET Signals /\ PositionsOn(m)' \in SUBSET Signals
    BY FiniteBooks
  <2>2. /\ PositionsOn(m) \ {p} = PositionsOn(m)' \ {p}
        /\ \A q \in PositionsOn(m) : Quantity[q] \in Int
        /\ \A q \in PositionsOn(m)' : Quantity'[q] \in Int
        /\ \A q \in PositionsOn(m) \ {p} : Quantity[q] = Quantity'[q]
    BY <1>6, <1>7, <2>1
  <2>3. SumFunctionOnSet(Quantity', PositionsOn(m)')
          = SumFunctionOnSet(Quantity, PositionsOn(m)) - Share(Quantity, PositionsOn(m), p)
              + Share(Quantity', PositionsOn(m)', p)
    BY <2>1, <2>2, SumChange
  <2>4. /\ Share(Quantity, PositionsOn(m), p) = (IF OrderMint(e) = m THEN input ELSE 0)
        /\ Share(Quantity', PositionsOn(m)', p) = 0
    BY <1>1, <1>6 DEF Share, OrderMint
  <2>5. SumFunctionOnSet(Quantity, PositionsOn(m)) \in Int
    BY <2>1, <2>2, SumInt
  <2> QED BY <2>3, <2>4, <2>5, <1>1
<1>9. SumFunctionOnSet(Invested', OpenPositions')
        = SumFunctionOnSet(Invested, OpenPositions) - positions[p].cost - positions[p].entry_fee
      /\ SumFunctionOnSet(Invested, OpenPositions) \in Int
  <2>1. /\ IsFiniteSet(OpenPositions) /\ IsFiniteSet(OpenPositions')
        /\ OpenPositions \in SUBSET Signals /\ OpenPositions' \in SUBSET Signals
    BY FiniteBooks
  <2>2. /\ OpenPositions \ {p} = OpenPositions' \ {p}
        /\ \A q \in OpenPositions : Invested[q] \in Int
        /\ \A q \in OpenPositions' : Invested'[q] \in Int
        /\ \A q \in OpenPositions \ {p} : Invested[q] = Invested'[q]
    BY <1>6, <1>7, <2>1
  <2>3. SumFunctionOnSet(Invested', OpenPositions')
          = SumFunctionOnSet(Invested, OpenPositions) - Share(Invested, OpenPositions, p)
              + Share(Invested', OpenPositions', p)
    BY <2>1, <2>2, SumChange
  <2>4. /\ Share(Invested, OpenPositions, p) = positions[p].cost + positions[p].entry_fee
        /\ Share(Invested', OpenPositions', p) = 0
    BY <1>6 DEF Share
  <2>5. SumFunctionOnSet(Invested, OpenPositions) \in Int
    BY <2>1, <2>2, SumInt
  <2> QED BY <2>3, <2>4, <2>5, <1>4
<1>10. output - gas - pnl + (IF row.kind = "failed" THEN row.gas ELSE 0)
        = SumFunctionOnSet(Invested, OpenPositions) - SumFunctionOnSet(Invested', OpenPositions')
  BY <1>1, <1>4, <1>9
<1> QED BY <1>1, <1>2, <1>4, <1>5, <1>8, <1>10, SettledLedger

LEMMA InitLedger == BooksInit => LedgerSums
<1> SUFFICES ASSUME BooksInit PROVE LedgerSums
  OBVIOUS
<1>1. /\ acct.cash = InitialUsdc /\ acct.sol = InitialSol /\ acct.gas = 0 /\ acct.realized = 0
      /\ OpenPositions = {} /\ FailedOrders = {}
      /\ \A m : OrdersOn(m) = {} /\ PositionsOn(m) = {}
  BY DEF BooksInit, OpenPositions, FailedOrders, OrdersOn, PositionsOn, NoOrder, NoPosition, NoRow
<1>2. \A o \in OrderIds : RowCash[o] = 0 /\ RowSol[o] = 0 /\ RowGas[o] = 0
  BY DEF BooksInit, NoRow, RowCash, RowSol, RowGas
<1>3. /\ SumFunctionOnSet(RowCash, OrderIds) = 0 /\ SumFunctionOnSet(RowSol, OrderIds) = 0
      /\ SumFunctionOnSet(RowGas, OrderIds) = 0
  BY <1>2, FiniteBooks, SumZero
<1>4. \A f : SumFunctionOnSet(f, {}) = 0
  BY SumEmpty
<1>5. \A m : SumFunctionOnSet(RowQuantity, OrdersOn(m)) = 0 /\ SumFunctionOnSet(Quantity, PositionsOn(m)) = 0
  BY <1>1, <1>4, Zenon
<1>6. SumFunctionOnSet(Invested, OpenPositions) = 0 /\ SumFunctionOnSet(RowGas, FailedOrders) = 0
  BY <1>1, <1>4, Zenon
<1> QED BY <1>1, <1>3, <1>5, <1>6, Numbers DEF LedgerSums

LEMMA NextLedger ==
  ASSUME BooksInv, BooksInv', LedgerSums, [BooksNext]_booksVars
  PROVE  LedgerSums'
<1> DEFINE Quiet ==
      /\ book' = book
      /\ acct'.cash = acct.cash /\ acct'.sol = acct.sol /\ acct'.gas = acct.gas
      /\ acct'.realized = acct.realized
      /\ \A o \in OrderIds : orders[o].status # "none" =>
           orders'[o].status # "none" /\ OrderMint(o)' = OrderMint(o)
      /\ \A p \in Signals : /\ positions'[p].status = positions[p].status
                            /\ positions'[p].quantity = positions[p].quantity
                            /\ positions'[p].cost = positions[p].cost
                            /\ positions'[p].entry_fee = positions[p].entry_fee
<1>q. ASSUME Quiet PROVE LedgerSums'
  BY <1>q, QuietLedger
<1>t. /\ acct \in Account /\ orders \in [OrderIds -> Order] /\ positions \in [Signals -> Position]
      /\ Signals \cap Exits = {}
  BY UniverseAssumption DEF BooksInv, BooksTypeOK
<1>1. CASE (\E new \in SUBSET Signals : Observe(new)) \/ (\E s \in Signals : Skip(s))
           \/ UNCHANGED booksVars
  <2>1. Quiet
    BY <1>1 DEF Observe, Skip, booksVars, OrderMint
  <2> HIDE DEF Quiet
  <2> QED BY <2>1, <1>q
<1>2. CASE \E s \in Signals : reserve_buy(s)
  <2>1. PICK s \in Signals : reserve_buy(s)
    BY <1>2
  <2>2. /\ orders[s].status = "none" /\ positions' = positions /\ book' = book
        /\ \A o \in OrderIds : o # s => orders'[o] = orders[o]
        /\ acct' = [acct EXCEPT !.reserved = @ + EntryUsdc]
    BY <2>1, <1>t DEF reserve_buy, CanReserve, OrderIds
  <2>3. Quiet
    BY <2>2, <1>t DEF OrderMint, Account
  <2> HIDE DEF Quiet
  <2> QED BY <2>3, <1>q
<1>3. CASE \E p \in Signals, e \in Exits : queue_exit(p, e)
  <2>1. PICK p \in Signals, e \in Exits : queue_exit(p, e)
    BY <1>3
  <2>2. /\ orders[e].status = "none" /\ positions' = positions /\ book' = book /\ acct' = acct
        /\ \A o \in OrderIds : o # e => orders'[o] = orders[o]
    BY <2>1, <1>t DEF queue_exit, OrderIds
  <2>3. Quiet
    BY <2>2 DEF OrderMint
  <2> HIDE DEF Quiet
  <2> QED BY <2>3, <1>q
<1>4. CASE \E o \in OrderIds, fee \in FailureFees, gas \in FailureGas : fail_order(o, fee, gas)
  BY <1>4, FailLedger
<1>5. CASE \E o \in OrderIds, input, output \in Amounts, fee \in Fees, gas \in GasCosts :
             fill(o, input, output, fee, gas)
  BY <1>5, FillBuyLedger, FillSellLedger DEF fill
<1>6. CASE \E o \in OrderIds : MarkPrepared(o) \/ MarkChecking(o) \/ MarkReview(o)
  <2>1. PICK o \in OrderIds : MarkPrepared(o) \/ MarkChecking(o) \/ MarkReview(o)
    BY <1>6
  <2>2. PICK st \in {"prepared", "checking"} : orders' = [orders EXCEPT ![o].status = st]
    BY <2>1 DEF MarkPrepared, MarkChecking, MarkReview
  <2>3. /\ positions' = positions /\ book' = book
        /\ acct' = acct \/ acct' = [acct EXCEPT !.paused = TRUE]
    BY <2>1 DEF MarkPrepared, MarkChecking, MarkReview
  <2>4. \A r \in OrderIds : /\ orders'[r].position = orders[r].position
                            /\ r # o => orders'[r] = orders[r]
                            /\ orders'[o].status = st
    BY <2>2, <1>t DEF Order
  <2>5. Quiet
    BY <2>3, <2>4, <1>t DEF OrderMint, Account
  <2> HIDE DEF Quiet
  <2> QED BY <2>5, <1>q
<1>7. CASE \E paused \in BOOLEAN : pause(paused)
  <2>1. Quiet
    BY <1>7, <1>t DEF pause, OrderMint, Account
  <2> HIDE DEF Quiet
  <2> QED BY <2>1, <1>q
<1>8. CASE \E p \in Signals : RequestExit(p)
  <2>1. Quiet
    BY <1>8, <1>t DEF RequestExit, OrderMint, Position
  <2> HIDE DEF Quiet
  <2> QED BY <2>1, <1>q
<1> QED BY <1>1, <1>2, <1>3, <1>4, <1>5, <1>6, <1>7, <1>8 DEF BooksNext

\* The ledger explains the account: over any number of orders, tokens and
\* settlements, in any order, the balances are the capital plus the settlement
\* rows, the rows of a token add up to what is held of it, and no fee is counted
\* twice or lost between an entry and its exit.
THEOREM LedgerAlwaysExplains == BooksSpec => []LedgerExplainsAccount
<1>1. BooksInit => LedgerSums
  BY InitLedger
<1>2. BooksInv /\ BooksInv' /\ LedgerSums /\ [BooksNext]_booksVars => LedgerSums'
  BY NextLedger
<1>3. LedgerSums => LedgerExplainsAccount
  BY LedgerIsSums
<1> QED BY <1>1, <1>2, <1>3, BooksInvariant, PTL DEF BooksSpec

-----------------------------------------------------------------------------
(***************************************************************************)
(* For the traders: a swap of what is held is one the books allow.         *)
(***************************************************************************)
\* What an unresolved order asks for can be swapped.
LEMMA InputIsAmount ==
  ASSUME BooksInv, QuantitiesAreAmounts, NEW o \in OrderIds, IsActive(o)
  PROVE  orders[o].input \in Amounts
<1>1. OrderShape /\ ExitsMatchPositions /\ QuantitiesAreAmounts
  BY DEF BooksInv
<1>2. CASE o \in Signals
  BY <1>1, <1>2, AmountAssumption DEF OrderShape, IsActive, Unresolved
<1>3. CASE o \notin Signals
  <2>1. o \in Exits /\ orders[o].position \in Signals
    BY <1>1, <1>3 DEF OrderShape, IsActive, Unresolved, OrderIds
  <2> QED BY <1>1, <2>1 DEF ExitsMatchPositions, QuantitiesAreAmounts
<1> QED BY <1>2, <1>3

\* What was bought is an amount a swap may take.
LEMMA QuantityKept ==
  ASSUME BooksInv, QuantitiesAreAmounts, [BooksNext]_booksVars
  PROVE  QuantitiesAreAmounts'
<1>t. positions \in [Signals -> Position]
  BY DEF BooksInv, BooksTypeOK
<1>1. CASE \E o \in OrderIds, input, output \in Amounts, fee \in Fees, gas \in GasCosts :
             fill(o, input, output, fee, gas)
  <2> PICK o \in OrderIds, input \in Amounts, output \in Amounts, fee \in Fees, gas \in GasCosts :
             fill(o, input, output, fee, gas)
    BY <1>1
  <2>1. CASE o \in Signals /\ FillBuy(o, input, output, fee, gas)
    BY <2>1, <1>t DEF FillBuy, QuantitiesAreAmounts, Position
  <2>2. CASE o \in Exits /\ FillSell(o, input, output, fee, gas)
    BY <2>2, <1>t DEF FillSell, QuantitiesAreAmounts, Position
  <2> QED BY <2>1, <2>2 DEF fill
<1>2. CASE \E p \in Signals : RequestExit(p)
  BY <1>2, <1>t DEF RequestExit, QuantitiesAreAmounts, Position
<1>3. CASE positions' = positions
  BY <1>3 DEF QuantitiesAreAmounts
<1> QED BY <1>1, <1>2, <1>3 DEF BooksNext, booksVars, Observe, Skip, reserve_buy, queue_exit,
       fail_order, MarkPrepared, MarkChecking, MarkReview, pause
=============================================================================
