---------------------------- MODULE TradingBooks ----------------------------
(***************************************************************************)
(* The saved account of the Solana trader: cash, reservations, orders,     *)
(* positions and the settlement ledger of src/src/runner_trading/ledger.py.*)
(* Every action is one database transaction, as every function of that     *)
(* file is.  Who may run a transaction, and when, is the business of the   *)
(* modules that extend this one: here any caller may attempt any of them   *)
(* in any order, and what is refused is refused by the transaction itself. *)
(*                                                                         *)
(* A definition with a suffix, such as fail_order_X, is fail_order with a   *)
(* plausible mistake X; no other definition uses it.                       *)
(*                                                                         *)
(* A buy order's key is a hash of its signal and the position it opens     *)
(* takes the key of the order, so one member of Signals names all three.   *)
(* A sell order has a random key, drawn from Exits.                        *)
(***************************************************************************)
EXTENDS Integers, FiniteSets, Functions

CONSTANTS
  Signals,       \* keys of trading_signals rows
  Exits,         \* keys that sell orders may draw; bounds the exits attempted
  Mints,         \* tokens
  MintOf,        \* the token of each signal
  Mode,          \* "paper" or "live"
  InitialUsdc, InitialSol,
  EntryUsdc, MaxPositions, MaxExposure, MinSol, MaxFee,   \* Policy
  Amounts,       \* raw quantities a swap may take or return
  Fees,          \* lamports a settlement may cost
  GasCosts       \* the same cost priced in USDC

ASSUME UniverseAssumption ==
  /\ IsFiniteSet(Signals) /\ IsFiniteSet(Exits)
  /\ Signals \cap Exits = {}
  /\ MintOf \in [Signals -> Mints]
  /\ Mode \in {"paper", "live"}

\* Policy.__post_init__: positive integers, and limits in order.
ASSUME PolicyAssumption ==
  /\ InitialUsdc \in Nat \ {0} /\ InitialSol \in Nat \ {0} /\ EntryUsdc \in Nat \ {0}
  /\ MaxPositions \in Nat \ {0} /\ MaxExposure \in Nat \ {0}
  /\ MinSol \in Nat \ {0} /\ MaxFee \in Nat \ {0}
  /\ EntryUsdc <= MaxExposure
  /\ MaxExposure <= InitialUsdc
  /\ MinSol <= InitialSol

\* Jupiter.quote and Live.settle refuse a cost above max_fee_lamports.
ASSUME AmountAssumption ==
  /\ Amounts \subseteq Nat \ {0} /\ EntryUsdc \in Amounts
  /\ Fees \subseteq 0..MaxFee
  /\ GasCosts \subseteq Nat

VARIABLES
  acct,       \* the trading_accounts row
  signals,    \* trading_signals.state
  orders,     \* trading_orders
  positions,  \* trading_positions
  book        \* trading_ledger, one settlement row per order

booksVars == <<acct, signals, orders, positions, book>>

-----------------------------------------------------------------------------
OrderIds == Signals \cup Exits

Unresolved == {"queued", "prepared", "submitted", "checking"}
Resolved == {"filled", "failed"}
SignalStates == {"none", "observed", "ordered", "entered", "entry_failed", "skipped"}
NoOwner == "no position"

Account == [cash: Nat, reserved: Nat, sol: Nat, gas: Nat, realized: Int, paused: BOOLEAN]
Order == [status: {"none"} \cup Unresolved \cup Resolved, position: Signals \cup {NoOwner},
          input: Nat, reserved: Nat]
Position == [status: {"none", "open", "closed"}, quantity: Nat, cost: Nat, entry_fee: Nat,
             exit_requested: BOOLEAN]
Row == [kind: {"none", "buy", "sell", "failed"}, cash: Int, sol: Int, gas: Int, quantity: Int]

NoOrder == [status |-> "none", position |-> NoOwner, input |-> 0, reserved |-> 0]
NoPosition == [status |-> "none", quantity |-> 0, cost |-> 0, entry_fee |-> 0,
               exit_requested |-> FALSE]
NoRow == [kind |-> "none", cash |-> 0, sol |-> 0, gas |-> 0, quantity |-> 0]

BooksTypeOK ==
  /\ acct \in Account
  /\ signals \in [Signals -> SignalStates]
  /\ orders \in [OrderIds -> Order]
  /\ positions \in [Signals -> Position]
  /\ book \in [OrderIds -> Row]

-----------------------------------------------------------------------------
IsActive(o) == orders[o].status \in Unresolved
PendingBuys == {s \in Signals : IsActive(s)}
OpenPositions == {p \in Signals : positions[p].status = "open"}
OrderMint(o) == IF o \in Signals THEN MintOf[o] ELSE MintOf[orders[o].position]

\* The partial unique index trading_orders_one_pending.
PendingOn_SellsOnly(mint) == \E o \in Exits : IsActive(o) /\ OrderMint(o) = mint
PendingOn(mint) == \E o \in OrderIds : IsActive(o) /\ OrderMint(o) = mint
OpenOn(mint) == \E p \in OpenPositions : MintOf[p] = mint

\* SUM(cost_usdc) over open positions.  fill only accepts the reserved input,
\* so every position costs EntryUsdc (CostIsEntry below).
OpenCost == EntryUsdc * Cardinality(OpenPositions)

\* The CHECK constraints of trading_accounts: a transaction that would break
\* one is rolled back.
AccountCheck(a) ==
  /\ a.cash >= 0
  /\ a.reserved >= 0
  /\ a.sol >= 0
  /\ a.reserved <= a.cash

\* ensure_account, with the capital row of the ledger folded into the balances.
BooksInit ==
  /\ acct = [cash |-> InitialUsdc, reserved |-> 0, sol |-> InitialSol, gas |-> 0,
             realized |-> 0, paused |-> FALSE]
  /\ signals = [s \in Signals |-> "none"]
  /\ orders = [o \in OrderIds |-> NoOrder]
  /\ positions = [s \in Signals |-> NoPosition]
  /\ book = [o \in OrderIds |-> NoRow]

-----------------------------------------------------------------------------
\* Trader.signals saves the transitions it saw before it decides on them ...
Observe(new) ==
  /\ \A s \in new : signals[s] = "none"
  /\ signals' = [s \in Signals |-> IF s \in new THEN "observed" ELSE signals[s]]
  /\ UNCHANGED <<acct, orders, positions, book>>

\* ... and gives up on the ones it does not enter.  The contract kept here is
\* that only an observed signal is skipped; the UPDATE names no state.
Skip(s) ==
  /\ signals[s] = "observed"
  /\ signals' = [signals EXCEPT ![s] = "skipped"]
  /\ UNCHANGED <<acct, orders, positions, book>>

SlotFree_AtLimit == Cardinality(OpenPositions) + Cardinality(PendingBuys) <= MaxPositions
SlotFree == Cardinality(OpenPositions) + Cardinality(PendingBuys) < MaxPositions

\* The gas reserve must also carry the fees of the buys already pending.
GasAtHand_Unchecked == TRUE
GasAtHand == acct.sol >= MinSol + (Cardinality(PendingBuys) + 1) * MaxFee

CanReserve(s) ==
  /\ ~acct.paused
  /\ SlotFree
  /\ acct.cash - acct.reserved >= EntryUsdc
  /\ OpenCost + acct.reserved + EntryUsdc <= MaxExposure
  /\ GasAtHand
  /\ ~OpenOn(MintOf[s])
  /\ ~PendingOn(MintOf[s])
  /\ orders[s].status = "none"

reserve_buy(s) ==
  /\ signals[s] = "observed"
  /\ CanReserve(s)
  /\ orders' = [orders EXCEPT ![s] = [status |-> "queued", position |-> NoOwner,
                                      input |-> EntryUsdc, reserved |-> EntryUsdc]]
  /\ acct' = [acct EXCEPT !.reserved = @ + EntryUsdc]
  /\ signals' = [signals EXCEPT ![s] = "ordered"]
  /\ UNCHANGED <<positions, book>>

queue_exit_Repeated(p, e) ==
  /\ positions[p].status = "open"
  /\ orders[e].status = "none"
  /\ orders' = [orders EXCEPT ![e] = [status |-> "queued", position |-> p,
                                      input |-> positions[p].quantity, reserved |-> 0]]
  /\ UNCHANGED <<acct, signals, positions, book>>

queue_exit(p, e) ==
  /\ positions[p].status = "open"
  /\ orders[e].status = "none"
  /\ ~PendingOn(MintOf[p])
  /\ orders' = [orders EXCEPT ![e] = [status |-> "queued", position |-> p,
                                      input |-> positions[p].quantity, reserved |-> 0]]
  /\ UNCHANGED <<acct, signals, positions, book>>

-----------------------------------------------------------------------------
\* The UPDATE of trading_accounts with which fail_order and fill settle an order.
Settled_KeepsReservation(o, cash, fee, gas, realized) ==
  [acct EXCEPT !.cash = @ + cash, !.sol = @ - fee, !.gas = @ + gas, !.realized = @ + realized]

Settled_GasSubtracted(o, cash, fee, gas, realized) ==
  [acct EXCEPT !.cash = @ + cash, !.reserved = @ - orders[o].reserved,
               !.sol = @ - fee, !.gas = @ - gas, !.realized = @ + realized]

Settled_FreesTwice(o, cash, fee, gas, realized) ==
  [acct EXCEPT !.cash = @ + cash, !.reserved = @ - 2 * orders[o].reserved,
               !.sol = @ - fee, !.gas = @ + gas, !.realized = @ + realized]

Settled(o, cash, fee, gas, realized) ==
  [acct EXCEPT !.cash = @ + cash, !.reserved = @ - orders[o].reserved,
               !.sol = @ - fee, !.gas = @ + gas, !.realized = @ + realized]

\* The row each of them adds to trading_ledger.
FailedRow_FeeDropped(fee, gas) ==
  [kind |-> "failed", cash |-> 0, sol |-> 0, gas |-> gas, quantity |-> 0]
FailedRow(fee, gas) ==
  [kind |-> "failed", cash |-> 0, sol |-> -fee, gas |-> gas, quantity |-> 0]
BuyRow(input, output, fee, gas) ==
  [kind |-> "buy", cash |-> -input, sol |-> -fee, gas |-> gas, quantity |-> output]
SellRow(input, output, fee, gas) ==
  [kind |-> "sell", cash |-> output, sol |-> -fee, gas |-> gas, quantity |-> -input]

\* The result of a position: what its exit returned, less its cost and both fees.
Realized(p, output, gas) == output - positions[p].cost - positions[p].entry_fee - gas

\* An order that has resolved, or that never was, is left alone.
fail_order(o, fee, gas) ==
  /\ IsActive(o)
  /\ book[o] = NoRow                        \* trading_ledger.order_id is unique
  /\ AccountCheck(Settled(o, 0, fee, gas, 0))
  /\ acct' = Settled(o, 0, fee, gas, 0)
  /\ orders' = [orders EXCEPT ![o].status = "failed"]
  /\ signals' = IF o \in Signals THEN [signals EXCEPT ![o] = "entry_failed"] ELSE signals
  /\ book' = [book EXCEPT ![o] = FailedRow(fee, gas)]
  /\ UNCHANGED positions

\* fill, buy side: the reserved cash becomes a position.
FillBuy(s, input, output, fee, gas) ==
  /\ IsActive(s)
  /\ input = orders[s].input
  /\ ~(Mode = "paper" /\ acct.paused)
  /\ positions[s].status = "none"           \* primary key of trading_positions
  /\ ~OpenOn(MintOf[s])                     \* index trading_positions_one_open
  /\ book[s] = NoRow
  /\ AccountCheck(Settled(s, -input, fee, gas, 0))
  /\ positions' = [positions EXCEPT ![s] =
                     [status |-> "open", quantity |-> output, cost |-> input,
                      entry_fee |-> gas, exit_requested |-> FALSE]]
  /\ signals' = [signals EXCEPT ![s] = "entered"]
  /\ acct' = Settled(s, -input, fee, gas, 0)
  /\ orders' = [orders EXCEPT ![s].status = "filled"]
  /\ book' = [book EXCEPT ![s] = BuyRow(input, output, fee, gas)]

\* fill, sell side: the position becomes cash and a realized result.
FillSell(e, input, output, fee, gas) ==
  LET p == orders[e].position
      pnl == Realized(p, output, gas)
  IN /\ IsActive(e)
     /\ input = orders[e].input
     /\ positions[p].status = "open"
     /\ positions[p].quantity = input
     /\ book[e] = NoRow
     /\ AccountCheck(Settled(e, output, fee, gas, pnl))
     /\ positions' = [positions EXCEPT ![p].status = "closed"]
     /\ acct' = Settled(e, output, fee, gas, pnl)
     /\ orders' = [orders EXCEPT ![e].status = "filled"]
     /\ book' = [book EXCEPT ![e] = SellRow(input, output, fee, gas)]
     /\ UNCHANGED signals

fill(o, input, output, fee, gas) ==
  \/ o \in Signals /\ FillBuy(o, input, output, fee, gas)
  \/ o \in Exits /\ FillSell(o, input, output, fee, gas)

-----------------------------------------------------------------------------
\* Live.prepare: the signed bytes of a queued order are saved.
MarkPrepared(o) ==
  /\ orders[o].status = "queued"
  /\ ~(o \in Signals /\ acct.paused)
  /\ orders' = [orders EXCEPT ![o].status = "prepared"]
  /\ UNCHANGED <<acct, signals, positions, book>>

\* Live.recover, before it sends the saved bytes.  The contract kept here is
\* that only an unresolved order is moved; the UPDATE itself names no status.
MarkChecking_AnyStatus(o) ==
  /\ orders[o].status # "none"
  /\ orders' = [orders EXCEPT ![o].status = "checking"]
  /\ UNCHANGED <<acct, signals, positions, book>>

MarkChecking(o) ==
  /\ IsActive(o)
  /\ orders' = [orders EXCEPT ![o].status = "checking"]
  /\ UNCHANGED <<acct, signals, positions, book>>

\* Live.review: evidence that does not fit the order stops new entries.
MarkReview(o) ==
  /\ IsActive(o)
  /\ orders' = [orders EXCEPT ![o].status = "checking"]
  /\ acct' = [acct EXCEPT !.paused = TRUE]
  /\ UNCHANGED <<signals, positions, book>>

pause(paused) ==
  /\ acct' = [acct EXCEPT !.paused = paused]
  /\ UNCHANGED <<signals, orders, positions, book>>

\* trading_control, action "exit".
RequestExit_Closed(p) ==
  /\ positions[p].status # "none"
  /\ positions' = [positions EXCEPT ![p].exit_requested = TRUE]
  /\ UNCHANGED <<acct, signals, orders, book>>

RequestExit(p) ==
  /\ positions[p].status = "open"
  /\ positions' = [positions EXCEPT ![p].exit_requested = TRUE]
  /\ UNCHANGED <<acct, signals, orders, book>>

-----------------------------------------------------------------------------
\* Only a finalized transaction can charge a fee for a failed order.
FailureFees == IF Mode = "live" THEN {0} \cup Fees ELSE {0}
FailureGas == IF Mode = "live" THEN {0} \cup GasCosts ELSE {0}

BooksNext ==
  \/ \E new \in SUBSET Signals : Observe(new)
  \/ \E s \in Signals : Skip(s) \/ reserve_buy(s)
  \/ \E p \in Signals, e \in Exits : queue_exit(p, e)
  \/ \E o \in OrderIds, fee \in FailureFees, gas \in FailureGas : fail_order(o, fee, gas)
  \/ \E o \in OrderIds, input, output \in Amounts, fee \in Fees, gas \in GasCosts :
        fill(o, input, output, fee, gas)
  \/ Mode = "live" /\ \E o \in OrderIds : MarkPrepared(o) \/ MarkChecking(o) \/ MarkReview(o)
  \/ \E paused \in BOOLEAN : pause(paused)
  \/ \E p \in Signals : RequestExit(p)

BooksSpec == BooksInit /\ [][BooksNext]_booksVars

-----------------------------------------------------------------------------
(***************************************************************************)
(* Properties.                                                             *)
(***************************************************************************)
\* The cash held back is exactly what the unresolved buys will spend: no path
\* through reserve_buy, fail_order and fill, in any order and however often
\* they are retried, leaks a reservation or frees one twice.
ReservationExact ==
  acct.reserved = EntryUsdc * Cardinality(PendingBuys)

\* Policy.max_positions, max_exposure_usdc and the cash at hand bound what is
\* open and what is pending TOGETHER, although reserve_buy looks at them once
\* and the fills happen later, one by one, with pauses and exits between.
LimitsHold ==
  /\ Cardinality(OpenPositions) + Cardinality(PendingBuys) <= MaxPositions
  /\ EntryUsdc * (Cardinality(OpenPositions) + Cardinality(PendingBuys)) <= MaxExposure
  /\ acct.reserved <= acct.cash

\* At most one stake per token: two unresolved buys, a buy and an open
\* position, or two open positions never share a mint.  It is what keeps
\* the insert of fill from ever meeting the index trading_positions_one_open
\* after the swap of a live order has landed.
Stakes == OpenPositions \cup PendingBuys

OneStakePerMint ==
  \A p, q \in Stakes : MintOf[p] = MintOf[q] => p = q

\* An unresolved sell always names a position that is still open and asks for
\* exactly its quantity, so fill never raises "Position quantity differs from
\* the exit" on a swap that has already landed.
ExitsMatchPositions ==
  \A e \in Exits : IsActive(e) =>
     /\ positions[orders[e].position].status = "open"
     /\ orders[e].input = positions[orders[e].position].quantity

\* The ledger explains the account, although trading_accounts, trading_positions
\* and trading_ledger are written by separate statements over several
\* transactions: the balances are the capital plus the settlement rows, ...
BalancesExplained ==
  /\ acct.cash = InitialUsdc + SumFunction([o \in OrderIds |-> book[o].cash])
  /\ acct.sol = InitialSol + SumFunction([o \in OrderIds |-> book[o].sol])
  /\ acct.gas = SumFunction([o \in OrderIds |-> book[o].gas])

\* ... the quantity it gives a token, which Live.reconcile compares with the
\* wallet, is that of the token's open position, ...
OrdersOn(m) == {o \in OrderIds : orders[o].status # "none" /\ OrderMint(o) = m}
PositionsOn(m) == {p \in OpenPositions : MintOf[p] = m}

HoldingsExplained ==
  \A m \in Mints :
    SumFunctionOnSet([o \in OrderIds |-> book[o].quantity], OrdersOn(m))
      = SumFunctionOnSet([p \in Signals |-> positions[p].quantity], PositionsOn(m))

\* ... and realized results, what is still invested and the gas of failed orders
\* add up to the change of cash less gas: no fee is counted twice or lost between
\* an entry and its exit.
FailedOrders == {o \in OrderIds : book[o].kind = "failed"}

ResultsExplained ==
  acct.cash - acct.gas
    + SumFunctionOnSet([p \in Signals |-> positions[p].cost + positions[p].entry_fee], OpenPositions)
    + SumFunctionOnSet([o \in OrderIds |-> book[o].gas], FailedOrders)
  = InitialUsdc + acct.realized

LedgerExplainsAccount == BalancesExplained /\ HoldingsExplained /\ ResultsExplained

\* A settlement is written once.  After an order has resolved, no later call,
\* retry or late receipt changes it, its ledger row or, once closed, its
\* position; and a row appears only together with a resolution.
SettlementsAreFinal ==
  [][\A o \in OrderIds :
       /\ orders[o].status \in Resolved => orders'[o] = orders[o]
       /\ book[o] # NoRow => book'[o] = book[o]
       /\ book'[o] # book[o] => orders[o].status \in Unresolved /\ orders'[o].status \in Resolved
       /\ o \in Signals /\ positions[o].status = "closed" => positions'[o] = positions[o]
    ]_booksVars

\* What happened outside can be booked: no settlement of an active order is
\* refused by a CHECK constraint or a unique index, so no fill is rolled back.
\* Cash, reservation, position and row always fit.  The gas fits as long as the
\* costs that occur stay under some f that the reserve can carry: reserve_buy
\* keeps min_sol_lamports back, every position may cost one more settlement and
\* every pending buy two, and each of them that is still owed brings f along.
\* Under the default policy (10,000,000 lamports, four positions) f = 2,500,000
\* is always carried, f = max_fee_lamports = 5,000,000 only while three are owed:
\* Policy does not relate the three, and an exit may find less than it costs.
\* Failures cost nothing in paper mode; LandedIsBookable speaks of live mode.
GasOwed == 2 * Cardinality(PendingBuys) + Cardinality(OpenPositions)
NoneAbove(f) == \A fee \in Fees : fee <= f
ReserveCarries(f) == NoneAbove(f) /\ MinSol + GasOwed * f >= (MaxPositions + 1) * f

SettlementNeverBlocked ==
  \A o \in OrderIds : IsActive(o) =>
    /\ Mode = "paper" => \A f \in 0..MaxFee : ReserveCarries(f) => acct.sol >= f
    /\ acct.reserved >= orders[o].reserved
    /\ o \in Signals => /\ acct.cash - acct.reserved >= 0
                        /\ acct.cash >= orders[o].input
                        /\ ~OpenOn(MintOf[o])
                        /\ positions[o].status = "none"
    /\ book[o] = NoRow

-----------------------------------------------------------------------------
(***************************************************************************)
(* The inductive invariant behind them, proved in TradingBooksProofs.      *)
(***************************************************************************)
\* An order keeps the shape its insert gave it.
OrderShape ==
  \A o \in OrderIds :
    IF orders[o].status = "none" THEN orders[o] = NoOrder
    ELSE IF o \in Signals THEN orders[o].input = EntryUsdc /\ orders[o].reserved = EntryUsdc
    ELSE orders[o].position \in Signals /\ orders[o].reserved = 0

\* A position exists only under its filled buy, and costs what was reserved.
CostIsEntry ==
  \A p \in Signals : positions[p].status # "none" =>
    orders[p].status = "filled" /\ positions[p].cost = EntryUsdc

\* Only a resolved order has a settlement row.
RowsAreResolved ==
  \A o \in OrderIds : book[o] # NoRow => orders[o].status \in Resolved

\* The index trading_orders_one_pending, over buys and sells alike.
OnePendingPerMint ==
  \A o, r \in OrderIds : IsActive(o) /\ IsActive(r) /\ OrderMint(o) = OrderMint(r) => o = r

\* Whatever bound f the costs stay under, the reserve plus one f for each
\* settlement still owed (the exit of each open position, the entry and the exit
\* of each pending buy) is at hand, but for one f for each position allowed.
GasCovers ==
  Mode = "paper" =>
    \A f \in 0..MaxFee : NoneAbove(f) => acct.sol + MaxPositions * f >= MinSol + GasOwed * f

BooksInv ==
  /\ BooksTypeOK
  /\ OrderShape
  /\ CostIsEntry
  /\ RowsAreResolved
  /\ OnePendingPerMint
  /\ ReservationExact
  /\ LimitsHold
  /\ OneStakePerMint
  /\ ExitsMatchPositions
  /\ GasCovers

\* What is held could be sold again.
QuantitiesAreAmounts ==
  \A p \in Signals : positions[p].status # "none" => positions[p].quantity \in Amounts
=============================================================================
