---------------------------- MODULE PaperTrader ----------------------------
(***************************************************************************)
(* The paper trader: the cycle of Trader (src/src/runner_trading/engine.py)*)
(* with fills that are made up from quotes, call by call and transaction   *)
(* by transaction, on the books of TradingBooks.                           *)
(*                                                                         *)
(* The account's lease, which keeps a second process out, is in            *)
(* TradingLease and LiveTrader; here one process runs and may break off a  *)
(* cycle anywhere.  Quotes and the evidence on a token are left open.      *)
(***************************************************************************)
EXTENDS TradingBooks

CONSTANTS
  DailyLoss, MaxDrawdown,  \* Policy.daily_loss_usdc, max_drawdown_bps
  NoItem

ASSUME PaperTraderAssumption ==
  /\ DailyLoss \in Nat \ {0} /\ MaxDrawdown \in 1..9999
  /\ NoItem \notin OrderIds

VARIABLES
  marks,   \* mark_usdc and mark_at of each position
  risk,    \* the equity anchors of the account, and whether a limit paused it
  ready,   \* orders whose ready_at is past
  trader   \* the cycle

paperVars == <<booksVars, marks, risk, ready, trader>>

-----------------------------------------------------------------------------
\* "missing": no quote; "old": three cycles ago or more.
NoMark == [state |-> "missing", usdc |-> 0]
Larger(a, b) == IF a < b THEN b ELSE a
NewMarks == {[state |-> "fresh", usdc |-> Larger(0, value - gas)] : value \in Amounts, gas \in GasCosts}

Between == [pc |-> "idle", todo |-> {}, at |-> NoItem, issues |-> FALSE, asked |-> {}]

PaperTypeOK ==
  /\ BooksTypeOK
  /\ marks \in [Signals -> [state : {"missing", "fresh", "old"}, usdc : Nat]]
  /\ risk \in [peak : Nat, day_equity : Int, today : BOOLEAN, alarm : BOOLEAN]
  /\ ready \in [OrderIds -> BOOLEAN]
  /\ trader \in [pc : {"idle", "monitor", "exit", "orders", "quote", "mark", "signals", "enter"},
                 todo : SUBSET OrderIds, at : OrderIds \cup {NoItem},
                 issues : BOOLEAN, asked : SUBSET Signals]

PaperInit ==
  /\ BooksInit
  /\ marks = [p \in Signals |-> NoMark]
  /\ risk = [peak |-> InitialUsdc, day_equity |-> InitialUsdc, today |-> TRUE, alarm |-> FALSE]
  /\ ready = [o \in OrderIds |-> FALSE]
  /\ trader = Between

-----------------------------------------------------------------------------
\* monitor()

StartCycle ==
  /\ trader.pc = "idle"
  /\ trader' = [Between EXCEPT !.pc = "monitor", !.todo = OpenPositions,
                               !.asked = {p \in OpenPositions : positions[p].exit_requested}]
  /\ UNCHANGED <<booksVars, marks, risk, ready>>

Mark(p) ==
  /\ trader.pc = "monitor" /\ p \in trader.todo
  /\ \E mark \in NewMarks \cup {NoMark} :
       /\ marks' = [marks EXCEPT ![p] = mark]
       /\ trader' = [trader EXCEPT !.pc = "exit", !.at = p, !.todo = @ \ {p},
                                   !.issues = @ \/ mark = NoMark]
  /\ UNCHANGED <<booksVars, risk, ready>>

QueueExit ==
  /\ trader.pc = "exit"
  /\ \E e \in Exits : /\ queue_exit(trader.at, e)
                      /\ ready' = [ready EXCEPT ![e] = TRUE]
  /\ trader' = [trader EXCEPT !.pc = "monitor", !.at = NoItem]
  /\ UNCHANGED <<marks, risk>>

\* There is no reason to exit, or a sell is on its way.
KeepPosition ==
  /\ trader.pc = "exit"
  /\ trader.at \notin trader.asked \/ PendingOn(MintOf[trader.at])
  /\ trader' = [trader EXCEPT !.pc = "monitor", !.at = NoItem]
  /\ UNCHANGED <<booksVars, marks, risk, ready>>

-----------------------------------------------------------------------------
\* risk_limits()

Complete_Ignored == TRUE
Complete == \A p \in OpenPositions : marks[p].state = "fresh"

Equity == acct.cash - acct.gas + SumFunctionOnSet([p \in Signals |-> marks[p].usdc], OpenPositions)

risk_limits ==
  LET day == IF risk.today THEN risk.day_equity ELSE Equity
      peak == Larger(Equity, risk.peak)
      lost == \/ day - Equity >= DailyLoss
              \/ Equity * 10000 <= peak * (10000 - MaxDrawdown)
  IN IF Complete
     THEN /\ risk' = [peak |-> peak, day_equity |-> day, today |-> TRUE,
                      alarm |-> risk.alarm \/ (lost /\ ~acct.paused)]
          /\ acct' = [acct EXCEPT !.paused = @ \/ lost]
     ELSE UNCHANGED <<risk, acct>>

\* Before the orders, and after them.
RiskLimits ==
  /\ trader.pc \in {"monitor", "orders"} /\ trader.todo = {}
  /\ risk_limits
  /\ trader' = IF trader.pc = "monitor"
               THEN [trader EXCEPT !.pc = "orders", !.todo = {o \in OrderIds : IsActive(o)}]
               ELSE [trader EXCEPT !.pc = "signals"]
  /\ UNCHANGED <<signals, orders, positions, book, marks, ready>>

-----------------------------------------------------------------------------
\* orders(), sells first

EntryHealthy_SwitchOnly == ~acct.paused
EntryHealthy ==
  /\ ~trader.issues
  /\ ~acct.paused
  /\ \A p \in OpenPositions : marks[p].state = "fresh"
  /\ \A o \in OrderIds : IsActive(o) => orders[o].status = "queued"

HasTurn(o) ==
  /\ trader.pc = "orders" /\ o \in trader.todo
  /\ o \in Exits \/ trader.todo \cap Exits = {}

Done(o) == [trader EXCEPT !.todo = @ \ {o}]

PassOver(o) ==
  /\ HasTurn(o) /\ ~ready[o]
  /\ trader' = Done(o)
  /\ UNCHANGED <<booksVars, marks, risk, ready>>

MayTry_Unpaused(o) == IF o \in Signals THEN EntryHealthy ELSE ~acct.paused
MayTry(o) == o \in Signals => EntryHealthy

TakeUp(o) ==
  /\ HasTurn(o) /\ ready[o] /\ MayTry(o)
  /\ trader' = [Done(o) EXCEPT !.pc = "quote", !.at = o]
  /\ UNCHANGED <<booksVars, marks, risk, ready>>

\* The gate is closed, the evidence has changed or the entry's time is over.
DropEntry(s) ==
  /\ HasTurn(s) /\ ready[s]
  /\ s \in Signals /\ fail_order(s, 0, 0)
  /\ trader' = Done(s)
  /\ UNCHANGED <<marks, risk, ready>>

NextOrder(issues) == [trader EXCEPT !.pc = "orders", !.at = NoItem, !.issues = @ \/ issues]

Fill ==
  LET o == trader.at IN
  /\ trader.pc = "quote"
  /\ \E output \in Amounts, fee \in Fees, gas \in GasCosts :
       fill(o, orders[o].input, output, fee, gas)
  /\ IF o \in Signals
     THEN trader' = [trader EXCEPT !.pc = "mark"] /\ UNCHANGED marks
     ELSE trader' = NextOrder(FALSE) /\ marks' = [marks EXCEPT ![orders[o].position] = NoMark]
  /\ UNCHANGED <<risk, ready>>

\* A quote fails, or is old by now, or shows too high a cost, or the operator has
\* paused meanwhile: an entry is given up, an exit is tried again in a minute.
QuoteFails ==
  LET o == trader.at IN
  /\ trader.pc = "quote"
  /\ IF o \in Signals
     THEN fail_order(o, 0, 0) /\ UNCHANGED ready
     ELSE ready' = [ready EXCEPT ![o] = FALSE] /\ UNCHANGED booksVars
  /\ trader' = NextOrder(TRUE)
  /\ UNCHANGED <<marks, risk>>

\* A new position takes its mark from the quote back, if that is still fresh.
MarkEntry ==
  /\ trader.pc = "mark"
  /\ \E mark \in NewMarks : marks' = [marks EXCEPT ![trader.at] = mark]
  /\ trader' = NextOrder(FALSE)
  /\ UNCHANGED <<booksVars, risk, ready>>

MarkEntryLate ==
  /\ trader.pc = "mark"
  /\ trader' = NextOrder(TRUE)
  /\ UNCHANGED <<booksVars, marks, risk, ready>>

-----------------------------------------------------------------------------
\* signals()

ObserveSignals ==
  /\ trader.pc = "signals"
  /\ \E new \in SUBSET Signals : Observe(new)
  /\ trader' = [trader EXCEPT !.pc = "enter", !.todo = {s \in Signals : signals'[s] = "observed"}]
  /\ UNCHANGED <<marks, risk, ready>>

Enter(s) ==
  /\ trader.pc = "enter" /\ s \in trader.todo
  /\ EntryHealthy
  /\ reserve_buy(s)
  /\ trader' = Done(s)
  /\ UNCHANGED <<marks, risk, ready>>

\* With an issue when its first quote failed.
PassUp(s) ==
  /\ trader.pc = "enter" /\ s \in trader.todo
  /\ Skip(s)
  /\ \E issues \in {trader.issues, TRUE} : trader' = [Done(s) EXCEPT !.issues = issues]
  /\ UNCHANGED <<marks, risk, ready>>

CycleOver == trader.pc = "enter" /\ trader.todo = {}

EndCycle ==
  /\ CycleOver
  /\ trader' = Between
  /\ UNCHANGED <<booksVars, marks, risk, ready>>

\* The process ends, or something is raised that the cycle does not expect.
BreakOff ==
  /\ trader.pc # "idle" /\ ~CycleOver
  /\ trader' = Between
  /\ UNCHANGED <<booksVars, marks, risk, ready>>

-----------------------------------------------------------------------------
\* Time, and the operator.
MarkAges(p) ==
  /\ marks[p].state = "fresh"
  /\ marks' = [marks EXCEPT ![p].state = "old"]
  /\ UNCHANGED <<booksVars, risk, ready, trader>>

OrderDue(o) ==
  /\ orders[o].status = "queued"
  /\ ready' = [ready EXCEPT ![o] = TRUE]
  /\ UNCHANGED <<booksVars, marks, risk, trader>>

NewDay ==
  /\ risk' = [risk EXCEPT !.today = FALSE]
  /\ UNCHANGED <<booksVars, marks, ready, trader>>

Operator ==
  /\ \/ /\ \E paused \in BOOLEAN : pause(paused)
        /\ risk' = [risk EXCEPT !.alarm = FALSE]
     \/ /\ \E p \in Signals : RequestExit(p)
        /\ UNCHANGED risk
  /\ UNCHANGED <<marks, ready, trader>>

Cycle ==
  \/ StartCycle \/ (\E p \in Signals : Mark(p)) \/ QueueExit \/ KeepPosition
  \/ RiskLimits
  \/ \E o \in OrderIds : PassOver(o) \/ TakeUp(o) \/ DropEntry(o)
  \/ Fill \/ QuoteFails \/ MarkEntry \/ MarkEntryLate
  \/ ObserveSignals \/ (\E s \in Signals : Enter(s) \/ PassUp(s)) \/ EndCycle

PaperNext ==
  \/ Cycle \/ BreakOff
  \/ \E p \in Signals : MarkAges(p)
  \/ \E o \in OrderIds : OrderDue(o)
  \/ NewDay
  \/ Operator

-----------------------------------------------------------------------------
\* In the end cycles go on for ever and are not broken off any more, orders
\* become due, and a quote that is asked for again and again is given at last.
SellsAtLast == trader.at \in Exits /\ Fill

PaperFairness ==
  /\ <>[][~BreakOff]_paperVars
  /\ WF_paperVars(Cycle)
  /\ \A e \in Exits : WF_paperVars(OrderDue(e))
  /\ SF_paperVars(SellsAtLast)

PaperSpec == PaperInit /\ [][PaperNext]_paperVars /\ PaperFairness

\* While an exit quote is missing, no money goes into another token: a buy is
\* filled only when every position that is open has a mark, also when the fill
\* before it, in the same pass or the last one, was left without.
EntriesNeedMarks ==
  [][\A s \in Signals : trader.at = s /\ s \notin OpenPositions /\ positions'[s].status = "open" =>
       \A p \in OpenPositions : marks[p].state # "missing"]_paperVars

\* A limit pauses the account only for money that is really lost: what the open
\* positions are worth less than they cost, and what closed ones lost, is as much
\* as the limit, although cash, fees and marks are written one after the other.
\* No position has gained anything here, or the peak could be above the capital.
Loss ==
  SumFunctionOnSet([p \in Signals |-> positions[p].cost + positions[p].entry_fee - marks[p].usdc],
                   OpenPositions)
    - acct.realized
Drawdown == (InitialUsdc * MaxDrawdown) \div 10000

AlarmsAreReal ==
  [][~risk.alarm /\ risk'.alarm =>
       /\ \A p \in OpenPositions : marks[p].state # "missing"
       /\ \/ risk.peak > InitialUsdc
          \/ Loss >= DailyLoss \/ Loss >= Drawdown]_paperVars

\* "Pausing entries preserves exit monitoring" (docs/solana-trading.md): an exit
\* that the operator asks for is carried out, whatever is paused, breaks off or
\* fails for a while.
ExitAsked(p) == positions[p].status = "open" /\ positions[p].exit_requested
ExitsCarriedOut == \A p \in Signals : ExitAsked(p) ~> positions[p].status = "closed"

-----------------------------------------------------------------------------
(***************************************************************************)
(* The inductive invariant behind them, proved in PaperTraderProofs.       *)
(***************************************************************************)
\* The cycle works on positions while it monitors, and on an order it took up.
CycleShape ==
  /\ trader.pc \in {"monitor", "exit"} => trader.todo \subseteq Signals
  /\ trader.pc \in {"exit", "mark"} => trader.at \in Signals
  /\ trader.pc = "quote" => trader.at \in OrderIds

\* The marks that let a buy be taken up may grow old, but are there when it fills.
EntryMarked ==
  trader.pc = "quote" /\ trader.at \in Signals =>
    \A p \in OpenPositions : marks[p].state # "missing"

\* The day's anchor is an equity that the peak has seen.
AnchorsHold == InitialUsdc <= risk.peak /\ risk.day_equity <= risk.peak

\* Nothing is paid for an order that is given up.
FailuresAreFree == \A o \in FailedOrders : book[o].gas = 0

PaperInv ==
  /\ BooksInv
  /\ QuantitiesAreAmounts
  /\ PaperTypeOK
  /\ CycleShape
  /\ EntryMarked
  /\ AnchorsHold
  /\ FailuresAreFree
=============================================================================
