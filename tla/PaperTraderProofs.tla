------------------------- MODULE PaperTraderProofs -------------------------
(***************************************************************************)
(* For any signals, prices, fees and limits: the paper trader's cycle      *)
(* makes only transactions that TradingBooks allows, fills no buy past a   *)
(* missing mark, and raises the alarm only for money that is really lost.  *)
(*                                                                         *)
(* None of it needs the fairness of PaperSpec.                             *)
(***************************************************************************)
EXTENDS PaperTrader, TradingBooksProofs

-----------------------------------------------------------------------------
(***************************************************************************)
(* The cycle and its marks.                                                *)
(***************************************************************************)
Marks == [Signals -> [state : {"missing", "fresh", "old"}, usdc : Nat]]
Trader == [pc : {"idle", "monitor", "exit", "orders", "quote", "mark", "signals", "enter"},
           todo : SUBSET OrderIds, at : OrderIds \cup {NoItem},
           issues : BOOLEAN, asked : SUBSET Signals]

CycleOK ==
  /\ marks \in Marks
  /\ ready \in [OrderIds -> BOOLEAN]
  /\ trader \in Trader
  /\ CycleShape
  /\ EntryMarked

LEMMA InvIsCycleOK ==
  ASSUME PaperInv
  PROVE  CycleOK /\ BooksInv /\ QuantitiesAreAmounts /\ BooksTypeOK
BY DEF PaperInv, PaperTypeOK, CycleOK, Marks, Trader, BooksInv

LEMMA MarksTyped ==
  /\ NoMark \in [state : {"missing", "fresh", "old"}, usdc : Nat]
  /\ NewMarks \subseteq [state : {"missing", "fresh", "old"}, usdc : Nat]
  /\ \A mark \in NewMarks : mark # NoMark /\ mark.state = "fresh"
<1>1. \A value \in Amounts, gas \in GasCosts : Larger(0, value - gas) \in Nat
  BY AmountAssumption DEF Larger
<1> QED BY <1>1 DEF NoMark, NewMarks

\* What the steps of a cycle write: its record, and a mark or a due time.
LEMMA TraderSets ==
  ASSUME trader \in Trader
  PROVE  /\ trader.pc \in {"idle", "monitor", "exit", "orders", "quote", "mark", "signals", "enter"}
         /\ trader.todo \subseteq OrderIds /\ trader.at \in OrderIds \cup {NoItem}
         /\ trader.issues \in BOOLEAN /\ trader.asked \subseteq Signals
         /\ Signals \subseteq OrderIds /\ Exits \subseteq OrderIds
BY DEF Trader, OrderIds

LEMMA MonitorKeepsCycle ==
  ASSUME CycleOK, StartCycle \/ (\E p \in Signals : Mark(p)) \/ QueueExit \/ KeepPosition
  PROVE  CycleOK'
<1> USE DEF CycleOK
<1>1. CASE StartCycle
  <2>1. trader' = [Between EXCEPT !.pc = "monitor", !.todo = OpenPositions,
                               !.asked = {p \in OpenPositions : positions[p].exit_requested}]
    BY <1>1 DEF StartCycle
  <2>2. /\ trader' \in Trader /\ trader'.pc = "monitor" /\ trader'.todo = OpenPositions
    BY <2>1, TraderSets DEF Trader, Between, OpenPositions
  <2>3. CycleShape' /\ EntryMarked'
    BY <2>2 DEF CycleShape, EntryMarked, OpenPositions
  <2> QED BY <1>1, <2>2, <2>3 DEF StartCycle
<1>2. ASSUME NEW p \in Signals, Mark(p) PROVE CycleOK'
  <2>1. PICK mark \in NewMarks \cup {NoMark} :
          /\ marks' = [marks EXCEPT ![p] = mark]
          /\ trader' = [trader EXCEPT !.pc = "exit", !.at = p, !.todo = @ \ {p},
                                      !.issues = @ \/ mark = NoMark]
    BY <1>2 DEF Mark
  <2>2. marks' \in Marks
    BY <2>1, MarksTyped DEF Marks
  <2>3. /\ trader' \in Trader /\ trader'.pc = "exit" /\ trader'.at = p
        /\ trader'.todo = trader.todo \ {p}
    BY <2>1, TraderSets DEF Trader
  <2>4. CycleShape' /\ EntryMarked'
    BY <1>2, <2>3 DEF CycleShape, EntryMarked, Mark
  <2> QED BY <1>2, <2>2, <2>3, <2>4 DEF Mark
<1>3. CASE QueueExit \/ KeepPosition
  <2>1. /\ trader' = [trader EXCEPT !.pc = "monitor", !.at = NoItem] /\ marks' = marks
        /\ trader.pc = "exit"
    BY <1>3 DEF QueueExit, KeepPosition
  <2>2. ready' \in [OrderIds -> BOOLEAN]
    BY <1>3, TraderSets DEF QueueExit, KeepPosition
  <2>3. trader' \in Trader /\ trader'.pc = "monitor" /\ trader'.todo = trader.todo
    BY <2>1, TraderSets DEF Trader
  <2>4. CycleShape' /\ EntryMarked'
    BY <2>1, <2>3 DEF CycleShape, EntryMarked
  <2> QED BY <2>1, <2>2, <2>3, <2>4
<1> QED BY <1>1, <1>2, <1>3

\* A step after which the cycle is between two calls.
LEMMA RestKeepsCycle ==
  ASSUME CycleOK, marks' \in Marks, ready' \in [OrderIds -> BOOLEAN], trader' \in Trader,
         trader'.pc \in {"idle", "orders", "signals", "enter"}
  PROVE  CycleOK'
<1>1. CycleShape' /\ EntryMarked'
  BY DEF CycleShape, EntryMarked
<1> QED BY <1>1 DEF CycleOK

LEMMA NextOrderTyped ==
  ASSUME trader \in Trader, NEW issues \in BOOLEAN
  PROVE  NextOrder(issues) \in Trader /\ NextOrder(issues).pc = "orders"
<1>1. PICK b \in BOOLEAN : b = (trader.issues \/ issues)
  OBVIOUS
<1>2. NextOrder(issues) = [trader EXCEPT !.pc = "orders", !.at = NoItem, !.issues = b]
  BY <1>1 DEF NextOrder
<1> QED BY <1>2 DEF Trader

LEMMA OrdersKeepCycle ==
  ASSUME CycleOK,
         RiskLimits \/ (\E o \in OrderIds : PassOver(o) \/ TakeUp(o) \/ DropEntry(o))
         \/ Fill \/ QuoteFails \/ MarkEntry \/ MarkEntryLate
  PROVE  CycleOK'
<1>t. marks \in Marks /\ ready \in [OrderIds -> BOOLEAN] /\ trader \in Trader
  BY DEF CycleOK
<1>1. CASE RiskLimits
  <2>1. /\ \/ trader' = [trader EXCEPT !.pc = "orders", !.todo = {o \in OrderIds : IsActive(o)}]
           \/ trader' = [trader EXCEPT !.pc = "signals"]
        /\ marks' = marks /\ ready' = ready
    BY <1>1 DEF RiskLimits
  <2>2. trader' \in Trader /\ trader'.pc \in {"orders", "signals"}
    BY <1>t, <2>1 DEF Trader
  <2> QED BY <1>t, <2>1, <2>2, RestKeepsCycle
<1>2. ASSUME NEW o \in OrderIds, PassOver(o) \/ DropEntry(o) PROVE CycleOK'
  <2>1. trader' = Done(o) /\ trader.pc = "orders" /\ marks' = marks /\ ready' = ready
    BY <1>2 DEF PassOver, DropEntry, HasTurn
  <2>2. trader' \in Trader /\ trader'.pc = "orders"
    BY <1>t, <2>1 DEF Trader, Done
  <2> QED BY <1>t, <2>1, <2>2, RestKeepsCycle
<1>3. ASSUME NEW o \in OrderIds, TakeUp(o) PROVE CycleOK'
  <2>1. /\ trader' = [Done(o) EXCEPT !.pc = "quote", !.at = o]
        /\ marks' = marks /\ ready' = ready /\ positions' = positions
        /\ o \in Signals => EntryHealthy
    BY <1>3 DEF TakeUp, MayTry, booksVars
  <2>2. trader' \in Trader /\ trader'.pc = "quote" /\ trader'.at = o
    BY <1>t, <2>1 DEF Trader, Done
  <2>3. EntryMarked'
    BY <2>1, <2>2 DEF EntryMarked, EntryHealthy, OpenPositions
  <2>4. CycleShape'
    BY <2>2 DEF CycleShape
  <2> QED BY <1>t, <2>1, <2>2, <2>3, <2>4 DEF CycleOK
<1>4. CASE Fill
  <2>1. ready' = ready /\ trader.pc = "quote"
    BY <1>4 DEF Fill
  <2>2. CASE trader.at \in Signals
    <3>1. trader' = [trader EXCEPT !.pc = "mark"] /\ marks' = marks
      BY <1>4, <2>2 DEF Fill
    <3>2. trader' \in Trader /\ trader'.pc = "mark" /\ trader'.at \in Signals
      BY <1>t, <2>2, <3>1 DEF Trader
    <3>3. CycleShape' /\ EntryMarked'
      BY <3>2 DEF CycleShape, EntryMarked
    <3> QED BY <1>t, <2>1, <3>1, <3>2, <3>3 DEF CycleOK
  <2>3. CASE trader.at \notin Signals
    <3>1. /\ trader' = NextOrder(FALSE)
          /\ marks' = [marks EXCEPT ![orders[trader.at].position] = NoMark]
      BY <1>4, <2>3 DEF Fill
    <3>2. marks' \in Marks
      BY <1>t, <3>1, MarksTyped DEF Marks
    <3>3. trader' \in Trader /\ trader'.pc = "orders"
      BY <1>t, <3>1, NextOrderTyped
    <3> QED BY <1>t, <2>1, <3>2, <3>3, RestKeepsCycle
  <2> QED BY <2>2, <2>3
<1>5. CASE QuoteFails
  <2>1. /\ trader' = NextOrder(TRUE) /\ marks' = marks
        /\ \/ ready' = ready
           \/ ready' = [ready EXCEPT ![trader.at] = FALSE]
    BY <1>5 DEF QuoteFails
  <2>2. trader' \in Trader /\ trader'.pc = "orders"
    BY <1>t, <2>1, NextOrderTyped
  <2>3. ready' \in [OrderIds -> BOOLEAN]
    BY <1>t, <2>1
  <2> QED BY <1>t, <2>1, <2>2, <2>3, RestKeepsCycle
<1>6. CASE MarkEntry \/ MarkEntryLate
  <2>1. PICK issues \in BOOLEAN : trader' = NextOrder(issues)
    BY <1>6 DEF MarkEntry, MarkEntryLate
  <2>2. marks' \in Marks /\ ready' = ready
    BY <1>t, <1>6, MarksTyped DEF MarkEntry, MarkEntryLate, Marks
  <2>3. trader' \in Trader /\ trader'.pc = "orders"
    BY <1>t, <2>1, NextOrderTyped
  <2> QED BY <1>t, <2>2, <2>3, RestKeepsCycle
<1> QED BY <1>1, <1>2, <1>3, <1>4, <1>5, <1>6

LEMMA SignalsKeepCycle ==
  ASSUME CycleOK,
         ObserveSignals \/ (\E s \in Signals : Enter(s) \/ PassUp(s)) \/ EndCycle \/ BreakOff
  PROVE  CycleOK'
<1>t. marks \in Marks /\ ready \in [OrderIds -> BOOLEAN] /\ trader \in Trader
  BY DEF CycleOK
<1>1. marks' = marks /\ ready' = ready
  BY DEF ObserveSignals, Enter, PassUp, EndCycle, BreakOff
<1>2. trader' \in Trader /\ trader'.pc \in {"idle", "enter"}
  <2>1. CASE ObserveSignals
    <3>1. trader' = [trader EXCEPT !.pc = "enter", !.todo = {s \in Signals : signals'[s] = "observed"}]
      BY <2>1 DEF ObserveSignals
    <3> QED BY <1>t, <3>1, TraderSets DEF Trader
  <2>2. ASSUME NEW s \in Signals, Enter(s)
        PROVE  trader' \in Trader /\ trader'.pc \in {"idle", "enter"}
    BY <1>t, <2>2 DEF Enter, Done, Trader
  <2>3. ASSUME NEW s \in Signals, PassUp(s)
        PROVE  trader' \in Trader /\ trader'.pc \in {"idle", "enter"}
    <3>1. PICK issues \in {trader.issues, TRUE} : trader' = [Done(s) EXCEPT !.issues = issues]
      BY <2>3 DEF PassUp
    <3>2. trader.pc = "enter" /\ issues \in BOOLEAN
      BY <1>t, <2>3, TraderSets DEF PassUp
    <3> QED BY <1>t, <3>1, <3>2 DEF Done, Trader
  <2>4. CASE EndCycle \/ BreakOff
    <3>1. trader' = Between
      BY <2>4 DEF EndCycle, BreakOff
    <3>2. Between \in Trader /\ Between.pc = "idle"
      BY DEF Between, Trader
    <3> QED BY <3>1, <3>2
  <2> QED BY <2>1, <2>2, <2>3, <2>4
<1> QED BY <1>t, <1>1, <1>2, RestKeepsCycle

LEMMA OthersKeepCycle ==
  ASSUME CycleOK, positions \in [Signals -> Position],
         (\E p \in Signals : MarkAges(p)) \/ (\E o \in OrderIds : OrderDue(o)) \/ NewDay \/ Operator
           \/ UNCHANGED paperVars
  PROVE  CycleOK'
<1>t. marks \in Marks /\ ready \in [OrderIds -> BOOLEAN] /\ trader \in Trader
  BY DEF CycleOK
<1>1. trader' = trader
  BY DEF MarkAges, OrderDue, NewDay, Operator, paperVars
<1>2. \A p \in Signals : positions'[p].status = positions[p].status
  <2>1. positions' = positions \/ \E p \in Signals : RequestExit(p)
    BY DEF MarkAges, OrderDue, NewDay, Operator, paperVars, booksVars, pause
  <2>2. ASSUME NEW p \in Signals, RequestExit(p)
        PROVE  \A q \in Signals : positions'[q].status = positions[q].status
    BY <2>2 DEF RequestExit, Position
  <2> QED BY <2>1, <2>2
<1>3. OpenPositions' = OpenPositions
  BY <1>2 DEF OpenPositions
<1>4. marks' \in Marks /\ \A p \in Signals : marks[p].state # "missing" => marks'[p].state # "missing"
  <2>1. marks' = marks \/ \E p \in Signals : MarkAges(p)
    BY DEF OrderDue, NewDay, Operator, paperVars
  <2>2. ASSUME NEW p \in Signals, MarkAges(p)
        PROVE  /\ marks' \in Marks
               /\ \A q \in Signals : marks[q].state # "missing" => marks'[q].state # "missing"
    <3>1. marks' = [marks EXCEPT ![p] = [marks[p] EXCEPT !.state = "old"]]
      BY <2>2 DEF MarkAges
    <3>2. [marks[p] EXCEPT !.state = "old"] \in [state : {"missing", "fresh", "old"}, usdc : Nat]
      BY <1>t DEF Marks
    <3>3. [marks[p] EXCEPT !.state = "old"].state = "old"
      BY <1>t DEF Marks
    <3> QED BY <1>t, <3>1, <3>2, <3>3 DEF Marks
  <2> QED BY <1>t, <2>1, <2>2
<1>5. ready' \in [OrderIds -> BOOLEAN]
  BY <1>t DEF MarkAges, OrderDue, NewDay, Operator, paperVars
<1>6. CycleShape' /\ EntryMarked'
  BY <1>1, <1>3, <1>4 DEF CycleOK, CycleShape, EntryMarked, OpenPositions
<1> QED BY <1>t, <1>1, <1>4, <1>5, <1>6 DEF CycleOK

LEMMA NextKeepsCycle ==
  ASSUME CycleOK, positions \in [Signals -> Position], [PaperNext]_paperVars
  PROVE  CycleOK'
<1>1. CASE Cycle
  BY <1>1, MonitorKeepsCycle, OrdersKeepCycle, SignalsKeepCycle DEF Cycle
<1>2. CASE BreakOff
  BY <1>2, SignalsKeepCycle
<1> QED BY <1>1, <1>2, OthersKeepCycle DEF PaperNext

-----------------------------------------------------------------------------
(***************************************************************************)
(* Each step is a transaction of TradingBooks, or none.                    *)
(***************************************************************************)
LEMMA GivenUp ==
  ASSUME NEW o \in OrderIds, fail_order(o, 0, 0)
  PROVE  BooksNext
<1>1. 0 \in FailureFees /\ 0 \in FailureGas
  BY DEF FailureFees, FailureGas
<1> QED BY <1>1 DEF BooksNext

LEMMA StepIsBooks ==
  ASSUME PaperInv, [PaperNext]_paperVars
  PROVE  [BooksNext]_booksVars
<1>t. CycleShape /\ BooksInv /\ QuantitiesAreAmounts
  BY DEF PaperInv
<1>1. CASE QueueExit
  BY <1>1, <1>t DEF QueueExit, CycleShape, BooksNext
<1>2. CASE RiskLimits
  <2>1. CASE Complete
    <3>1. PICK b : acct' = [acct EXCEPT !.paused = acct.paused \/ b]
      BY <1>2, <2>1 DEF RiskLimits, risk_limits
    <3>2. PICK paused \in BOOLEAN : paused = (acct.paused \/ b)
      OBVIOUS
    <3>3. acct' = [acct EXCEPT !.paused = paused]
      BY <3>1, <3>2, Zenon
    <3>4. pause(paused)
      BY <1>2, <3>3 DEF RiskLimits, pause
    <3> QED BY <3>4 DEF BooksNext
  <2>2. CASE ~Complete
    BY <1>2, <2>2 DEF RiskLimits, risk_limits, booksVars
  <2> QED BY <2>1, <2>2
<1>3. ASSUME NEW o \in OrderIds, DropEntry(o) PROVE BooksNext
  BY <1>3, GivenUp DEF DropEntry
<1>4. CASE Fill
  <2> DEFINE o == trader.at
  <2>1. o \in OrderIds
    BY <1>4, <1>t DEF Fill, CycleShape
  <2>2. PICK output \in Amounts, fee \in Fees, gas \in GasCosts :
          fill(o, orders[o].input, output, fee, gas)
    BY <1>4 DEF Fill
  <2>3. orders[o].input \in Amounts
    BY <1>t, <2>1, <2>2, InputIsAmount DEF fill, FillBuy, FillSell
  <2> QED BY <2>1, <2>2, <2>3 DEF BooksNext
<1>5. CASE QuoteFails
  BY <1>5, <1>t, GivenUp DEF QuoteFails, CycleShape, booksVars
<1>6. CASE ObserveSignals \/ \E s \in Signals : Enter(s) \/ PassUp(s)
  BY <1>6 DEF ObserveSignals, Enter, PassUp, BooksNext
<1>7. CASE Operator
  BY <1>7 DEF Operator, BooksNext
<1>8. CASE UNCHANGED booksVars
  BY <1>8
<1> QED BY <1>1, <1>2, <1>3, <1>4, <1>5, <1>6, <1>7, <1>8
        DEF PaperNext, Cycle, StartCycle, Mark, KeepPosition, PassOver, TakeUp, MarkEntry,
            MarkEntryLate, EndCycle, BreakOff, MarkAges, OrderDue, NewDay, paperVars

-----------------------------------------------------------------------------
(***************************************************************************)
(* The equity, and the risk limits.                                        *)
(***************************************************************************)
MarkOf == [p \in Signals |-> marks[p].usdc]

LEMMA EquityTyped ==
  ASSUME BooksTypeOK, marks \in Marks
  PROVE  /\ SumFunctionOnSet(MarkOf, OpenPositions) \in Nat
         /\ Equity = acct.cash - acct.gas + SumFunctionOnSet(MarkOf, OpenPositions)
         /\ Equity \in Int
<1>1. \A p \in Signals : MarkOf[p] \in Nat
  BY DEF Marks, MarkOf
<1>2. IsFiniteSet(OpenPositions) /\ \A p \in OpenPositions : MarkOf[p] \in Nat
  BY <1>1, FiniteBooks DEF OpenPositions
<1>3. SumFunctionOnSet(MarkOf, OpenPositions) \in Nat
  BY <1>2, SumNat
<1>4. Equity = acct.cash - acct.gas + SumFunctionOnSet(MarkOf, OpenPositions)
  BY DEF Equity, MarkOf
<1>5. acct.cash \in Nat /\ acct.gas \in Nat
  BY LedgerTyped
<1> QED BY <1>3, <1>4, <1>5

Risk == [peak : Nat, day_equity : Int, today : BOOLEAN, alarm : BOOLEAN]
RiskOK == risk \in Risk /\ AnchorsHold

LEMMA NextKeepsRisk ==
  ASSUME RiskOK, BooksTypeOK, marks \in Marks, [PaperNext]_paperVars
  PROVE  RiskOK'
<1>t. /\ risk.peak \in Nat /\ risk.day_equity \in Int /\ risk \in Risk
      /\ InitialUsdc \in Nat /\ InitialUsdc <= risk.peak /\ risk.day_equity <= risk.peak
  BY PolicyAssumption DEF RiskOK, Risk, AnchorsHold
<1>1. CASE risk' = risk
  BY <1>1 DEF RiskOK, AnchorsHold
<1>2. CASE NewDay
  <2>1. risk' = [risk EXCEPT !.today = FALSE]
    BY <1>2 DEF NewDay
  <2> QED BY <1>t, <2>1 DEF RiskOK, Risk, AnchorsHold
<1>3. CASE Operator
  <2>1. risk' = [risk EXCEPT !.alarm = FALSE] \/ risk' = risk
    BY <1>3 DEF Operator
  <2> QED BY <1>t, <2>1 DEF RiskOK, Risk, AnchorsHold
<1>4. CASE RiskLimits
  <2> DEFINE day == IF risk.today THEN risk.day_equity ELSE Equity
             peak == Larger(Equity, risk.peak)
  <2>1. CASE Complete
    <3>1. PICK b : risk' = [peak |-> peak, day_equity |-> day, today |-> TRUE, alarm |-> risk.alarm \/ b]
      BY <1>4, <2>1 DEF RiskLimits, risk_limits
    <3>2. PICK alarm \in BOOLEAN : alarm = (risk.alarm \/ b)
      OBVIOUS
    <3>3. risk' = [peak |-> peak, day_equity |-> day, today |-> TRUE, alarm |-> alarm]
      BY <3>1, <3>2, Zenon
    <3>4. peak \in Nat /\ day \in Int /\ InitialUsdc <= peak /\ day <= peak
      <4>1. Equity \in Int
        BY EquityTyped
      <4> HIDE DEF Equity
      <4> QED BY <1>t, <4>1 DEF Larger
    <3> HIDE DEF day, peak
    <3> QED BY <3>3, <3>4 DEF RiskOK, Risk, AnchorsHold
  <2>2. CASE ~Complete
    BY <1>1, <1>4, <2>2 DEF RiskLimits, risk_limits
  <2> QED BY <2>1, <2>2
<1> QED BY <1>1, <1>2, <1>3, <1>4
        DEF PaperNext, Cycle, StartCycle, Mark, QueueExit, KeepPosition, PassOver, TakeUp, DropEntry,
            Fill, QuoteFails, MarkEntry, MarkEntryLate, ObserveSignals, Enter, PassUp, EndCycle,
            BreakOff, MarkAges, OrderDue, paperVars

-----------------------------------------------------------------------------
(***************************************************************************)
(* The invariant.                                                          *)
(***************************************************************************)
LEMMA NextKeepsFree ==
  ASSUME PaperInv, [PaperNext]_paperVars
  PROVE  FailuresAreFree'
<1>t. /\ book \in [OrderIds -> Row] /\ CycleShape
      /\ \A o \in OrderIds : book[o].kind = "failed" => book[o].gas = 0
  BY DEF PaperInv, BooksInv, BooksTypeOK, FailuresAreFree, FailedOrders
<1>1. ASSUME NEW o \in OrderIds, NEW row, book' = [book EXCEPT ![o] = row],
             row.kind = "failed" => row.gas = 0
      PROVE  FailuresAreFree'
  BY <1>t, <1>1 DEF FailuresAreFree, FailedOrders
<1>2. ASSUME NEW o \in OrderIds, fail_order(o, 0, 0) PROVE FailuresAreFree'
  BY <1>1, <1>2 DEF fail_order, FailedRow
<1>3. ASSUME NEW o \in OrderIds, NEW output, NEW fee, NEW gas, fill(o, orders[o].input, output, fee, gas)
      PROVE  FailuresAreFree'
  <2>1. CASE FillBuy(o, orders[o].input, output, fee, gas)
    BY <1>1, <2>1 DEF FillBuy, BuyRow
  <2>2. CASE FillSell(o, orders[o].input, output, fee, gas)
    BY <1>1, <2>2 DEF FillSell, SellRow
  <2> QED BY <1>3, <2>1, <2>2 DEF fill
<1>4. CASE book' = book
  BY <1>t, <1>4 DEF FailuresAreFree, FailedOrders
<1>5. CASE Fill
  BY <1>t, <1>3, <1>5 DEF Fill, CycleShape
<1>6. CASE QuoteFails
  BY <1>t, <1>2, <1>4, <1>6 DEF QuoteFails, CycleShape, booksVars
<1>7. ASSUME NEW o \in OrderIds, DropEntry(o) PROVE FailuresAreFree'
  BY <1>2, <1>7 DEF DropEntry
<1> QED BY <1>4, <1>5, <1>6, <1>7
        DEF PaperNext, Cycle, StartCycle, Mark, QueueExit, KeepPosition, PassOver, TakeUp,
            RiskLimits, MarkEntry, MarkEntryLate, ObserveSignals, Enter, PassUp, EndCycle,
            BreakOff, MarkAges, OrderDue, NewDay, Operator, paperVars, booksVars,
            queue_exit, Observe, reserve_buy, Skip, pause, RequestExit

LEMMA InitPaperInv == PaperInit => PaperInv
<1> SUFFICES ASSUME PaperInit PROVE PaperInv
  OBVIOUS
<1>1. BooksInit /\ BooksInv
  BY InitBooksInv DEF PaperInit
<1>2. QuantitiesAreAmounts /\ FailuresAreFree
  BY <1>1 DEF BooksInit, NoPosition, NoRow, QuantitiesAreAmounts, FailuresAreFree, FailedOrders
<1>3. /\ marks \in Marks /\ trader \in Trader /\ ready \in [OrderIds -> BOOLEAN]
      /\ trader.pc = "idle"
  BY MarksTyped DEF PaperInit, Marks, Trader, Between
<1>4. risk \in Risk /\ AnchorsHold
  <2>1. InitialUsdc \in Nat
    BY PolicyAssumption
  <2> QED BY <2>1 DEF PaperInit, Risk, AnchorsHold
<1>5. CycleShape /\ EntryMarked
  BY <1>3 DEF CycleShape, EntryMarked
<1> QED BY <1>1, <1>2, <1>3, <1>4, <1>5
        DEF PaperInv, PaperTypeOK, BooksInv, Marks, Trader, Risk

LEMMA NextPaperInv == PaperInv /\ [PaperNext]_paperVars => PaperInv'
<1> SUFFICES ASSUME PaperInv, [PaperNext]_paperVars PROVE PaperInv'
  OBVIOUS
<1>1. /\ CycleOK /\ BooksInv /\ QuantitiesAreAmounts /\ BooksTypeOK
      /\ positions \in [Signals -> Position] /\ marks \in Marks
  BY InvIsCycleOK DEF BooksTypeOK, CycleOK
<1>2. [BooksNext]_booksVars
  BY StepIsBooks
<1>3. BooksInv' /\ QuantitiesAreAmounts'
  BY <1>1, <1>2, NextBooksInv, QuantityKept
<1>4. CycleOK'
  BY <1>1, NextKeepsCycle
<1>5. RiskOK'
  <2>1. RiskOK
    BY DEF PaperInv, PaperTypeOK, RiskOK, Risk
  <2> QED BY <1>1, <2>1, NextKeepsRisk
<1>6. FailuresAreFree'
  BY NextKeepsFree
<1> QED BY <1>3, <1>4, <1>5, <1>6
        DEF PaperInv, PaperTypeOK, BooksInv, CycleOK, RiskOK, Marks, Trader, Risk

\* The books and the cycle of engine.py agree, wherever the cycle breaks off.
THEOREM PaperInvHolds == PaperSpec => []PaperInv
BY InitPaperInv, NextPaperInv, PTL DEF PaperSpec

\* Marks, due times, equity anchors and the cycle's record have their types.
THEOREM PaperTypesHold == PaperSpec => []PaperTypeOK
<1>1. PaperInv => PaperTypeOK
  BY DEF PaperInv
<1> QED BY <1>1, PaperInvHolds, PTL

\* The paper trader implements the saved account: wherever its cycle breaks off,
\* each of its steps is a transaction that TradingBooks allows.
THEOREM PaperImplementsBooks == PaperSpec => BooksSpec
<1>1. PaperInit => BooksInit
  BY DEF PaperInit
<1>2. PaperInv /\ [PaperNext]_paperVars => [BooksNext]_booksVars
  BY StepIsBooks
<1> QED BY <1>1, <1>2, PaperInvHolds, PTL DEF PaperSpec, BooksSpec

\* What the books promise, the paper trader keeps, wherever a cycle breaks off:
\* limits, exact reservations, one stake per token, exits that fit their positions,
\* settlements that nothing changes and, with enough gas in reserve, nothing refuses,
\* and a ledger that explains the account.
THEOREM PaperKeepsBooks ==
  PaperSpec =>
    /\ [](/\ ReservationExact /\ LimitsHold /\ OneStakePerMint /\ ExitsMatchPositions
          /\ SettlementNeverBlocked /\ LedgerExplainsAccount)
    /\ SettlementsAreFinal
BY PaperImplementsBooks, ReservationsExact, LimitsAlwaysHold, StakesAreUnique, ExitsAlwaysMatch,
   SettlementsNeverBlocked, LedgerAlwaysExplains, SettlementsNeverChange, PTL

\* While an exit quote is missing, no money goes into another token: a buy is
\* filled only when every position that is open has a mark.
THEOREM EntriesNeedMarksHolds == PaperSpec => EntriesNeedMarks
<1>1. ASSUME PaperInv, [PaperNext]_paperVars, NEW s \in Signals, trader.at = s,
             s \notin OpenPositions, positions'[s].status = "open", NEW p \in OpenPositions
      PROVE  marks[p].state # "missing"
  <2>1. positions \in [Signals -> Position] /\ EntryMarked
    BY <1>1 DEF PaperInv, BooksInv, BooksTypeOK
  <2>2. positions[s].status # "open"
    BY <1>1 DEF OpenPositions
  <2>3. ~Operator
    BY <1>1, <2>1, <2>2 DEF Operator, RequestExit, pause, Position
  <2>4. positions' # positions
    BY <1>1, <2>2
  <2>5. Fill
    BY <1>1, <2>3, <2>4
        DEF PaperNext, Cycle, StartCycle, Mark, QueueExit, KeepPosition, PassOver, TakeUp, DropEntry,
            RiskLimits, QuoteFails, MarkEntry, MarkEntryLate, ObserveSignals, Enter, PassUp, EndCycle,
            BreakOff, MarkAges, OrderDue, NewDay, paperVars, booksVars,
            queue_exit, fail_order, Observe, reserve_buy, Skip
  <2>6. trader.pc = "quote"
    BY <2>5 DEF Fill
  <2> QED BY <1>1, <2>1, <2>6 DEF EntryMarked
<1>2. PaperInv /\ [PaperNext]_paperVars =>
        [\A s \in Signals : trader.at = s /\ s \notin OpenPositions /\ positions'[s].status = "open" =>
           \A p \in OpenPositions : marks[p].state # "missing"]_paperVars
  BY <1>1
<1> QED BY <1>2, PaperInvHolds, PTL DEF PaperSpec, EntriesNeedMarks

-----------------------------------------------------------------------------
(***************************************************************************)
(* Alarms.                                                                 *)
(***************************************************************************)
\* Equity is the capital less what is lost: every dollar that the books have
\* spent is in a position, in its fees or in a realized result.
LEMMA LossExplainsEquity ==
  ASSUME PaperInv, LedgerExplainsAccount
  PROVE  Loss \in Int /\ Equity = InitialUsdc - Loss
<1> DEFINE Lost == [p \in Signals |-> positions[p].cost + positions[p].entry_fee - marks[p].usdc]
<1>1. BooksTypeOK /\ marks \in Marks /\ FailuresAreFree
  BY InvIsCycleOK DEF PaperInv, CycleOK
<1>2. IsFiniteSet(OpenPositions) /\ OpenPositions \subseteq Signals /\ IsFiniteSet(FailedOrders)
  BY FiniteBooks DEF OpenPositions
<1>3. \A p \in OpenPositions : Invested[p] \in Int /\ MarkOf[p] \in Int
                                 /\ Lost[p] = Invested[p] - MarkOf[p]
  BY <1>1, <1>2 DEF Invested, MarkOf, Marks, BooksTypeOK, Position
<1>4. /\ SumFunctionOnSet(Invested, OpenPositions) \in Int
      /\ SumFunctionOnSet(MarkOf, OpenPositions) \in Int
  <2>1. /\ \A p \in OpenPositions : Invested[p] \in Int
        /\ \A p \in OpenPositions : MarkOf[p] \in Int
    BY <1>3
  <2> QED BY <1>2, <2>1, SumInt
<1>5. SumFunctionOnSet(Lost, OpenPositions)
        = SumFunctionOnSet(Invested, OpenPositions) - SumFunctionOnSet(MarkOf, OpenPositions)
  <2> HIDE DEF Lost
  <2> QED BY <1>2, <1>3, SumMinus
<1>6. SumFunctionOnSet(RowGas, FailedOrders) = 0
  <2>1. \A o \in FailedOrders : RowGas[o] = 0
    BY <1>1 DEF FailuresAreFree, RowGas, FailedOrders
  <2> QED BY <1>2, <2>1, SumZero
<1>7. acct.cash - acct.gas + SumFunctionOnSet(Invested, OpenPositions)
        + SumFunctionOnSet(RowGas, FailedOrders) = InitialUsdc + acct.realized
  BY LedgerIsSums DEF LedgerSums
<1>8. acct.cash \in Int /\ acct.gas \in Int /\ acct.realized \in Int /\ InitialUsdc \in Int
  BY <1>1, PolicyAssumption DEF BooksTypeOK, Account
<1>9. Equity = acct.cash - acct.gas + SumFunctionOnSet(MarkOf, OpenPositions)
  BY <1>1, EquityTyped
<1>10. Loss = SumFunctionOnSet(Lost, OpenPositions) - acct.realized
  BY DEF Loss
<1> HIDE DEF Lost
<1>11. \A cash, gas, invested, marked, realized, capital \in Int :
         cash - gas + invested + 0 = capital + realized =>
           cash - gas + marked = capital - ((invested - marked) - realized)
  OBVIOUS
<1>12. Loss = (SumFunctionOnSet(Invested, OpenPositions)
                 - SumFunctionOnSet(MarkOf, OpenPositions)) - acct.realized
  BY <1>5, <1>10
<1>13. Loss \in Int
  BY <1>4, <1>8, <1>12
<1>14. Equity = InitialUsdc - Loss
  BY <1>4, <1>6, <1>7, <1>8, <1>9, <1>11, <1>12
<1> QED BY <1>13, <1>14

\* A fall of MaxDrawdown basis points from the capital is a loss of that share
\* of it, rounded down; a higher equity has fallen by nothing.
LEMMA DrawdownIsLoss ==
  ASSUME NEW equity \in Int, NEW loss \in Int, equity = InitialUsdc - loss,
         NEW top \in Int, top = Larger(equity, InitialUsdc),
         equity * 10000 <= top * (10000 - MaxDrawdown)
  PROVE  loss >= Drawdown
<1>1. InitialUsdc \in Nat /\ InitialUsdc >= 1 /\ MaxDrawdown \in 1..9999
  BY PolicyAssumption, PaperTraderAssumption
<1>2. CASE InitialUsdc < equity
  <2>1. equity * 10000 <= equity * (10000 - MaxDrawdown)
    <3>1. top = equity
      BY <1>1, <1>2 DEF Larger
    <3> QED BY <3>1
  <2>2. equity * (10000 - MaxDrawdown) = equity * 10000 - equity * MaxDrawdown
    BY <1>1
  <2>3. equity * MaxDrawdown >= 1
    <3>1. equity \in Nat /\ equity >= 1 /\ MaxDrawdown \in Nat /\ MaxDrawdown >= 1
      BY <1>1, <1>2
    <3>2. \A e, m \in Nat : e >= 1 /\ m >= 1 => e * m >= 1
      OBVIOUS
    <3> QED BY <3>1, <3>2
  <2>4. equity * MaxDrawdown \in Int /\ equity * 10000 \in Int
    BY <1>1
  <2> QED BY <2>1, <2>2, <2>3, <2>4
<1>3. CASE ~(InitialUsdc < equity)
  <2>1. top = InitialUsdc
    BY <1>1, <1>3 DEF Larger
  <2>2. InitialUsdc * (10000 - MaxDrawdown) = InitialUsdc * 10000 - InitialUsdc * MaxDrawdown
    BY <1>1
  <2>3. PICK share \in Int : share = InitialUsdc * MaxDrawdown
    BY <1>1
  <2>4. share <= loss * 10000
    BY <1>1, <2>1, <2>2, <2>3
  <2>5. share \div 10000 <= loss
    BY <2>4
  <2> QED BY <2>3, <2>5 DEF Drawdown
<1> QED BY <1>2, <1>3

\* A limit pauses the account only for money that is really lost.
THEOREM AlarmsAreRealHolds == PaperSpec => AlarmsAreReal
<1>1. ASSUME PaperInv, LedgerExplainsAccount, [PaperNext]_paperVars,
             ~risk.alarm, risk'.alarm
      PROVE  /\ \A p \in OpenPositions : marks[p].state # "missing"
             /\ \/ risk.peak > InitialUsdc
                \/ Loss >= DailyLoss \/ Loss >= Drawdown
  <2>t. /\ risk \in Risk /\ InitialUsdc <= risk.peak /\ risk.day_equity <= risk.peak
        /\ DailyLoss \in Nat /\ DailyLoss >= 1 /\ InitialUsdc \in Nat
    BY <1>1, PolicyAssumption, PaperTraderAssumption DEF PaperInv, PaperTypeOK, Risk, AnchorsHold
  <2>1. risk_limits
    <3>1. risk' # risk
      BY <1>1
    <3>2. ~NewDay
      BY <1>1, <2>t DEF NewDay, Risk
    <3>3. ~Operator
      BY <1>1, <2>t DEF Operator, Risk
    <3>4. RiskLimits
      BY <1>1, <3>1, <3>2, <3>3
        DEF PaperNext, Cycle, StartCycle, Mark, QueueExit, KeepPosition, PassOver, TakeUp, DropEntry,
            Fill, QuoteFails, MarkEntry, MarkEntryLate, ObserveSignals, Enter, PassUp, EndCycle,
            BreakOff, MarkAges, OrderDue, paperVars
    <3> QED BY <3>4 DEF RiskLimits
  <2> DEFINE day == IF risk.today THEN risk.day_equity ELSE Equity
             peak == Larger(Equity, risk.peak)
             lost == \/ day - Equity >= DailyLoss
                     \/ Equity * 10000 <= peak * (10000 - MaxDrawdown)
  <2>2. Complete
    BY <1>1, <2>1 DEF risk_limits
  <2>3. risk' = [peak |-> peak, day_equity |-> day, today |-> TRUE,
                 alarm |-> risk.alarm \/ (lost /\ ~acct.paused)]
    BY <2>1, <2>2 DEF risk_limits
  <2> HIDE DEF day, peak, lost
  <2>4. PICK b \in BOOLEAN : b = (risk.alarm \/ (lost /\ ~acct.paused))
    OBVIOUS
  <2>4a. risk' = [peak |-> peak, day_equity |-> day, today |-> TRUE, alarm |-> b]
    BY <2>3, <2>4, Zenon
  <2>4b. risk'.alarm = b
    BY <2>4a
  <2>5. lost
    BY <1>1, <2>4, <2>4b, Zenon
  <2>6. Equity \in Int /\ Loss \in Int /\ Equity = InitialUsdc - Loss
    <3>1. PaperInv /\ LedgerExplainsAccount
      BY <1>1
    <3>2. Loss \in Int /\ Equity = InitialUsdc - Loss
      BY <3>1, LossExplainsEquity
    <3> QED BY <2>t, <3>2
  <2>7. \A p \in OpenPositions : marks[p].state # "missing"
    BY <2>2 DEF Complete
  <2>8. CASE risk.peak > InitialUsdc
    BY <2>7, <2>8
  <2>9. CASE ~(risk.peak > InitialUsdc)
    <3>1. risk.peak = InitialUsdc
      BY <2>t, <2>9 DEF Risk
    <3>2. CASE day - Equity >= DailyLoss
      <4>1. (day \in Int /\ day <= InitialUsdc) \/ day = Equity
        BY <2>t, <3>1 DEF day, Risk
      <4> HIDE DEF Equity
      <4>2. day # Equity
        BY <2>t, <2>6, <3>2
      <4>3. day \in Int /\ day <= InitialUsdc
        BY <4>1, <4>2
      <4>4. InitialUsdc - Equity >= DailyLoss
        BY <2>t, <2>6, <3>2, <4>3
      <4>5. InitialUsdc - Equity = Loss
        BY <2>t, <2>6
      <4> QED BY <2>7, <4>4, <4>5
    <3>3. CASE Equity * 10000 <= peak * (10000 - MaxDrawdown)
      <4>1. peak = Larger(Equity, InitialUsdc)
        BY <3>1 DEF peak
      <4>2. Loss >= Drawdown
        <5>1. peak \in Int
          BY <2>t, <2>6, <4>1 DEF Larger
        <5> QED BY <2>6, <3>3, <4>1, <5>1, DrawdownIsLoss
      <4> QED BY <2>7, <4>2
    <3> QED BY <2>5, <3>2, <3>3 DEF lost
  <2> QED BY <2>8, <2>9
<1>2. PaperInv /\ LedgerExplainsAccount /\ [PaperNext]_paperVars =>
        [~risk.alarm /\ risk'.alarm =>
           /\ \A p \in OpenPositions : marks[p].state # "missing"
           /\ \/ risk.peak > InitialUsdc
              \/ Loss >= DailyLoss \/ Loss >= Drawdown]_paperVars
  BY <1>1
<1> QED BY <1>2, PaperInvHolds, PaperImplementsBooks, LedgerAlwaysExplains, PTL
        DEF PaperSpec, AlarmsAreReal
=============================================================================
