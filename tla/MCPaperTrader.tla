--------------------------- MODULE MCPaperTrader ---------------------------
(***************************************************************************)
(* The paper account for TLC: its transactions in any order by any caller, *)
(* or the trader's cycle.                                                  *)
(*                                                                         *)
(* The trader sees two signals, sells e1 first, and its prices stand still *)
(* (a swap returns 2), so that only fees lose money.  Days end between     *)
(* cycles, with no position open.                                          *)
(***************************************************************************)
EXTENDS MCTradingBooks, PaperTrader

CONSTANTS e1, e2

VARIABLE caller

accountVars == <<paperVars, caller>>

AccountInit == PaperInit /\ caller \in {"anybody", "trader"}

AnybodyStep ==
  /\ caller = "anybody"
  /\ BooksNext
  /\ UNCHANGED <<marks, risk, ready, trader, caller>>

TwoSignals == signals'[s3] = "none" /\ signals'[s4] = "none"
FirstExitFirst == orders'[e2].status = "none" \/ orders'[e1].status # "none"
StillPrices ==
  /\ \A p \in Signals : positions'[p].quantity <= 2 /\ marks'[p].usdc <= 1
  /\ \A o \in OrderIds : book'[o].cash <= 2
DayEnds == risk.today /\ ~risk'.today
QuietNights == DayEnds => trader.pc = "idle" /\ OpenPositions = {}

TraderStep ==
  /\ caller = "trader"
  /\ PaperNext
  /\ TwoSignals /\ FirstExitFirst /\ StillPrices /\ QuietNights
  /\ UNCHANGED caller

\* The fairness of PaperTrader, where the trader runs.
Stage(A) == caller = "trader" /\ A

AccountFairness ==
  /\ <>[][~BreakOff]_paperVars
  /\ WF_paperVars(Stage(Cycle))
  /\ \A e \in Exits : WF_paperVars(Stage(OrderDue(e)))
  /\ SF_paperVars(Stage(SellsAtLast))

AccountSpec == AccountInit /\ [][AnybodyStep \/ TraderStep]_accountVars /\ AccountFairness

-----------------------------------------------------------------------------
\* Exits that the operator asks the trader for are carried out, whatever is
\* paused, breaks off or fails for a while (ExitsCarriedOut of PaperTrader).
TraderExits ==
  \A p \in {s1, s2} : caller = "trader" /\ ExitAsked(p) ~> positions[p].status = "closed"
=============================================================================
