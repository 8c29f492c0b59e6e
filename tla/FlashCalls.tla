----------------------------- MODULE FlashCalls -----------------------------
(***************************************************************************)
(* Staked memecoin Calls of one caller, and the Flash wallet that pays for *)
(* them (src/src/runner_web/memecoin_calls.py, flash_wallet.py).           *)
(*                                                                         *)
(* The caller's requests only queue orders; two price workers save quotes  *)
(* and fill the orders, and a sweep settles Calls that have run out.  A    *)
(* request and a sweep read rows without locking them: other transactions  *)
(* may commit before they write.  A pass over several orders is one        *)
(* transaction in the code and may stop between two of them here.          *)
(*                                                                         *)
(* A Call has the identity of the order that opened it.  Amounts are the   *)
(* code's numbers.                                                         *)
(***************************************************************************)
EXTENDS Integers, FiniteSetsExt

CONSTANTS
  Tokens,
  Opens, Closes,  \* orders that open a Call, orders that close one
  Legacy,         \* Calls opened before staking
  PriceAt,        \* of each coin: its price at the times that quotes are read
  MaxQuotes,      \* the last of these times (bound)
  MaxDays         \* days on which the daily Flash may be claimed (bound)

Orders == Opens \cup Closes
CallIds == Opens \cup Legacy

ASSUME FlashCallsAssumption ==
  /\ Opens \cap Closes = {} /\ Legacy \cap Orders = {}
  /\ MaxQuotes \in Nat /\ MaxDays \in Nat
  /\ PriceAt \in [Tokens -> [0..MaxQuotes -> Nat \ {0}]]

VARIABLES
  market,   \* per coin: time of the last read, memecoin_quote_history, memecoin_assets
  tickets,  \* rows of memecoin_call_orders, and requests for one
  bets,     \* rows of memecoin_calls
  flash,    \* flash_wallets.balance and flash_transactions
  fillers,  \* the two price workers
  sweep     \* what expire_memecoin_calls has read of a Call

flashVars == <<market, tickets, bets, flash, fillers, sweep>>

MEMECOIN_CALL_STAKE == 50
CALL_WIN_FLASH_CAP == 50
DAILY_CLAIM_AMOUNT == 100

Fillers == {"fast", "slow"}
Quote == 0..MaxQuotes  \* known by its observed_at
NoQuote == -1
NoTicket == [status |-> "none", coin |-> "none", call |-> "none", requested |-> 0, old |-> FALSE]
NoBet == [status |-> "none", coin |-> "none", entry |-> NoQuote, exit |-> NoQuote,
          expired |-> FALSE, awaiting |-> FALSE]
NotPricing == [coin |-> "none", quote |-> NoQuote, batch |-> {}]
NoSweep == [call |-> "none", quote |-> NoQuote]

FlashTypeOK ==
  /\ \A c \in Tokens : /\ market[c].seen \in Quote
                      /\ market[c].quotes \subseteq Quote
                      /\ market[c].asset \in Quote \cup {NoQuote}
  /\ \A o \in Orders : tickets[o].status \in
       {"none", "asked", "pending", "filled", "cancelled"}
  /\ \A k \in CallIds : bets[k].status \in {"none", "active", "closed"}
  /\ flash.balance \in Nat
  /\ \A w \in Fillers : /\ fillers[w].quote \in Quote \cup {NoQuote}
                        /\ fillers[w].batch \subseteq Orders
  /\ sweep.call \in CallIds \cup {"none"}

FlashInit ==
  /\ \E shown \in {0, NoQuote} :
       market = [c \in Tokens |-> [seen |-> 0, quotes |-> {}, asset |-> shown]]
  /\ tickets = [o \in Orders |-> NoTicket]
  /\ \E c \in Tokens, held \in SUBSET Legacy :
       /\ Cardinality(held) <= 1
       /\ bets = [k \in CallIds |-> IF k \notin held THEN NoBet ELSE
            [NoBet EXCEPT !.status = "active", !.coin = c, !.entry = 0]]
  /\ flash = [balance |-> 0, entries |-> {}]
  /\ fillers = [w \in Fillers |-> NotPricing]
  /\ sweep = NoSweep

-----------------------------------------------------------------------------
\* The wallet.  An entry is written once for each kind and reference.
Entry(kind, ref) == {e \in flash.entries : e.kind = kind /\ e.ref = ref}

Posted(amount, kind, ref) ==
  IF Entry(kind, ref) # {} THEN flash
  ELSE [balance |-> flash.balance + amount,
        entries |-> flash.entries \cup {[kind |-> kind, ref |-> ref, amount |-> amount]}]

credit_flash(amount, kind, ref) == flash' = Posted(amount, kind, ref)

spend_flash(amount, kind, ref) ==
  /\ flash.balance >= amount
  /\ flash' = Posted(-amount, kind, ref)

claim_daily_flash(day) ==
  /\ credit_flash(DAILY_CLAIM_AMOUNT, "daily_claim", day)
  /\ UNCHANGED <<market, tickets, bets, fillers, sweep>>

\* The return in percent as Flash, neither below -stake nor above the cap.
Net(stake, entry, exit) ==
  Max({-stake, Min({CALL_WIN_FLASH_CAP, (100 * exit) \div entry - 100})})

StakeOf(k) == IF k \in Opens THEN MEMECOIN_CALL_STAKE ELSE 0
Payout(k, exit) ==
  LET price == PriceAt[bets[k].coin] IN
  StakeOf(k) + Net(StakeOf(k), price[bets[k].entry], price[exit])
PayoutKind(k) == IF k \in Opens THEN "memecoin_call_settle" ELSE "memecoin_call_win"

-----------------------------------------------------------------------------
\* The caller.  A request reads the caller's Call on the coin, then writes.  A
\* coin may be called once the snapshot has a quote of it.
PendingOn(c) == \E o \in Orders : tickets[o].status = "pending" /\ tickets[o].coin = c
ActiveOn(c) == \E k \in CallIds : bets[k].status = "active" /\ bets[k].coin = c
Closing(k) == \E o \in Closes : tickets[o].status = "pending" /\ tickets[o].call = k

Ask(o, c, k) ==
  /\ tickets[o].status = "none"
  /\ tickets' = [tickets EXCEPT ![o] = [NoTicket EXCEPT
       !.status = "asked", !.coin = c, !.call = k, !.requested = market[c].seen]]
  /\ UNCHANGED <<market, bets, flash, fillers, sweep>>

AskOpen(o, c) == market[c].asset # NoQuote /\ ~ActiveOn(c) /\ Ask(o, c, o)
AskClose(o, k) == bets[k].status = "active" /\ ~Closing(k) /\ Ask(o, bets[k].coin, k)

create_memecoin_call(o) ==
  /\ tickets[o].status = "asked" /\ ~PendingOn(tickets[o].coin)
  /\ tickets' = [tickets EXCEPT ![o].status = "pending"]
  /\ spend_flash(MEMECOIN_CALL_STAKE, "memecoin_call_stake", o)
  /\ UNCHANGED <<market, bets, fillers, sweep>>

close_memecoin_call(o) ==
  /\ tickets[o].status = "asked" /\ ~PendingOn(tickets[o].coin)
  /\ tickets' = [tickets EXCEPT ![o].status = "pending"]
  /\ UNCHANGED <<market, bets, flash, fillers, sweep>>

\* An order is waiting already, the balance is too small, or the request dies.
Refuse(o) ==
  /\ tickets[o].status = "asked"
  /\ tickets' = [tickets EXCEPT ![o] = NoTicket]
  /\ UNCHANGED <<market, bets, flash, fillers, sweep>>

-----------------------------------------------------------------------------
\* Settling a Call.  The UPDATE finds it active or does nothing.
Resolved(status, O) ==
  [o \in Orders |-> IF o \in O /\ tickets[o].status = "pending"
                    THEN [tickets[o] EXCEPT !.status = status] ELSE tickets[o]]
ClosesOf(k) == {o \in Closes : tickets[o].call = k}

Settle(k, quote) ==
  /\ bets[k].status = "active"
  /\ bets' = [bets EXCEPT ![k].status = "closed", ![k].exit = quote, ![k].awaiting = FALSE]
  /\ IF Payout(k, quote) > 0 THEN credit_flash(Payout(k, quote), PayoutKind(k), k)
     ELSE UNCHANGED flash

\* The price workers read a quote (its time is that of the start), save it, and
\* fill the orders, also when there is no new quote.
Refresh(w, c) ==
  LET at == market[c].seen + 1 IN
  /\ fillers[w] = NotPricing /\ at <= MaxQuotes
  /\ market' = [market EXCEPT ![c].seen = at]
  /\ fillers' = [fillers EXCEPT ![w].coin = c, ![w].quote = at]
  /\ UNCHANGED <<tickets, bets, flash, sweep>>

SaveQuote(w) ==
  LET c == fillers[w].coin  q == fillers[w].quote IN
  /\ q # NoQuote
  /\ market' = [market EXCEPT ![c].quotes = @ \cup {q},
                              ![c].asset = IF w = "slow" THEN Max({q, @}) ELSE @]
  /\ fillers' = [fillers EXCEPT ![w] = NotPricing]
  /\ UNCHANGED <<tickets, bets, flash, sweep>>

\* The advisory lock is taken before the pending orders are read.
StartFill_Unlocked(w) ==
  LET pending == {o \in Orders : tickets[o].status = "pending"} IN
  /\ fillers[w] = NotPricing /\ pending # {}
  /\ fillers' = [fillers EXCEPT ![w].batch = pending]
  /\ UNCHANGED <<market, tickets, bets, flash, sweep>>
StartFill(w) ==
  LET pending == {o \in Orders : tickets[o].status = "pending"} IN
  /\ fillers[w] = NotPricing /\ pending # {}
  /\ \A v \in Fillers : fillers[v].batch = {}
  /\ fillers' = [fillers EXCEPT ![w].batch = pending]
  /\ UNCHANGED <<market, tickets, bets, flash, sweep>>

\* A quote is lost, or a pass is broken off; the lock goes with it.
Interrupted(w) ==
  /\ fillers[w] # NotPricing
  /\ fillers' = [fillers EXCEPT ![w] = NotPricing]
  /\ UNCHANGED <<market, tickets, bets, flash, sweep>>

After(o) == {q \in market[tickets[o].coin].quotes : q > tickets[o].requested}
Finish(status, o) == tickets' = Resolved(status, {o})

\* An hour has passed and no quote has come.
TimeOut(o) ==
  /\ After(o) = {}
  /\ IF tickets[o].old
     THEN /\ Finish("cancelled", o)
          /\ IF o \in Opens THEN credit_flash(MEMECOIN_CALL_STAKE, "memecoin_call_refund", o)
             ELSE UNCHANGED flash
     ELSE UNCHANGED <<tickets, flash>>
  /\ UNCHANGED bets

\* The insertion conflicts with an open Call on the coin.
OpenBet(o) ==
  LET c == tickets[o].coin IN
  /\ o \in Opens /\ After(o) # {}
  /\ IF ActiveOn(c)
     THEN /\ credit_flash(MEMECOIN_CALL_STAKE, "memecoin_call_refund", o)
          /\ Finish("cancelled", o)
          /\ UNCHANGED bets
     ELSE /\ bets' = [bets EXCEPT ![o] = [NoBet EXCEPT
               !.status = "active", !.coin = c, !.entry = Min(After(o))]]
          /\ Finish("filled", o)
          /\ UNCHANGED flash

\* Settling cancels the Call's pending orders, this one too, before it is
\* marked: the last UPDATE asks for a pending one.
CloseBet(o) ==
  LET k == tickets[o].call IN
  /\ o \in Closes /\ After(o) # {}
  /\ IF bets[k].status = "active" /\ Min(After(o)) >= bets[k].entry
     THEN Settle(k, Min(After(o))) /\ tickets' = Resolved("cancelled", ClosesOf(k))
     ELSE Finish("cancelled", o) /\ UNCHANGED <<bets, flash>>

FillOrder(w, o) ==
  /\ o \in fillers[w].batch
  /\ TimeOut(o) \/ OpenBet(o) \/ CloseBet(o)
  /\ fillers' = [fillers EXCEPT ![w].batch = @ \ {o}]
  /\ UNCHANGED <<market, sweep>>

-----------------------------------------------------------------------------
\* The sweep: the latest quote since the entry, or the one on the saved asset.
ExpiryQuote(k) ==
  LET c == bets[k].coin  since == {q \in market[c].quotes : q >= bets[k].entry} IN
  IF since # {} THEN Max(since)
  ELSE IF market[c].asset >= bets[k].entry THEN market[c].asset ELSE NoQuote

SweepRead(k) ==
  /\ sweep = NoSweep
  /\ bets[k].status = "active" /\ bets[k].expired
  /\ sweep' = [call |-> k, quote |-> ExpiryQuote(k)]
  /\ UNCHANGED <<market, tickets, bets, flash, fillers>>

expire_memecoin_calls ==
  LET k == sweep.call IN
  /\ sweep # NoSweep
  /\ IF sweep.quote = NoQuote
     THEN bets' = [bets EXCEPT ![k].awaiting = TRUE] /\ UNCHANGED <<tickets, flash>>
     ELSE IF bets[k].status = "active"
     THEN Settle(k, sweep.quote) /\ tickets' = Resolved("cancelled", ClosesOf(k))
     ELSE UNCHANGED <<bets, tickets, flash>>
  /\ sweep' = NoSweep
  /\ UNCHANGED <<market, fillers>>

SweepBreaks ==
  /\ sweep # NoSweep
  /\ sweep' = NoSweep
  /\ UNCHANGED <<market, tickets, bets, flash, fillers>>

-----------------------------------------------------------------------------
\* A week passes, or the history is full: quotes go, except of a coin with a Call.
PruneQuotes(c) ==
  /\ market[c].quotes # {} /\ ~ActiveOn(c)
  /\ market' = [market EXCEPT ![c].quotes = {}]
  /\ UNCHANGED <<tickets, bets, flash, fillers, sweep>>

AgeOrder(o) ==
  /\ tickets[o].status = "pending" /\ ~tickets[o].old
  /\ tickets' = [tickets EXCEPT ![o].old = TRUE]
  /\ UNCHANGED <<market, bets, flash, fillers, sweep>>

AgeCall(k) ==
  /\ bets[k].status = "active" /\ ~bets[k].expired
  /\ bets' = [bets EXCEPT ![k].expired = TRUE]
  /\ UNCHANGED <<market, tickets, flash, fillers, sweep>>

Caller ==
  \/ \E day \in 1..MaxDays : claim_daily_flash(day)
  \/ \E o \in Opens : (\E c \in Tokens : AskOpen(o, c)) \/ create_memecoin_call(o)
  \/ \E o \in Closes : (\E k \in CallIds : AskClose(o, k)) \/ close_memecoin_call(o)
  \/ \E o \in Orders : Refuse(o)

Filler(w) == SaveQuote(w) \/ StartFill(w)
Fills(o) == \E w \in Fillers : FillOrder(w, o)
Sweeps == (\E k \in CallIds : SweepRead(k)) \/ expire_memecoin_calls

FlashNext ==
  \/ Caller \/ Sweeps \/ SweepBreaks
  \/ \E w \in Fillers :
       (\E c \in Tokens : Refresh(w, c)) \/ Filler(w) \/ Interrupted(w)
  \/ \E o \in Orders : Fills(o) \/ AgeOrder(o)
  \/ \E k \in CallIds : AgeCall(k)
  \/ \E c \in Tokens : PruneQuotes(c)

\* The loops go on; time passes; a pass that is tried again and again comes to
\* each order, and the sweep to each Call, at last.
FlashFairness ==
  /\ \A w \in Fillers : WF_flashVars(Filler(w))
  /\ \A o \in Orders : SF_flashVars(Fills(o)) /\ WF_flashVars(AgeOrder(o))
  /\ \A k \in CallIds : WF_flashVars(SweepRead(k))
  /\ SF_flashVars(expire_memecoin_calls)

FlashSpec == FlashInit /\ [][FlashNext]_flashVars /\ FlashFairness

-----------------------------------------------------------------------------
\* Every stake is in one place: waiting with its order, at risk in the one Call
\* it opened, or back, as a refund or as that Call's settlement; and the balance
\* is what the wallet's entries say, whatever workers, sweeps and requests did
\* at the same time.
StakesKept ==
  /\ \A o \in Opens :
       /\ Entry("memecoin_call_stake", o) # {} <=>
            tickets[o].status \in {"pending", "filled", "cancelled"}
       /\ Entry("memecoin_call_refund", o) # {} <=> tickets[o].status = "cancelled"
       /\ bets[o].status # "none" <=> tickets[o].status = "filled"
  /\ \A k \in CallIds : LET paid == Entry(PayoutKind(k), k) IN
       IF bets[k].status = "closed" /\ Payout(k, bets[k].exit) > 0
       THEN \E e \in paid : paid = {e} /\ e.amount = Payout(k, bets[k].exit)
       ELSE paid = {}
  /\ flash.balance = MapThenSumSet(LAMBDA e : e.amount, flash.entries)

\* No order waits for ever, and no Call that has run out and could be settled.
Waits ==
  \/ \E o \in Orders : tickets[o].status = "pending"
  \/ \E k \in CallIds : bets[k].status = "active" /\ bets[k].expired /\ ExpiryQuote(k) # NoQuote
OrdersEnd == Waits ~> ~Waits
=============================================================================
