----------------------------- MODULE LiveTrader -----------------------------
(***************************************************************************)
(* The live trader: the cycle of src/src/runner_trading/engine.py with the *)
(* execution adapter of src/src/runner_trading/live.py, run by several     *)
(* processes that share one account through its lease, against a chain     *)
(* that lands, drops and finalizes what was sent to it.                    *)
(*                                                                         *)
(* One action is one remote call or one database transaction, so another   *)
(* process, the operator or the chain can act between any two of them.     *)
(* Evidence, prices and quotes decide nothing here that is not allowed to  *)
(* go either way.  A signature is drawn once per order and names it.       *)
(* Slots and block heights are one counter.                                *)
(***************************************************************************)
EXTENDS TradingBooks, TradingLease

CONSTANTS
  Lagging,     \* may each remote call be answered by a node of its own that lags?
  LastSlot,    \* bound on the length of the chain
  LastExpiry,  \* bound on the height a signed transaction can be valid to
  Window,      \* slots a signed transaction stays valid
  Results,     \* how a landed transaction may turn out
  MaxFaults,   \* bound on crashes and on leases that lapse under a live worker
  Nobody       \* no order at hand

ASSUME LiveAssumption ==
  /\ Mode = "live" /\ Lagging \in BOOLEAN
  /\ LastSlot \in Nat /\ LastExpiry \in 0..LastSlot
  /\ Window \in Nat /\ MaxFaults \in Nat
  /\ Results \subseteq {"ok", "err", "odd"}
  /\ Nobody \notin Signals \cup Exits

VARIABLES
  wk,         \* what each worker is doing
  faults,     \* faults so far
  tip, fin,   \* last slot produced, last slot finalized
  tx,         \* how each signature landed
  sent,       \* signatures the network has
  expiry      \* last_valid_height of each signature

chainVars == <<tip, fin, tx, sent, expiry>>
vars == <<booksVars, lease, wk, faults, chainVars>>

-----------------------------------------------------------------------------
NoTx == [slot |-> 0, result |-> "none", output |-> 0, fee |-> 0]
Tx == [slot : 0..LastSlot, result : {"none", "ok", "err", "odd"}, output : Amounts \cup {0},
       fee : Fees \cup {0}]

\* recover and trade keep the orders still to visit, monitor the positions and
\* decide the signals.  slot, height and known hold what recover has read so
\* far, saved the account that reconcile read.
Idle == [pc |-> "off", todo |-> {}, cur |-> Nobody, phase |-> "recover", issues |-> FALSE,
         slot |-> 0, height |-> 0, known |-> FALSE, saved |-> {}]

Pcs == {"off", "recover", "slot", "height", "status", "receipt", "settle", "expire", "resend",
        "send", "reconcile", "monitor", "trade", "sign", "observe", "decide", "release"}

Worker == [pc : Pcs, todo : SUBSET OrderIds, cur : OrderIds \cup {Nobody},
           phase : {"recover", "trade"}, issues : BOOLEAN, slot : 0..LastSlot,
           height : 0..LastSlot, known : BOOLEAN, saved : SUBSET Account]

LiveTypeOK ==
  /\ BooksTypeOK
  /\ LeaseTypeOK
  /\ wk \in [Workers -> Worker]
  /\ faults \in 0..MaxFaults
  /\ tip \in 0..LastSlot /\ fin \in 0..tip
  /\ tx \in [OrderIds -> Tx]
  /\ sent \subseteq OrderIds
  /\ expiry \in [OrderIds -> 0..LastSlot]

LiveInit ==
  /\ BooksInit
  /\ LeaseInit
  /\ wk = [w \in Workers |-> Idle]
  /\ faults = 0
  /\ tip = 0 /\ fin = 0
  /\ tx = [o \in OrderIds |-> NoTx]
  /\ sent = {}
  /\ expiry = [o \in OrderIds |-> 0]

-----------------------------------------------------------------------------
(***************************************************************************)
(* The chain.                                                              *)
(***************************************************************************)
Landed(o, upTo) == tx[o].slot \in 1..upTo
FinalTxs(upTo) == {o \in OrderIds : Landed(o, upTo)}

\* What a transaction did to the wallet.
UsdcDelta(o) ==
  IF tx[o].result # "ok" THEN 0 ELSE IF o \in Signals THEN -EntryUsdc ELSE tx[o].output
TokenDelta(o) ==
  IF tx[o].result # "ok" THEN 0 ELSE IF o \in Signals THEN tx[o].output ELSE -orders[o].input

WalletUsdc(upTo) ==
  InitialUsdc + SumFunctionOnSet([o \in OrderIds |-> UsdcDelta(o)], FinalTxs(upTo))
WalletSol(upTo) ==
  InitialSol - SumFunctionOnSet([o \in OrderIds |-> tx[o].fee], FinalTxs(upTo))
WalletToken(m, upTo) ==
  SumFunctionOnSet([o \in OrderIds |-> TokenDelta(o)], {o \in FinalTxs(upTo) : OrderMint(o) = m})

\* A signed transaction lands at most once, before its expiry, and only if the
\* wallet can pay its fee.  An odd one charges or moves something else than the
\* order allows.
Land(o) ==
  /\ o \in sent
  /\ tx[o].slot = 0
  /\ tip < expiry[o]
  /\ tip' = tip + 1
  /\ \E result \in Results, output \in Amounts, fee \in Fees :
       /\ fee <= WalletSol(tip)
       /\ tx' = [tx EXCEPT ![o] = [slot |-> tip', result |-> result, fee |-> fee,
                                   output |-> IF result = "ok" THEN output ELSE 0]]
  /\ UNCHANGED <<fin, sent, expiry>>

EmptySlot ==
  /\ tip < LastSlot
  /\ tip' = tip + 1
  /\ UNCHANGED <<fin, tx, sent, expiry>>

Finalize ==
  /\ fin < tip
  /\ \E f \in (fin + 1)..tip : fin' = f
  /\ UNCHANGED <<tip, tx, sent, expiry>>

\* The fork a transaction landed on is abandoned.
Fork(o) ==
  /\ tx[o].slot > fin
  /\ tx' = [tx EXCEPT ![o] = NoTx]
  /\ UNCHANGED <<tip, fin, sent, expiry>>

\* The slots a remote call may be answered at.
View(latest) == IF Lagging THEN 0..latest ELSE {latest}

-----------------------------------------------------------------------------
(***************************************************************************)
(* The saved rows.  locked guards each write; pause and the operator's     *)
(* requests are not guarded by it.                                         *)
(***************************************************************************)
Signed == {o \in OrderIds : IsActive(o) /\ orders[o].status # "queued"}

\* Sells are visited before buys.
NextOf(todo) == IF todo \cap Exits # {} THEN todo \cap Exits ELSE todo

\* entry_health; the exit quotes it also asks for may be missing at any time.
EntryHealthy_AnySigned(w) == ~wk[w].issues /\ ~acct.paused
EntryHealthy(w) == ~wk[w].issues /\ ~acct.paused /\ Signed = {}

\* These UPDATEs name a row and no status: only the lease keeps them from
\* reopening an order that has resolved.
SaveChecking(o) ==
  /\ orders' = [orders EXCEPT ![o].status = "checking"]
  /\ UNCHANGED <<acct, signals, positions, book>>

SaveReview_OwnStatus(o) ==
  /\ orders' = [orders EXCEPT ![o].status = "review"]
  /\ acct' = [acct EXCEPT !.paused = TRUE]
  /\ UNCHANGED <<signals, positions, book>>

SaveReview(o) ==
  /\ orders' = [orders EXCEPT ![o].status = "checking"]
  /\ acct' = [acct EXCEPT !.paused = TRUE]
  /\ UNCHANGED <<signals, positions, book>>

SaveSkipped(s) ==
  /\ signals' = [signals EXCEPT ![s] = "skipped"]
  /\ UNCHANGED <<acct, orders, positions, book>>

\* fail_order and fill return without a word when the order has resolved.
FailOnce(o, fee, gas) == IF IsActive(o) THEN fail_order(o, fee, gas) ELSE UNCHANGED booksVars

RiskPause == pause(TRUE) \/ UNCHANGED booksVars

-----------------------------------------------------------------------------
(***************************************************************************)
(* The cycle.  Set(w, r) replaces the state of a worker.                   *)
(***************************************************************************)
At(w, pc) == wk[w].pc = pc
Set(w, r) == wk' = [wk EXCEPT ![w] = r]
Phase(w, pc, todo) == [Idle EXCEPT !.pc = pc, !.todo = todo, !.issues = wk[w].issues]

\* Back to the loop that called recover, or on to its next order.
Resume(w, todo, issues) ==
  [Idle EXCEPT !.pc = wk[w].phase, !.phase = wk[w].phase, !.todo = todo, !.issues = issues]

StartCycle(w) ==
  /\ At(w, "off")
  /\ acquire(w)
  /\ Set(w, [Idle EXCEPT !.pc = "recover", !.todo = Signed])
  /\ UNCHANGED <<booksVars, faults, chainVars>>

\* Every signed order is looked up before anything new is done.
Recover(w) ==
  /\ At(w, "recover")
  /\ \E o \in NextOf(wk[w].todo) :
       Set(w, [wk[w] EXCEPT !.pc = "slot", !.cur = o, !.todo = @ \ {o}])
  /\ UNCHANGED <<booksVars, lease, faults, chainVars>>

ReadSlot(w) ==
  /\ At(w, "slot")
  /\ \E s \in View(fin) : Set(w, [wk[w] EXCEPT !.pc = "height", !.slot = s])
  /\ UNCHANGED <<booksVars, lease, faults, chainVars>>

\* minContextSlot keeps this answer at or after the first one.
ReadHeight(w) ==
  /\ At(w, "height")
  /\ \E h \in View(fin) : /\ h >= wk[w].slot
                          /\ Set(w, [wk[w] EXCEPT !.pc = "status", !.height = h])
  /\ UNCHANGED <<booksVars, lease, faults, chainVars>>

\* getSignatureStatuses reports the newest slot its node has processed, and
\* any landing up to there, final or not.
ConsistentWith(w, slot) == slot >= wk[w].slot

ReadStatus(w) ==
  /\ At(w, "status")
  /\ \E s \in View(tip) :
       Set(w, IF ConsistentWith(w, s)
              THEN [wk[w] EXCEPT !.pc = "receipt", !.known = Landed(wk[w].cur, s)]
              ELSE Resume(w, wk[w].todo, TRUE))
  /\ UNCHANGED <<booksVars, lease, faults, chainVars>>

\* "Observe finalized expiry before asking for absence."
PastExpiry(w) == wk[w].height > expiry[wk[w].cur]

ReadReceipt_Confirmed(w) ==
  /\ At(w, "receipt")
  /\ \E s \in View(tip) :
       Set(w, IF Landed(wk[w].cur, s) THEN [wk[w] EXCEPT !.pc = "settle"]
              ELSE IF ~wk[w].known /\ PastExpiry(w) THEN [wk[w] EXCEPT !.pc = "expire"]
              ELSE IF wk[w].known THEN Resume(w, wk[w].todo, wk[w].issues)
              ELSE [wk[w] EXCEPT !.pc = "resend"])
  /\ UNCHANGED <<booksVars, lease, faults, chainVars>>

ReadReceipt(w) ==
  /\ At(w, "receipt")
  /\ \E s \in View(fin) :
       Set(w, IF Landed(wk[w].cur, s) THEN [wk[w] EXCEPT !.pc = "settle"]
              ELSE IF ~wk[w].known /\ PastExpiry(w) THEN [wk[w] EXCEPT !.pc = "expire"]
              ELSE IF wk[w].known THEN Resume(w, wk[w].todo, wk[w].issues)
              ELSE [wk[w] EXCEPT !.pc = "resend"])
  /\ UNCHANGED <<booksVars, lease, faults, chainVars>>

\* A ProviderError is noted and the loop goes on.  Anything else that a malformed
\* answer raises ends the cycle, except below orders, which keeps ValueErrors too.
ReadFails(w) ==
  /\ wk[w].pc \in {"slot", "height", "status", "receipt"}
  /\ \/ Set(w, Resume(w, wk[w].todo, TRUE))
     \/ Set(w, [Idle EXCEPT !.pc = "release"])
  /\ UNCHANGED <<booksVars, lease, faults, chainVars>>

\* settle books a finalized transaction, once, from its receipt.  The gas price
\* was saved with the quote.  LandedIsBookable below is why no settlement is
\* refused here.
Book_ErrorFeeDropped(o) ==
  LET t == tx[o] IN
  IF t.result = "odd" THEN SaveReview(o)
  ELSE IF t.result = "err" THEN FailOnce(o, 0, 0)
  ELSE \E gas \in GasCosts : fill(o, orders[o].input, t.output, t.fee, gas)

Book(o) ==
  LET t == tx[o] IN
  IF t.result = "odd" THEN SaveReview(o)
  ELSE IF ~IsActive(o) THEN UNCHANGED booksVars
  ELSE \E gas \in GasCosts : IF t.result = "err" THEN fail_order(o, t.fee, gas)
                             ELSE fill(o, orders[o].input, t.output, t.fee, gas)

Settle(w) ==
  /\ At(w, "settle")
  /\ locked(w)
  /\ Book(wk[w].cur)
  /\ Set(w, Resume(w, wk[w].todo, wk[w].issues))
  /\ UNCHANGED <<faults, chainVars>>

Expire(w) ==
  /\ At(w, "expire")
  /\ locked(w)
  /\ FailOnce(wk[w].cur, 0, 0)
  /\ Set(w, Resume(w, wk[w].todo, wk[w].issues))
  /\ UNCHANGED <<faults, chainVars>>

Resend(w) ==
  /\ At(w, "resend")
  /\ locked(w)
  /\ SaveChecking(wk[w].cur)
  /\ Set(w, [wk[w] EXCEPT !.pc = "send"])
  /\ UNCHANGED <<faults, chainVars>>

\* Only the saved bytes are sent.  The request or its answer may be lost.
Send(w) ==
  /\ At(w, "send")
  /\ sent' \in {sent, sent \cup {wk[w].cur}}
  /\ Set(w, Resume(w, wk[w].todo, wk[w].issues))
  /\ UNCHANGED <<booksVars, lease, faults, tip, fin, tx, expiry>>

\* Reconciliation waits until no signed order is unresolved.  It reads the
\* account first ...
EndRecover(w) ==
  /\ At(w, "recover")
  /\ wk[w].todo = {}
  /\ Set(w, IF Signed = {} THEN [Phase(w, "reconcile", {}) EXCEPT !.saved = {acct}]
            ELSE Phase(w, "monitor", OpenPositions))
  /\ UNCHANGED <<booksVars, lease, faults, chainVars>>

\* ... and compares it with finalized balances.  The pause it may then write is
\* not guarded by the lease.
WalletMatches(saved, usdcAt, solAt) ==
  /\ WalletUsdc(usdcAt) = saved.cash
  /\ WalletSol(solAt) = saved.sol
  /\ \A p \in OpenPositions : WalletToken(MintOf[p], usdcAt) = positions[p].quantity

Reconcile(w) ==
  /\ At(w, "reconcile")
  /\ \E saved \in wk[w].saved, usdcAt, solAt \in View(fin) :
       IF WalletMatches(saved, usdcAt, solAt) \/ saved.paused THEN UNCHANGED booksVars
       ELSE pause(TRUE)
  /\ \E issues \in {wk[w].issues, TRUE} :
       Set(w, [Phase(w, "monitor", OpenPositions) EXCEPT !.issues = issues])
  /\ UNCHANGED <<lease, faults, chainVars>>

\* Each open position is marked, and sold when a reason to exit is found.
Monitor(w) ==
  /\ At(w, "monitor")
  /\ locked(w)
  /\ \E p \in wk[w].todo, issues \in {wk[w].issues, TRUE} :
       /\ (\E e \in Exits : queue_exit(p, e)) \/ UNCHANGED booksVars
       /\ Set(w, [wk[w] EXCEPT !.todo = @ \ {p}, !.issues = issues])
  /\ UNCHANGED <<faults, chainVars>>

EndMonitor(w) ==
  /\ At(w, "monitor")
  /\ wk[w].todo = {}
  /\ locked(w)
  /\ RiskPause
  /\ Set(w, [Phase(w, "trade", {o \in OrderIds : IsActive(o)}) EXCEPT !.phase = "trade"])
  /\ UNCHANGED <<faults, chainVars>>

\* An order that is signed already, or not ready yet, is passed over.
PassOver(w) ==
  /\ At(w, "trade")
  /\ \E o \in NextOf(wk[w].todo) : Set(w, [wk[w] EXCEPT !.todo = @ \ {o}])
  /\ UNCHANGED <<booksVars, lease, faults, chainVars>>

\* A queued order is taken up: a buy only while the account is healthy.
TakeUp(w) ==
  /\ At(w, "trade")
  /\ \E o \in NextOf(wk[w].todo) :
       /\ orders[o].status = "queued"
       /\ o \in Signals => EntryHealthy(w)
       /\ Set(w, [wk[w] EXCEPT !.pc = "sign", !.cur = o, !.todo = @ \ {o}])
  /\ UNCHANGED <<booksVars, lease, faults, chainVars>>

\* A buy is given up: it is not eligible any more, or the account is not healthy.
DropEntry(w) ==
  /\ At(w, "trade")
  /\ locked(w)
  /\ \E o \in NextOf(wk[w].todo) \cap Signals :
       /\ orders[o].status = "queued"
       /\ FailOnce(o, 0, 0)
       /\ Set(w, [wk[w] EXCEPT !.todo = @ \ {o}])
  /\ UNCHANGED <<faults, chainVars>>

\* What orders does about an error: a buy fails, a sell stays queued.
GiveUp(o) == IF o \in Signals THEN FailOnce(o, 0, 0) ELSE UNCHANGED booksVars

\* A quote, one of the checks of validate or the signature failed.
SignFails(w) ==
  /\ At(w, "sign")
  /\ locked(w)
  /\ GiveUp(wk[w].cur)
  /\ Set(w, Resume(w, wk[w].todo, TRUE))
  /\ UNCHANGED <<faults, chainVars>>

\* prepare saves the signed bytes and their expiry in one transaction, and the
\* order is looked up and sent next.  The height behind the expiry was read
\* before, so it may already have passed.
Sign_SubmitsFirst(w) ==
  /\ At(w, "sign")
  /\ locked(w)
  /\ sent' = sent \cup {wk[w].cur}
  /\ Set(w, [wk[w] EXCEPT !.pc = "sign"])
  /\ UNCHANGED <<booksVars, faults, tip, fin, tx, expiry>>

Sign(w) ==
  /\ At(w, "sign")
  /\ locked(w)
  /\ MarkPrepared(wk[w].cur)
  /\ \E last \in 1..(tip + Window) :
       /\ last <= LastExpiry
       /\ expiry' = [expiry EXCEPT ![wk[w].cur] = last]
  /\ Set(w, [wk[w] EXCEPT !.pc = "slot"])
  /\ UNCHANGED <<faults, tip, fin, tx, sent>>

EndTrade(w) ==
  /\ At(w, "trade")
  /\ wk[w].todo = {}
  /\ locked(w)
  /\ RiskPause
  /\ Set(w, Phase(w, "observe", {}))
  /\ UNCHANGED <<faults, chainVars>>

\* New transitions are saved, and every undecided one is taken up.
ObserveSignals(w) ==
  /\ At(w, "observe")
  /\ locked(w)
  /\ \E new \in SUBSET Signals : Observe(new)
  /\ Set(w, Phase(w, "decide", {s \in Signals : signals'[s] = "observed"}))
  /\ UNCHANGED <<faults, chainVars>>

Enter(w) ==
  /\ At(w, "decide")
  /\ locked(w)
  /\ EntryHealthy(w)
  /\ \E s \in wk[w].todo : /\ reserve_buy(s)
                           /\ Set(w, [wk[w] EXCEPT !.todo = @ \ {s}])
  /\ UNCHANGED <<faults, chainVars>>

PassUp(w) ==
  /\ At(w, "decide")
  /\ locked(w)
  /\ \E s \in wk[w].todo, issues \in {wk[w].issues, TRUE} :
       /\ SaveSkipped(s)
       /\ Set(w, [wk[w] EXCEPT !.todo = @ \ {s}, !.issues = issues])
  /\ UNCHANGED <<faults, chainVars>>

EndCycle(w) ==
  /\ At(w, "decide")
  /\ wk[w].todo = {}
  /\ Set(w, [Idle EXCEPT !.pc = "release"])
  /\ UNCHANGED <<booksVars, lease, faults, chainVars>>

Release(w) ==
  /\ At(w, "release")
  /\ release(w)
  /\ Set(w, Idle)
  /\ UNCHANGED <<booksVars, faults, chainVars>>

\* locked raises, and the cycle ends.
LeaseLost(w) ==
  /\ wk[w].pc \in {"settle", "expire", "resend", "monitor", "trade", "sign", "observe", "decide"}
  /\ Expired(w)
  /\ Set(w, [Idle EXCEPT !.pc = "release"])
  /\ UNCHANGED <<booksVars, lease, faults, chainVars>>

\* The process dies and is started again; its lease stays until it lapses.
Crash(w) ==
  /\ ~At(w, "off")
  /\ faults < MaxFaults
  /\ faults' = faults + 1
  /\ Set(w, Idle)
  /\ UNCHANGED <<booksVars, lease, chainVars>>

\* Three minutes pass after a process died ...
LapseAfterCrash ==
  /\ Lapse
  /\ At(lease.owner, "off")
  /\ UNCHANGED <<booksVars, wk, faults, chainVars>>

\* ... or during a cycle that is still at work.
LapseDuringCycle ==
  /\ Lapse
  /\ ~At(lease.owner, "off")
  /\ faults < MaxFaults
  /\ faults' = faults + 1
  /\ UNCHANGED <<booksVars, wk, chainVars>>

-----------------------------------------------------------------------------
Lookup(w) ==
  \/ Recover(w) \/ ReadSlot(w) \/ ReadHeight(w) \/ ReadStatus(w) \/ ReadReceipt(w)
  \/ Settle(w) \/ Expire(w) \/ Resend(w) \/ Send(w) \/ EndRecover(w)

Entries(w) ==
  \/ Reconcile(w) \/ Monitor(w) \/ EndMonitor(w)
  \/ PassOver(w) \/ TakeUp(w) \/ DropEntry(w) \/ SignFails(w) \/ Sign(w) \/ EndTrade(w)
  \/ ObserveSignals(w) \/ Enter(w) \/ PassUp(w) \/ EndCycle(w)

Cycle(w) == StartCycle(w) \/ Lookup(w) \/ Entries(w) \/ LeaseLost(w) \/ Release(w)

Operator ==
  /\ (\E paused \in BOOLEAN : pause(paused)) \/ (\E p \in Signals : RequestExit(p))
  /\ UNCHANGED <<lease, wk, faults, chainVars>>

Chain ==
  /\ (\E o \in OrderIds : Land(o) \/ Fork(o)) \/ EmptySlot \/ Finalize
  /\ UNCHANGED <<booksVars, lease, wk, faults>>

LiveNext ==
  \/ \E w \in Workers : Cycle(w) \/ ReadFails(w) \/ Crash(w)
  \/ LapseAfterCrash
  \/ LapseDuringCycle
  \/ Operator
  \/ Chain

LiveSpec == LiveInit /\ [][LiveNext]_vars

\* service.main starts a cycle for ever, and every step of a cycle is eventually
\* taken; a lease left by a dead process lapses; the chain grows and finalizes.
\* Remote calls may fail, but not always: each kind, tried again and again,
\* succeeds again and again.
Fairness ==
  /\ \A w \in Workers :
       /\ WF_vars(Cycle(w))
       /\ SF_vars(ReadSlot(w)) /\ SF_vars(ReadHeight(w))
       /\ SF_vars(ReadStatus(w)) /\ SF_vars(ReadReceipt(w))
  /\ WF_vars(LapseAfterCrash)
  /\ WF_vars(EmptySlot /\ UNCHANGED <<booksVars, lease, wk, faults>>)
  /\ WF_vars(Finalize /\ UNCHANGED <<booksVars, lease, wk, faults>>)

FairLiveSpec == LiveSpec /\ Fairness

-----------------------------------------------------------------------------
(***************************************************************************)
(* Properties.                                                             *)
(***************************************************************************)
\* The books tell what happened on the chain, and never guess.  A filled order
\* has landed for good, for exactly the amounts booked; an order that was
\* signed is failed only if it landed for good as an error, whose fee is
\* booked, or can never land any more.
Dead(o) == tx[o].slot = 0 /\ tip >= expiry[o]

SettledAsLanded ==
  \A o \in OrderIds :
    /\ orders[o].status = "filled" =>
         /\ Landed(o, fin) /\ tx[o].result = "ok"
         /\ book[o].sol = -tx[o].fee /\ book[o].cash = UsdcDelta(o)
         /\ book[o].quantity = TokenDelta(o)
    /\ orders[o].status = "failed" /\ expiry[o] > 0 =>
         \/ Landed(o, fin) /\ tx[o].result = "err" /\ book[o].sol = -tx[o].fee
         \/ Dead(o) /\ book[o].sol = 0

\* Live.recover: "This closes the race where an order lands while the expiry check
\* is in flight."  docs/solana-trading.md: "A finalized block height beyond expiry
\* and an absent historical signature release an unlanded reservation."  What is
\* failed without a receipt has not landed, and will not.
ReleasedNeverLanded ==
  \A o \in OrderIds : orders[o].status = "failed" /\ book[o].sol = 0 => tx[o].slot = 0

\* What reconcile relies on: with no signed order unresolved, the account's cash,
\* SOL and open quantities are exactly the finalized wallet's, so a pause by
\* reconcile means that something else touched the wallet.
BooksMatchWallet ==
  Signed = {} => WalletMatches(acct, fin, fin)

\* Whatever the chain has finalized for an order still open can be booked: the
\* account's constraints never refuse a swap that has happened.
Bookable(o) ==
  LET t == tx[o] IN
  /\ book[o] = NoRow
  /\ acct.sol >= t.fee
  /\ acct.reserved >= orders[o].reserved
  /\ t.result = "ok" /\ o \in Signals =>
       /\ acct.cash - acct.reserved >= 0
       /\ positions[o].status = "none"
       /\ ~OpenOn(MintOf[o])
  /\ t.result = "ok" /\ o \in Exits =>
       positions[orders[o].position].status = "open"

LandedIsBookable ==
  \A o \in OrderIds : IsActive(o) /\ Landed(o, fin) /\ tx[o].result # "odd" => Bookable(o)

\* The network only ever has bytes that were saved first, with their expiry, and
\* an order that was never signed cannot land.
SavedBeforeSent ==
  \A o \in sent : expiry[o] > 0 /\ orders[o].status \notin {"none", "queued"}

\* A buy is signed while every other signed order has resolved, although the
\* check is made before the quote, the simulation and the signature.
BuysAreSignedAlone ==
  [][\A s \in Signals : orders[s].status = "queued" /\ orders'[s].status = "prepared" => Signed = {}]_vars

\* A signed order does not stay signed: it is settled, released or, when what
\* landed is odd, left for review.
SignedResolves ==
  \A o \in OrderIds :
    orders[o].status \in {"prepared", "checking"} ~>
      (orders[o].status \in Resolved \/ tx[o].result = "odd")

\* The books the processes share behave as TradingBooks says, whatever lapses,
\* crashes or answers late: BooksSpec is a property of LiveSpec.

-----------------------------------------------------------------------------
(***************************************************************************)
(* The inductive invariant behind them, proved in LiveTraderProofs.  It    *)
(* holds for every worker, also for one whose lease has lapsed and been    *)
(* taken over, except OwnerKnows, which is what the lease is for.          *)
(***************************************************************************)
LookupPcs == {"slot", "height", "status", "receipt", "settle", "expire", "resend", "send"}
Recovering(w) == At(w, "recover") \/ (wk[w].pc \in LookupPcs /\ wk[w].phase = "recover")

\* A worker looks up only what was signed, and what it has read stays true.
WorkHolds(w) ==
  LET r == wk[w] IN
  /\ r.pc \in LookupPcs => r.cur \in OrderIds /\ expiry[r.cur] > 0
  /\ Recovering(w) => \A o \in r.todo : expiry[o] > 0
  /\ r.pc = "sign" => r.cur \in OrderIds
  /\ r.pc \in {"trade", "sign"} => r.phase = "trade"
  /\ r.pc \in {"monitor", "decide"} => r.todo \subseteq Signals
  /\ r.slot <= fin /\ r.height <= fin
  /\ r.pc = "settle" => Landed(r.cur, fin)
  /\ ~Lagging /\ r.pc = "receipt" /\ ~r.known /\ PastExpiry(w) => Dead(r.cur)
  /\ ~Lagging /\ r.pc = "expire" => Dead(r.cur)

\* The worker that owns the lease knows the state of the rows it will write.
OwnerKnows(w) ==
  lease.owner = w =>
    LET r == wk[w] IN
    /\ r.pc \in LookupPcs => r.cur \in Signed
    /\ Recovering(w) => r.todo \subseteq Signed \ {r.cur}
    /\ r.pc = "sign" => /\ orders[r.cur].status = "queued"
                        /\ r.cur \in Signals => Signed = {}
    /\ r.pc = "decide" => \A s \in r.todo : signals[s] = "observed"

\* Only what was signed is sent, only what was sent lands, and it lands with
\* amounts a settlement can book.
ChainHolds(o) ==
  /\ expiry[o] > 0 => orders[o].status \notin {"none", "queued"}
  /\ o \in Signed => expiry[o] > 0
  /\ o \in sent => expiry[o] > 0
  /\ tx[o].slot > 0 => /\ o \in sent /\ tx[o].slot <= tip
                       /\ tx[o].fee \in Fees /\ tx[o].result \in {"ok", "err", "odd"}
                       /\ tx[o].result = "ok" => tx[o].output \in Amounts

\* What SettledAsLanded asks, and what holds too when the nodes lag.
BookedAsLanded(o) ==
  /\ orders[o].status = "filled" =>
       /\ Landed(o, fin) /\ tx[o].result = "ok"
       /\ book[o].sol = -tx[o].fee /\ book[o].cash = UsdcDelta(o)
       /\ book[o].quantity = TokenDelta(o)
  /\ orders[o].status = "failed" =>
       /\ book[o].cash = 0 /\ book[o].quantity = 0
       /\ \/ Landed(o, fin) /\ tx[o].result = "err" /\ book[o].sol = -tx[o].fee
          \/ book[o].sol = 0 /\ (~Lagging /\ expiry[o] > 0 => Dead(o))

LiveInv ==
  /\ BooksInv
  /\ LiveTypeOK
  /\ QuantitiesAreAmounts
  /\ \A w \in Workers : WorkHolds(w) /\ OwnerKnows(w)
  /\ \A o \in OrderIds : ChainHolds(o) /\ BookedAsLanded(o)
  /\ WalletSol(tip) >= 0
=============================================================================
