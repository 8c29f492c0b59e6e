--------------------------- MODULE LiveTraderProofs ---------------------------
(***************************************************************************)
(* LiveInv is an inductive invariant of LiveTrader, for every number of    *)
(* workers and whatever lapses, crashes, lags, lands or forks.  From it:   *)
(* every step of the live trader is a transaction TradingBooks allows, the *)
(* books tell what the chain did, and the wallet agrees with them.         *)
(***************************************************************************)
EXTENDS LiveTrader, TradingBooksProofs

LEMMA LiveTyped ==
  ASSUME LiveTypeOK
  PROVE  /\ tip \in Nat /\ fin \in Nat /\ fin <= tip /\ tip <= LastSlot
         /\ LastSlot \in Nat /\ LastExpiry \in Nat /\ LastExpiry <= LastSlot
         /\ \A o \in OrderIds : expiry[o] \in Nat /\ tx[o].slot \in Nat
         /\ \A w \in Workers : /\ wk[w] \in Worker
                               /\ wk[w].slot \in Nat /\ wk[w].height \in Nat
         /\ wk \in [Workers -> Worker]
         /\ Nobody \notin OrderIds
<1>1. LastSlot \in Nat /\ LastExpiry \in Nat /\ LastExpiry <= LastSlot /\ Nobody \notin OrderIds
  BY LiveAssumption DEF OrderIds
<1>2. \A w \in Workers : wk[w] \in Worker /\ wk[w].slot \in 0..LastSlot /\ wk[w].height \in 0..LastSlot
  BY DEF LiveTypeOK, Worker
<1>3. \A o \in OrderIds : tx[o] \in Tx /\ tx[o].slot \in 0..LastSlot /\ expiry[o] \in 0..LastSlot
  BY DEF LiveTypeOK, Tx
<1>4. wk \in [Workers -> Worker] /\ tip \in 0..LastSlot /\ fin \in 0..tip
  BY DEF LiveTypeOK
<1> QED BY <1>1, <1>2, <1>3, <1>4

LEMMA LockedOwner ==
  ASSUME LeaseTypeOK, NEW w, locked(w)
  PROVE  lease.owner = w /\ lease' = [owner |-> w, lapsed |-> FALSE]
BY DEF locked, LeaseTypeOK

-----------------------------------------------------------------------------
(***************************************************************************)
(* Every step is a step of the books.                                      *)
(***************************************************************************)
\* Zero is a fee a failed order may cost.
LEMMA ReleaseIsBooks ==
  ASSUME NEW o \in OrderIds, FailOnce(o, 0, 0)
  PROVE  [BooksNext]_booksVars
<1>1. 0 \in FailureFees /\ 0 \in FailureGas
  BY DEF FailureFees, FailureGas
<1>2. CASE fail_order(o, 0, 0)
  BY <1>1, <1>2 DEF BooksNext
<1>3. CASE UNCHANGED booksVars
  BY <1>3
<1> QED BY <1>2, <1>3 DEF FailOnce

LEMMA SettleIsBooks ==
  ASSUME LiveInv, NEW w \in Workers, Settle(w)
  PROVE  [BooksNext]_booksVars
<1> DEFINE o == wk[w].cur
           t == tx[o]
<1>1. /\ o \in OrderIds /\ o \in Signed /\ IsActive(o) /\ Landed(o, fin)
  <2>1. WorkHolds(w) /\ OwnerKnows(w) /\ wk[w].pc = "settle" /\ lease.owner = w
    BY LockedOwner DEF LiveInv, LiveTypeOK, Settle, At
  <2> QED BY <2>1 DEF WorkHolds, OwnerKnows, LookupPcs, Signed
<1>2. /\ Mode = "live" /\ t.fee \in Fees /\ t.result \in {"ok", "err", "odd"}
      /\ t.result = "ok" => t.output \in Amounts
  BY <1>1, LiveAssumption DEF LiveInv, ChainHolds, Landed
<1>3. CASE t.result = "odd"
  <2>1. MarkReview(o)
    BY <1>1, <1>3 DEF Settle, Book, SaveReview, MarkReview
  <2> QED BY <1>1, <1>2, <2>1 DEF BooksNext
<1>4. CASE t.result = "err"
  <2>1. PICK gas \in GasCosts : fail_order(o, t.fee, gas)
    BY <1>1, <1>4 DEF Settle, Book
  <2>2. t.fee \in FailureFees /\ gas \in FailureGas
    BY <1>2 DEF FailureFees, FailureGas
  <2> QED BY <1>1, <2>1, <2>2 DEF BooksNext
<1>5. CASE t.result = "ok"
  <2>1. PICK gas \in GasCosts : fill(o, orders[o].input, t.output, t.fee, gas)
    BY <1>1, <1>5 DEF Settle, Book
  <2>2. orders[o].input \in Amounts
    BY <1>1, InputIsAmount DEF LiveInv
  <2> QED BY <1>1, <1>2, <1>5, <2>1, <2>2 DEF BooksNext
<1> QED BY <1>2, <1>3, <1>4, <1>5

LEMMA ResendIsBooks ==
  ASSUME LiveInv, NEW w \in Workers, Resend(w)
  PROVE  [BooksNext]_booksVars
<1>1. /\ wk[w].cur \in OrderIds /\ IsActive(wk[w].cur)
  <2>1. WorkHolds(w) /\ OwnerKnows(w) /\ wk[w].pc = "resend" /\ lease.owner = w
    BY LockedOwner DEF LiveInv, LiveTypeOK, Resend, At
  <2> QED BY <2>1 DEF WorkHolds, OwnerKnows, LookupPcs, Signed
<1>2. MarkChecking(wk[w].cur)
  BY <1>1 DEF Resend, SaveChecking, MarkChecking
<1> QED BY <1>1, <1>2, LiveAssumption DEF BooksNext

LEMMA ReleaseStepsAreBooks ==
  ASSUME LiveInv, NEW w \in Workers, Expire(w) \/ DropEntry(w) \/ SignFails(w)
  PROVE  [BooksNext]_booksVars
<1>1. CASE Expire(w)
  <2>1. wk[w].cur \in OrderIds
    BY <1>1 DEF LiveInv, WorkHolds, LookupPcs, Expire, At
  <2> QED BY <1>1, <2>1, ReleaseIsBooks DEF Expire
<1>2. CASE DropEntry(w)
  BY <1>2, ReleaseIsBooks DEF DropEntry, OrderIds
<1>3. CASE SignFails(w)
  <2>1. wk[w].cur \in OrderIds
    BY <1>3 DEF LiveInv, WorkHolds, SignFails, At
  <2>2. FailOnce(wk[w].cur, 0, 0) \/ UNCHANGED booksVars
    BY <1>3 DEF SignFails, GiveUp
  <2> QED BY <2>1, <2>2, ReleaseIsBooks
<1> QED BY <1>1, <1>2, <1>3

LEMMA EntryStepsAreBooks ==
  ASSUME LiveInv, NEW w \in Workers,
         Sign(w) \/ Monitor(w) \/ ObserveSignals(w) \/ Enter(w) \/ PassUp(w)
  PROVE  [BooksNext]_booksVars
<1>1. CASE Sign(w)
  <2>1. wk[w].cur \in OrderIds /\ MarkPrepared(wk[w].cur)
    BY <1>1 DEF LiveInv, WorkHolds, Sign, At
  <2> QED BY <2>1, LiveAssumption DEF BooksNext
<1>2. CASE Monitor(w)
  <2>1. wk[w].todo \subseteq Signals
    BY <1>2 DEF LiveInv, WorkHolds, Monitor, At
  <2> QED BY <1>2, <2>1 DEF Monitor, BooksNext
<1>3. CASE ObserveSignals(w)
  BY <1>3 DEF ObserveSignals, BooksNext
<1>4. CASE Enter(w)
  <2>1. wk[w].todo \subseteq Signals
    BY <1>4 DEF LiveInv, WorkHolds, Enter, At
  <2> QED BY <1>4, <2>1 DEF Enter, BooksNext
<1>5. CASE PassUp(w)
  <2>1. PICK s \in wk[w].todo : SaveSkipped(s)
    BY <1>5 DEF PassUp
  <2>2. s \in Signals /\ signals[s] = "observed"
    <3>1. WorkHolds(w) /\ OwnerKnows(w) /\ wk[w].pc = "decide" /\ lease.owner = w
      BY <1>5, LockedOwner DEF LiveInv, LiveTypeOK, PassUp, At
    <3> QED BY <2>1, <3>1 DEF WorkHolds, OwnerKnows
  <2>3. Skip(s)
    BY <2>1, <2>2 DEF SaveSkipped, Skip
  <2> QED BY <2>2, <2>3 DEF BooksNext
<1> QED BY <1>1, <1>2, <1>3, <1>4, <1>5

LEMMA StepIsBooks ==
  ASSUME LiveInv, [LiveNext]_vars
  PROVE  [BooksNext]_booksVars
<1>1. CASE \E w \in Workers : Cycle(w) \/ ReadFails(w) \/ Crash(w)
  <2> PICK w \in Workers : Cycle(w) \/ ReadFails(w) \/ Crash(w)
    BY <1>1
  <2>1. CASE \/ StartCycle(w) \/ Recover(w) \/ ReadSlot(w) \/ ReadHeight(w) \/ ReadStatus(w)
             \/ ReadReceipt(w) \/ Send(w) \/ EndRecover(w) \/ PassOver(w) \/ TakeUp(w)
             \/ EndCycle(w) \/ LeaseLost(w) \/ Release(w) \/ ReadFails(w) \/ Crash(w)
    BY <2>1 DEF StartCycle, Recover, ReadSlot, ReadHeight, ReadStatus, ReadReceipt, Send,
       EndRecover, PassOver, TakeUp, EndCycle, LeaseLost, Release, ReadFails, Crash
  <2>2. CASE Reconcile(w) \/ EndMonitor(w) \/ EndTrade(w)
    <3>1. (\E paused \in BOOLEAN : pause(paused)) \/ UNCHANGED booksVars
      BY <2>2 DEF Reconcile, EndMonitor, EndTrade, RiskPause
    <3> QED BY <3>1 DEF BooksNext
  <2>3. CASE Settle(w) \/ Resend(w)
    BY <2>3, SettleIsBooks, ResendIsBooks
  <2>4. CASE Expire(w) \/ DropEntry(w) \/ SignFails(w)
    BY <2>4, ReleaseStepsAreBooks
  <2>5. CASE Sign(w) \/ Monitor(w) \/ ObserveSignals(w) \/ Enter(w) \/ PassUp(w)
    BY <2>5, EntryStepsAreBooks
  <2> QED BY <2>1, <2>2, <2>3, <2>4, <2>5 DEF Cycle, Lookup, Entries
<1>2. CASE LapseAfterCrash \/ LapseDuringCycle \/ Chain
  BY <1>2 DEF LapseAfterCrash, LapseDuringCycle, Chain
<1>3. CASE Operator
  BY <1>3 DEF Operator, BooksNext
<1>4. CASE UNCHANGED vars
  BY <1>4 DEF vars
<1> QED BY <1>1, <1>2, <1>3, <1>4 DEF LiveNext

-----------------------------------------------------------------------------
(***************************************************************************)
(* What no step takes back: an expiry once saved, a finalized landing and  *)
(* the death of a signature.                                               *)
(***************************************************************************)
Lasts(o) ==
  /\ expiry[o] > 0 => expiry'[o] = expiry[o]
  /\ Landed(o, fin) => tx'[o] = tx[o] /\ tx'[o].slot \in 1..fin'
  /\ expiry[o] > 0 /\ Dead(o) => tx'[o].slot = 0 /\ tip' >= expiry'[o]

ChainLasts ==
  /\ tip' \in Nat /\ fin' \in Nat /\ tip <= tip' /\ fin <= fin'
  /\ \A o \in OrderIds : Lasts(o)

\* The steps that leave the chain alone, except for a request that is sent.
LEMMA QuietChain ==
  ASSUME LiveInv, UNCHANGED <<tip, fin, tx, expiry>>
  PROVE  ChainLasts
<1>1. tip \in Nat /\ fin \in Nat
  BY LiveTyped DEF LiveInv
<1> QED BY <1>1 DEF ChainLasts, Lasts, Landed, Dead

LEMMA SignKeepsChain ==
  ASSUME LiveInv, NEW w \in Workers, Sign(w)
  PROVE  ChainLasts
<1>1. tip \in Nat /\ fin \in Nat /\ tip' = tip /\ fin' = fin /\ tx' = tx
  BY LiveTyped DEF LiveInv, Sign
<1>2. wk[w].cur \in OrderIds /\ orders[wk[w].cur].status = "queued"
  BY DEF LiveInv, WorkHolds, Sign, At, MarkPrepared
<1>3. ~ (expiry[wk[w].cur] > 0)
  BY <1>2 DEF LiveInv, ChainHolds
<1>4. \A o \in OrderIds : o # wk[w].cur => expiry'[o] = expiry[o]
  BY DEF Sign, LiveInv, LiveTypeOK
<1> QED BY <1>1, <1>3, <1>4 DEF ChainLasts, Lasts, Landed, Dead

LEMMA ChainKeepsChain ==
  ASSUME LiveInv, Chain
  PROVE  ChainLasts
<1>1. /\ tip \in Nat /\ fin \in Nat /\ fin <= tip
      /\ \A o \in OrderIds : expiry[o] \in Nat /\ tx[o].slot \in Nat
      /\ tx \in [OrderIds -> Tx]
  BY LiveTyped DEF LiveInv, LiveTypeOK
<1>2. ASSUME NEW o \in OrderIds, Land(o) PROVE ChainLasts
  <2>1. /\ tip' = tip + 1 /\ fin' = fin /\ expiry' = expiry /\ tx[o].slot = 0 /\ tip < expiry[o]
        /\ \A r \in OrderIds : r # o => tx'[r] = tx[r]
    BY <1>1, <1>2 DEF Land
  <2> QED BY <1>1, <2>1 DEF ChainLasts, Lasts, Landed, Dead
<1>3. ASSUME NEW o \in OrderIds, Fork(o) PROVE ChainLasts
  <2>1. /\ tip' = tip /\ fin' = fin /\ expiry' = expiry /\ tx[o].slot > fin
        /\ \A r \in OrderIds : r # o => tx'[r] = tx[r]
    BY <1>1, <1>3 DEF Fork
  <2> QED BY <1>1, <2>1 DEF ChainLasts, Lasts, Landed, Dead
<1>4. CASE EmptySlot
  BY <1>1, <1>4 DEF EmptySlot, ChainLasts, Lasts, Landed, Dead
<1>5. CASE Finalize
  <2>1. fin' \in Nat /\ fin < fin' /\ tip' = tip /\ tx' = tx /\ expiry' = expiry
    BY <1>1, <1>5 DEF Finalize
  <2> QED BY <1>1, <2>1 DEF ChainLasts, Lasts, Landed, Dead
<1> QED BY <1>2, <1>3, <1>4, <1>5 DEF Chain

LEMMA StepKeepsChain ==
  ASSUME LiveInv, [LiveNext]_vars
  PROVE  ChainLasts
<1>1. CASE \E w \in Workers : Sign(w)
  BY <1>1, SignKeepsChain
<1>2. CASE Chain
  BY <1>2, ChainKeepsChain
<1>3. CASE UNCHANGED <<tip, fin, tx, expiry>>
  BY <1>3, QuietChain
<1>4. CASE \E w \in Workers : Cycle(w) \/ ReadFails(w) \/ Crash(w)
  <2> PICK w \in Workers : Cycle(w) \/ ReadFails(w) \/ Crash(w)
    BY <1>4
  <2>1. CASE StartCycle(w) \/ Lookup(w) \/ LeaseLost(w) \/ Release(w) \/ ReadFails(w) \/ Crash(w)
    BY <2>1, <1>3 DEF Lookup, StartCycle, Recover, ReadSlot, ReadHeight, ReadStatus, ReadReceipt,
       Settle, Expire, Resend, Send, EndRecover, LeaseLost, Release, ReadFails, Crash, chainVars
  <2>2. CASE Entries(w)
    BY <2>2, <1>1, <1>3 DEF Entries, Reconcile, Monitor, EndMonitor, PassOver, TakeUp, DropEntry,
       SignFails, EndTrade, ObserveSignals, Enter, PassUp, EndCycle, chainVars
  <2> QED BY <2>1, <2>2 DEF Cycle
<1>5. CASE LapseAfterCrash \/ LapseDuringCycle \/ Operator \/ UNCHANGED vars
  BY <1>5, <1>3 DEF LapseAfterCrash, LapseDuringCycle, Operator, vars, chainVars
<1> QED BY <1>2, <1>4, <1>5 DEF LiveNext

-----------------------------------------------------------------------------
(***************************************************************************)
(* What the workers know.                                                  *)
(***************************************************************************)
\* A worker that does not act keeps what it knows: what it read lasts, and only
\* the owner of the lease writes orders and signals.
LEMMA OthersKeep ==
  ASSUME LiveInv, ChainLasts, NEW v \in Workers, wk'[v] = wk[v],
         lease'.owner = v => lease.owner = v /\ orders' = orders /\ signals' = signals
  PROVE  WorkHolds(v)' /\ OwnerKnows(v)'
<1>1. /\ WorkHolds(v) /\ OwnerKnows(v) /\ wk[v] \in Worker
      /\ tip \in Nat /\ fin \in Nat /\ fin <= fin'
      /\ wk[v].slot \in Nat /\ wk[v].height \in Nat
      /\ \A o \in OrderIds : expiry[o] \in Nat
  BY LiveTyped DEF LiveInv, ChainLasts
<1>2. \A o \in OrderIds : Lasts(o)
  BY DEF ChainLasts
<1>3. WorkHolds(v)'
  <2>1. \A o \in wk[v].todo : o \in OrderIds
    BY <1>1 DEF Worker
  <2>2. Recovering(v)' = Recovering(v)
    BY DEF Recovering, At
  <2>3. wk[v].slot <= fin' /\ wk[v].height <= fin'
    <3>1. fin' \in Nat /\ wk[v].slot <= fin /\ wk[v].height <= fin
      BY <1>1 DEF WorkHolds, ChainLasts
    <3> QED BY <1>1, <3>1
  <2>4. wk[v].pc \in LookupPcs => wk[v].cur \in OrderIds /\ expiry[wk[v].cur] > 0
    BY <1>1 DEF WorkHolds
  <2>5. wk[v].pc \in LookupPcs => expiry'[wk[v].cur] = expiry[wk[v].cur]
    BY <1>2, <2>4 DEF Lasts
  <2>6. wk[v].pc = "settle" => Landed(wk[v].cur, fin)'
    BY <1>1, <1>2, <2>4 DEF WorkHolds, Lasts, Landed, LookupPcs
  <2>7. wk[v].pc \in LookupPcs /\ Dead(wk[v].cur) => Dead(wk[v].cur)'
    BY <1>2, <2>4 DEF Lasts, Dead
  <2> QED BY <1>1, <1>2, <2>1, <2>2, <2>3, <2>4, <2>5, <2>6, <2>7
          DEF WorkHolds, Lasts, PastExpiry, LookupPcs
<1>4. OwnerKnows(v)'
  BY <1>1 DEF OwnerKnows, Recovering, At, Signed, IsActive
<1> QED BY <1>3, <1>4

\* A worker that has nothing at hand knows nothing that could go wrong.
LEMMA AtRest ==
  ASSUME ChainLasts, NEW w \in Workers,
         wk'[w].pc \in {"off", "reconcile", "observe", "release"},
         wk'[w].slot = 0, wk'[w].height = 0
  PROVE  WorkHolds(w)' /\ OwnerKnows(w)'
<1>1. fin' \in Nat
  BY DEF ChainLasts
<1> QED BY <1>1 DEF WorkHolds, OwnerKnows, Recovering, At, LookupPcs

\* Back in the loop over the orders, the ones still to visit are still signed.
LEMMA Resumes ==
  ASSUME LiveInv, ChainLasts, NEW w \in Workers, NEW issues,
         wk[w].pc \in LookupPcs \cup {"sign"},
         wk'[w] = Resume(w, wk[w].todo, issues),
         lease'.owner = w => lease.owner = w /\ Signed \ {wk[w].cur} \subseteq Signed'
  PROVE  WorkHolds(w)' /\ OwnerKnows(w)'
<1>1. /\ wk[w].phase \in {"recover", "trade"} /\ wk[w].todo \subseteq OrderIds
      /\ WorkHolds(w) /\ OwnerKnows(w) /\ Nobody \notin OrderIds
  BY LiveTyped DEF LiveInv, Worker
<1>2. /\ wk'[w].pc = wk[w].phase /\ wk'[w].phase = wk[w].phase /\ wk'[w].todo = wk[w].todo
      /\ wk'[w].cur = Nobody /\ wk'[w].slot = 0 /\ wk'[w].height = 0
  BY DEF Resume, Idle
<1>3. wk[w].phase = "recover" => Recovering(w)
  BY <1>1 DEF Recovering, WorkHolds
<1>4. /\ wk[w].phase = "recover" => \A o \in wk[w].todo : o \in OrderIds /\ expiry'[o] > 0
      /\ wk[w].phase = "recover" /\ lease'.owner = w => wk[w].todo \subseteq Signed' \ {Nobody}
      /\ fin' \in Nat
  BY <1>1, <1>3 DEF WorkHolds, OwnerKnows, ChainLasts, Lasts
<1>5. WorkHolds(w)'
  BY <1>1, <1>2, <1>4 DEF WorkHolds, Recovering, At, LookupPcs
<1>6. OwnerKnows(w)'
  BY <1>1, <1>2, <1>4 DEF OwnerKnows, Recovering, At, LookupPcs
<1> QED BY <1>5, <1>6

LEMMA IdleTyped ==
  /\ Idle \in Worker
  /\ [Idle EXCEPT !.pc = "release"] \in Worker
  /\ \A todo \in SUBSET OrderIds : [Idle EXCEPT !.pc = "recover", !.todo = todo] \in Worker
<1>1. 0 \in 0..LastSlot
  BY LiveAssumption
<1> QED BY <1>1 DEF Idle, Worker, Pcs

LEMMA ResumeTyped ==
  ASSUME NEW w, wk[w] \in Worker, NEW issues \in BOOLEAN
  PROVE  Resume(w, wk[w].todo, issues) \in Worker
<1>1. 0 \in 0..LastSlot
  BY LiveAssumption
<1> QED BY <1>1 DEF Resume, Idle, Worker, Pcs

LEMMA PhaseTyped ==
  ASSUME NEW w, wk[w] \in Worker, NEW pc \in Pcs, NEW todo \in SUBSET OrderIds
  PROVE  /\ Phase(w, pc, todo) \in Worker
         /\ [Phase(w, pc, todo) EXCEPT !.phase = "trade"] \in Worker
         /\ \A issues \in BOOLEAN : [Phase(w, pc, todo) EXCEPT !.issues = issues] \in Worker
         /\ \A a \in Account : [Phase(w, pc, todo) EXCEPT !.saved = {a}] \in Worker
<1>1. 0 \in 0..LastSlot
  BY LiveAssumption
<1> QED BY <1>1 DEF Phase, Idle, Worker

\* The state of the acting worker after its step.
LEMMA SetState ==
  ASSUME LiveTypeOK, NEW w \in Workers, NEW r, Set(w, r)
  PROVE  /\ wk'[w] = r /\ \A v \in Workers : v # w => wk'[v] = wk[v]
         /\ r \in Worker => wk' \in [Workers -> Worker]
BY DEF LiveTypeOK, Set

ActorHolds(w) == wk'[w] \in Worker /\ WorkHolds(w)' /\ OwnerKnows(w)'

LEMMA ReadingHolds ==
  ASSUME LiveInv, ChainLasts, NEW w \in Workers, ReadSlot(w) \/ ReadHeight(w)
  PROVE  ActorHolds(w)
<1>1. /\ LiveTypeOK /\ wk[w] \in Worker /\ WorkHolds(w) /\ OwnerKnows(w)
      /\ tip \in Nat /\ fin \in Nat /\ fin <= tip /\ tip <= LastSlot /\ LastSlot \in Nat
      /\ wk[w].slot \in Nat
  BY LiveTyped DEF LiveInv
<1>2. /\ orders' = orders /\ lease' = lease /\ fin' = fin /\ expiry' = expiry
      /\ Signed' = Signed
  BY DEF ReadSlot, ReadHeight, booksVars, chainVars, Signed, IsActive
<1>3. \A s \in View(fin) : s \in 0..LastSlot /\ s <= fin
  BY <1>1 DEF View
<1>4. CASE ReadSlot(w)
  <2>1. PICK s \in View(fin) : wk'[w] = [wk[w] EXCEPT !.pc = "height", !.slot = s]
    BY <1>1, <1>4, SetState DEF ReadSlot
  <2>2. wk'[w] \in Worker
    BY <1>1, <1>3, <2>1 DEF Worker, Pcs
  <2>3. /\ wk'[w].pc = "height" /\ wk'[w].todo = wk[w].todo /\ wk'[w].cur = wk[w].cur
        /\ wk'[w].phase = wk[w].phase /\ wk'[w].slot = s /\ wk'[w].height = wk[w].height
    BY <1>1, <2>1 DEF Worker
  <2>4. wk[w].pc = "slot"
    BY <1>4 DEF ReadSlot, At
  <2> QED BY <1>1, <1>2, <1>3, <2>2, <2>3, <2>4
          DEF ActorHolds, WorkHolds, OwnerKnows, Recovering, At, LookupPcs
<1>5. CASE ReadHeight(w)
  <2>1. PICK h \in View(fin) : wk'[w] = [wk[w] EXCEPT !.pc = "status", !.height = h]
    BY <1>1, <1>5, SetState DEF ReadHeight
  <2>2. wk'[w] \in Worker
    BY <1>1, <1>3, <2>1 DEF Worker, Pcs
  <2>3. /\ wk'[w].pc = "status" /\ wk'[w].todo = wk[w].todo /\ wk'[w].cur = wk[w].cur
        /\ wk'[w].phase = wk[w].phase /\ wk'[w].slot = wk[w].slot /\ wk'[w].height = h
    BY <1>1, <2>1 DEF Worker
  <2>4. wk[w].pc = "height"
    BY <1>5 DEF ReadHeight, At
  <2> QED BY <1>1, <1>2, <1>3, <2>2, <2>3, <2>4
          DEF ActorHolds, WorkHolds, OwnerKnows, Recovering, At, LookupPcs
<1> QED BY <1>4, <1>5

\* An answer up to date that does not know a signature whose last height has
\* passed is right for ever.
LEMMA AbsentIsDead ==
  ASSUME LiveInv, NEW o \in OrderIds, ~Landed(o, tip), NEW h \in Nat, h <= fin, h > expiry[o]
  PROVE  Dead(o)
<1>1. /\ tip \in Nat /\ fin \in Nat /\ fin <= tip /\ expiry[o] \in Nat /\ tx[o].slot \in Nat
      /\ tx[o].slot > 0 => tx[o].slot <= tip
  BY LiveTyped DEF LiveInv, ChainHolds
<1>2. tx[o].slot = 0
  BY <1>1 DEF Landed
<1> QED BY <1>1, <1>2 DEF Dead

LEMMA StatusHolds ==
  ASSUME LiveInv, ChainLasts, NEW w \in Workers, ReadStatus(w)
  PROVE  ActorHolds(w)
<1>1. /\ LiveTypeOK /\ wk[w] \in Worker /\ WorkHolds(w) /\ OwnerKnows(w)
      /\ tip \in Nat /\ fin \in Nat /\ fin <= tip /\ tip <= LastSlot /\ LastSlot \in Nat
      /\ wk[w].slot \in Nat /\ wk[w].height \in Nat /\ wk[w].pc = "status"
  BY LiveTyped DEF LiveInv, ReadStatus, At
<1>2. /\ orders' = orders /\ lease' = lease /\ fin' = fin /\ tip' = tip /\ expiry' = expiry /\ tx' = tx
      /\ Signed' = Signed
  BY DEF ReadStatus, booksVars, chainVars, Signed, IsActive
<1>3. PICK s \in View(tip) :
        Set(w, IF ConsistentWith(w, s)
               THEN [wk[w] EXCEPT !.pc = "receipt", !.known = Landed(wk[w].cur, s)]
               ELSE Resume(w, wk[w].todo, TRUE))
  BY DEF ReadStatus
<1>4. CASE ~ConsistentWith(w, s)
  <2>1. wk'[w] = Resume(w, wk[w].todo, TRUE)
    BY <1>1, <1>3, <1>4, SetState
  <2>2. WorkHolds(w)' /\ OwnerKnows(w)'
    BY <1>1, <1>2, <2>1, Resumes DEF LookupPcs
  <2> QED BY <1>1, <2>1, <2>2, ResumeTyped DEF ActorHolds
<1>5. CASE ConsistentWith(w, s)
  <2>1. wk'[w] = [wk[w] EXCEPT !.pc = "receipt", !.known = Landed(wk[w].cur, s)]
    BY <1>1, <1>3, <1>5, SetState
  <2>2. wk'[w] \in Worker
    <3>1. PICK known \in BOOLEAN : known = Landed(wk[w].cur, s)
      <4>1. Landed(wk[w].cur, s) \in BOOLEAN
        BY DEF Landed
      <4> QED BY <4>1, Zenon
    <3>2. wk'[w] = [wk[w] EXCEPT !.pc = "receipt", !.known = known]
      BY <2>1, <3>1
    <3> QED BY <1>1, <3>2 DEF Worker, Pcs
  <2>3. /\ wk'[w].pc = "receipt" /\ wk'[w].todo = wk[w].todo /\ wk'[w].cur = wk[w].cur
        /\ wk'[w].phase = wk[w].phase /\ wk'[w].slot = wk[w].slot /\ wk'[w].height = wk[w].height
        /\ wk'[w].known <=> Landed(wk[w].cur, s)
    BY <1>1, <2>1 DEF Worker, Landed
  <2>4. wk[w].cur \in OrderIds /\ wk[w].height <= fin
    BY <1>1 DEF WorkHolds, LookupPcs
  <2>5. ASSUME ~Lagging, ~wk'[w].known, PastExpiry(w)' PROVE Dead(wk[w].cur)
    <3>1. s = tip
      BY <2>5 DEF View
    <3>2. ~Landed(wk[w].cur, tip) /\ wk[w].height > expiry[wk[w].cur]
      BY <2>5, <2>3, <3>1, <1>2 DEF PastExpiry
    <3> QED BY <1>1, <2>4, <3>2, AbsentIsDead
  <2>6. Dead(wk[w].cur)' = Dead(wk[w].cur)
    BY <1>2, <2>3 DEF Dead
  <2>7. WorkHolds(w)'
    BY <1>1, <1>2, <2>3, <2>4, <2>5, <2>6 DEF WorkHolds, Recovering, At, LookupPcs
  <2>8. OwnerKnows(w)'
    BY <1>1, <1>2, <2>3 DEF OwnerKnows, Recovering, At, LookupPcs
  <2> QED BY <2>2, <2>7, <2>8 DEF ActorHolds
<1> QED BY <1>4, <1>5

LEMMA ReceiptHolds ==
  ASSUME LiveInv, ChainLasts, NEW w \in Workers, ReadReceipt(w)
  PROVE  ActorHolds(w)
<1>1. /\ LiveTypeOK /\ wk[w] \in Worker /\ WorkHolds(w) /\ OwnerKnows(w)
      /\ tip \in Nat /\ fin \in Nat /\ fin <= tip /\ wk[w].pc = "receipt"
      /\ wk[w].issues \in BOOLEAN
  BY LiveTyped DEF LiveInv, ReadReceipt, At, Worker
<1>2. /\ orders' = orders /\ lease' = lease /\ fin' = fin /\ tip' = tip /\ expiry' = expiry /\ tx' = tx
      /\ Signed' = Signed
  BY DEF ReadReceipt, booksVars, chainVars, Signed, IsActive
<1>3. PICK s \in View(fin) :
        Set(w, IF Landed(wk[w].cur, s) THEN [wk[w] EXCEPT !.pc = "settle"]
               ELSE IF ~wk[w].known /\ PastExpiry(w) THEN [wk[w] EXCEPT !.pc = "expire"]
               ELSE IF wk[w].known THEN Resume(w, wk[w].todo, wk[w].issues)
               ELSE [wk[w] EXCEPT !.pc = "resend"])
  BY DEF ReadReceipt
<1>4. s \in Nat /\ s <= fin
  BY <1>1 DEF View
<1>5. CASE wk'[w] = Resume(w, wk[w].todo, wk[w].issues)
  <2>1. WorkHolds(w)' /\ OwnerKnows(w)'
    BY <1>1, <1>2, <1>5, Resumes DEF LookupPcs
  <2> QED BY <1>1, <1>5, <2>1, ResumeTyped DEF ActorHolds
<1>6. ASSUME NEW pc \in {"settle", "expire", "resend"}, wk'[w] = [wk[w] EXCEPT !.pc = pc],
             pc = "settle" => Landed(wk[w].cur, fin),
             ~Lagging /\ pc = "expire" => Dead(wk[w].cur)
      PROVE  ActorHolds(w)
  <2>1. wk'[w] \in Worker
    BY <1>1, <1>6 DEF Worker, Pcs
  <2>2. /\ wk'[w].pc = pc /\ wk'[w].todo = wk[w].todo /\ wk'[w].cur = wk[w].cur
        /\ wk'[w].phase = wk[w].phase /\ wk'[w].slot = wk[w].slot /\ wk'[w].height = wk[w].height
    BY <1>1, <1>6 DEF Worker
  <2>3. Dead(wk[w].cur)' = Dead(wk[w].cur) /\ Landed(wk[w].cur, fin)' = Landed(wk[w].cur, fin)
    BY <1>2, <2>2 DEF Dead, Landed
  <2>4. WorkHolds(w)'
    BY <1>1, <1>2, <1>6, <2>2, <2>3 DEF WorkHolds, Recovering, At, LookupPcs
  <2>5. OwnerKnows(w)'
    BY <1>1, <1>2, <2>2 DEF OwnerKnows, Recovering, At, LookupPcs
  <2> QED BY <2>1, <2>4, <2>5 DEF ActorHolds
<1>7. CASE Landed(wk[w].cur, s)
  <2>1. wk'[w] = [wk[w] EXCEPT !.pc = "settle"]
    BY <1>1, <1>3, <1>7, SetState
  <2>2. Landed(wk[w].cur, fin)
    BY <1>1, <1>4, <1>7 DEF Landed
  <2> QED BY <1>6, <2>1, <2>2
<1>8. CASE ~Landed(wk[w].cur, s) /\ ~wk[w].known /\ PastExpiry(w)
  <2>1. wk'[w] = [wk[w] EXCEPT !.pc = "expire"]
    BY <1>1, <1>3, <1>8, SetState
  <2>2. ~Lagging => Dead(wk[w].cur)
    BY <1>1, <1>8 DEF WorkHolds
  <2> QED BY <1>6, <2>1, <2>2
<1>9. CASE ~Landed(wk[w].cur, s) /\ ~(~wk[w].known /\ PastExpiry(w))
  <2>1. wk'[w] = [wk[w] EXCEPT !.pc = "resend"] \/ wk'[w] = Resume(w, wk[w].todo, wk[w].issues)
    BY <1>1, <1>3, <1>9, SetState
  <2> QED BY <1>5, <1>6, <2>1
<1> QED BY <1>7, <1>8, <1>9

LEMMA FailsHolds ==
  ASSUME LiveInv, ChainLasts, NEW w \in Workers, ReadFails(w)
  PROVE  ActorHolds(w)
<1>1. /\ LiveTypeOK /\ wk[w] \in Worker /\ wk[w].pc \in LookupPcs /\ lease' = lease
      /\ Signed' = Signed
  BY LiveTyped DEF LiveInv, ReadFails, LookupPcs, booksVars, Signed, IsActive
<1>2. CASE Set(w, Resume(w, wk[w].todo, TRUE))
  <2>1. wk'[w] = Resume(w, wk[w].todo, TRUE)
    BY <1>1, <1>2, SetState
  <2>2. WorkHolds(w)' /\ OwnerKnows(w)'
    BY <1>1, <2>1, Resumes
  <2> QED BY <1>1, <2>1, <2>2, ResumeTyped DEF ActorHolds
<1>3. CASE Set(w, [Idle EXCEPT !.pc = "release"])
  <2>1. wk'[w] = [Idle EXCEPT !.pc = "release"]
    BY <1>1, <1>3, SetState
  <2>2. WorkHolds(w)' /\ OwnerKnows(w)'
    BY <2>1, AtRest DEF Idle
  <2> QED BY <2>1, <2>2, IdleTyped DEF ActorHolds
<1> QED BY <1>2, <1>3 DEF ReadFails

-----------------------------------------------------------------------------
(***************************************************************************)
(* What the writes of the lookup do to the rows.                           *)
(***************************************************************************)
Same(o) == orders'[o] = orders[o] /\ book'[o] = book[o]

\* A failed order takes nothing but a fee.
Released(o) ==
  /\ IsActive(o)
  /\ orders'[o].status = "failed" /\ orders'[o].input = orders[o].input
  /\ book'[o].cash = 0 /\ book'[o].sol = 0 /\ book'[o].quantity = 0

\* A settlement books what landed.
Booked(o) ==
  /\ IsActive(o)
  /\ orders'[o].input = orders[o].input
  /\ \/ orders'[o].status = "checking" /\ book'[o] = book[o]
     \/ /\ orders'[o].status = "failed" /\ tx[o].result = "err"
        /\ book'[o].cash = 0 /\ book'[o].sol = -tx[o].fee /\ book'[o].quantity = 0
     \/ /\ orders'[o].status = "filled" /\ tx[o].result = "ok"
        /\ book'[o].cash = UsdcDelta(o) /\ book'[o].sol = -tx[o].fee
        /\ book'[o].quantity = TokenDelta(o)

LEMMA ReleaseEffect ==
  ASSUME BooksTypeOK, NEW o \in OrderIds, FailOnce(o, 0, 0)
  PROVE  /\ \A r \in OrderIds : r # o => Same(r)
         /\ Same(o) \/ Released(o)
<1>t. orders \in [OrderIds -> Order] /\ book \in [OrderIds -> Row]
  BY DEF BooksTypeOK
<1>1. CASE IsActive(o)
  <2>1. /\ orders' = [orders EXCEPT ![o].status = "failed"]
        /\ book' = [book EXCEPT ![o] = FailedRow(0, 0)]
    BY <1>1 DEF FailOnce, fail_order
  <2>2. FailedRow(0, 0).cash = 0 /\ FailedRow(0, 0).sol = 0 /\ FailedRow(0, 0).quantity = 0
    <3>1. \A fee, gas \in Nat : fee <= 0 =>
            /\ FailedRow(fee, gas).cash = 0 /\ FailedRow(fee, gas).sol = 0
            /\ FailedRow(fee, gas).quantity = 0
      BY DEF FailedRow
    <3> QED BY <3>1
  <2> QED BY <1>1, <1>t, <2>1, <2>2 DEF Same, Released, Order
<1>2. CASE ~IsActive(o)
  BY <1>2 DEF FailOnce, booksVars, Same
<1> QED BY <1>1, <1>2

\* The owner of the lease settles an unresolved order, and it has landed.
LEMMA SettleEffect ==
  ASSUME LiveInv, NEW w \in Workers, Settle(w)
  PROVE  /\ wk[w].cur \in OrderIds /\ Landed(wk[w].cur, fin) /\ wk[w].cur \in Signed
         /\ \A r \in OrderIds : r # wk[w].cur => Same(r)
         /\ Booked(wk[w].cur)
<1> DEFINE o == wk[w].cur
           t == tx[o]
<1>1. /\ o \in OrderIds /\ o \in Signed /\ IsActive(o) /\ Landed(o, fin)
  <2>1. WorkHolds(w) /\ OwnerKnows(w) /\ wk[w].pc = "settle" /\ lease.owner = w
    BY LockedOwner DEF LiveInv, LiveTypeOK, Settle, At
  <2> QED BY <2>1 DEF WorkHolds, OwnerKnows, LookupPcs, Signed
<1>2. /\ t.result \in {"ok", "err", "odd"}
      /\ orders \in [OrderIds -> Order] /\ book \in [OrderIds -> Row] /\ Signals \cap Exits = {}
  BY <1>1, UniverseAssumption DEF LiveInv, ChainHolds, Landed, BooksInv, BooksTypeOK
<1>3. CASE t.result = "odd"
  BY <1>1, <1>2, <1>3 DEF Settle, Book, SaveReview, Same, Booked, Order
<1>4. CASE t.result = "err"
  <2>1. PICK gas \in GasCosts : fail_order(o, t.fee, gas)
    BY <1>1, <1>4 DEF Settle, Book
  <2>2. /\ orders' = [orders EXCEPT ![o].status = "failed"]
        /\ book' = [book EXCEPT ![o] = FailedRow(t.fee, gas)]
    BY <2>1 DEF fail_order
  <2>3. /\ FailedRow(t.fee, gas).cash = 0 /\ FailedRow(t.fee, gas).sol = -t.fee
        /\ FailedRow(t.fee, gas).quantity = 0
    BY DEF FailedRow
  <2> QED BY <1>1, <1>2, <1>4, <2>2, <2>3 DEF Same, Booked, Order
<1>5. CASE t.result = "ok"
  <2>1. PICK gas \in GasCosts : fill(o, orders[o].input, t.output, t.fee, gas)
    BY <1>1, <1>5 DEF Settle, Book
  <2>2. CASE o \in Signals
    <3>1. /\ orders' = [orders EXCEPT ![o].status = "filled"]
          /\ book' = [book EXCEPT ![o] = BuyRow(orders[o].input, t.output, t.fee, gas)]
      BY <1>2, <2>1, <2>2 DEF fill, FillBuy
    <3>2. orders[o].input = EntryUsdc
      BY <1>1, <2>2 DEF LiveInv, BooksInv, OrderShape, IsActive, Unresolved
    <3>3. /\ BuyRow(orders[o].input, t.output, t.fee, gas).cash = UsdcDelta(o)
          /\ BuyRow(orders[o].input, t.output, t.fee, gas).sol = -t.fee
          /\ BuyRow(orders[o].input, t.output, t.fee, gas).quantity = TokenDelta(o)
      BY <1>5, <2>2, <3>2 DEF BuyRow, UsdcDelta, TokenDelta
    <3> QED BY <1>1, <1>2, <1>5, <3>1, <3>3 DEF Same, Booked, Order
  <2>3. CASE o \notin Signals
    <3>1. /\ orders' = [orders EXCEPT ![o].status = "filled"]
          /\ book' = [book EXCEPT ![o] = SellRow(orders[o].input, t.output, t.fee, gas)]
      BY <2>1, <2>3 DEF fill, FillSell
    <3>3. /\ SellRow(orders[o].input, t.output, t.fee, gas).cash = UsdcDelta(o)
          /\ SellRow(orders[o].input, t.output, t.fee, gas).sol = -t.fee
          /\ SellRow(orders[o].input, t.output, t.fee, gas).quantity = TokenDelta(o)
      BY <1>5, <2>3 DEF SellRow, UsdcDelta, TokenDelta
    <3> QED BY <1>1, <1>2, <1>5, <3>1, <3>3 DEF Same, Booked, Order
  <2> QED BY <2>2, <2>3
<1> QED BY <1>1, <1>2, <1>3, <1>4, <1>5

\* Writes to one order keep the others signed.
LEMMA OthersSigned ==
  ASSUME NEW x, \A r \in OrderIds : r # x => Same(r)
  PROVE  Signed \ {x} = Signed' \ {x}
BY DEF Same, Signed, IsActive

-----------------------------------------------------------------------------
(***************************************************************************)
(* The rest of the lookup.                                                 *)
(***************************************************************************)
LEMMA SettleHolds ==
  ASSUME LiveInv, ChainLasts, NEW w \in Workers, Settle(w) \/ Expire(w) \/ Send(w) \/ SignFails(w)
  PROVE  ActorHolds(w)
<1>1. /\ LiveTypeOK /\ BooksTypeOK /\ LeaseTypeOK /\ wk[w] \in Worker /\ wk[w].issues \in BOOLEAN
      /\ WorkHolds(w) /\ OwnerKnows(w)
  BY LiveTyped DEF LiveInv, LiveTypeOK, BooksInv, Worker
<1>2. /\ wk[w].pc \in LookupPcs \cup {"sign"}
      /\ lease'.owner = w => lease.owner = w
  BY <1>1, LockedOwner DEF Settle, Expire, Send, SignFails, At, LookupPcs
<1>3. PICK issues \in BOOLEAN : wk'[w] = Resume(w, wk[w].todo, issues)
  BY <1>1, SetState DEF Settle, Expire, Send, SignFails
<1>4. Signed \ {wk[w].cur} \subseteq Signed'
  <2>1. CASE Settle(w)
    BY <2>1, SettleEffect, OthersSigned
  <2>2. CASE Expire(w) \/ SignFails(w)
    <3>1. wk[w].cur \in OrderIds
      BY <1>1, <2>2 DEF WorkHolds, LookupPcs, Expire, SignFails, At
    <3>2. FailOnce(wk[w].cur, 0, 0) \/ UNCHANGED booksVars
      BY <2>2 DEF Expire, SignFails, GiveUp
    <3>3. \A r \in OrderIds : r # wk[w].cur => Same(r)
      BY <1>1, <3>1, <3>2, ReleaseEffect DEF booksVars, Same
    <3> QED BY <3>3, OthersSigned
  <2>3. CASE Send(w)
    BY <2>3 DEF Send, booksVars, Signed, IsActive
  <2> QED BY <2>1, <2>2, <2>3
<1>5. WorkHolds(w)' /\ OwnerKnows(w)'
  BY <1>2, <1>3, <1>4, Resumes
<1> QED BY <1>1, <1>3, <1>5, ResumeTyped DEF ActorHolds

LEMMA ResendHolds ==
  ASSUME LiveInv, ChainLasts, NEW w \in Workers, Resend(w)
  PROVE  ActorHolds(w)
<1>1. /\ LiveTypeOK /\ LeaseTypeOK /\ wk[w] \in Worker /\ WorkHolds(w) /\ OwnerKnows(w)
      /\ orders \in [OrderIds -> Order] /\ wk[w].pc = "resend"
  BY LiveTyped DEF LiveInv, LiveTypeOK, BooksInv, BooksTypeOK, Resend, At
<1>2. /\ lease.owner = w /\ fin' = fin /\ expiry' = expiry
      /\ orders' = [orders EXCEPT ![wk[w].cur].status = "checking"]
  BY <1>1, LockedOwner DEF Resend, SaveChecking, chainVars
<1>3. wk'[w] = [wk[w] EXCEPT !.pc = "send"]
  BY <1>1, SetState DEF Resend
<1>4. wk'[w] \in Worker
  BY <1>1, <1>3 DEF Worker, Pcs
<1>5. /\ wk'[w].pc = "send" /\ wk'[w].todo = wk[w].todo /\ wk'[w].cur = wk[w].cur
      /\ wk'[w].phase = wk[w].phase /\ wk'[w].slot = wk[w].slot /\ wk'[w].height = wk[w].height
  BY <1>1, <1>3 DEF Worker
<1>6. Signed' = Signed
  <2>1. wk[w].cur \in Signed
    BY <1>1, <1>2 DEF OwnerKnows, LookupPcs
  <2> QED BY <1>1, <1>2, <2>1 DEF Signed, IsActive, Unresolved, Order
<1>7. WorkHolds(w)'
  BY <1>1, <1>2, <1>5 DEF WorkHolds, Recovering, At, LookupPcs
<1>8. OwnerKnows(w)'
  BY <1>1, <1>2, <1>5, <1>6 DEF OwnerKnows, Recovering, At, LookupPcs
<1> QED BY <1>4, <1>7, <1>8 DEF ActorHolds

\* The cycle starts from the orders that are signed, with the lease just taken.
LEMMA StartHolds ==
  ASSUME LiveInv, ChainLasts, NEW w \in Workers, StartCycle(w)
  PROVE  ActorHolds(w)
<1>1. /\ LiveTypeOK /\ Nobody \notin OrderIds /\ \A o \in Signed : expiry[o] > 0
  BY LiveTyped DEF LiveInv, ChainHolds, Signed
<1>2. /\ Signed \in SUBSET OrderIds /\ Signed' = Signed /\ expiry' = expiry /\ fin' \in Nat
  BY DEF StartCycle, booksVars, chainVars, Signed, IsActive, ChainLasts
<1>3. wk'[w] = [Idle EXCEPT !.pc = "recover", !.todo = Signed]
  BY <1>1, SetState DEF StartCycle
<1>4. /\ wk'[w].pc = "recover" /\ wk'[w].todo = Signed /\ wk'[w].cur = Nobody
      /\ wk'[w].slot = 0 /\ wk'[w].height = 0
  BY <1>3 DEF Idle
<1>5. wk'[w] \in Worker
  BY <1>2, <1>3, IdleTyped
<1>6. WorkHolds(w)'
  BY <1>1, <1>2, <1>4 DEF WorkHolds, LookupPcs
<1>7. OwnerKnows(w)'
  BY <1>1, <1>2, <1>4 DEF OwnerKnows, LookupPcs
<1> QED BY <1>5, <1>6, <1>7 DEF ActorHolds

LEMMA RecoverHolds ==
  ASSUME LiveInv, ChainLasts, NEW w \in Workers, Recover(w)
  PROVE  ActorHolds(w)
<1>1. /\ LiveTypeOK /\ wk[w] \in Worker /\ WorkHolds(w) /\ OwnerKnows(w) /\ wk[w].pc = "recover"
      /\ Recovering(w) /\ wk[w].todo \subseteq OrderIds
  BY LiveTyped DEF LiveInv, Recover, At, Recovering, Worker
<1>2. /\ lease' = lease /\ fin' = fin /\ expiry' = expiry /\ Signed' = Signed
  BY DEF Recover, booksVars, chainVars, Signed, IsActive
<1>3. PICK o \in wk[w].todo : wk'[w] = [wk[w] EXCEPT !.pc = "slot", !.cur = o, !.todo = @ \ {o}]
  <2>1. NextOf(wk[w].todo) \subseteq wk[w].todo
    BY DEF NextOf
  <2> QED BY <1>1, <2>1, SetState DEF Recover
<1>4. wk'[w] \in Worker
  BY <1>1, <1>3 DEF Worker, Pcs
<1>5. /\ wk'[w].pc = "slot" /\ wk'[w].todo = wk[w].todo \ {o} /\ wk'[w].cur = o
      /\ wk'[w].phase = wk[w].phase /\ wk'[w].slot = wk[w].slot /\ wk'[w].height = wk[w].height
  BY <1>1, <1>3 DEF Worker
<1>6. WorkHolds(w)'
  BY <1>1, <1>2, <1>5 DEF WorkHolds, LookupPcs
<1>7. OwnerKnows(w)'
  BY <1>1, <1>2, <1>5 DEF OwnerKnows, LookupPcs
<1> QED BY <1>4, <1>6, <1>7 DEF ActorHolds

LEMMA EndRecoverHolds ==
  ASSUME LiveInv, ChainLasts, NEW w \in Workers, EndRecover(w)
  PROVE  ActorHolds(w)
<1>1. /\ LiveTypeOK /\ wk[w] \in Worker /\ acct \in Account /\ fin' \in Nat
      /\ OpenPositions \in SUBSET Signals /\ OpenPositions \in SUBSET OrderIds
  BY LiveTyped DEF LiveInv, BooksInv, BooksTypeOK, ChainLasts, OpenPositions, OrderIds
<1>2. CASE wk'[w] = [Phase(w, "reconcile", {}) EXCEPT !.saved = {acct}]
  <2>1. wk'[w].pc = "reconcile" /\ wk'[w].slot = 0 /\ wk'[w].height = 0
    BY <1>2 DEF Phase, Idle
  <2>2. wk'[w] \in Worker
    <3>1. "reconcile" \in Pcs /\ {} \in SUBSET OrderIds
      BY DEF Pcs
    <3>2. [Phase(w, "reconcile", {}) EXCEPT !.saved = {acct}] \in Worker
      BY <1>1, <3>1, PhaseTyped
    <3> QED BY <1>2, <3>2
  <2> QED BY <2>1, <2>2, AtRest DEF ActorHolds
<1>3. CASE wk'[w] = Phase(w, "monitor", OpenPositions)
  <2>1. /\ wk'[w].pc = "monitor" /\ wk'[w].slot = 0 /\ wk'[w].height = 0
        /\ wk'[w].todo = OpenPositions
    BY <1>3 DEF Phase, Idle
  <2>2. wk'[w] \in Worker
    <3>1. "monitor" \in Pcs
      BY DEF Pcs
    <3>2. Phase(w, "monitor", OpenPositions) \in Worker
      BY <1>1, <3>1, PhaseTyped
    <3> QED BY <1>3, <3>2
  <2> QED BY <1>1, <2>1, <2>2 DEF ActorHolds, WorkHolds, OwnerKnows, Recovering, At, LookupPcs
<1> QED BY <1>1, <1>2, <1>3, SetState DEF EndRecover

-----------------------------------------------------------------------------
(***************************************************************************)
(* Positions, queued orders and new signals.                               *)
(***************************************************************************)
LEMMA MonitorHolds ==
  ASSUME LiveInv, ChainLasts, NEW w \in Workers, Reconcile(w) \/ Monitor(w)
  PROVE  ActorHolds(w)
<1>1. /\ LiveTypeOK /\ wk[w] \in Worker /\ WorkHolds(w) /\ fin' \in Nat /\ fin \in Nat /\ fin <= fin'
      /\ wk[w].slot \in Nat /\ wk[w].height \in Nat /\ wk[w].issues \in BOOLEAN
      /\ OpenPositions \in SUBSET Signals /\ OpenPositions \in SUBSET OrderIds
  BY LiveTyped DEF LiveInv, ChainLasts, OpenPositions, OrderIds, Worker
<1>2. CASE Reconcile(w)
  <2>1. PICK issues \in BOOLEAN : wk'[w] = [Phase(w, "monitor", OpenPositions) EXCEPT !.issues = issues]
    BY <1>1, <1>2, SetState DEF Reconcile
  <2>2. /\ wk'[w].pc = "monitor" /\ wk'[w].slot = 0 /\ wk'[w].height = 0
        /\ wk'[w].todo = OpenPositions
    BY <2>1 DEF Phase, Idle
  <2>3. wk'[w] \in Worker
    <3>1. "monitor" \in Pcs
      BY DEF Pcs
    <3>2. [Phase(w, "monitor", OpenPositions) EXCEPT !.issues = issues] \in Worker
      BY <1>1, <3>1, PhaseTyped
    <3> QED BY <2>1, <3>2
  <2> QED BY <1>1, <2>2, <2>3 DEF ActorHolds, WorkHolds, OwnerKnows, Recovering, At, LookupPcs
<1>3. CASE Monitor(w)
  <2>1. PICK p \in wk[w].todo, issues \in BOOLEAN :
           wk'[w] = [wk[w] EXCEPT !.todo = @ \ {p}, !.issues = issues]
    BY <1>1, <1>3, SetState DEF Monitor
  <2>2. wk[w].pc = "monitor"
    BY <1>3 DEF Monitor, At
  <2>3. wk'[w] \in Worker
    BY <1>1, <2>1 DEF Worker, Pcs
  <2>4. /\ wk'[w].pc = "monitor" /\ wk'[w].todo = wk[w].todo \ {p}
        /\ wk'[w].slot = wk[w].slot /\ wk'[w].height = wk[w].height
    BY <1>1, <2>1, <2>2 DEF Worker
  <2>5. wk'[w].slot <= fin' /\ wk'[w].height <= fin' /\ wk'[w].todo \subseteq Signals
    BY <1>1, <2>2, <2>4 DEF WorkHolds
  <2> QED BY <2>3, <2>4, <2>5 DEF ActorHolds, WorkHolds, OwnerKnows, Recovering, At, LookupPcs
<1> QED BY <1>2, <1>3

LEMMA TradeHolds ==
  ASSUME LiveInv, ChainLasts, NEW w \in Workers, EndMonitor(w) \/ PassOver(w) \/ DropEntry(w)
  PROVE  ActorHolds(w)
<1>1. /\ LiveTypeOK /\ wk[w] \in Worker /\ WorkHolds(w) /\ fin' \in Nat /\ fin \in Nat /\ fin <= fin'
      /\ wk[w].slot \in Nat /\ wk[w].height \in Nat
  BY LiveTyped DEF LiveInv, ChainLasts
<1>2. CASE EndMonitor(w)
  <2> DEFINE Active == {o \in OrderIds : IsActive(o)}
  <2>1. wk'[w] = [Phase(w, "trade", Active) EXCEPT !.phase = "trade"]
    BY <1>1, <1>2, SetState DEF EndMonitor
  <2>2. /\ wk'[w].pc = "trade" /\ wk'[w].phase = "trade" /\ wk'[w].slot = 0 /\ wk'[w].height = 0
    BY <2>1 DEF Phase, Idle
  <2>3. wk'[w] \in Worker
    <3>1. "trade" \in Pcs /\ Active \in SUBSET OrderIds
      BY DEF Pcs
    <3> HIDE DEF Active
    <3>2. [Phase(w, "trade", Active) EXCEPT !.phase = "trade"] \in Worker
      BY <1>1, <3>1, PhaseTyped
    <3> QED BY <2>1, <3>2
  <2> QED BY <1>1, <2>2, <2>3 DEF ActorHolds, WorkHolds, OwnerKnows, Recovering, At, LookupPcs
<1>3. CASE PassOver(w) \/ DropEntry(w)
  <2>1. PICK o \in OrderIds : wk'[w] = [wk[w] EXCEPT !.todo = @ \ {o}]
    <3>1. NextOf(wk[w].todo) \subseteq OrderIds
      BY <1>1 DEF NextOf, Worker
    <3> QED BY <1>1, <1>3, <3>1, SetState DEF PassOver, DropEntry
  <2>2. wk[w].pc = "trade"
    BY <1>3 DEF PassOver, DropEntry, At
  <2>3. wk'[w] \in Worker
    BY <1>1, <2>1 DEF Worker, Pcs
  <2>4. /\ wk'[w].pc = "trade" /\ wk'[w].phase = wk[w].phase
        /\ wk'[w].slot = wk[w].slot /\ wk'[w].height = wk[w].height
    BY <1>1, <2>1, <2>2 DEF Worker
  <2>5. wk'[w].slot <= fin' /\ wk'[w].height <= fin' /\ wk'[w].phase = "trade"
    BY <1>1, <2>2, <2>4 DEF WorkHolds
  <2> QED BY <2>3, <2>4, <2>5 DEF ActorHolds, WorkHolds, OwnerKnows, Recovering, At, LookupPcs
<1> QED BY <1>2, <1>3

\* A buy is taken up only while no order is signed.
LEMMA TakeUpHolds ==
  ASSUME LiveInv, ChainLasts, NEW w \in Workers, TakeUp(w)
  PROVE  ActorHolds(w)
<1>1. /\ LiveTypeOK /\ wk[w] \in Worker /\ WorkHolds(w) /\ fin' \in Nat /\ fin \in Nat /\ fin <= fin'
      /\ wk[w].slot \in Nat /\ wk[w].height \in Nat /\ wk[w].pc = "trade"
  BY LiveTyped DEF LiveInv, ChainLasts, TakeUp, At
<1>2. PICK o \in OrderIds :
        /\ orders[o].status = "queued"
        /\ o \in Signals => Signed = {}
        /\ wk'[w] = [wk[w] EXCEPT !.pc = "sign", !.cur = o, !.todo = @ \ {o}]
  <2>1. NextOf(wk[w].todo) \subseteq OrderIds
    BY <1>1 DEF NextOf, Worker
  <2> QED BY <1>1, <2>1, SetState DEF TakeUp, EntryHealthy
<1>3. wk'[w] \in Worker
  BY <1>1, <1>2 DEF Worker, Pcs
<1>4. /\ wk'[w].pc = "sign" /\ wk'[w].phase = wk[w].phase /\ wk'[w].cur = o
      /\ wk'[w].slot = wk[w].slot /\ wk'[w].height = wk[w].height
  BY <1>1, <1>2 DEF Worker
<1>5. wk'[w].slot <= fin' /\ wk'[w].height <= fin' /\ wk'[w].phase = "trade"
  BY <1>1, <1>4 DEF WorkHolds
<1>6. orders' = orders /\ Signed' = Signed
  BY DEF TakeUp, booksVars, Signed, IsActive
<1>7. WorkHolds(w)'
  BY <1>4, <1>5 DEF WorkHolds, Recovering, At, LookupPcs
<1>8. OwnerKnows(w)'
  BY <1>2, <1>4, <1>6 DEF OwnerKnows, Recovering, At, LookupPcs
<1> QED BY <1>3, <1>7, <1>8 DEF ActorHolds

LEMMA SignHolds ==
  ASSUME LiveInv, ChainLasts, NEW w \in Workers, Sign(w)
  PROVE  ActorHolds(w)
<1>1. /\ LiveTypeOK /\ wk[w] \in Worker /\ WorkHolds(w) /\ fin' = fin /\ wk[w].pc = "sign"
      /\ wk[w].cur \in OrderIds /\ wk[w].phase = "trade"
      /\ orders \in [OrderIds -> Order] /\ expiry \in [OrderIds -> 0..LastSlot] /\ tip \in Nat
  BY LiveTyped DEF LiveInv, LiveTypeOK, BooksInv, BooksTypeOK, Sign, At, WorkHolds
<1>2. /\ orders' = [orders EXCEPT ![wk[w].cur].status = "prepared"]
      /\ wk'[w] = [wk[w] EXCEPT !.pc = "slot"]
  BY <1>1, SetState DEF Sign, MarkPrepared
<1>3. wk'[w] \in Worker
  BY <1>1, <1>2 DEF Worker, Pcs
<1>4. /\ wk'[w].pc = "slot" /\ wk'[w].phase = "trade" /\ wk'[w].cur = wk[w].cur
      /\ wk'[w].slot = wk[w].slot /\ wk'[w].height = wk[w].height
  BY <1>1, <1>2 DEF Worker
<1>5. expiry'[wk[w].cur] > 0
  BY <1>1 DEF Sign
<1>6. wk[w].cur \in Signed'
  <2>1. orders'[wk[w].cur].status = "prepared"
    BY <1>1, <1>2 DEF Order
  <2> QED BY <1>1, <2>1 DEF Signed, IsActive, Unresolved
<1>7. WorkHolds(w)'
  BY <1>1, <1>4, <1>5 DEF WorkHolds, Recovering, At, LookupPcs
<1>8. OwnerKnows(w)'
  BY <1>4, <1>6 DEF OwnerKnows, Recovering, At, LookupPcs
<1> QED BY <1>3, <1>7, <1>8 DEF ActorHolds

LEMMA DecideHolds ==
  ASSUME LiveInv, ChainLasts, NEW w \in Workers, ObserveSignals(w) \/ Enter(w) \/ PassUp(w)
  PROVE  ActorHolds(w)
<1>1. /\ LiveTypeOK /\ LeaseTypeOK /\ wk[w] \in Worker /\ WorkHolds(w) /\ OwnerKnows(w)
      /\ fin' \in Nat /\ fin \in Nat /\ fin <= fin' /\ wk[w].issues \in BOOLEAN
      /\ wk[w].slot \in Nat /\ wk[w].height \in Nat /\ signals \in [Signals -> SignalStates]
  BY LiveTyped DEF LiveInv, LiveTypeOK, BooksInv, BooksTypeOK, ChainLasts, Worker
<1>2. CASE ObserveSignals(w)
  <2> DEFINE Seen == {s \in Signals : signals'[s] = "observed"}
  <2>1. wk'[w] = Phase(w, "decide", Seen)
    BY <1>1, <1>2, SetState DEF ObserveSignals
  <2>2. wk'[w].pc = "decide" /\ wk'[w].slot = 0 /\ wk'[w].height = 0 /\ wk'[w].todo = Seen
    BY <2>1 DEF Phase, Idle
  <2>3. wk'[w] \in Worker
    <3>1. "decide" \in Pcs /\ Seen \in SUBSET OrderIds
      BY DEF Pcs, OrderIds
    <3> HIDE DEF Seen
    <3>2. Phase(w, "decide", Seen) \in Worker
      BY <1>1, <3>1, PhaseTyped
    <3> QED BY <2>1, <3>2
  <2> QED BY <1>1, <2>2, <2>3 DEF ActorHolds, WorkHolds, OwnerKnows, Recovering, At, LookupPcs
<1>3. CASE Enter(w) \/ PassUp(w)
  <2>1. PICK s \in wk[w].todo, issues \in BOOLEAN :
          /\ wk'[w] = [wk[w] EXCEPT !.todo = @ \ {s}, !.issues = issues]
          /\ \A r \in Signals : r # s => signals'[r] = signals[r]
    <3>1. CASE Enter(w)
      <4>1. PICK s \in wk[w].todo : /\ wk'[w] = [wk[w] EXCEPT !.todo = @ \ {s}]
                                   /\ signals' = [signals EXCEPT ![s] = "ordered"]
        BY <1>1, <3>1, SetState DEF Enter, reserve_buy
      <4>2. wk'[w] = [wk[w] EXCEPT !.todo = @ \ {s}, !.issues = wk[w].issues]
        BY <1>1, <4>1 DEF Worker
      <4> QED BY <1>1, <4>1, <4>2
    <3>2. CASE PassUp(w)
      BY <1>1, <3>2, SetState DEF PassUp, SaveSkipped
    <3> QED BY <1>3, <3>1, <3>2
  <2>2. wk[w].pc = "decide" /\ lease.owner = w
    BY <1>1, <1>3, LockedOwner DEF Enter, PassUp, At
  <2>3. wk'[w] \in Worker
    BY <1>1, <2>1 DEF Worker, Pcs
  <2>4. /\ wk'[w].pc = "decide" /\ wk'[w].todo = wk[w].todo \ {s}
        /\ wk'[w].slot = wk[w].slot /\ wk'[w].height = wk[w].height
    BY <1>1, <2>1, <2>2 DEF Worker
  <2>5. /\ wk'[w].slot <= fin' /\ wk'[w].height <= fin' /\ wk'[w].todo \subseteq Signals
        /\ \A r \in wk'[w].todo : signals'[r] = "observed"
    BY <1>1, <2>1, <2>2, <2>4 DEF WorkHolds, OwnerKnows
  <2> QED BY <2>3, <2>4, <2>5 DEF ActorHolds, WorkHolds, OwnerKnows, Recovering, At, LookupPcs
<1> QED BY <1>2, <1>3

LEMMA RestHolds ==
  ASSUME LiveInv, ChainLasts, NEW w \in Workers,
         EndTrade(w) \/ EndCycle(w) \/ Release(w) \/ LeaseLost(w) \/ Crash(w)
  PROVE  ActorHolds(w)
<1>1. LiveTypeOK /\ wk[w] \in Worker
  BY LiveTyped DEF LiveInv
<1>2. CASE EndTrade(w)
  <2>1. wk'[w] = Phase(w, "observe", {})
    BY <1>1, <1>2, SetState DEF EndTrade
  <2>2. wk'[w].pc = "observe" /\ wk'[w].slot = 0 /\ wk'[w].height = 0
    BY <2>1 DEF Phase, Idle
  <2>3. wk'[w] \in Worker
    <3>1. "observe" \in Pcs /\ {} \in SUBSET OrderIds
      BY DEF Pcs
    <3>2. Phase(w, "observe", {}) \in Worker
      BY <1>1, <3>1, PhaseTyped
    <3> QED BY <2>1, <3>2
  <2> QED BY <2>2, <2>3, AtRest DEF ActorHolds
<1>3. CASE EndCycle(w) \/ Release(w) \/ LeaseLost(w) \/ Crash(w)
  <2>1. wk'[w] = Idle \/ wk'[w] = [Idle EXCEPT !.pc = "release"]
    BY <1>1, <1>3, SetState DEF EndCycle, Release, LeaseLost, Crash
  <2>2. wk'[w].pc \in {"off", "release"} /\ wk'[w].slot = 0 /\ wk'[w].height = 0
    BY <2>1 DEF Idle
  <2> QED BY <2>1, <2>2, IdleTyped, AtRest DEF ActorHolds
<1> QED BY <1>2, <1>3

-----------------------------------------------------------------------------
\* Every step of a worker, and what it leaves to the others.
ReadStep(w) ==
  \/ Recover(w) \/ ReadSlot(w) \/ ReadHeight(w) \/ ReadStatus(w) \/ ReadReceipt(w) \/ Send(w)
  \/ EndRecover(w) \/ PassOver(w) \/ TakeUp(w) \/ EndCycle(w) \/ LeaseLost(w)
  \/ ReadFails(w) \/ Crash(w)

WriteStep(w) ==
  \/ Settle(w) \/ Expire(w) \/ Resend(w) \/ Monitor(w) \/ EndMonitor(w) \/ DropEntry(w)
  \/ SignFails(w) \/ Sign(w) \/ EndTrade(w) \/ ObserveSignals(w) \/ Enter(w) \/ PassUp(w)

LEMMA WorkerSteps ==
  ASSUME NEW w \in Workers, Cycle(w) \/ ReadFails(w) \/ Crash(w)
  PROVE  StartCycle(w) \/ Release(w) \/ Reconcile(w) \/ ReadStep(w) \/ WriteStep(w)
BY DEF Cycle, Lookup, Entries, ReadStep, WriteStep

LEMMA ActorSteps ==
  ASSUME LiveInv, ChainLasts, NEW w \in Workers, Cycle(w) \/ ReadFails(w) \/ Crash(w)
  PROVE  ActorHolds(w)
<1>1. CASE Recover(w) \/ ReadSlot(w) \/ ReadHeight(w) \/ ReadStatus(w) \/ ReadReceipt(w) \/ ReadFails(w)
  BY <1>1, RecoverHolds, ReadingHolds, StatusHolds, ReceiptHolds, FailsHolds
<1>2. CASE Settle(w) \/ Expire(w) \/ Send(w) \/ SignFails(w) \/ Resend(w)
  BY <1>2, SettleHolds, ResendHolds
<1>3. CASE StartCycle(w) \/ EndRecover(w) \/ Reconcile(w) \/ Monitor(w)
  BY <1>3, StartHolds, EndRecoverHolds, MonitorHolds
<1>4. CASE EndMonitor(w) \/ PassOver(w) \/ DropEntry(w) \/ TakeUp(w) \/ Sign(w)
  BY <1>4, TradeHolds, TakeUpHolds, SignHolds
<1>5. CASE ObserveSignals(w) \/ Enter(w) \/ PassUp(w)
  BY <1>5, DecideHolds
<1>6. CASE EndTrade(w) \/ EndCycle(w) \/ Release(w) \/ LeaseLost(w) \/ Crash(w)
  BY <1>6, RestHolds
<1> QED BY <1>1, <1>2, <1>3, <1>4, <1>5, <1>6 DEF Cycle, Lookup, Entries

\* A worker writes orders and signals only while it owns the lease, so never
\* while another one does.
LEMMA OthersUntouched ==
  ASSUME LiveInv, NEW w \in Workers, Cycle(w) \/ ReadFails(w) \/ Crash(w), NEW v \in Workers, v # w
  PROVE  /\ wk'[v] = wk[v]
         /\ lease'.owner = v => lease.owner = v /\ orders' = orders /\ signals' = signals
<1>1. LiveTypeOK /\ LeaseTypeOK /\ Free \notin Workers
  BY WorkersAssumption DEF LiveInv, LiveTypeOK
<1>2. CASE StartCycle(w)
  BY <1>1, <1>2, SetState DEF StartCycle, acquire
<1>3. CASE Release(w)
  BY <1>1, <1>3, SetState DEF Release, release, booksVars
<1>4. CASE Reconcile(w)
  BY <1>1, <1>4, SetState DEF Reconcile, pause, booksVars
<1>5. CASE ReadStep(w)
  BY <1>1, <1>5, SetState DEF ReadStep, Recover, ReadSlot, ReadHeight, ReadStatus, ReadReceipt, Send,
     EndRecover, PassOver, TakeUp, EndCycle, LeaseLost, ReadFails, Crash, booksVars
<1>6. CASE WriteStep(w)
  <2>1. locked(w) /\ \E r : Set(w, r)
    BY <1>6 DEF WriteStep, Settle, Expire, Resend, Monitor, EndMonitor, DropEntry, SignFails, Sign,
       EndTrade, ObserveSignals, Enter, PassUp
  <2>2. lease'.owner = w
    BY <1>1, <2>1, LockedOwner
  <2> QED BY <1>1, <2>1, <2>2, SetState
<1> QED BY <1>2, <1>3, <1>4, <1>5, <1>6, WorkerSteps

LEMMA WorkersHold ==
  ASSUME LiveInv, [LiveNext]_vars
  PROVE  /\ wk' \in [Workers -> Worker]
         /\ \A v \in Workers : WorkHolds(v)' /\ OwnerKnows(v)'
<1>1. ChainLasts /\ LiveTypeOK /\ LeaseTypeOK /\ wk \in [Workers -> Worker]
  BY StepKeepsChain DEF LiveInv, LiveTypeOK
<1>2. CASE \E w \in Workers : Cycle(w) \/ ReadFails(w) \/ Crash(w)
  <2> PICK w \in Workers : Cycle(w) \/ ReadFails(w) \/ Crash(w)
    BY <1>2
  <2>1. ActorHolds(w)
    BY <1>1, ActorSteps
  <2>2. \A v \in Workers : v # w => WorkHolds(v)' /\ OwnerKnows(v)'
    BY <1>1, OthersUntouched, OthersKeep
  <2>3. wk' \in [Workers -> Worker]
    <3>1. PICK r : Set(w, r)
      BY WorkerSteps DEF ReadStep, WriteStep, StartCycle, Release, Reconcile, Recover, ReadSlot,
         ReadHeight, ReadStatus, ReadReceipt, Send, EndRecover, PassOver, TakeUp, EndCycle, LeaseLost,
         ReadFails, Crash, Settle, Expire, Resend, Monitor, EndMonitor, DropEntry, SignFails, Sign,
         EndTrade, ObserveSignals, Enter, PassUp
    <3> QED BY <1>1, <2>1, <3>1, SetState DEF ActorHolds
  <2> QED BY <2>1, <2>2, <2>3 DEF ActorHolds
<1>3. CASE LapseAfterCrash \/ LapseDuringCycle \/ Operator \/ Chain \/ UNCHANGED vars
  <2>1. /\ wk' = wk /\ orders' = orders /\ signals' = signals /\ lease'.owner = lease.owner
    BY <1>1, <1>3 DEF LapseAfterCrash, LapseDuringCycle, Lapse, Operator, pause, RequestExit, Chain,
       vars, booksVars, LeaseTypeOK
  <2> QED BY <1>1, <2>1, OthersKeep
<1> QED BY <1>2, <1>3 DEF LiveNext

-----------------------------------------------------------------------------
(***************************************************************************)
(* What a step does to one order, its row and its signature.               *)
(***************************************************************************)
OrderStep(o) ==
  \/ Same(o) /\ expiry'[o] = expiry[o]
  \/ /\ orders[o].status = "none" /\ orders'[o].status = "queued"
     /\ book'[o] = book[o] /\ expiry'[o] = expiry[o]
  \/ /\ orders[o].status = "queued" /\ orders'[o].status = "prepared"
     /\ book'[o] = book[o] /\ expiry'[o] > 0
     /\ \E w \in Workers : Sign(w) /\ wk[w].cur = o
  \/ /\ o \in Signed /\ orders'[o].status = "checking"
     /\ book'[o] = book[o] /\ expiry'[o] = expiry[o]
  \/ /\ Released(o) /\ expiry'[o] = expiry[o]
     /\ ~Lagging /\ expiry[o] > 0 => Dead(o)
  \/ o \in Signed /\ Booked(o) /\ Landed(o, fin) /\ expiry'[o] = expiry[o]

\* A lookup gives up what is dead, trade what was never signed.
LEMMA ReleaseSteps ==
  ASSUME LiveInv, NEW w \in Workers, Expire(w) \/ DropEntry(w) \/ SignFails(w), NEW o \in OrderIds
  PROVE  OrderStep(o)
<1>1. BooksTypeOK /\ LiveTypeOK /\ expiry' = expiry /\ lease.owner = w
  BY LockedOwner DEF LiveInv, LiveTypeOK, Expire, DropEntry, SignFails, chainVars
<1>2. PICK r \in OrderIds : /\ FailOnce(r, 0, 0) \/ UNCHANGED booksVars
                            /\ ~Lagging /\ expiry[r] > 0 => Dead(r)
  <2>1. CASE Expire(w)
    BY <2>1 DEF Expire, At, LiveInv, WorkHolds, LookupPcs
  <2>2. CASE DropEntry(w)
    <3>1. PICK r \in OrderIds : FailOnce(r, 0, 0) /\ orders[r].status = "queued"
      BY <2>2 DEF DropEntry, OrderIds
    <3>2. ~ (expiry[r] > 0)
      BY <3>1 DEF LiveInv, ChainHolds
    <3> QED BY <3>1, <3>2
  <2>3. CASE SignFails(w)
    <3>1. /\ wk[w].cur \in OrderIds /\ orders[wk[w].cur].status = "queued"
          /\ FailOnce(wk[w].cur, 0, 0) \/ UNCHANGED booksVars
      BY <1>1, <2>3 DEF SignFails, GiveUp, At, LiveInv, WorkHolds, OwnerKnows
    <3>2. ~ (expiry[wk[w].cur] > 0)
      BY <3>1 DEF LiveInv, ChainHolds
    <3> QED BY <3>1, <3>2
  <2> QED BY <2>1, <2>2, <2>3
<1>3. Same(o) \/ (o = r /\ Released(o))
  <2>1. CASE FailOnce(r, 0, 0)
    BY <1>1, <2>1, ReleaseEffect
  <2>2. CASE UNCHANGED booksVars
    BY <2>2 DEF booksVars, Same
  <2> QED BY <1>2, <2>1, <2>2
<1> QED BY <1>1, <1>2, <1>3 DEF OrderStep

LEMMA InsertSteps ==
  ASSUME LiveInv, NEW w \in Workers, Monitor(w) \/ Enter(w), NEW o \in OrderIds
  PROVE  OrderStep(o)
<1>1. orders \in [OrderIds -> Order] /\ expiry' = expiry
  BY DEF LiveInv, BooksInv, BooksTypeOK, Monitor, Enter, chainVars
<1>2. \/ UNCHANGED booksVars
      \/ \E r \in OrderIds : \E new : /\ orders[r].status = "none" /\ new.status = "queued"
                                       /\ orders' = [orders EXCEPT ![r] = new] /\ book' = book
  <2>1. CASE Monitor(w)
    BY <2>1 DEF Monitor, queue_exit, OrderIds
  <2>2. CASE Enter(w)
    <3>1. PICK s \in wk[w].todo : reserve_buy(s)
      BY <2>2 DEF Enter
    <3>2. s \in OrderIds
      BY <2>2 DEF LiveInv, WorkHolds, Enter, At, OrderIds
    <3>3. /\ orders[s].status = "none" /\ book' = book
          /\ orders' = [orders EXCEPT ![s] = [status |-> "queued", position |-> NoOwner,
                                              input |-> EntryUsdc, reserved |-> EntryUsdc]]
      BY <3>1 DEF reserve_buy, CanReserve
    <3> QED BY <3>2, <3>3
  <2> QED BY <2>1, <2>2
<1>3. CASE UNCHANGED booksVars
  BY <1>1, <1>3 DEF booksVars, OrderStep, Same
<1>4. ASSUME NEW r \in OrderIds, NEW new, orders[r].status = "none", new.status = "queued",
             orders' = [orders EXCEPT ![r] = new], book' = book
      PROVE  OrderStep(o)
  BY <1>1, <1>4 DEF OrderStep, Same
<1> QED BY <1>2, <1>3, <1>4

LEMMA SignedSteps ==
  ASSUME LiveInv, NEW w \in Workers, Settle(w) \/ Resend(w) \/ Sign(w), NEW o \in OrderIds
  PROVE  OrderStep(o)
<1>1. /\ orders \in [OrderIds -> Order] /\ expiry \in [OrderIds -> 0..LastSlot] /\ LeaseTypeOK
      /\ WorkHolds(w) /\ OwnerKnows(w) /\ tip \in Nat
  BY LiveTyped DEF LiveInv, LiveTypeOK, BooksInv, BooksTypeOK
<1>2. CASE Settle(w)
  BY <1>2, SettleEffect DEF OrderStep, Settle, chainVars
<1>3. CASE Resend(w)
  <2>1. wk[w].cur \in Signed /\ wk[w].cur \in OrderIds
    BY <1>1, <1>3, LockedOwner DEF Resend, At, WorkHolds, OwnerKnows, LookupPcs
  <2> QED BY <1>1, <1>3, <2>1 DEF Resend, SaveChecking, OrderStep, Same, Order, chainVars
<1>4. CASE Sign(w)
  <2>1. /\ wk[w].cur \in OrderIds /\ orders[wk[w].cur].status = "queued"
        /\ orders' = [orders EXCEPT ![wk[w].cur].status = "prepared"] /\ book' = book
    BY <1>1, <1>4 DEF Sign, At, WorkHolds, MarkPrepared
  <2>2. PICK last \in 1..(tip + Window) : expiry' = [expiry EXCEPT ![wk[w].cur] = last]
    BY <1>4 DEF Sign
  <2>3. last > 0
    BY <1>1, LiveAssumption
  <2>4. CASE o # wk[w].cur
    BY <1>1, <2>1, <2>2, <2>4 DEF OrderStep, Same
  <2>5. CASE o = wk[w].cur
    <3>1. /\ orders'[o].status = "prepared" /\ orders[o].status = "queued" /\ expiry'[o] > 0
          /\ book'[o] = book[o]
      BY <1>1, <2>1, <2>2, <2>3, <2>5 DEF Order
    <3> QED BY <1>4, <2>5, <3>1 DEF OrderStep
  <2> QED BY <2>4, <2>5
<1> QED BY <1>2, <1>3, <1>4

\* Every other step leaves the rows of orders alone.
LEMMA OrderSteps ==
  ASSUME LiveInv, [LiveNext]_vars, NEW o \in OrderIds
  PROVE  OrderStep(o)
<1>1. CASE orders' = orders /\ book' = book /\ expiry' = expiry
  BY <1>1 DEF OrderStep, Same
<1>2. CASE \E w \in Workers : Cycle(w) \/ ReadFails(w) \/ Crash(w)
  <2> PICK w \in Workers : Cycle(w) \/ ReadFails(w) \/ Crash(w)
    BY <1>2
  <2>1. CASE Expire(w) \/ DropEntry(w) \/ SignFails(w)
    BY <2>1, ReleaseSteps
  <2>2. CASE Monitor(w) \/ Enter(w)
    BY <2>2, InsertSteps
  <2>3. CASE Settle(w) \/ Resend(w) \/ Sign(w)
    BY <2>3, SignedSteps
  <2>4. CASE ReadStep(w) \/ StartCycle(w) \/ Release(w)
    BY <2>4, <1>1 DEF ReadStep, Recover, ReadSlot, ReadHeight, ReadStatus, ReadReceipt, Send,
       EndRecover, PassOver, TakeUp, EndCycle, LeaseLost, ReadFails, Crash, StartCycle, Release,
       booksVars, chainVars
  <2>5. CASE Reconcile(w) \/ EndMonitor(w) \/ EndTrade(w) \/ ObserveSignals(w) \/ PassUp(w)
    BY <2>5, <1>1 DEF Reconcile, EndMonitor, EndTrade, RiskPause, pause, ObserveSignals, Observe,
       PassUp, SaveSkipped, booksVars, chainVars
  <2> QED BY <2>1, <2>2, <2>3, <2>4, <2>5, WorkerSteps DEF WriteStep
<1>3. CASE LapseAfterCrash \/ LapseDuringCycle \/ Operator \/ UNCHANGED vars
  BY <1>1, <1>3 DEF LapseAfterCrash, LapseDuringCycle, Operator, pause, RequestExit, vars, booksVars,
     chainVars
<1>4. CASE Chain
  BY <1>1, <1>4 DEF Chain, Land, Fork, EmptySlot, Finalize, booksVars
<1> QED BY <1>2, <1>3, <1>4 DEF LiveNext

LEMMA OrderKept ==
  ASSUME LiveInv, ChainLasts, NEW o \in OrderIds, OrderStep(o)
  PROVE  BookedAsLanded(o)'
<1>1. /\ BookedAsLanded(o) /\ ChainHolds(o) /\ Lasts(o) /\ fin \in Nat /\ tip \in Nat
      /\ expiry[o] \in Nat /\ tx[o].slot \in Nat
  BY LiveTyped DEF LiveInv, ChainLasts
\* What landed for good is what it was.
<1>2. ASSUME Landed(o, fin), orders'[o].input = orders[o].input
      PROVE  /\ Landed(o, fin)' /\ tx'[o] = tx[o]
             /\ UsdcDelta(o)' = UsdcDelta(o) /\ TokenDelta(o)' = TokenDelta(o)
  BY <1>1, <1>2 DEF Lasts, Landed, UsdcDelta, TokenDelta
<1>3. CASE Same(o) /\ expiry'[o] = expiry[o]
  <2>1. CASE orders[o].status = "filled"
    BY <1>1, <1>2, <1>3, <2>1 DEF BookedAsLanded, Same
  <2>2. CASE orders[o].status = "failed"
    <3>1. CASE Landed(o, fin) /\ tx[o].result = "err" /\ book[o].sol = -tx[o].fee
      BY <1>1, <1>2, <1>3, <2>2, <3>1 DEF BookedAsLanded, Same
    <3>2. CASE book[o].sol = 0 /\ (~Lagging /\ expiry[o] > 0 => Dead(o))
      BY <1>1, <1>3, <2>2, <3>2 DEF BookedAsLanded, Same, Lasts, Dead
    <3> QED BY <1>1, <2>2, <3>1, <3>2 DEF BookedAsLanded
  <2>3. CASE orders[o].status \notin {"filled", "failed"}
    BY <1>3, <2>3 DEF BookedAsLanded, Same
  <2> QED BY <2>1, <2>2, <2>3
<1>4. CASE orders'[o].status \in {"queued", "prepared", "checking"}
  BY <1>4 DEF BookedAsLanded
<1>5. CASE Released(o) /\ expiry'[o] = expiry[o] /\ (~Lagging /\ expiry[o] > 0 => Dead(o))
  BY <1>1, <1>5 DEF Released, BookedAsLanded, Lasts, Dead
<1>6. CASE Booked(o) /\ Landed(o, fin)
  BY <1>2, <1>6 DEF Booked, BookedAsLanded
<1> QED BY <1>3, <1>4, <1>5, <1>6 DEF OrderStep

-----------------------------------------------------------------------------
(***************************************************************************)
(* What a step does to the chain.                                          *)
(***************************************************************************)
TxStep(o) ==
  \/ tx'[o] = tx[o]
  \/ tx'[o] = NoTx
  \/ /\ o \in sent /\ tx'[o].slot = tip' /\ tx'[o].fee \in Fees
     /\ tx'[o].result \in {"ok", "err", "odd"}
     /\ tx'[o].result = "ok" => tx'[o].output \in Amounts

SentStep == sent \subseteq sent' /\ \A o \in sent' : o \in sent \/ (o \in OrderIds /\ expiry[o] > 0)

\* Only the chain and a request change what was sent and what has landed.
LEMMA ChainQuiet ==
  ASSUME [LiveNext]_vars
  PROVE  /\ \/ Chain
            \/ (\E w \in Workers : Sign(w)) /\ UNCHANGED <<tip, fin, tx>>
            \/ UNCHANGED <<tip, fin, tx, expiry>>
         /\ (\E w \in Workers : Send(w)) \/ UNCHANGED sent
<1>1. CASE \E w \in Workers : Cycle(w) \/ ReadFails(w) \/ Crash(w)
  <2> PICK w \in Workers : Cycle(w) \/ ReadFails(w) \/ Crash(w)
    BY <1>1
  <2>1. CASE StartCycle(w) \/ Release(w) \/ Reconcile(w)
    BY <2>1 DEF StartCycle, Release, Reconcile, chainVars
  <2>2. CASE ReadStep(w)
    BY <2>2 DEF ReadStep, Recover, ReadSlot, ReadHeight, ReadStatus, ReadReceipt, Send,
       EndRecover, PassOver, TakeUp, EndCycle, LeaseLost, ReadFails, Crash, chainVars
  <2>3. CASE Sign(w)
    BY <2>3 DEF Sign
  <2>4. CASE WriteStep(w) /\ ~Sign(w)
    BY <2>4 DEF WriteStep, Settle, Expire, Resend, Monitor, EndMonitor, DropEntry, SignFails,
       EndTrade, ObserveSignals, Enter, PassUp, chainVars
  <2> QED BY <2>1, <2>2, <2>3, <2>4, WorkerSteps
<1>2. CASE LapseAfterCrash \/ LapseDuringCycle \/ Operator \/ UNCHANGED vars
  BY <1>2 DEF LapseAfterCrash, LapseDuringCycle, Operator, vars, chainVars
<1>3. CASE Chain
  BY <1>3 DEF Chain, Land, Fork, EmptySlot, Finalize
<1> QED BY <1>1, <1>2, <1>3 DEF LiveNext

LEMMA SentSteps ==
  ASSUME LiveInv, [LiveNext]_vars
  PROVE  SentStep
<1>1. CASE \E w \in Workers : Send(w)
  <2> PICK w \in Workers : Send(w)
    BY <1>1
  <2>1. wk[w].cur \in OrderIds /\ expiry[wk[w].cur] > 0
    BY DEF LiveInv, WorkHolds, Send, At, LookupPcs
  <2> QED BY <2>1 DEF Send, SentStep
<1> QED BY <1>1, ChainQuiet DEF SentStep

LEMMA TxSteps ==
  ASSUME LiveInv, [LiveNext]_vars
  PROVE  \A o \in OrderIds : TxStep(o)
<1>1. tx \in [OrderIds -> Tx] /\ tip \in Nat
  BY LiveTyped DEF LiveInv, LiveTypeOK
<1>2. CASE tx' = tx
  BY <1>2 DEF TxStep
<1>3. ASSUME NEW r \in OrderIds, Land(r) PROVE \A o \in OrderIds : TxStep(o)
  BY <1>1, <1>3, LiveAssumption DEF Land, TxStep
<1>4. ASSUME NEW r \in OrderIds, Fork(r) PROVE \A o \in OrderIds : TxStep(o)
  BY <1>1, <1>4 DEF Fork, TxStep
<1> QED BY <1>2, <1>3, <1>4, ChainQuiet DEF Chain, EmptySlot, Finalize

LEMMA ChainKept ==
  ASSUME LiveInv, ChainLasts, SentStep, NEW o \in OrderIds, OrderStep(o), TxStep(o)
  PROVE  ChainHolds(o)'
<1>1. /\ ChainHolds(o) /\ Lasts(o) /\ tip \in Nat /\ tip' \in Nat /\ tip <= tip'
      /\ expiry[o] \in Nat /\ tx[o].slot \in Nat
  BY LiveTyped DEF LiveInv, ChainLasts
<1>2. expiry'[o] > 0 => orders'[o].status \notin {"none", "queued"}
  BY <1>1 DEF OrderStep, ChainHolds, Same, Released, Booked, Signed, IsActive, Unresolved
<1>3. o \in Signed' => expiry'[o] > 0
  <2>1. CASE Same(o) /\ expiry'[o] = expiry[o]
    BY <1>1, <2>1 DEF ChainHolds, Same, Signed, IsActive
  <2>2. CASE orders'[o].status = "queued"
    BY <2>2 DEF Signed
  <2>3. CASE expiry'[o] > 0
    BY <2>3
  <2>4. CASE Released(o)
    BY <2>4 DEF Released, Signed, IsActive, Unresolved
  <2>5. CASE o \in Signed /\ expiry'[o] = expiry[o]
    BY <1>1, <2>5 DEF ChainHolds
  <2> QED BY <2>1, <2>2, <2>3, <2>4, <2>5 DEF OrderStep
<1>4. o \in sent' => expiry'[o] > 0
  BY <1>1 DEF SentStep, ChainHolds, Lasts
<1>5. tx'[o].slot > 0 => /\ o \in sent' /\ tx'[o].slot <= tip'
                         /\ tx'[o].fee \in Fees /\ tx'[o].result \in {"ok", "err", "odd"}
                         /\ tx'[o].result = "ok" => tx'[o].output \in Amounts
  <2>1. CASE tx'[o] = tx[o]
    BY <1>1, <2>1 DEF ChainHolds, SentStep
  <2>2. CASE tx'[o] = NoTx
    BY <2>2 DEF NoTx
  <2>3. CASE o \in sent /\ tx'[o].slot = tip' /\ tx'[o].fee \in Fees
     /\ tx'[o].result \in {"ok", "err", "odd"}
     /\ (tx'[o].result = "ok" => tx'[o].output \in Amounts)
    BY <1>1, <2>3 DEF SentStep
  <2> QED BY <2>1, <2>2, <2>3 DEF TxStep
<1> QED BY <1>2, <1>3, <1>4, <1>5 DEF ChainHolds

LEMMA TypesKept ==
  ASSUME LiveInv, [LiveNext]_vars
  PROVE  LiveTypeOK'
<1>1. BooksTypeOK'
  BY StepIsBooks, NextBooksInv DEF LiveInv, BooksInv
<1>2. wk' \in [Workers -> Worker]
  BY WorkersHold
<1>t. /\ LiveTypeOK /\ LeaseTypeOK /\ tip \in Nat /\ fin \in Nat /\ fin <= tip /\ tip <= LastSlot
      /\ LastSlot \in Nat /\ LastExpiry \in Nat /\ LastExpiry <= LastSlot /\ MaxFaults \in Nat
  BY LiveTyped, LiveAssumption DEF LiveInv, LiveTypeOK
<1>3. sent' \subseteq OrderIds
  BY <1>t, SentSteps DEF SentStep, LiveTypeOK
<1>4. tip' \in 0..LastSlot /\ fin' \in 0..tip' /\ tx' \in [OrderIds -> Tx]
  <2>1. CASE UNCHANGED <<tip, fin, tx>>
    BY <1>t, <2>1 DEF LiveTypeOK
  <2>2. ASSUME NEW o \in OrderIds, Land(o) PROVE tip' \in 0..LastSlot /\ fin' \in 0..tip' /\ tx' \in [OrderIds -> Tx]
    <3>1. tip' = tip + 1 /\ tip < expiry[o] /\ expiry[o] \in 0..LastSlot /\ fin' = fin
      BY <1>t, <2>2 DEF Land, LiveTypeOK
    <3>2. tip' \in 0..LastSlot /\ fin' \in 0..tip'
      BY <1>t, <3>1
    <3>3. PICK result \in Results, output \in Amounts, fee \in Fees :
             tx' = [tx EXCEPT ![o] = [slot |-> tip', result |-> result, fee |-> fee,
                                   output |-> IF result = "ok" THEN output ELSE 0]]
      BY <2>2 DEF Land
    <3>4. [slot |-> tip', result |-> result, fee |-> fee,
           output |-> IF result = "ok" THEN output ELSE 0] \in Tx
      BY <3>2, LiveAssumption DEF Tx
    <3> QED BY <1>t, <3>2, <3>3, <3>4 DEF LiveTypeOK
  <2>3. ASSUME NEW o \in OrderIds, Fork(o) PROVE tip' \in 0..LastSlot /\ fin' \in 0..tip' /\ tx' \in [OrderIds -> Tx]
    <3>1. NoTx \in Tx
      BY <1>t DEF NoTx, Tx
    <3> QED BY <1>t, <2>3, <3>1 DEF Fork, LiveTypeOK
  <2>4. CASE EmptySlot \/ Finalize
    BY <1>t, <2>4 DEF EmptySlot, Finalize, LiveTypeOK
  <2> QED BY <2>1, <2>2, <2>3, <2>4, ChainQuiet DEF Chain
<1>5. expiry' \in [OrderIds -> 0..LastSlot]
  <2>1. CASE expiry' = expiry
    BY <1>t, <2>1 DEF LiveTypeOK
  <2>2. ASSUME NEW w \in Workers, Sign(w) PROVE expiry' \in [OrderIds -> 0..LastSlot]
    <3>1. PICK last \in 1..(tip + Window) :
             last <= LastExpiry /\ expiry' = [expiry EXCEPT ![wk[w].cur] = last]
      BY <2>2 DEF Sign
    <3>2. last \in 0..LastSlot
      BY <1>t, <3>1, LiveAssumption
    <3> QED BY <1>t, <3>1, <3>2 DEF LiveTypeOK
  <2> QED BY <2>1, <2>2, ChainQuiet DEF Chain, Land, Fork, EmptySlot, Finalize
<1>6. faults' \in 0..MaxFaults
  <2>1. CASE \E w \in Workers : Cycle(w) \/ ReadFails(w) \/ Crash(w)
    <3> PICK w \in Workers : Cycle(w) \/ ReadFails(w) \/ Crash(w)
      BY <2>1
    <3>1. CASE Crash(w)
      BY <1>t, <3>1 DEF Crash, LiveTypeOK
    <3>2. CASE ~Crash(w)
      <4>1. faults' = faults
        BY <3>2, WorkerSteps DEF ReadStep, WriteStep, StartCycle, Release, Reconcile, Recover, ReadSlot,
           ReadHeight, ReadStatus, ReadReceipt, Send, EndRecover, PassOver, TakeUp, EndCycle, LeaseLost,
           ReadFails, Settle, Expire, Resend, Monitor, EndMonitor, DropEntry, SignFails, Sign,
           EndTrade, ObserveSignals, Enter, PassUp
      <4> QED BY <1>t, <4>1 DEF LiveTypeOK
    <3> QED BY <3>1, <3>2
  <2>2. CASE LapseDuringCycle
    BY <1>t, <2>2 DEF LapseDuringCycle, LiveTypeOK
  <2>3. CASE LapseAfterCrash \/ Operator \/ Chain \/ UNCHANGED vars
    BY <1>t, <2>3 DEF LapseAfterCrash, Operator, Chain, vars, LiveTypeOK
  <2> QED BY <2>1, <2>2, <2>3 DEF LiveNext
<1>7. LeaseTypeOK'
  <2>1. CASE \E w \in Workers : Cycle(w) \/ ReadFails(w) \/ Crash(w)
    <3> PICK w \in Workers : Cycle(w) \/ ReadFails(w) \/ Crash(w)
      BY <2>1
    <3>1. CASE StartCycle(w) \/ Release(w) \/ Reconcile(w)
      <4>1. \/ lease' = lease
            \/ lease' = [owner |-> w, lapsed |-> FALSE]
            \/ lease' = [owner |-> Free, lapsed |-> FALSE]
        BY <3>1 DEF StartCycle, Release, Reconcile, acquire, release
      <4>2. lease' = lease => LeaseTypeOK'
        BY <1>t DEF LeaseTypeOK
      <4>3. lease' = [owner |-> w, lapsed |-> FALSE] => LeaseTypeOK'
        BY DEF LeaseTypeOK
      <4>4. lease' = [owner |-> Free, lapsed |-> FALSE] => LeaseTypeOK'
        BY DEF LeaseTypeOK
      <4> QED BY <4>1, <4>2, <4>3, <4>4
    <3>2. CASE ReadStep(w)
      BY <1>t, <3>2 DEF ReadStep, Recover, ReadSlot, ReadHeight, ReadStatus, ReadReceipt, Send,
         EndRecover, PassOver, TakeUp, EndCycle, LeaseLost, ReadFails, Crash, LeaseTypeOK
    <3>3. CASE WriteStep(w)
      <4>1. locked(w)
        BY <3>3 DEF WriteStep, Settle, Expire, Resend, Monitor, EndMonitor, DropEntry, SignFails,
           Sign, EndTrade, ObserveSignals, Enter, PassUp
      <4> QED BY <1>t, <4>1 DEF locked, LeaseTypeOK
    <3> QED BY <3>1, <3>2, <3>3, WorkerSteps
  <2>2. CASE LapseAfterCrash \/ LapseDuringCycle \/ Operator \/ Chain \/ UNCHANGED vars
    BY <1>t, <2>2 DEF LapseAfterCrash, LapseDuringCycle, Lapse, Operator, Chain, vars, LeaseTypeOK
  <2> QED BY <2>1, <2>2 DEF LiveNext
<1> QED BY <1>1, <1>2, <1>3, <1>4, <1>5, <1>6, <1>7 DEF LiveTypeOK

-----------------------------------------------------------------------------
(***************************************************************************)
(* The wallet can pay what lands.                                          *)
(***************************************************************************)
TxFee == [o \in OrderIds |-> tx[o].fee]

\* The transactions of the wallet are finitely many, and cost natural numbers.
LEMMA FeesTyped ==
  ASSUME LiveTypeOK
  PROVE  /\ \A o \in OrderIds : TxFee[o] \in Nat
         /\ \A upTo : IsFiniteSet(FinalTxs(upTo)) /\ FinalTxs(upTo) \in SUBSET OrderIds
         /\ \A upTo : SumFunctionOnSet(TxFee, FinalTxs(upTo)) \in Nat
         /\ \A upTo : WalletSol(upTo) = InitialSol - SumFunctionOnSet(TxFee, FinalTxs(upTo))
         /\ InitialSol \in Nat
<1>1. \A o \in OrderIds : TxFee[o] \in Nat
  <2>1. Fees \cup {0} \subseteq Nat
    BY AmountAssumption, PolicyAssumption
  <2> QED BY <2>1 DEF TxFee, LiveTypeOK, Tx
<1>2. \A upTo : IsFiniteSet(FinalTxs(upTo)) /\ FinalTxs(upTo) \in SUBSET OrderIds
  BY FiniteBooks DEF FinalTxs
<1>3. \A upTo : SumFunctionOnSet(TxFee, FinalTxs(upTo)) \in Nat
  BY <1>1, <1>2, SumNat
<1> QED BY <1>1, <1>2, <1>3, PolicyAssumption DEF WalletSol, TxFee

\* At most one landing changes, and all that has landed is counted.
LEMMA WalletChange ==
  ASSUME LiveInv, LiveTypeOK', NEW r \in OrderIds,
         \A o \in OrderIds \ {r} : tx'[o] = tx[o], tip' \in Nat, tip <= tip'
  PROVE  WalletSol(tip)' = WalletSol(tip) + (IF Landed(r, tip) THEN tx[r].fee ELSE 0)
                             - (IF Landed(r, tip)' THEN tx'[r].fee ELSE 0)
<1> DEFINE A == FinalTxs(tip)
           B == FinalTxs(tip)'
<1>1. /\ LiveTypeOK /\ tip \in Nat /\ \A o \in OrderIds : tx[o].slot \in Nat /\ tx[o].slot <= tip
  BY LiveTyped DEF LiveInv, ChainHolds
<1>2. /\ \A o \in OrderIds : TxFee[o] \in Nat
      /\ IsFiniteSet(A) /\ A \in SUBSET OrderIds
      /\ SumFunctionOnSet(TxFee, A) \in Nat
      /\ WalletSol(tip) = InitialSol - SumFunctionOnSet(TxFee, A) /\ InitialSol \in Nat
  BY <1>1, FeesTyped
<1>3. /\ \A o \in OrderIds : TxFee'[o] \in Nat
      /\ IsFiniteSet(B) /\ B \in SUBSET OrderIds
      /\ SumFunctionOnSet(TxFee', B) \in Nat
      /\ WalletSol(tip)' = InitialSol - SumFunctionOnSet(TxFee', B)
  <2>1. \A o \in OrderIds : TxFee'[o] \in Nat
    <3>1. Fees \cup {0} \subseteq Nat
      BY AmountAssumption, PolicyAssumption
    <3> QED BY <3>1 DEF TxFee, LiveTypeOK, Tx
  <2>2. IsFiniteSet(B) /\ B \in SUBSET OrderIds
    BY FiniteBooks DEF FinalTxs
  <2>3. SumFunctionOnSet(TxFee', B) \in Nat
    BY <2>1, <2>2, SumNat
  <2> QED BY <2>1, <2>2, <2>3 DEF WalletSol, TxFee
<1>4. A \ {r} = B \ {r}
  BY <1>1 DEF FinalTxs, Landed
<1>5. \A o \in A \ {r} : TxFee[o] = TxFee'[o]
  BY <1>2 DEF TxFee
<1>6. /\ (r \in A <=> Landed(r, tip)) /\ (r \in B <=> Landed(r, tip)')
      /\ TxFee[r] = tx[r].fee /\ TxFee'[r] = tx'[r].fee
  BY DEF FinalTxs, TxFee
<1> HIDE DEF A, B
<1>7. SumFunctionOnSet(TxFee', B) = SumFunctionOnSet(TxFee, A) - Share(TxFee, A, r) + Share(TxFee', B, r)
  <2>1. /\ IsFiniteSet(A) /\ IsFiniteSet(B) /\ A \ {r} = B \ {r}
        /\ \A o \in A : TxFee[o] \in Int
        /\ \A o \in B : TxFee'[o] \in Int
        /\ \A o \in A \ {r} : TxFee[o] = TxFee'[o]
    BY <1>2, <1>3, <1>4, <1>5
  <2> QED BY <2>1, SumChange
<1>8. /\ Share(TxFee, A, r) = (IF Landed(r, tip) THEN tx[r].fee ELSE 0)
      /\ Share(TxFee', B, r) = (IF Landed(r, tip)' THEN tx'[r].fee ELSE 0)
  BY <1>6 DEF Share
<1> QED BY <1>2, <1>3, <1>6, <1>7, <1>8

LEMMA WalletKept ==
  ASSUME LiveInv, LiveTypeOK', [LiveNext]_vars
  PROVE  WalletSol(tip)' >= 0
<1>1. /\ LiveTypeOK /\ tip \in Nat /\ WalletSol(tip) >= 0 /\ WalletSol(tip) \in Int
      /\ tip' \in Nat /\ tip <= tip'
      /\ \A o \in OrderIds : tx[o].slot \in Nat /\ tx[o].slot <= tip /\ tx[o].fee \in Nat
  <2>1. LiveTypeOK /\ tip \in Nat /\ \A o \in OrderIds : tx[o].slot \in Nat /\ tx[o].slot <= tip
    BY LiveTyped DEF LiveInv, ChainHolds
  <2>2. tip' \in Nat /\ tip <= tip'
    BY StepKeepsChain DEF ChainLasts
  <2>3. WalletSol(tip) \in Int /\ \A o \in OrderIds : TxFee[o] \in Nat
    BY <2>1, FeesTyped
  <2> QED BY <2>1, <2>2, <2>3 DEF LiveInv, TxFee
<1>2. CASE tx' = tx
  <2>1. FinalTxs(tip)' = FinalTxs(tip)
    BY <1>1, <1>2 DEF FinalTxs, Landed
  <2>2. WalletSol(tip)' = WalletSol(tip)
    BY <1>2, <2>1 DEF WalletSol
  <2> QED BY <1>1, <2>2
<1>3. ASSUME NEW r \in OrderIds, Land(r) PROVE WalletSol(tip)' >= 0
  <2>1. /\ tx'[r].fee \in Nat /\ tx'[r].fee <= WalletSol(tip) /\ tx[r].slot = 0
        /\ \A o \in OrderIds \ {r} : tx'[o] = tx[o]
    BY <1>1, <1>3, AmountAssumption, PolicyAssumption DEF Land, LiveTypeOK
  <2>2. ~Landed(r, tip)
    BY <2>1 DEF Landed
  <2>3. WalletSol(tip)' = WalletSol(tip) + (IF Landed(r, tip) THEN tx[r].fee ELSE 0)
                            - (IF Landed(r, tip)' THEN tx'[r].fee ELSE 0)
    BY <1>1, <2>1, WalletChange
  <2> QED BY <1>1, <2>1, <2>2, <2>3
<1>4. ASSUME NEW r \in OrderIds, Fork(r) PROVE WalletSol(tip)' >= 0
  <2>1. tx'[r].slot = 0 /\ \A o \in OrderIds \ {r} : tx'[o] = tx[o]
    BY <1>1, <1>4 DEF Fork, LiveTypeOK, NoTx
  <2>2. ~Landed(r, tip)'
    BY <2>1 DEF Landed
  <2>3. WalletSol(tip)' = WalletSol(tip) + (IF Landed(r, tip) THEN tx[r].fee ELSE 0)
                            - (IF Landed(r, tip)' THEN tx'[r].fee ELSE 0)
    BY <1>1, <2>1, WalletChange
  <2> QED BY <1>1, <2>2, <2>3
<1> QED BY <1>2, <1>3, <1>4, ChainQuiet DEF Chain, EmptySlot, Finalize

-----------------------------------------------------------------------------
(***************************************************************************)
(* The inductive invariant.                                                *)
(***************************************************************************)
LEMMA InitLiveInv ==
  ASSUME LiveInit
  PROVE  LiveInv
<1>1. /\ BooksInv /\ 0 \in 0..LastSlot /\ 0 \in 0..0 /\ MaxFaults \in Nat
      /\ orders = [o \in OrderIds |-> NoOrder] /\ positions = [s \in Signals |-> NoPosition]
      /\ wk = [w \in Workers |-> Idle] /\ faults = 0 /\ tip = 0 /\ fin = 0
      /\ tx = [o \in OrderIds |-> NoTx] /\ sent = {} /\ expiry = [o \in OrderIds |-> 0]
      /\ lease = [owner |-> Free, lapsed |-> FALSE]
  BY InitBooksInv, LiveAssumption DEF LiveInit, BooksInit, LeaseInit
<1>2. LiveTypeOK
  <2>1. NoTx \in Tx
    BY <1>1 DEF NoTx, Tx
  <2>2. LeaseTypeOK
    BY <1>1 DEF LeaseTypeOK
  <2>3. wk \in [Workers -> Worker] /\ tx \in [OrderIds -> Tx] /\ expiry \in [OrderIds -> 0..LastSlot]
    BY <1>1, <2>1, IdleTyped
  <2>4. faults \in 0..MaxFaults /\ tip \in 0..LastSlot /\ fin \in 0..tip /\ sent \subseteq OrderIds
    BY <1>1
  <2> QED BY <1>1, <2>2, <2>3, <2>4 DEF LiveTypeOK, BooksInv
<1>3. QuantitiesAreAmounts
  BY <1>1 DEF QuantitiesAreAmounts, NoPosition
<1>4. \A w \in Workers : WorkHolds(w) /\ OwnerKnows(w)
  BY <1>1 DEF WorkHolds, OwnerKnows, Recovering, At, Idle, LookupPcs
<1>5. \A o \in OrderIds : ChainHolds(o) /\ BookedAsLanded(o)
  BY <1>1 DEF ChainHolds, BookedAsLanded, NoOrder, NoTx, Signed, IsActive, Unresolved
<1>6. WalletSol(tip) >= 0
  <2>1. FinalTxs(tip) = {}
    BY <1>1 DEF FinalTxs, Landed, NoTx
  <2>2. SumFunctionOnSet(TxFee, FinalTxs(tip)) = 0
    BY <2>1, SumEmpty
  <2> QED BY <1>2, <2>2, FeesTyped
<1> QED BY <1>1, <1>2, <1>3, <1>4, <1>5, <1>6 DEF LiveInv

LEMMA NextLiveInv ==
  ASSUME LiveInv, [LiveNext]_vars
  PROVE  LiveInv'
<1>1. ChainLasts /\ SentStep /\ \A o \in OrderIds : OrderStep(o) /\ TxStep(o)
  BY StepKeepsChain, SentSteps, OrderSteps, TxSteps
<1>2. BooksInv' /\ QuantitiesAreAmounts'
  BY StepIsBooks, NextBooksInv, QuantityKept DEF LiveInv
<1>3. \A w \in Workers : WorkHolds(w)' /\ OwnerKnows(w)'
  BY WorkersHold
<1>4. \A o \in OrderIds : ChainHolds(o)' /\ BookedAsLanded(o)'
  BY <1>1, ChainKept, OrderKept
<1>5. LiveTypeOK' /\ WalletSol(tip)' >= 0
  BY TypesKept, WalletKept
<1> QED BY <1>2, <1>3, <1>4, <1>5 DEF LiveInv

\* Workers, lease, orders and chain agree, for any number of workers of live.py and
\* whatever lapses, crashes, lags, lands or forks.
THEOREM LiveInvHolds == LiveSpec => []LiveInv
<1>1. LiveInit => LiveInv
  BY InitLiveInv
<1>2. LiveInv /\ [LiveNext]_vars => LiveInv'
  BY NextLiveInv
<1> QED BY <1>1, <1>2, PTL DEF LiveSpec

\* The rows, the chain and what each worker has read keep their types.
THEOREM LiveTypesHold == LiveSpec => []LiveTypeOK
<1>1. LiveInv => LiveTypeOK
  BY DEF LiveInv
<1> QED BY <1>1, LiveInvHolds, PTL

\* The live trader implements the saved account: whatever lapses, crashes, lags
\* or forks, each of its steps is a transaction that TradingBooks allows.
THEOREM LiveImplementsBooks == LiveSpec => BooksSpec
<1>1. LiveInit => BooksInit
  BY DEF LiveInit
<1>2. LiveInv /\ [LiveNext]_vars => [BooksNext]_booksVars
  BY StepIsBooks
<1> QED BY <1>1, <1>2, LiveInvHolds, PTL DEF LiveSpec, BooksSpec

\* What the books promise, the live trader keeps, with crashes between any two of
\* its steps, lapsed leases and lagging nodes: limits, exact reservations, one stake
\* per token, exits that fit their positions, settlements that nothing changes, and a
\* ledger that explains the account.
THEOREM LiveKeepsBooks ==
  LiveSpec =>
    /\ [](/\ ReservationExact /\ LimitsHold /\ OneStakePerMint /\ ExitsMatchPositions
          /\ LedgerExplainsAccount)
    /\ SettlementsAreFinal
BY LiveImplementsBooks, ReservationsExact, LimitsAlwaysHold, StakesAreUnique, ExitsAlwaysMatch,
   LedgerAlwaysExplains, SettlementsNeverChange, PTL

\* Only saved bytes are sent, and only what was sent lands.
THEOREM SavedBeforeSentHolds == LiveSpec => []SavedBeforeSent
<1>1. LiveInv => SavedBeforeSent
  BY DEF LiveInv, LiveTypeOK, ChainHolds, SavedBeforeSent
<1> QED BY <1>1, LiveInvHolds, PTL

\* A buy is signed while no other order is: the worker that signs it owns the
\* lease, and has owned it since it saw that no order was signed.
THEOREM BuysSignedAlone == LiveSpec => BuysAreSignedAlone
<1>1. ASSUME LiveInv, [LiveNext]_vars, NEW s \in Signals,
             orders[s].status = "queued", orders'[s].status = "prepared"
      PROVE  Signed = {}
  <2>1. s \in OrderIds
    BY DEF OrderIds
  <2>2. OrderStep(s)
    BY <1>1, <2>1, OrderSteps
  <2>3. PICK w \in Workers : Sign(w) /\ wk[w].cur = s
    BY <1>1, <2>2 DEF OrderStep, Same, Released, Booked
  <2>4. lease.owner = w /\ wk[w].pc = "sign" /\ OwnerKnows(w)
    BY <1>1, <2>3, LockedOwner DEF Sign, At, LiveInv, LiveTypeOK
  <2> QED BY <2>3, <2>4 DEF OwnerKnows
<1>2. LiveInv /\ [LiveNext]_vars
        => [\A s \in Signals : orders[s].status = "queued" /\ orders'[s].status = "prepared"
                                 => Signed = {}]_vars
  BY <1>1
<1> QED BY <1>2, LiveInvHolds, PTL DEF LiveSpec, BuysAreSignedAlone

-----------------------------------------------------------------------------
(***************************************************************************)
(* What landed can be booked.                                              *)
(***************************************************************************)
\* An order that has not resolved has no row, and one that has booked the fee
\* of what landed for good, or none.
LEMMA RowsOfOrders ==
  ASSUME LiveInv, NEW r \in OrderIds
  PROVE  /\ RowCash[r] \in Int /\ RowSol[r] \in Int /\ RowQuantity[r] \in Int
         /\ tx[r].fee \in Nat /\ TxFee[r] = tx[r].fee /\ tx[r].slot \in Nat
         /\ orders[r].status \notin Resolved => book[r] = NoRow
         /\ book[r] = NoRow => RowCash[r] = 0 /\ RowSol[r] = 0 /\ RowQuantity[r] = 0
         /\ RowSol[r] # 0 => Landed(r, fin) /\ RowSol[r] + TxFee[r] = 0
<1>1. /\ LiveTypeOK /\ BooksTypeOK /\ RowsAreResolved /\ BookedAsLanded(r)
  BY DEF LiveInv, BooksInv
<1>2. /\ RowCash[r] \in Int /\ RowSol[r] \in Int /\ RowQuantity[r] \in Int
  BY <1>1, LedgerTyped
<1>3. /\ TxFee[r] \in Nat /\ TxFee[r] = tx[r].fee /\ tx[r].slot \in Nat
  BY <1>1, FeesTyped, LiveTyped DEF TxFee
<1>4. orders[r].status \notin Resolved => book[r] = NoRow
  BY <1>1 DEF RowsAreResolved
<1>5. book[r] = NoRow => RowCash[r] = 0 /\ RowSol[r] = 0 /\ RowQuantity[r] = 0
  BY DEF NoRow, RowCash, RowSol, RowQuantity
<1>6. ASSUME RowSol[r] # 0 PROVE Landed(r, fin) /\ RowSol[r] + TxFee[r] = 0
  <2>1. orders[r].status \in {"filled", "failed"} /\ book[r].sol # 0
    BY <1>4, <1>5, <1>6 DEF Resolved, RowSol
  <2>2. Landed(r, fin) /\ RowSol[r] = -tx[r].fee
    BY <1>1, <2>1 DEF BookedAsLanded, RowSol
  <2> QED BY <1>3, <2>2
<1> QED BY <1>2, <1>3, <1>4, <1>5, <1>6

\* Every fee booked is the fee of another landing the wallet could pay.
LEMMA FeeFits ==
  ASSUME LiveInv, LedgerSums, NEW o \in OrderIds, IsActive(o), Landed(o, fin)
  PROVE  acct.sol >= tx[o].fee
<1> DEFINE A == FinalTxs(tip)
           B == {r \in OrderIds : RowSol[r] # 0}
<1>1. /\ LiveTypeOK /\ WalletSol(tip) >= 0 /\ acct.sol = InitialSol + SumFunctionOnSet(RowSol, OrderIds)
      /\ tip \in Nat /\ fin \in Nat /\ fin <= tip
  BY LiveTyped DEF LiveInv, LedgerSums
<1>2. /\ \A r \in OrderIds : TxFee[r] \in Nat /\ RowSol[r] \in Int
      /\ IsFiniteSet(A) /\ A \in SUBSET OrderIds /\ SumFunctionOnSet(TxFee, A) \in Nat
      /\ WalletSol(tip) = InitialSol - SumFunctionOnSet(TxFee, A) /\ InitialSol \in Nat
      /\ IsFiniteSet(OrderIds) /\ IsFiniteSet(A \ {o}) /\ IsFiniteSet(B)
  BY <1>1, FeesTyped, RowsOfOrders, FiniteBooks, FS_Subset
<1>3. o \in A /\ tx[o].fee = TxFee[o]
  BY <1>1 DEF FinalTxs, Landed, TxFee
<1>4. B \in SUBSET (A \ {o})
  <2>1. RowSol[o] = 0
    BY RowsOfOrders DEF IsActive, Unresolved, Resolved
  <2>2. \A r \in B : Landed(r, tip)
    BY <1>1, RowsOfOrders DEF Landed
  <2> QED BY <2>1, <2>2 DEF FinalTxs
<1>5. \A r \in B : RowSol[r] \in Int /\ TxFee[r] \in Int /\ RowSol[r] + TxFee[r] = 0
  BY <1>2, RowsOfOrders
<1>6. B \in SUBSET OrderIds /\ \A r \in OrderIds \ B : RowSol[r] = 0
  OBVIOUS
<1> HIDE DEF A, B
<1>7. SumFunctionOnSet(RowSol, B) + SumFunctionOnSet(TxFee, B) = 0
  BY <1>2, <1>5, SumCancel
<1>8. SumFunctionOnSet(RowSol, B) = SumFunctionOnSet(RowSol, OrderIds)
  BY <1>2, <1>6, SumWithin
<1>9. SumFunctionOnSet(TxFee, B) <= SumFunctionOnSet(TxFee, A \ {o})
  <2>1. \A r \in A \ {o} : TxFee[r] \in Nat
    BY <1>2
  <2> QED BY <1>2, <1>4, <2>1, SumSubset
<1>10. SumFunctionOnSet(TxFee, A) = TxFee[o] + SumFunctionOnSet(TxFee, A \ {o})
  <2>1. \A r \in A : TxFee[r] \in Int
    BY <1>2
  <2> QED BY <1>2, <1>3, <2>1, SumRemove
<1>11. /\ SumFunctionOnSet(TxFee, B) \in Int /\ SumFunctionOnSet(RowSol, B) \in Int
       /\ SumFunctionOnSet(TxFee, A \ {o}) \in Int
  <2>1. /\ \A r \in B : TxFee[r] \in Int
        /\ \A r \in B : RowSol[r] \in Int
        /\ \A r \in A \ {o} : TxFee[r] \in Int
    BY <1>2, <1>6
  <2> QED BY <1>2, <2>1, SumInt
<1>12. TxFee[o] \in Nat
  BY <1>2
<1> HIDE DEF SumFunctionOnSet
<1> QED BY <1>1, <1>2, <1>3, <1>7, <1>8, <1>9, <1>10, <1>11, <1>12

LEMMA LandedBookable ==
  ASSUME LiveInv, LedgerSums
  PROVE  LandedIsBookable
<1> SUFFICES ASSUME NEW o \in OrderIds, IsActive(o), Landed(o, fin)
             PROVE  Bookable(o)
  BY DEF LandedIsBookable
<1>1. /\ BooksInv /\ BooksTypeOK /\ OrderShape /\ CostIsEntry /\ ReservationExact /\ LimitsHold
      /\ OneStakePerMint /\ ExitsMatchPositions
  BY DEF LiveInv, BooksInv
<1>2. book[o] = NoRow /\ acct.sol >= tx[o].fee
  BY RowsOfOrders, FeeFits DEF IsActive, Unresolved, Resolved
<1>3. /\ acct.cash \in Nat /\ acct.reserved \in Nat /\ acct.reserved <= acct.cash
      /\ acct.cash - acct.reserved >= 0
      /\ Cardinality(PendingBuys) \in Nat /\ acct.reserved = EntryUsdc * Cardinality(PendingBuys)
  BY <1>1, FiniteStakes DEF BooksTypeOK, Account, LimitsHold, ReservationExact
<1>4. CASE o \in Signals
  <2>1. /\ orders[o].reserved = EntryUsdc /\ o \in PendingBuys /\ o \in Stakes
        /\ positions[o].status = "none"
    BY <1>1, <1>4 DEF OrderShape, CostIsEntry, IsActive, Unresolved, PendingBuys, Stakes
  <2>2. ~OpenOn(MintOf[o])
    BY <1>1, <1>4, <2>1 DEF OneStakePerMint, OpenOn, OpenPositions, Stakes
  <2>3. Cardinality(PendingBuys) >= 1
    BY <1>3, <2>1, FiniteStakes, FS_EmptySet
  <2>4. acct.reserved >= EntryUsdc
    BY <1>3, <2>3, Numbers
  <2>5. o \notin Exits
    BY <1>4, UniverseAssumption
  <2> QED BY <1>2, <1>3, <2>1, <2>2, <2>4, <2>5 DEF Bookable
<1>5. CASE o \notin Signals
  <2>1. /\ o \in Exits /\ orders[o].reserved = 0
        /\ positions[orders[o].position].status = "open"
    BY <1>1, <1>5 DEF OrderShape, ExitsMatchPositions, IsActive, Unresolved, OrderIds
  <2> QED BY <1>2, <1>3, <1>5, <2>1 DEF Bookable
<1> QED BY <1>4, <1>5

\* Whatever the chain has finalized for an open order can be booked: no settlement
\* of a swap that has happened is refused, also when the nodes lag.
THEOREM LandedIsBookableHolds == LiveSpec => []LandedIsBookable
<1>1. LiveInv /\ LedgerExplainsAccount => LandedIsBookable
  BY LandedBookable, LedgerIsSums
<1> QED BY <1>1, LiveInvHolds, LiveImplementsBooks, LedgerAlwaysExplains, PTL

-----------------------------------------------------------------------------
(***************************************************************************)
(* What holds when the nodes do not lag.                                   *)
(***************************************************************************)
\* A filled order has landed for good, for exactly the amounts booked; a signed
\* order is failed only if it landed as an error or can never land.
THEOREM SettledAsLandedHolds == ~Lagging /\ LiveSpec => []SettledAsLanded
<1>1. ~Lagging /\ LiveInv => SettledAsLanded
  BY DEF LiveInv, BookedAsLanded, SettledAsLanded
<1>2. CASE ~Lagging
  <2>1. LiveInv => SettledAsLanded
    BY <1>1, <1>2
  <2> QED BY <2>1, LiveInvHolds, PTL
<1> QED BY <1>2

\* What is failed without a receipt has not landed, as long as every landing
\* costs a fee.
THEOREM ReleasedNeverLandedHolds ==
  ~Lagging /\ 0 \notin Fees /\ LiveSpec => []ReleasedNeverLanded
<1>1. ASSUME ~Lagging, 0 \notin Fees, LiveInv PROVE ReleasedNeverLanded
  <2> SUFFICES ASSUME NEW o \in OrderIds, orders[o].status = "failed", book[o].sol = 0
               PROVE  tx[o].slot = 0
    BY DEF ReleasedNeverLanded
  <2>1. /\ BookedAsLanded(o) /\ ChainHolds(o) /\ tx[o].slot \in Nat /\ tx[o].fee \in Nat
        /\ expiry[o] \in Nat
    BY <1>1, RowsOfOrders, LiveTyped DEF LiveInv
  <2>2. CASE Landed(o, fin) /\ book[o].sol = -tx[o].fee
    <3>1. tx[o].slot > 0
      BY <2>1, <2>2, <1>1, LiveTyped DEF Landed, LiveInv
    <3>2. tx[o].fee \in Fees
      BY <2>1, <3>1 DEF ChainHolds
    <3>3. \A fee \in Nat : -fee = 0 => fee = 0
      OBVIOUS
    <3> QED BY <1>1, <2>1, <2>2, <3>2, <3>3
  <2>3. CASE expiry[o] > 0 => Dead(o)
    BY <2>1, <2>3 DEF ChainHolds, Dead
  <2> QED BY <1>1, <2>1, <2>2, <2>3 DEF BookedAsLanded
<1>2. CASE ~Lagging /\ 0 \notin Fees
  <2>1. LiveInv => ReleasedNeverLanded
    BY <1>1, <1>2
  <2> QED BY <2>1, LiveInvHolds, PTL
<1> QED BY <1>2

\* With no signed order unresolved, every final landing is booked for what it did
\* to the wallet, and nothing else is booked.
RowsAreLandings ==
  \A o \in OrderIds :
    /\ Landed(o, fin) => /\ RowCash[o] = UsdcDelta(o) /\ RowQuantity[o] = TokenDelta(o)
                         /\ RowSol[o] + TxFee[o] = 0
                         /\ orders[o].status # "none"
    /\ ~Landed(o, fin) => RowCash[o] = 0 /\ RowQuantity[o] = 0 /\ RowSol[o] = 0

LEMMA AllBooked ==
  ASSUME LiveInv, ~Lagging, Signed = {}
  PROVE  RowsAreLandings
<1> SUFFICES ASSUME NEW o \in OrderIds
             PROVE  /\ Landed(o, fin) => /\ RowCash[o] = UsdcDelta(o) /\ RowQuantity[o] = TokenDelta(o)
                                         /\ RowSol[o] + TxFee[o] = 0
                                         /\ orders[o].status # "none"
                    /\ ~Landed(o, fin) => RowCash[o] = 0 /\ RowQuantity[o] = 0 /\ RowSol[o] = 0
  BY DEF RowsAreLandings
<1>1. /\ BookedAsLanded(o) /\ ChainHolds(o) /\ fin \in Nat /\ tx[o].fee \in Nat /\ TxFee[o] = tx[o].fee
      /\ tx[o].slot \in Nat /\ expiry[o] \in Nat
      /\ RowCash[o] = book[o].cash /\ RowSol[o] = book[o].sol /\ RowQuantity[o] = book[o].quantity
      /\ orders[o].status \in {"none"} \cup Unresolved \cup Resolved
  BY RowsOfOrders, LiveTyped DEF LiveInv, RowCash, RowSol, RowQuantity, BooksInv, BooksTypeOK, Order
<1>2. CASE Landed(o, fin)
  <2>1. tx[o].slot > 0 /\ expiry[o] > 0
    BY <1>1, <1>2 DEF Landed, ChainHolds
  <2>2. orders[o].status \in {"filled", "failed"}
    BY <1>1, <2>1 DEF ChainHolds, Signed, IsActive, Unresolved, Resolved
  <2>3. \/ orders[o].status = "filled" /\ RowCash[o] = UsdcDelta(o) /\ RowQuantity[o] = TokenDelta(o)
           /\ RowSol[o] = -tx[o].fee
        \/ /\ RowCash[o] = 0 /\ RowQuantity[o] = 0 /\ RowSol[o] = -tx[o].fee /\ tx[o].result = "err"
    BY <1>1, <2>1, <2>2 DEF BookedAsLanded, Dead
  <2>4. tx[o].result = "err" => UsdcDelta(o) = 0 /\ TokenDelta(o) = 0
    BY DEF UsdcDelta, TokenDelta
  <2>5. RowSol[o] + TxFee[o] = 0
    BY <1>1, <2>3
  <2> QED BY <1>2, <2>2, <2>3, <2>4, <2>5
<1>3. CASE ~Landed(o, fin)
  <2>1. CASE orders[o].status \in Resolved
    BY <1>1, <1>3, <2>1 DEF BookedAsLanded, Resolved
  <2>2. CASE orders[o].status \notin Resolved
    BY <1>3, <2>2, RowsOfOrders
  <2> QED BY <1>3, <2>1, <2>2
<1> QED BY <1>2, <1>3

\* So the rows of the ledger add up to what the wallet is found to hold.
LEMMA WalletIsBooks ==
  ASSUME LiveInv, LedgerSums, RowsAreLandings
  PROVE  WalletMatches(acct, fin, fin)
<1> DEFINE Final == FinalTxs(fin)
           Usdc == [o \in OrderIds |-> UsdcDelta(o)]
           Token == [o \in OrderIds |-> TokenDelta(o)]
<1>1. /\ LiveTypeOK /\ BooksTypeOK /\ BooksInv
      /\ acct.cash = InitialUsdc + SumFunctionOnSet(RowCash, OrderIds)
      /\ acct.sol = InitialSol + SumFunctionOnSet(RowSol, OrderIds)
      /\ InitialSol \in Nat /\ InitialUsdc \in Nat
  BY PolicyAssumption DEF LiveInv, BooksInv, LedgerSums
<1>2. /\ \A o \in OrderIds : RowCash[o] \in Int /\ RowSol[o] \in Int /\ RowQuantity[o] \in Int
                            /\ TxFee[o] \in Int
      /\ IsFiniteSet(OrderIds) /\ IsFiniteSet(Final) /\ Final \in SUBSET OrderIds
  BY <1>1, RowsOfOrders, FeesTyped, FiniteBooks
<1>3. /\ \A o \in Final : /\ Usdc[o] = RowCash[o] /\ Token[o] = RowQuantity[o]
                          /\ RowSol[o] + TxFee[o] = 0 /\ orders[o].status # "none"
      /\ \A o \in OrderIds \ Final : RowCash[o] = 0 /\ RowSol[o] = 0 /\ RowQuantity[o] = 0
  BY DEF RowsAreLandings, FinalTxs
<1>4. /\ WalletUsdc(fin) = InitialUsdc + SumFunctionOnSet(Usdc, Final)
      /\ WalletSol(fin) = InitialSol - SumFunctionOnSet(TxFee, Final)
      /\ \A m : WalletToken(m, fin) = SumFunctionOnSet(Token, {o \in Final : OrderMint(o) = m})
  BY DEF WalletUsdc, WalletSol, WalletToken, TxFee
<1> HIDE DEF Final, Usdc, Token
<1>5. WalletUsdc(fin) = acct.cash
  <2>1. SumFunctionOnSet(Usdc, Final) = SumFunctionOnSet(RowCash, Final)
    BY <1>2, <1>3, SumSame
  <2>2. SumFunctionOnSet(RowCash, Final) = SumFunctionOnSet(RowCash, OrderIds)
    BY <1>2, <1>3, SumWithin
  <2> QED BY <1>1, <1>4, <2>1, <2>2
<1>6. WalletSol(fin) = acct.sol
  <2>1. \A o \in Final : RowSol[o] \in Int /\ TxFee[o] \in Int /\ RowSol[o] + TxFee[o] = 0
    BY <1>2, <1>3
  <2>2. SumFunctionOnSet(RowSol, Final) + SumFunctionOnSet(TxFee, Final) = 0
    BY <1>2, <2>1, SumCancel
  <2>3. SumFunctionOnSet(RowSol, Final) = SumFunctionOnSet(RowSol, OrderIds)
    BY <1>2, <1>3, SumWithin
  <2>4. SumFunctionOnSet(RowSol, Final) \in Int /\ SumFunctionOnSet(TxFee, Final) \in Int
    BY <1>2, <2>1, SumInt
  <2> QED BY <1>1, <1>4, <2>2, <2>3, <2>4
<1>7. ASSUME NEW p \in OpenPositions
      PROVE  WalletToken(MintOf[p], fin) = positions[p].quantity
  <2> DEFINE m == MintOf[p]
             Mine == {o \in Final : OrderMint(o) = m}
  <2>1. p \in Signals /\ m \in Mints
    BY UniverseAssumption DEF OpenPositions
  <2>2. /\ Mine \in SUBSET OrdersOn(m) /\ OrdersOn(m) \in SUBSET OrderIds
        /\ IsFiniteSet(Mine) /\ IsFiniteSet(OrdersOn(m))
    <3>1. Mine \in SUBSET OrdersOn(m) /\ OrdersOn(m) \in SUBSET OrderIds
      BY <1>2, <1>3 DEF OrdersOn
    <3> QED BY <3>1, FiniteBooks
  <2>3. SumFunctionOnSet(Token, Mine) = SumFunctionOnSet(RowQuantity, Mine)
    <3>1. \A o \in Mine : Token[o] = RowQuantity[o]
      BY <1>3
    <3> HIDE DEF Mine
    <3> QED BY <2>2, <3>1, SumSame
  <2>4. SumFunctionOnSet(RowQuantity, Mine) = SumFunctionOnSet(RowQuantity, OrdersOn(m))
    <3>1. \A o \in OrdersOn(m) \ Mine : RowQuantity[o] = 0
      BY <1>3, <2>2 DEF OrdersOn
    <3>2. \A o \in OrdersOn(m) : RowQuantity[o] \in Int
      BY <1>2, <2>2
    <3> HIDE DEF Mine
    <3> QED BY <2>2, <3>1, <3>2, SumWithin
  <2>5. PositionsOn(m) = {p}
    BY <1>1, <2>1 DEF BooksInv, OneStakePerMint, Stakes, PositionsOn
  <2>6. SumFunctionOnSet(Quantity, {p}) = Quantity[p]
    <3>1. Quantity[p] \in Nat
      BY <2>1, <1>1, LedgerTyped
    <3>2. IsFiniteSet({p}) /\ \A q \in {p} : Quantity[q] \in Int
      <4>1. IsFiniteSet({p})
        BY FS_Singleton
      <4>2. \A q \in {p} : Quantity[q] \in Int
        BY <3>1
      <4> QED BY <4>1, <4>2
    <3>3. SumFunctionOnSet(Quantity, {p}) = Quantity[p] + SumFunctionOnSet(Quantity, {p} \ {p})
      BY <3>2, SumRemove
    <3>4. {p} \ {p} = {} /\ SumFunctionOnSet(Quantity, {}) = 0
      BY SumEmpty
    <3> QED BY <3>1, <3>3, <3>4
  <2>7. Quantity[p] = positions[p].quantity
    BY <2>1 DEF Quantity
  <2>8. SumFunctionOnSet(RowQuantity, OrdersOn(m)) = SumFunctionOnSet(Quantity, PositionsOn(m))
    BY <2>1 DEF LedgerSums
  <2> QED BY <1>4, <2>3, <2>4, <2>5, <2>6, <2>7, <2>8
<1> QED BY <1>5, <1>6, <1>7 DEF WalletMatches

\* What reconcile relies on: with no signed order unresolved, the account's cash,
\* SOL and open quantities are exactly the finalized wallet's.
THEOREM BooksMatchWalletHolds == ~Lagging /\ LiveSpec => []BooksMatchWallet
<1>1. ~Lagging /\ LiveInv /\ LedgerExplainsAccount => BooksMatchWallet
  BY AllBooked, WalletIsBooks, LedgerIsSums DEF BooksMatchWallet
<1>2. CASE ~Lagging
  <2>1. LiveInv /\ LedgerExplainsAccount => BooksMatchWallet
    BY <1>1, <1>2
  <2> QED BY <2>1, LiveInvHolds, LiveImplementsBooks, LedgerAlwaysExplains, PTL
<1> QED BY <1>2
=============================================================================
