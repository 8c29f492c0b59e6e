---------------------------- MODULE TradingLease ----------------------------
(***************************************************************************)
(* The three-minute lease on a trading account: acquire, locked and        *)
(* release of src/src/runner_trading/ledger.py.                            *)
(*                                                                         *)
(* There is no clock.  A lease lapses when its lease_until has passed, and *)
(* that may happen at any moment, since the code promises no bound on how  *)
(* long a cycle takes.  A token is random and drawn once per cycle, so the *)
(* worker that drew it stands for it.                                      *)
(***************************************************************************)
CONSTANTS
  Workers,    \* processes of the trading service
  Free        \* the account has no token

ASSUME WorkersAssumption == Free \notin Workers

VARIABLE lease    \* lease_token, and whether lease_until has passed

LeaseTypeOK == lease \in [owner : Workers \cup {Free}, lapsed : BOOLEAN]

LeaseInit == lease = [owner |-> Free, lapsed |-> FALSE]

acquire_FreeOnly(w) ==
  /\ lease.owner = Free
  /\ lease' = [owner |-> w, lapsed |-> FALSE]

acquire(w) ==
  /\ lease.owner = Free \/ lease.lapsed
  /\ lease' = [owner |-> w, lapsed |-> FALSE]

\* locked compares lease_until with the time its caller read, not with the time
\* of the call: recover reads the time before four remote calls.  A lease that
\* has lapsed may therefore still be accepted, as long as the token matches.
locked_AnyToken(w) == lease' = [lease EXCEPT !.lapsed = FALSE]
locked(w) ==
  /\ lease.owner = w
  /\ lease' = [lease EXCEPT !.lapsed = FALSE]

\* "Trading lease expired".
Expired(w) == lease.owner # w \/ lease.lapsed

release(w) ==
  lease' = IF lease.owner = w THEN [owner |-> Free, lapsed |-> FALSE] ELSE lease

Lapse ==
  /\ lease.owner # Free
  /\ ~lease.lapsed
  /\ lease' = [lease EXCEPT !.lapsed = TRUE]
=============================================================================
