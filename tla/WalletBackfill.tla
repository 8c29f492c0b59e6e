--------------------------- MODULE WalletBackfill ---------------------------
(***************************************************************************)
(* Wallet histories read page by page (advance_wallet() of                 *)
(* src/src/runner_web/wallet_backfill.py).  The credits that a page needs  *)
(* are in ProviderBudget; here the budget has room for a page or has not.  *)
(***************************************************************************)
EXTENDS Integers

CONSTANTS
  Wallets,
  Readers,   \* processes in advance_wallet
  NoReader,  \* no process, no wallet
  Length     \* pages of each wallet's history (bound)

ASSUME WalletBackfillAssumption ==
  /\ NoReader \notin Wallets \cup Readers
  /\ Length \in [Wallets -> Nat]

VARIABLES
  wallets,  \* rows of onchain_wallet_backfills
  readers,  \* the advance_wallet call of each process
  room      \* a page fits into the day's credits

walletVars == <<wallets, readers, room>>

-----------------------------------------------------------------------------
NewWallet == [cursor |-> 0, token |-> NoReader, leased |-> FALSE, due |-> TRUE, waiting |-> FALSE]
NotReading == [pc |-> "idle", wallet |-> NoReader, cursor |-> 0]
Cursors == UNION {0..Length[w] : w \in Wallets}

WalletTypeOK ==
  /\ \A w \in Wallets :
       wallets[w] \in [cursor : 0..Length[w], token : Readers \cup {NoReader},
                       leased : BOOLEAN,   \* lease_until is ahead
                       due : BOOLEAN,      \* next_read_at is past
                       waiting : BOOLEAN]  \* error = BUDGET_WAIT_MESSAGE
  /\ readers \in [Readers -> {NotReading} \cup
       [pc : {"reserve", "read", "save", "fail", "park"}, wallet : Wallets, cursor : Cursors]]
  /\ room \in BOOLEAN

WalletInit ==
  /\ wallets = [w \in Wallets |-> NewWallet]
  /\ readers = [r \in Readers |-> NotReading]
  /\ room = TRUE

-----------------------------------------------------------------------------
ClaimWallet(r, w) ==
  /\ readers[r] = NotReading
  /\ ~wallets[w].leased /\ wallets[w].due
  /\ wallets' = [wallets EXCEPT ![w].leased = TRUE, ![w].token = r]
  /\ readers' = [readers EXCEPT ![r] = [pc |-> "reserve", wallet |-> w,
                                        cursor |-> wallets[w].cursor]]
  /\ UNCHANGED room

Go(r, pc) == readers' = [readers EXCEPT ![r].pc = pc]

\* The page may leave room for another one or not.
Reserve(r) ==
  /\ readers[r].pc = "reserve"
  /\ IF room THEN Go(r, "read") /\ room' \in BOOLEAN
             ELSE Go(r, "park") /\ UNCHANGED room
  /\ UNCHANGED wallets

\* A short page gives credits back.
PageRead(r) ==
  /\ readers[r].pc = "read"
  /\ Go(r, "save")
  /\ room' \in {room, TRUE}
  /\ UNCHANGED wallets

PageFailed(r) ==
  /\ readers[r].pc = "read"
  /\ Go(r, "fail")
  /\ UNCHANGED <<wallets, room>>

Owned(r) == wallets[readers[r].wallet].token = r
StopReading(r) == readers' = [readers EXCEPT ![r] = NotReading]

\* "Every page commits its cursor and snapshot before the next paid read."  The
\* batch goes on under the same lease; how many pages it has time for
\* (max_pages, BATCH_SECONDS) is left open.
SavePage(r) ==
  LET w == readers[r].wallet
      next == IF readers[r].cursor < Length[w] THEN readers[r].cursor + 1 ELSE readers[r].cursor
  IN
  /\ readers[r].pc = "save"
  /\ Owned(r)
  /\ \E keep_lease \in {FALSE, next < Length[w]} :
       /\ wallets' = [wallets EXCEPT
            ![w] = [cursor |-> next, due |-> FALSE, waiting |-> FALSE,
                    leased |-> keep_lease /\ @.leased,
                    token |-> IF keep_lease THEN r ELSE NoReader]]
       /\ IF keep_lease
          THEN readers' = [readers EXCEPT ![r].pc = "reserve", ![r].cursor = next]
          ELSE StopReading(r)
  /\ UNCHANGED room

\* Again in a minute, or after midnight when the budget is reached.
PutOff(r) ==
  LET w == readers[r].wallet IN
  /\ readers[r].pc \in {"fail", "park"}
  /\ Owned(r)
  /\ wallets' = [wallets EXCEPT ![w] =
       [cursor |-> @.cursor, token |-> NoReader, leased |-> FALSE, due |-> FALSE,
        waiting |-> readers[r].pc = "park"]]
  /\ StopReading(r)
  /\ UNCHANGED room

LostWallet(r) ==
  /\ readers[r].pc \in {"save", "fail", "park"}
  /\ ~Owned(r)
  /\ StopReading(r)
  /\ UNCHANGED <<wallets, room>>

ReaderCrash(r) ==
  /\ readers[r] # NotReading
  /\ StopReading(r)
  /\ UNCHANGED <<wallets, room>>

Waiters == {w \in Wallets : wallets[w].waiting}
Wake(W) == wallets' = [w \in Wallets |-> IF w \in W THEN [wallets[w] EXCEPT !.due = TRUE] ELSE wallets[w]]

\* Histories that wait for the budget go on before midnight when a full read
\* fits again.
resume_budget_waits ==
  /\ room
  /\ Wake({w \in Waiters : ~wallets[w].leased})
  /\ UNCHANGED <<readers, room>>

\* Other reads take or give back credits.
CreditsMove ==
  /\ room' = ~room
  /\ UNCHANGED <<wallets, readers>>

LapseWallet(w) ==
  /\ wallets[w].leased
  /\ wallets' = [wallets EXCEPT ![w].leased = FALSE]
  /\ UNCHANGED <<readers, room>>

DueWallet(w) ==
  /\ w \notin Waiters
  /\ Wake({w})
  /\ UNCHANGED <<readers, room>>

\* A new day's budget; the waits until midnight are over.
NewCredits ==
  /\ room' = TRUE
  /\ Wake(Waiters)
  /\ UNCHANGED readers

ReadPage(r) ==
  \/ \E w \in Wallets : ClaimWallet(r, w)
  \/ Reserve(r) \/ PageRead(r)
  \/ SavePage(r) \/ PutOff(r) \/ LostWallet(r)

WalletNext ==
  \/ \E r \in Readers : ReadPage(r) \/ PageFailed(r) \/ ReaderCrash(r)
  \/ \E w \in Wallets : LapseWallet(w) \/ DueWallet(w)
  \/ resume_budget_waits
  \/ CreditsMove
  \/ NewCredits

-----------------------------------------------------------------------------
\* Readers come by and time passes; a wallet that is read again and again is at
\* last granted a page, answered and saved before its reader crashes or loses it.
ReaderOf(w) == {r \in Readers : readers[r].wallet = w}
GrantedFor(w) == \E r \in ReaderOf(w) : room /\ Owned(r) /\ Reserve(r)
AnsweredFor(w) == \E r \in ReaderOf(w) : Owned(r) /\ PageRead(r)
SavedFor(w) == \E r \in ReaderOf(w) : SavePage(r)

WalletFairness ==
  /\ \A r \in Readers : WF_walletVars(ReadPage(r))
  /\ \A w \in Wallets :
       /\ SF_walletVars(GrantedFor(w)) /\ SF_walletVars(AnsweredFor(w)) /\ SF_walletVars(SavedFor(w))
       /\ WF_walletVars(LapseWallet(w)) /\ WF_walletVars(DueWallet(w))
  /\ WF_walletVars(NewCredits)

WalletSpec == WalletInit /\ [][WalletNext]_walletVars /\ WalletFairness

\* A wallet's cursor is saved only by the reader that holds the wallet, on top
\* of the cursor that it read: no page is skipped or stored over a later one.
WalletLease == INSTANCE LeasedWork WITH
  Tasks <- Wallets, Holders <- Readers, Nobody <- NoReader, Saves <- Cursors, Resets <- {0},
  holder <- [w \in Wallets |-> wallets[w].token],
  saved <- [w \in Wallets |-> wallets[w].cursor],
  work <- [r \in Readers |-> [task |-> readers[r].wallet,
            seen |-> IF readers[r] = NotReading THEN NoReader ELSE readers[r].cursor]]
WalletsAreLeased == WalletLease!Spec

\* A wallet's history is read to its end, over as many days as the budget
\* takes, unless the day's credits are used up again and again: a history that
\* waits for the budget does not wait on when there are credits.
WalletsEnd ==
  \A w \in Wallets : <>(wallets[w].cursor = Length[w]) \/ []<>~room
=============================================================================
