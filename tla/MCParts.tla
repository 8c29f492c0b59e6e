------------------------------ MODULE MCParts ------------------------------
(***************************************************************************)
(* The background work and the swarm's stores for TLC, in one run.         *)
(*                                                                         *)
(* The parts share no state, so one part runs in a behaviour and the       *)
(* others rest.  "posts" is the outbox with two cards and one sender,      *)
(* "race" with one card and two senders, "answers" with the research jobs  *)
(* whose answers it delivers; "deaf" is "reports" when answers of Redis    *)
(* may be lost; "legacy" is "bets" with a Call from before staking.      *)
(***************************************************************************)
EXTENDS DashJobs, ReplayJobs, ProviderBudget, WalletBackfill, ResearchReports,
        KeyRotation, PeerClaims, FlashCalls

CONSTANTS
  p1, p2, p3, s1, s2,              \* posts, senders
  r1, r2, q1, q2, b1, b2, w1, w2,  \* runners, renderers, readers, workers
  n1, n2, n3, k1, k2, k3, k4, k5,  \* identities, rotations
  i1, i2, x1, x2, x3, x4,          \* peers, claims
  o1, o2, d1, g1                   \* orders and Calls

VARIABLE part

partVars ==
  <<dashVars, replayVars, budgetVars, walletVars, reportVars, latest, claimVars,
    flashVars, part>>

-----------------------------------------------------------------------------
AnswerPost == [j \in Jobs |-> p3]
ThreePages == [w \in Wallets |-> 3]

\* Two chains of rotations that could close a circle, and two second thoughts.
Olds == [r \in Rotations |-> CASE r \in {k1, k4} -> n1 [] r \in {k2, k5} -> n2 [] r = k3 -> n3]
News == [r \in Rotations |-> CASE r = k1 -> n2 [] r \in {k2, k4} -> n3 [] r \in {k3, k5} -> n1]
Seqs == [r \in Rotations |-> IF r \in {k4, k5} THEN 2 ELSE 1]

\* An observation of i1, a newer one that is gone before it, its retraction, and
\* an observation of i2 that says it supersedes it.
Claim4(id, issuer, kind, issued, expires) ==
  [id |-> id, issuer |-> issuer, kind |-> kind, instrument |-> "SOL",
   target |-> IF id = x1 THEN NoClaim ELSE x1, issued |-> issued, expires |-> expires]
FourClaims ==
  {Claim4(x1, i1, "observation", 0, 4), Claim4(x2, i1, "observation", 1, 2),
   Claim4(x3, i1, "retraction", 1, 3), Claim4(x4, i2, "observation", 1, 4)}

\* The same price at first and at last, which wins all of a low one between.
PricesOf == [c \in Tokens |-> [t \in 0..MaxQuotes |-> IF t = 1 THEN 2 ELSE 5]]

-----------------------------------------------------------------------------
PartsInit ==
  /\ DashInit /\ ReplayInit /\ BudgetInit /\ WalletInit /\ ReportsInit
  /\ RotationInit /\ ClaimsInit /\ FlashInit
  /\ part \in {"posts", "race", "answers", "replays", "budget", "wallets", "reports", "deaf",
               "rotations", "claims", "bets", "legacy"}
  /\ part = "bets" <=> \A c \in Tokens : market[c].asset # NoQuote
  /\ part = "legacy" <=> \E k \in Legacy : bets[k].status = "active"

\* In each part the variables of the others keep their values.
InPosts == part \in {"posts", "race"} /\ UNCHANGED
  <<jobVars, replayVars, budgetVars, walletVars, reportVars, latest, claimVars, flashVars, part>>
InAnswers == part = "answers" /\ UNCHANGED
  <<replayVars, budgetVars, walletVars, reportVars, latest, claimVars, flashVars, part>>
InReplays == part = "replays" /\ UNCHANGED
  <<dashVars, budgetVars, walletVars, reportVars, latest, claimVars, flashVars, part>>
InBudget == part = "budget" /\ UNCHANGED
  <<dashVars, replayVars, walletVars, reportVars, latest, claimVars, flashVars, part>>
InWallets == part = "wallets" /\ UNCHANGED
  <<dashVars, replayVars, budgetVars, reportVars, latest, claimVars, flashVars, part>>
InReports == part \in {"reports", "deaf"} /\ UNCHANGED
  <<dashVars, replayVars, budgetVars, walletVars, latest, claimVars, flashVars, part>>
InRotations == part = "rotations" /\ UNCHANGED
  <<dashVars, replayVars, budgetVars, walletVars, reportVars, claimVars, flashVars, part>>
InClaims == part = "claims" /\ UNCHANGED
  <<dashVars, replayVars, budgetVars, walletVars, reportVars, latest, flashVars, part>>
InBets == part \in {"bets", "legacy"} /\ UNCHANGED
  <<dashVars, replayVars, budgetVars, walletVars, reportVars, latest, claimVars, part>>

OneSender == senders'[s2] = senders[s2]
NoCard(p) == outbox'[p] = outbox[p]

\* The answer's card is queued by the job alone.
PostsStep ==
  /\ InPosts
  /\ OutboxNext
  /\ NoCard(p3)
  /\ IF part = "posts" THEN OneSender ELSE NoCard(p2)
AnswersStep == InAnswers /\ DashNext /\ OneSender
ReplaysStep == InReplays /\ ReplayNext
BudgetStep == InBudget /\ BudgetNext
WalletsStep == InWallets /\ WalletNext
ReportsStep ==
  /\ InReports
  /\ ReportsNext \/ (part = "deaf" /\ AnswerUnheard)
RotationsStep == InRotations /\ RotationNext
ClaimsStep == InClaims /\ ClaimsNext

\* In "bets" two orders race to open a Call; in "legacy" one is opened, and
\* Calls run out.  One worker reads the quotes, both fill the orders.
BetsStep ==
  /\ InBets
  /\ FlashNext
  /\ fillers'["fast"].quote = NoQuote
  /\ IF part = "bets"
     THEN /\ \A k \in CallIds : ~bets'[k].expired
          /\ tickets'[o2].status # "none" => tickets'[o1].status # "none"
     ELSE tickets'[o2].status = "none"

PartsNext ==
  \/ PostsStep \/ AnswersStep \/ ReplaysStep \/ BudgetStep \/ WalletsStep
  \/ ReportsStep \/ RotationsStep \/ ClaimsStep \/ BetsStep

\* The fairness of each module.  One part runs in a behaviour, so a condition of
\* each of them makes one formula: those on its k-th process, those on time and
\* on the k-th thing the part works on, and those on what succeeds at last.
ProcessGoesOn(k) ==
  \/ InPosts /\ (part = "race" \/ k = 1) /\ Deliver(<<s1, s2>>[k])
  \/ InAnswers /\ ClaimJob(<<r1, r2>>[k])
  \/ InReplays /\ Render(<<q1, q2>>[k])
  \/ InWallets /\ ReadPage(<<b1, b2>>[k])
  \/ InReports /\ part = "reports" /\ Work(<<w1, w2>>[k])
  \/ InBets /\ Filler(<<"fast", "slow">>[k])
PassEnds(k) ==
  \/ InAnswers /\ EndPass(<<r1, r2>>[k])
  \/ InBets /\ k = 1 /\ \E bet \in CallIds : SweepRead(bet)

TimeGoesOn(k) ==
  \/ InPosts /\ (AgePost(<<p1, p2>>[k]) \/ LatePost(<<p1, p2>>[k]))
  \/ InAnswers /\ \E j \in Jobs : (k = 1 /\ LapseJob(j)) \/ (k = 2 /\ AgeJob(j))
  \/ InReplays /\ \E c1 \in Coins : LapseReplay(c1)
  \/ InWallets /\ \E w \in Wallets : (k = 1 /\ LapseWallet(w)) \/ (k = 2 /\ DueWallet(w))
  \/ InReports /\ part = "reports" /\ LapseWorker(<<w1, w2>>[k])
  \/ InBets /\ k = 1 /\ \E o \in Orders : AgeOrder(o)

SucceedsAtLast(k) ==
  \/ InReplays /\ \E c1 \in Coins : (k = 1 /\ LoadsHeld(c1)) \/ (k = 2 /\ AnswersFor(c1))
  \/ InWallets /\ \E w \in Wallets :
       (k = 1 /\ GrantedFor(w)) \/ (k = 2 /\ AnsweredFor(w)) \/ (k = 3 /\ SavedFor(w))
  \/ InBets /\ ((k = 1 /\ \E o \in Orders : Fills(o)) \/ (k = 2 /\ expire_memecoin_calls))

PartsFairness ==
  /\ \A k \in 1..2 : /\ WF_partVars(ProcessGoesOn(k)) /\ WF_partVars(PassEnds(k))
                      /\ WF_partVars(TimeGoesOn(k))
  /\ WF_partVars(InWallets /\ NewCredits)
  /\ \A k \in 1..3 : SF_partVars(SucceedsAtLast(k))

PartsSpec == PartsInit /\ [][PartsNext]_partVars /\ PartsFairness

-----------------------------------------------------------------------------
\* Every variable of every part keeps its type.  For the budget: no reservation is
\* given back that is not there; for the claims: each is stored once, and never
\* more of them than there is room for.
RowsFit ==
  /\ DashTypeOK /\ ReplayTypeOK /\ BudgetTypeOK /\ WalletTypeOK /\ ReportsTypeOK
  /\ RotationTypeOK /\ ClaimsTypeOK /\ FlashTypeOK

\* The jobs of the desk, the replays and the wallets' histories are leased work:
\* each of the three programs of claims, checkpoints and releases implements
\* LeasedWork.
WorkIsLeased == JobLease!Spec /\ ReplayLease!Spec /\ WalletLease!Spec

\* Posts, desk jobs, replays, reports (where no answer of Redis is lost),
\* wallets' histories, orders for Calls and Calls that have run out come to
\* their end.  One part runs in a behaviour, so one formula asks it of each.
Unfinished(p) ==
  \/ part \in {"posts", "race"} /\ InQueue(p)
  \/ part = "answers" /\ \E j \in Jobs : JobPending(j)
  \/ part = "replays" /\ \E k \in Coins : Pending(k)
  \/ part = "reports" /\ \E k \in Reports : Ordered(k)
  \/ part \in {"bets", "legacy"} /\ Waits

WorkEnds ==
  /\ \A p \in {p1, p2} : Unfinished(p) ~> ~Unfinished(p)
  /\ part = "wallets" => WalletsEnd
=============================================================================
