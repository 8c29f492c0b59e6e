--------------------------- MODULE TelegramOutbox ---------------------------
(***************************************************************************)
(* The outbox of channel posts (src/src/runner_web/telegram_outbox.py).    *)
(*                                                                         *)
(* deliver_outbox() is a transaction that picks a post and claims it, a    *)
(* call of Telegram, and a transaction that saves what came of it.  It     *)
(* runs in several processes.  Clocks appear as what they make true: a     *)
(* post is old, due, expired, a claim is late, the channel is ready.       *)
(***************************************************************************)
EXTENDS Integers, FiniteSets

CONSTANTS
  Posts,         \* announcement cards, one to a post
  Mirrored,      \* those of a kind that has a delivery history
  Perishable,    \* those with an expires_at
  Senders,       \* processes in deliver_outbox
  ChannelLimit,  \* TELEGRAM_CHANNEL_DAILY_LIMIT
  NoPost

ASSUME TelegramOutboxAssumption ==
  /\ Mirrored \subseteq Posts
  /\ Perishable \subseteq Posts
  /\ ChannelLimit \in Nat
  /\ NoPost \notin Posts

VARIABLES
  outbox,   \* rows of telegram_outbox
  history,  \* telegram_alert_deliveries and telegram_channel_posts: a status
  channel,  \* the schedule of the channel
  senders,  \* the deliver_outbox call of each process
  posted    \* how often Telegram put each post in the channel

outboxVars == <<outbox, history, channel, senders, posted>>

-----------------------------------------------------------------------------
MaxSends == 3
PostStatuses ==
  {"none", "pending", "sending", "sent", "retry", "failed", "uncertain", "stale"}
Answers == {"sent", "retry", "failed", "uncertain"}
Waiting == {"pending", "retry"}
Post == [status : PostStatuses, tries : 0..MaxSends,
         due : BOOLEAN,      \* retry_at is past
         late : BOOLEAN,     \* sending for five minutes, by the stamp it was claimed with
         old : BOOLEAN,      \* created a day ago
         expired : BOOLEAN]
NoRow == [status |-> "none", tries |-> 0, due |-> TRUE, late |-> FALSE,
          old |-> FALSE, expired |-> FALSE]
NotSending == [pc |-> "idle", post |-> NoPost, tries |-> 0, answer |-> "uncertain"]

OutboxTypeOK ==
  /\ outbox \in [Posts -> Post]
  /\ history \in [Posts -> PostStatuses]
  /\ channel \in [ready : BOOLEAN, used : 0..ChannelLimit]
  /\ senders \in [Senders -> {NotSending} \cup
                    [pc : {"send", "save"}, post : Posts, tries : 0..MaxSends, answer : Answers]]
  /\ posted \in [Posts -> Nat]

OutboxInit ==
  /\ outbox = [p \in Posts |-> NoRow]
  /\ history = [p \in Posts |-> "none"]
  /\ channel = [ready |-> TRUE, used |-> 0]
  /\ senders = [s \in Senders |-> NotSending]
  /\ posted = [p \in Posts |-> 0]

-----------------------------------------------------------------------------
\* The key of kind and subject keeps the post of an earlier call.
enqueue_cards(P) ==
  [p \in Posts |-> IF p \in P /\ outbox[p].status = "none"
                   THEN [NoRow EXCEPT !.status = "pending"] ELSE outbox[p]]

Enqueue(p) ==
  /\ outbox' = enqueue_cards({p})
  /\ UNCHANGED <<history, channel, senders, posted>>

\* Rows that the first transaction gives up before it chooses.
Lost == {p \in Posts : outbox[p].status = "sending" /\ outbox[p].late}
TooOld_Pending == {p \in Posts : outbox[p].status = "pending" /\ outbox[p].old}
TooOld == {p \in Posts : outbox[p].status \in Waiting /\ outbox[p].old}
Eligible ==
  {p \in Posts : /\ outbox[p].status \in Waiting /\ ~outbox[p].old
                 /\ outbox[p].tries < MaxSends /\ outbox[p].due}
Expired == {p \in Eligible : outbox[p].expired}

\* A post may be turned away too because its ticker was posted a while ago:
\* see ChooseNothing.
SlotAtHand == channel.ready /\ channel.used < ChannelLimit

\* The stamps of a row that is done with do not matter any more.
Closed(status) == [NoRow EXCEPT !.status = status]

Retired_ToRetry ==
  [p \in Posts |->
     CASE p \in Lost -> [outbox[p] EXCEPT !.status = "retry"]
       [] p \in TooOld \cup Expired -> Closed("stale")
       [] OTHER -> outbox[p]]
Retired ==
  [p \in Posts |->
     CASE p \in Lost -> Closed("uncertain")
       [] p \in TooOld \cup Expired -> Closed("stale")
       [] OTHER -> outbox[p]]

\* TooOld posts leave no history.
Mirror(statuses) ==
  [p \in Posts |-> IF p \in Mirrored \cap DOMAIN statuses THEN statuses[p] ELSE history[p]]
RetiredHistory ==
  Mirror([p \in Lost \cup Expired |-> IF p \in Lost THEN "uncertain" ELSE "stale"])

\* Which of the posts goes first is left open: next_segment() rotates kinds.
ChoosePost(s, p) ==
  /\ senders[s] = NotSending
  /\ p \in Eligible \ Expired
  /\ SlotAtHand
  /\ outbox' = [Retired EXCEPT ![p].status = "sending", ![p].tries = @ + 1]
  /\ history' = RetiredHistory
  /\ channel' = [ready |-> FALSE, used |-> channel.used + 1]
  /\ senders' = [senders EXCEPT ![s] = [pc |-> "send", post |-> p, answer |-> "uncertain",
                                        tries |-> outbox[p].tries + 1]]
  /\ UNCHANGED posted

\* No post may go out now, for the channel's schedule or its ticker's; what was
\* given up stays so.
ChooseNothing(s) ==
  /\ senders[s] = NotSending
  /\ Lost \cup TooOld \cup Expired # {}
  /\ outbox' = Retired
  /\ history' = RetiredHistory
  /\ UNCHANGED <<channel, senders, posted>>

\* Telegram refuses the post (429, another 4xx, "ok": false), takes it, or the
\* answer is lost or unusable, and then it may have taken the post or not.
Outcomes == {<<"sent", 1>>, <<"retry", 0>>, <<"failed", 0>>, <<"uncertain", 0>>, <<"uncertain", 1>>}

Send(s) ==
  /\ senders[s].pc = "send"
  /\ \E outcome \in Outcomes :
       LET last == outcome[1] = "retry" /\ senders[s].tries = MaxSends IN
       /\ senders' = [senders EXCEPT ![s].pc = "save",
                                     ![s].answer = IF last THEN "failed" ELSE outcome[1],
                                     ![s].tries = 0]
       /\ posted' = [posted EXCEPT ![senders[s].post] = @ + outcome[2]]
  /\ UNCHANGED <<outbox, history, channel>>

\* A row that was given up meanwhile keeps its status, and the history of the
\* post takes the answer nevertheless.
Saved(p, answer) ==
  CASE outbox[p].status # "sending" -> outbox[p]
    [] answer = "retry" -> [outbox[p] EXCEPT !.status = "retry", !.due = FALSE, !.late = FALSE]
    [] OTHER -> Closed(answer)

SaveAnswer(s) ==
  LET p == senders[s].post
      answer == senders[s].answer
  IN
  /\ senders[s].pc = "save"
  /\ outbox' = [outbox EXCEPT ![p] = Saved(p, answer)]
  /\ history' = Mirror([q \in {p} |-> answer])
  /\ channel' = [channel EXCEPT !.ready = @ /\ answer # "retry"]
  /\ senders' = [senders EXCEPT ![s] = NotSending]
  /\ UNCHANGED posted

\* The process ends with its row still "sending".
SenderCrash(s) ==
  /\ senders[s].pc \in {"send", "save"}
  /\ senders' = [senders EXCEPT ![s] = NotSending]
  /\ UNCHANGED <<outbox, history, channel, posted>>

-----------------------------------------------------------------------------
\* Time.
AgePost(p) ==
  /\ outbox[p].status \in Waiting
  /\ outbox' = [outbox EXCEPT ![p] = [Closed(@.status) EXCEPT !.old = TRUE]]
  /\ UNCHANGED <<history, channel, senders, posted>>

ExpirePost(p) ==
  /\ p \in Perishable /\ outbox[p].status \in Waiting /\ ~outbox[p].old
  /\ outbox' = [outbox EXCEPT ![p].expired = TRUE]
  /\ UNCHANGED <<history, channel, senders, posted>>

LatePost(p) ==
  /\ outbox[p].status = "sending"
  /\ outbox' = [outbox EXCEPT ![p].late = TRUE]
  /\ UNCHANGED <<history, channel, senders, posted>>

RetryDue(p) ==
  /\ outbox[p].status = "retry"
  /\ outbox' = [outbox EXCEPT ![p].due = TRUE]
  /\ UNCHANGED <<history, channel, senders, posted>>

ChannelReady ==
  /\ channel' = [channel EXCEPT !.ready = TRUE]
  /\ UNCHANGED <<outbox, history, senders, posted>>

NewDay ==
  /\ channel' = [channel EXCEPT !.used = 0]
  /\ UNCHANGED <<outbox, history, senders, posted>>

Deliver(s) ==
  \/ \E p \in Posts : ChoosePost(s, p)
  \/ ChooseNothing(s)
  \/ Send(s)
  \/ SaveAnswer(s)

OutboxClock ==
  \/ \E p \in Posts : AgePost(p) \/ ExpirePost(p) \/ LatePost(p) \/ RetryDue(p)
  \/ ChannelReady
  \/ NewDay

OutboxNext ==
  \/ \E p \in Posts : Enqueue(p)
  \/ \E s \in Senders : Deliver(s) \/ SenderCrash(s)
  \/ OutboxClock

-----------------------------------------------------------------------------
\* The delivery loop runs on in every process, and time passes.
OutboxFairness ==
  /\ \A s \in Senders : WF_outboxVars(Deliver(s))
  /\ \A p \in Posts : WF_outboxVars(AgePost(p)) /\ WF_outboxVars(LatePost(p))

OutboxSpec == OutboxInit /\ [][OutboxNext]_outboxVars /\ OutboxFairness

\* A post never appears twice in the channel, and every record of it tells
\* the truth: "sent", in the outbox or in the history, only of a post that is
\* there; a post that is there is never waiting for another try, nor given up
\* as failed or stale.  Crashes between the call and the save, answers that
\* are lost and senders that outlive their claim are where that could go wrong.
OutboxTruthful ==
  \A p \in Posts :
    /\ posted[p] <= 1
    /\ "sent" \in {outbox[p].status, history[p]} => posted[p] = 1
    /\ posted[p] = 1 => outbox[p].status \in {"sending", "sent", "uncertain"}

\* "A post still waiting after a day is not news; retire it so the queue never
\* carries a backlog" (telegram_outbox.py:178): every post leaves the queue.
InQueue(p) == outbox[p].status \in Waiting \cup {"sending"}
PostsEnd == \A p \in Posts : InQueue(p) ~> ~InQueue(p)
=============================================================================
