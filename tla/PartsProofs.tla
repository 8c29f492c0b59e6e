---------------------------- MODULE PartsProofs ----------------------------
(***************************************************************************)
(* For any posts, senders and channel limit, no post appears twice and     *)
(* what the outbox and the history say of a post is true; for any jobs and *)
(* runners beside them, no answer is without its post, and the jobs are    *)
(* leased work.  The last section is about MCParts, where each part runs   *)
(* while the others rest.                                                  *)
(*                                                                         *)
(* The first part is about TelegramOutbox alone.                           *)
(***************************************************************************)
EXTENDS MCParts, BackgroundProofs, SwarmProofs

Busy(s) == senders[s].pc \in {"send", "save"}

PostTruthful(p) ==
  /\ posted[p] \in {0, 1}
  /\ outbox[p].status = "sent" \/ history[p] = "sent" => posted[p] = 1
  /\ posted[p] = 1 => outbox[p].status \in {"sending", "sent", "uncertain"}

\* A sender's post is claimed or given up as uncertain, so that nobody else takes
\* it; before the call it is in no channel, and after it the answer is true.
SenderTruthful(s) ==
  Busy(s) =>
    /\ outbox[senders[s].post].status \in {"sending", "uncertain"}
    /\ senders[s].pc = "send" => posted[senders[s].post] = 0
    /\ senders[s].pc = "save" /\ senders[s].answer = "sent" => posted[senders[s].post] = 1
    /\ senders[s].pc = "save" /\ senders[s].answer \in {"retry", "failed"} => posted[senders[s].post] = 0

OneSenderPerPost ==
  \A s, t \in Senders : Busy(s) /\ Busy(t) /\ senders[s].post = senders[t].post => s = t

OutboxInv ==
  /\ OutboxTypeOK
  /\ \A p \in Posts : PostTruthful(p)
  /\ \A s \in Senders : SenderTruthful(s)
  /\ OneSenderPerPost

-----------------------------------------------------------------------------
SenderRecord ==
  [pc : {"send", "save"}, post : Posts, tries : 0..MaxSends, answer : Answers]

LEMMA BusyTyped ==
  ASSUME OutboxTypeOK, NEW s \in Senders
  PROVE  /\ Busy(s) => senders[s] \in SenderRecord
         /\ ~Busy(s) => senders[s] = NotSending
BY DEF OutboxTypeOK, Busy, NotSending, SenderRecord

\* Rows of the outbox.
LEMMA RowsTyped ==
  /\ NoRow \in Post
  /\ \A status \in PostStatuses : Closed(status) \in Post /\ Closed(status).status = status
  /\ \A row \in Post, status \in PostStatuses : [row EXCEPT !.status = status] \in Post
<1>1. NoRow \in Post
  <2>1. 0 \in 0..MaxSends
    BY DEF MaxSends
  <2> QED BY <2>1 DEF NoRow, Post, PostStatuses
<1>2. ASSUME NEW row \in Post, NEW status \in PostStatuses
      PROVE  [row EXCEPT !.status = status] \in Post /\ [row EXCEPT !.status = status].status = status
  BY DEF Post
<1> QED BY <1>1, <1>2 DEF Closed

LEMMA InitOutboxInv == OutboxInit => OutboxInv
<1> SUFFICES ASSUME OutboxInit PROVE OutboxInv
  OBVIOUS
<1>1. OutboxTypeOK
  BY TelegramOutboxAssumption DEF OutboxInit, OutboxTypeOK, Post, NoRow, PostStatuses, MaxSends
<1>2. \A p \in Posts : PostTruthful(p)
  BY DEF OutboxInit, PostTruthful, NoRow
<1>3. \A s \in Senders : ~Busy(s)
  BY DEF OutboxInit, Busy, NotSending
<1> QED BY <1>1, <1>2, <1>3 DEF OutboxInv, SenderTruthful, OneSenderPerPost

\* Steps that move no sender and post nothing: they leave a status as it was, or
\* queue a post that was not there, or give up one that nobody is sending or whose
\* claim ran late.
Tidied(p) ==
  /\ \/ outbox'[p].status = outbox[p].status
     \/ outbox[p].status = "none" /\ outbox'[p].status = "pending"
     \/ outbox[p].status \in Waiting /\ outbox'[p].status = "stale"
     \/ outbox[p].status = "sending" /\ outbox'[p].status = "uncertain"
  /\ history'[p] \in {history[p], "uncertain", "stale"}

LEMMA TidyPost ==
  ASSUME NEW p \in Posts, PostTruthful(p), Tidied(p), posted'[p] = posted[p]
  PROVE  PostTruthful(p)'
BY DEF PostTruthful, Tidied, Waiting

LEMMA TidyKeepsInv ==
  ASSUME OutboxInv, OutboxTypeOK', UNCHANGED <<senders, posted>>, \A p \in Posts : Tidied(p)
  PROVE  OutboxInv'
<1>1. \A p \in Posts : PostTruthful(p)'
  BY TidyPost DEF OutboxInv
<1>2. ASSUME NEW s \in Senders PROVE SenderTruthful(s)'
  <2>1. Busy(s) => senders[s].post \in Posts
    BY BusyTyped DEF OutboxInv, SenderRecord
  <2> QED BY <2>1 DEF OutboxInv, SenderTruthful, Busy, Tidied, Waiting
<1>3. OneSenderPerPost'
  BY DEF OutboxInv, OneSenderPerPost, Busy
<1> QED BY <1>1, <1>2, <1>3 DEF OutboxInv

LEMMA EnqueueKeepsInv ==
  ASSUME OutboxInv, NEW p \in Posts, Enqueue(p)
  PROVE  OutboxInv'
<1>1. OutboxTypeOK'
  <2>1. [NoRow EXCEPT !.status = "pending"] \in Post
    BY RowsTyped DEF PostStatuses
  <2> QED BY <2>1 DEF Enqueue, enqueue_cards, OutboxInv, OutboxTypeOK
<1>2. \A q \in Posts : Tidied(q)
  BY DEF Enqueue, enqueue_cards, Tidied, NoRow
<1> QED BY <1>1, <1>2, TidyKeepsInv DEF Enqueue

LEMMA ClockKeepsInv ==
  ASSUME OutboxInv, OutboxClock
  PROVE  OutboxInv'
<1>1. /\ UNCHANGED <<senders, posted, history>>
      /\ outbox' \in [Posts -> Post]
      /\ \A p \in Posts : outbox'[p].status = outbox[p].status
      /\ channel' \in [ready : BOOLEAN, used : 0..ChannelLimit]
  <2> USE DEF OutboxInv, OutboxTypeOK
  <2>1. ASSUME NEW p \in Posts, AgePost(p) \/ ExpirePost(p) \/ LatePost(p) \/ RetryDue(p)
        PROVE  /\ UNCHANGED <<senders, posted, history, channel>>
               /\ outbox' \in [Posts -> Post]
               /\ \A q \in Posts : outbox'[q].status = outbox[q].status
    <3>1. outbox[p] \in Post /\ outbox[p].status \in PostStatuses
      BY DEF Post
    <3>2. CASE AgePost(p)
      <4>1. Closed(outbox[p].status) \in Post /\ Closed(outbox[p].status).status = outbox[p].status
        BY <3>1, RowsTyped
      <4>2. /\ [Closed(outbox[p].status) EXCEPT !.old = TRUE] \in Post
            /\ [Closed(outbox[p].status) EXCEPT !.old = TRUE].status = outbox[p].status
        BY <4>1 DEF Post
      <4> QED BY <3>2, <4>2 DEF AgePost
    <3>3. CASE ExpirePost(p) \/ LatePost(p) \/ RetryDue(p)
      <4>1. /\ [outbox[p] EXCEPT !.expired = TRUE] \in Post
            /\ [outbox[p] EXCEPT !.late = TRUE] \in Post
            /\ [outbox[p] EXCEPT !.due = TRUE] \in Post
        BY <3>1 DEF Post
      <4>2. /\ [outbox[p] EXCEPT !.expired = TRUE].status = outbox[p].status
            /\ [outbox[p] EXCEPT !.late = TRUE].status = outbox[p].status
            /\ [outbox[p] EXCEPT !.due = TRUE].status = outbox[p].status
        BY <3>1 DEF Post
      <4>3. CASE ExpirePost(p)
        BY <4>1, <4>2, <4>3 DEF ExpirePost
      <4>4. CASE LatePost(p)
        BY <4>1, <4>2, <4>4 DEF LatePost
      <4>5. CASE RetryDue(p)
        BY <4>1, <4>2, <4>5 DEF RetryDue
      <4> QED BY <3>3, <4>3, <4>4, <4>5
    <3> QED BY <2>1, <3>2, <3>3
  <2>2. CASE \E p \in Posts : AgePost(p) \/ ExpirePost(p) \/ LatePost(p) \/ RetryDue(p)
    BY <2>1, <2>2
  <2>3. CASE ChannelReady \/ NewDay
    <3>1. 0 \in 0..ChannelLimit
      BY TelegramOutboxAssumption
    <3> QED BY <2>3, <3>1 DEF ChannelReady, NewDay
  <2> QED BY <2>1, <2>2, <2>3 DEF OutboxClock
<1>2. OutboxTypeOK'
  BY <1>1 DEF OutboxInv, OutboxTypeOK
<1>3. \A p \in Posts : Tidied(p)
  BY <1>1 DEF Tidied
<1> QED BY <1>1, <1>2, <1>3, TidyKeepsInv

-----------------------------------------------------------------------------
\* What the first transaction gives up.
LEMMA RetiredTyped ==
  ASSUME OutboxInv
  PROVE  /\ Retired \in [Posts -> Post]
         /\ RetiredHistory \in [Posts -> PostStatuses]
<1>1. ASSUME NEW p \in Posts PROVE Retired[p] \in Post
  BY RowsTyped DEF Retired, OutboxInv, OutboxTypeOK, PostStatuses
<1>2. ASSUME NEW p \in Posts PROVE RetiredHistory[p] \in PostStatuses
  BY DEF RetiredHistory, Mirror, OutboxInv, OutboxTypeOK, PostStatuses
<1> QED BY <1>1, <1>2 DEF Retired, RetiredHistory, Mirror

LEMMA RetiredTidies ==
  ASSUME OutboxInv, NEW p \in Posts
  PROVE  /\ \/ Retired[p].status = outbox[p].status
            \/ outbox[p].status \in Waiting /\ Retired[p].status = "stale"
            \/ outbox[p].status = "sending" /\ Retired[p].status = "uncertain"
         /\ RetiredHistory[p] \in {history[p], "uncertain", "stale"}
         /\ p \in Eligible \ Expired => Retired[p] = outbox[p]
<1>1. p \in Eligible \ Expired => p \notin Lost \cup TooOld \cup Expired
  BY DEF Eligible, Lost, TooOld, Waiting
<1>2. p \in Expired => outbox[p].status \in Waiting
  BY DEF Expired, Eligible
<1> QED
  BY <1>1, <1>2 DEF Retired, RetiredHistory, Mirror, Closed, NoRow, Lost, TooOld

LEMMA NothingKeepsInv ==
  ASSUME OutboxInv, NEW s \in Senders, ChooseNothing(s)
  PROVE  OutboxInv'
<1>1. OutboxTypeOK'
  BY RetiredTyped DEF ChooseNothing, OutboxInv, OutboxTypeOK
<1>2. \A p \in Posts : Tidied(p)
  BY RetiredTidies DEF ChooseNothing, Tidied
<1> QED BY <1>1, <1>2, TidyKeepsInv DEF ChooseNothing

LEMMA ChooseKeepsInv ==
  ASSUME OutboxInv, NEW s \in Senders, NEW p \in Posts, ChoosePost(s, p)
  PROVE  OutboxInv'
<1>1. /\ outbox[p].status \in Waiting /\ outbox[p].tries < MaxSends /\ outbox[p] \in Post
      /\ Retired[p] = outbox[p]
  BY RetiredTidies DEF ChoosePost, Eligible, OutboxInv, OutboxTypeOK
<1>2. outbox'[p] \in Post /\ outbox'[p].status = "sending" /\ outbox[p].tries + 1 \in 0..MaxSends
  <2>1. outbox'[p] = [outbox[p] EXCEPT !.status = "sending", !.tries = @ + 1]
    BY <1>1, RetiredTyped DEF ChoosePost
  <2>2. outbox[p].tries + 1 \in 0..MaxSends
    BY <1>1 DEF Post, MaxSends
  <2>3. "sending" \in PostStatuses
    BY DEF PostStatuses
  <2> QED BY <1>1, <2>1, <2>2, <2>3 DEF Post
<1>3. \A q \in Posts \ {p} : outbox'[q] = Retired[q]
  BY RetiredTyped DEF ChoosePost
<1>4. /\ senders[s] = NotSending /\ senders'[s] \in SenderRecord
      /\ senders'[s].pc = "send" /\ senders'[s].post = p
      /\ \A t \in Senders \ {s} : senders'[t] = senders[t]
  BY <1>2 DEF ChoosePost, OutboxInv, OutboxTypeOK, SenderRecord, Answers
<1>5. OutboxTypeOK'
  <2>1. outbox' \in [Posts -> Post]
    BY <1>2, <1>3, RetiredTyped DEF ChoosePost
  <2>2. channel' \in [ready : BOOLEAN, used : 0..ChannelLimit]
    BY TelegramOutboxAssumption DEF ChoosePost, SlotAtHand, OutboxInv, OutboxTypeOK
  <2>3. senders' \in [Senders -> {NotSending} \cup SenderRecord]
    BY <1>4 DEF ChoosePost, OutboxInv, OutboxTypeOK, SenderRecord
  <2> QED
    BY <2>1, <2>2, <2>3, RetiredTyped DEF ChoosePost, OutboxInv, OutboxTypeOK, SenderRecord
<1>6. posted' = posted /\ posted[p] = 0
  BY <1>1 DEF ChoosePost, OutboxInv, PostTruthful, Waiting
<1>7. ASSUME NEW q \in Posts PROVE PostTruthful(q)'
  <2>1. CASE q = p
    <3>1. history'[p] \in {history[p], "uncertain", "stale"}
      BY RetiredTidies DEF ChoosePost
    <3> QED BY <1>2, <1>6, <2>1, <3>1 DEF OutboxInv, PostTruthful
  <2>2. CASE q # p
    <3>1. Tidied(q)
      BY <1>3, <2>2, RetiredTidies DEF ChoosePost, Tidied
    <3> QED BY <1>6, <3>1, TidyPost DEF OutboxInv
  <2> QED BY <2>1, <2>2
<1>8. ASSUME NEW t \in Senders, t # s, Busy(t)'
      PROVE  /\ Busy(t) /\ senders'[t] = senders[t] /\ senders[t].post \in Posts \ {p}
             /\ SenderTruthful(t)'
  <2>1. Busy(t) /\ senders'[t] = senders[t]
    BY <1>4, <1>8 DEF Busy
  <2>2. senders[t].post \in Posts
    BY <2>1, BusyTyped DEF OutboxInv, SenderRecord
  <2>3. outbox[senders[t].post].status \in {"sending", "uncertain"}
    BY <2>1 DEF OutboxInv, SenderTruthful
  <2>4. senders[t].post # p
    BY <1>1, <2>3 DEF Waiting
  <2>5. outbox'[senders[t].post].status \in {"sending", "uncertain"}
    BY <1>3, <2>2, <2>3, <2>4, RetiredTidies DEF Waiting
  <2> QED BY <1>6, <2>1, <2>2, <2>4, <2>5 DEF OutboxInv, SenderTruthful
<1>9. SenderTruthful(s)'
  BY <1>2, <1>4, <1>6 DEF SenderTruthful
<1>10. \A t \in Senders : SenderTruthful(t)'
  BY <1>8, <1>9 DEF SenderTruthful
<1>11. OneSenderPerPost'
  BY <1>4, <1>8 DEF OutboxInv, OneSenderPerPost
<1> QED BY <1>5, <1>7, <1>10, <1>11 DEF OutboxInv

-----------------------------------------------------------------------------
\* Senders other than the one that steps keep what is true of them.
LEMMA OthersStayTruthful ==
  ASSUME OutboxInv, NEW s \in Senders, Busy(s), NEW t \in Senders, t # s, Busy(t)',
         senders'[t] = senders[t],
         \A q \in Posts \ {senders[s].post} : /\ outbox'[q].status = outbox[q].status
                                              /\ posted'[q] = posted[q]
  PROVE  /\ Busy(t) /\ senders[t].post # senders[s].post
         /\ SenderTruthful(t)'
<1>1. Busy(t)
  BY DEF Busy
<1>2. senders[t].post \in Posts \ {senders[s].post}
  BY <1>1, BusyTyped DEF OutboxInv, OneSenderPerPost, SenderRecord
<1> QED BY <1>1, <1>2 DEF OutboxInv, SenderTruthful

\* Telegram takes a post at most once for each call, and a call is made once for
\* each claim.
LEMMA SendKeepsInv ==
  ASSUME OutboxInv, NEW s \in Senders, Send(s)
  PROVE  OutboxInv'
<1> DEFINE p == senders[s].post
<1>1. Busy(s) /\ senders[s] \in SenderRecord /\ p \in Posts
  BY BusyTyped DEF Send, Busy, OutboxInv, SenderRecord
<1>2. PICK outcome \in Outcomes :
        LET last == outcome[1] = "retry" /\ senders[s].tries = MaxSends IN
        /\ senders' = [senders EXCEPT ![s].pc = "save",
                                      ![s].answer = IF last THEN "failed" ELSE outcome[1],
                                      ![s].tries = 0]
        /\ posted' = [posted EXCEPT ![p] = @ + outcome[2]]
  BY DEF Send
<1>3. /\ outcome[1] \in Answers /\ outcome[2] \in {0, 1}
      /\ outcome[1] = "sent" => outcome[2] = 1
      /\ outcome[1] \in {"retry", "failed"} => outcome[2] = 0
  BY DEF Outcomes, Answers
<1>4. posted[p] = 0 /\ outbox[p].status \in {"sending", "uncertain"}
  BY <1>1 DEF Send, OutboxInv, SenderTruthful
<1>5. /\ posted'[p] = outcome[2] /\ \A q \in Posts \ {p} : posted'[q] = posted[q]
      /\ posted' \in [Posts -> Nat]
  BY <1>1, <1>2, <1>3, <1>4 DEF OutboxInv, OutboxTypeOK
<1>6. PICK answer \in Answers :
        /\ answer = "sent" => outcome[2] = 1
        /\ answer \in {"retry", "failed"} => outcome[2] = 0
        /\ senders' = [senders EXCEPT ![s].pc = "save", ![s].answer = answer, ![s].tries = 0]
  BY <1>2, <1>3 DEF Answers
<1>7. /\ senders'[s] \in SenderRecord /\ senders'[s].pc = "save" /\ senders'[s].post = p
      /\ senders'[s].answer = answer
      /\ \A t \in Senders \ {s} : senders'[t] = senders[t]
      /\ senders' \in [Senders -> {NotSending} \cup SenderRecord]
  <2>1. senders'[s] = [senders[s] EXCEPT !.pc = "save", !.answer = answer, !.tries = 0]
    BY <1>6 DEF OutboxInv, OutboxTypeOK
  <2>2. senders'[s] \in SenderRecord
    <3>1. 0 \in 0..MaxSends
      BY DEF MaxSends
    <3> QED BY <1>1, <2>1, <3>1 DEF SenderRecord
  <2> QED BY <1>1, <1>6, <2>1, <2>2 DEF OutboxInv, OutboxTypeOK, SenderRecord
<1> HIDE DEF p
<1>8. UNCHANGED <<outbox, history, channel>>
  BY DEF Send
<1>9. OutboxTypeOK'
  BY <1>5, <1>7, <1>8 DEF OutboxInv, OutboxTypeOK, SenderRecord
<1>10. ASSUME NEW q \in Posts PROVE PostTruthful(q)'
  <2>1. CASE q = p
    <3>1. history[p] # "sent" /\ outbox[p].status # "sent"
      BY <1>1, <1>4 DEF OutboxInv, PostTruthful
    <3> QED BY <1>3, <1>4, <1>5, <1>8, <2>1, <3>1 DEF PostTruthful
  <2>2. CASE q # p
    BY <1>5, <1>8, <2>2 DEF OutboxInv, PostTruthful
  <2> QED BY <2>1, <2>2
<1>11. ASSUME NEW t \in Senders, t # s, Busy(t)'
       PROVE  Busy(t) /\ senders[t].post # p /\ SenderTruthful(t)'
  BY <1>1, <1>5, <1>7, <1>8, <1>11, OthersStayTruthful DEF p
<1>12. SenderTruthful(s)'
  BY <1>4, <1>5, <1>6, <1>7, <1>8 DEF SenderTruthful
<1>13. \A t \in Senders : SenderTruthful(t)'
  BY <1>11, <1>12 DEF SenderTruthful
<1>14. OneSenderPerPost'
  BY <1>7, <1>11 DEF OutboxInv, OneSenderPerPost
<1> QED BY <1>9, <1>10, <1>13, <1>14 DEF OutboxInv

\* A sender that is done, or dies.
LEMMA SaveKeepsInv ==
  ASSUME OutboxInv, NEW s \in Senders, SaveAnswer(s)
  PROVE  OutboxInv'
<1>1. PICK p \in Posts : p = senders[s].post
  BY BusyTyped DEF SaveAnswer, Busy, OutboxInv, SenderRecord
<1>2. PICK answer \in Answers : answer = senders[s].answer
  BY BusyTyped DEF SaveAnswer, Busy, OutboxInv, SenderRecord
<1>3. Busy(s) /\ senders[s].pc = "save"
  BY DEF SaveAnswer, Busy
<1>4. /\ outbox[p].status \in {"sending", "uncertain"} /\ outbox[p] \in Post
      /\ answer = "sent" => posted[p] = 1
      /\ answer \in {"retry", "failed"} => posted[p] = 0
  BY <1>1, <1>2, <1>3 DEF OutboxInv, OutboxTypeOK, SenderTruthful
<1>5. /\ outbox' = [outbox EXCEPT ![p] = Saved(p, answer)]
      /\ history' = [q \in Posts |-> IF q \in Mirrored \cap {p} THEN answer ELSE history[q]]
      /\ channel' = [channel EXCEPT !.ready = @ /\ answer # "retry"]
      /\ senders' = [senders EXCEPT ![s] = NotSending]
      /\ posted' = posted
  BY <1>1, <1>2 DEF SaveAnswer, Mirror
<1>6. Saved(p, answer) \in Post /\ Saved(p, answer).status \in {outbox[p].status, answer}
      /\ (outbox[p].status = "sending" => Saved(p, answer).status = answer)
  <2>1. answer \in PostStatuses /\ Closed(answer) \in Post /\ Closed(answer).status = answer
    BY RowsTyped DEF Answers, PostStatuses
  <2>2. /\ [outbox[p] EXCEPT !.status = "retry", !.due = FALSE, !.late = FALSE] \in Post
        /\ [outbox[p] EXCEPT !.status = "retry", !.due = FALSE, !.late = FALSE].status = "retry"
    BY <1>4 DEF Post, PostStatuses
  <2> QED BY <1>4, <2>1, <2>2 DEF Saved
<1>7. /\ outbox'[p] = Saved(p, answer) /\ \A q \in Posts \ {p} : outbox'[q] = outbox[q]
      /\ outbox' \in [Posts -> Post]
  BY <1>5, <1>6 DEF OutboxInv, OutboxTypeOK
<1>8. OutboxTypeOK'
  <2>1. history' \in [Posts -> PostStatuses]
    BY <1>5 DEF OutboxInv, OutboxTypeOK, PostStatuses, Answers
  <2>2. channel' \in [ready : BOOLEAN, used : 0..ChannelLimit]
    BY <1>5 DEF OutboxInv, OutboxTypeOK
  <2>3. senders' \in [Senders -> {NotSending} \cup SenderRecord]
    BY <1>5 DEF OutboxInv, OutboxTypeOK, SenderRecord
  <2> QED BY <1>5, <1>7, <2>1, <2>2, <2>3 DEF OutboxInv, OutboxTypeOK, SenderRecord
<1>9. ASSUME NEW q \in Posts PROVE PostTruthful(q)'
  <2>1. CASE q = p
    <3>1. PostTruthful(p)
      BY DEF OutboxInv
    <3>2. history'[p] \in {history[p], answer}
      BY <1>5
    <3> QED BY <1>4, <1>5, <1>6, <1>7, <2>1, <3>1, <3>2 DEF PostTruthful, Answers
  <2>2. CASE q # p
    BY <1>5, <1>7, <2>2 DEF OutboxInv, PostTruthful
  <2> QED BY <2>1, <2>2
<1>10. ~Busy(s)' /\ \A t \in Senders \ {s} : senders'[t] = senders[t]
  BY <1>5 DEF Busy, NotSending, OutboxInv, OutboxTypeOK
<1>11. ASSUME NEW t \in Senders, t # s, Busy(t)'
       PROVE  Busy(t) /\ SenderTruthful(t)'
  BY <1>1, <1>3, <1>5, <1>7, <1>10, <1>11, OthersStayTruthful
<1>12. \A t \in Senders : SenderTruthful(t)'
  BY <1>10, <1>11 DEF SenderTruthful
<1>13. OneSenderPerPost'
  BY <1>10, <1>11 DEF OutboxInv, OneSenderPerPost
<1> QED BY <1>8, <1>9, <1>12, <1>13 DEF OutboxInv

LEMMA CrashKeepsInv ==
  ASSUME OutboxInv, NEW s \in Senders, SenderCrash(s)
  PROVE  OutboxInv'
<1>1. /\ ~Busy(s)' /\ \A t \in Senders \ {s} : senders'[t] = senders[t]
      /\ senders' \in [Senders -> {NotSending} \cup SenderRecord]
      /\ UNCHANGED <<outbox, history, channel, posted>>
  BY DEF SenderCrash, Busy, NotSending, OutboxInv, OutboxTypeOK, SenderRecord
<1>2. \A t \in Senders : Busy(t)' => t # s /\ Busy(t) /\ senders'[t] = senders[t]
  BY <1>1 DEF Busy
<1> QED
  BY <1>1, <1>2
  DEF OutboxInv, OutboxTypeOK, PostTruthful, SenderTruthful, OneSenderPerPost, SenderRecord

LEMMA OutboxInvIsInductive == OutboxInv /\ [OutboxNext]_outboxVars => OutboxInv'
<1> SUFFICES ASSUME OutboxInv, [OutboxNext]_outboxVars PROVE OutboxInv'
  OBVIOUS
<1>1. CASE UNCHANGED outboxVars
  BY <1>1
  DEF outboxVars, OutboxInv, OutboxTypeOK, PostTruthful, SenderTruthful, OneSenderPerPost, Busy
<1>2. CASE OutboxNext
  BY <1>2, EnqueueKeepsInv, ChooseKeepsInv, NothingKeepsInv, SendKeepsInv, SaveKeepsInv,
     CrashKeepsInv, ClockKeepsInv
  DEF OutboxNext, Deliver
<1> QED BY <1>1, <1>2

-----------------------------------------------------------------------------
\* Senders and rows agree on every post: the invariant of deliver_outbox.
THEOREM OutboxInvariant == OutboxSpec => []OutboxInv
<1> QED BY InitOutboxInv, OutboxInvIsInductive, PTL DEF OutboxSpec

\* No post appears twice in the channel and every record of it is true, whatever
\* crashes, answers that are lost and senders that outlive their claim.
THEOREM PostsAreTruthful == OutboxSpec => []OutboxTruthful
<1>1. OutboxInv => OutboxTruthful
  BY DEF OutboxInv, PostTruthful, OutboxTruthful
<1> QED BY <1>1, OutboxInvariant, PTL

-----------------------------------------------------------------------------
(***************************************************************************)
(* The desk's jobs and their posts.                                        *)
(***************************************************************************)
\* A row of the outbox is never deleted.
LEMMA PostsStay ==
  ASSUME OutboxInv, [OutboxNext]_outboxVars, NEW p \in Posts, outbox[p].status # "none"
  PROVE  outbox'[p].status # "none"
<1>t. /\ outbox \in [Posts -> Post] /\ outbox[p] \in Post
      /\ Retired \in [Posts -> Post] /\ Retired[p].status # "none"
  BY RetiredTyped, RetiredTidies DEF OutboxInv, OutboxTypeOK, Waiting
<1>1. ASSUME NEW q \in Posts, Enqueue(q) PROVE outbox'[p].status # "none"
  BY <1>1 DEF Enqueue, enqueue_cards
<1>2. ASSUME NEW s \in Senders, NEW q \in Posts, ChoosePost(s, q) PROVE outbox'[p].status # "none"
  <2>1. outbox' = [Retired EXCEPT ![q].status = "sending", ![q].tries = @ + 1]
    BY <1>2 DEF ChoosePost
  <2>2. CASE p = q
    <3>1. outbox'[q] = [Retired[q] EXCEPT !.status = "sending", !.tries = @ + 1]
      BY <1>t, <2>1
    <3>2. outbox'[q].status = "sending"
      BY <1>t, <2>2, <3>1 DEF Post
    <3> QED BY <2>2, <3>2
  <2>3. CASE p # q
    BY <1>t, <2>1, <2>3
  <2> QED BY <2>2, <2>3
<1>3. ASSUME NEW s \in Senders, ChooseNothing(s) PROVE outbox'[p].status # "none"
  BY <1>t, <1>3 DEF ChooseNothing
<1>4. ASSUME NEW s \in Senders, Send(s) \/ SenderCrash(s) PROVE outbox'[p].status # "none"
  BY <1>4 DEF Send, SenderCrash
<1>5. ASSUME NEW s \in Senders, SaveAnswer(s) PROVE outbox'[p].status # "none"
  <2>1. PICK q \in Posts : q = senders[s].post
    BY <1>5, BusyTyped DEF SaveAnswer, Busy, OutboxInv, SenderRecord
  <2>2. PICK answer \in Answers : answer = senders[s].answer
    BY <1>5, BusyTyped DEF SaveAnswer, Busy, OutboxInv, SenderRecord
  <2>3. outbox' = [outbox EXCEPT ![q] = Saved(q, answer)]
    BY <1>5, <2>1, <2>2 DEF SaveAnswer
  <2>4. p = q => Saved(q, answer).status # "none"
    <3>1. Closed(answer).status = answer /\ answer # "none"
      BY RowsTyped DEF Answers, PostStatuses
    <3>2. [outbox[p] EXCEPT !.status = "retry", !.due = FALSE, !.late = FALSE].status = "retry"
      BY <1>t DEF Post
    <3> QED BY <3>1, <3>2 DEF Saved
  <2> QED BY <1>t, <2>3, <2>4
<1>6. CASE OutboxClock
  <2>1. ASSUME NEW q \in Posts, AgePost(q) PROVE outbox'[p].status # "none"
    <3>1. outbox[q].status \in Waiting /\ outbox[q].status \in PostStatuses
      BY <2>1 DEF AgePost, Waiting, PostStatuses
    <3>2. Closed(outbox[q].status) \in Post /\ Closed(outbox[q].status).status = outbox[q].status
      BY <3>1, RowsTyped
    <3>3. [Closed(outbox[q].status) EXCEPT !.old = TRUE].status = outbox[q].status
      BY <3>2 DEF Post
    <3> QED BY <1>t, <2>1, <3>3 DEF AgePost
  <2>2. ASSUME NEW q \in Posts, ExpirePost(q) \/ LatePost(q) \/ RetryDue(q)
        PROVE  outbox'[p].status # "none"
    <3>1. /\ [outbox[p] EXCEPT !.expired = TRUE].status = outbox[p].status
          /\ [outbox[p] EXCEPT !.late = TRUE].status = outbox[p].status
          /\ [outbox[p] EXCEPT !.due = TRUE].status = outbox[p].status
      BY <1>t DEF Post
    <3> QED BY <1>t, <2>2, <3>1 DEF ExpirePost, LatePost, RetryDue
  <2>3. CASE ChannelReady \/ NewDay
    BY <2>3 DEF ChannelReady, NewDay
  <2> QED BY <1>6, <2>1, <2>2, <2>3 DEF OutboxClock
<1>7. CASE UNCHANGED outboxVars
  BY <1>7 DEF outboxVars
<1> QED BY <1>1, <1>2, <1>3, <1>4, <1>5, <1>6, <1>7 DEF OutboxNext, Deliver

Research == [pc : {"research", "note"}, job : Jobs,
             spent : {"some", "last", "all"}, seen : 0..MaxProgress]

\* A runner that still holds its job has seen all that is saved of it.
HolderHasSeen(r) ==
  runners[r].pc = "research" /\ Owns(r) => jobs[runners[r].job].progress = runners[r].seen

JobsOK ==
  /\ jobs \in [Jobs -> JobRow]
  /\ runners \in [Runners -> {NoResearch} \cup Research]
  /\ \A r \in Runners : HolderHasSeen(r)

DashInv == OutboxInv /\ JobsOK /\ ResultHasPost

LEMMA JobRowsTyped ==
  /\ NoJob \in JobRow /\ NewJob \in JobRow /\ NoJob.result = "none" /\ NoJob.progress = 0
  /\ NoJob.status = "none" /\ NoJob.token = Nobody
  /\ NewJob.status = "pending" /\ NewJob.token = Nobody
  /\ NewJob.result = "none" /\ NewJob.progress = 0
  /\ \A result \in Results :
       /\ Completed(result) \in JobRow
       /\ Completed(result).status = "complete" /\ Completed(result).token = Nobody
       /\ Completed(result).result = result /\ Completed(result).progress = 0
<1>1. 0 \in 0..MAX_ATTEMPTS + 1 /\ 0 \in 0..MaxProgress
  BY DashJobsAssumption DEF MAX_ATTEMPTS
<1>2. NoJob \in JobRow
  BY <1>1 DEF NoJob, JobRow, Results
<1>3. NewJob = [NoJob EXCEPT !.status = "pending"]
  BY DEF NewJob
<1>4. /\ NewJob \in JobRow /\ NewJob.status = "pending" /\ NewJob.token = Nobody
      /\ NewJob.result = "none" /\ NewJob.progress = 0
  BY <1>2, <1>3 DEF NoJob, JobRow
<1>5. ASSUME NEW result \in Results
      PROVE  /\ Completed(result) \in JobRow
             /\ Completed(result).status = "complete" /\ Completed(result).token = Nobody
             /\ Completed(result).result = result /\ Completed(result).progress = 0
  <2>1. Completed(result) = [NoJob EXCEPT !.status = "complete", !.result = result]
    BY DEF Completed
  <2> QED BY <1>2, <2>1 DEF NoJob, JobRow
<1> QED BY <1>2, <1>4, <1>5 DEF NoJob

LEMMA ResearchTyped ==
  ASSUME JobsOK, NEW r \in Runners
  PROVE  /\ runners[r].pc \in {"research", "note"} =>
              /\ runners[r] \in Research /\ runners[r].job \in Jobs
              /\ runners[r].seen \in 0..MaxProgress
         /\ runners[r].pc \notin {"research", "note"} => runners[r] = NoResearch
         /\ runners[r] = NoResearch => runners[r].pc = "idle"
BY DEF JobsOK, NoResearch, Research

LEMMA NoteTyped ==
  ASSUME NEW j \in Jobs
  PROVE  /\ NoteOf(j) \in Research /\ NoteOf(j).pc = "note" /\ NoteOf(j).job = j
<1>1. 0 \in 0..MaxProgress
  BY DashJobsAssumption
<1>2. /\ NoteOf(j) = [NoResearch EXCEPT !.pc = "note", !.job = j]
      /\ NoResearch = [pc |-> "idle", job |-> Nobody, spent |-> "some", seen |-> 0]
  BY DEF NoteOf, NoResearch
<1>3. /\ NoteOf(j).pc = "note" /\ NoteOf(j).job = j
      /\ NoteOf(j).spent = "some" /\ NoteOf(j).seen = 0
      /\ NoteOf(j) = [pc |-> NoteOf(j).pc, job |-> NoteOf(j).job,
                      spent |-> NoteOf(j).spent, seen |-> NoteOf(j).seen]
  BY <1>2
<1> QED BY <1>1, <1>3 DEF Research

LEMMA SweptTyped ==
  ASSUME JobsOK, NEW j \in Jobs
  PROVE  /\ Swept(j) \in JobRow /\ Inserted(j) \in JobRow
         /\ \/ Swept(j) = jobs[j] \/ Swept(j) = NoJob \/ Swept(j) = Completed("hold")
         /\ \/ Inserted(j) = Swept(j) \/ Inserted(j) = NewJob
<1>1. jobs[j] \in JobRow
  BY DEF JobsOK
<1>2. "hold" \in Results
  BY DEF Results
<1> QED BY <1>1, <1>2, JobRowsTyped DEF Swept, Inserted

\* What a step of the jobs does to the outbox is what an announcement does.
LEMMA JobsStepIsOutbox ==
  ASSUME JobsOK, DashNext
  PROVE  [OutboxNext]_outboxVars
<1>1. ASSUME NEW r \in Runners, NEW result \in {"reply", "hold"}, FinishJob(r, result)
      PROVE  [OutboxNext]_outboxVars
  <2>1. CASE outbox' = outbox
    BY <1>1, <2>1 DEF FinishJob, outboxVars
  <2>2. CASE outbox' # outbox
    <3>1. outbox' = enqueue_cards({AnswerOf[runners[r].job]})
      BY <1>1, <2>2 DEF FinishJob
    <3>2. AnswerOf[runners[r].job] \in Posts
      BY <1>1, ResearchTyped, DashJobsAssumption DEF FinishJob
    <3>3. Enqueue(AnswerOf[runners[r].job])
      BY <1>1, <3>1 DEF FinishJob, Enqueue
    <3> QED BY <3>2, <3>3 DEF OutboxNext
  <2> QED BY <2>1, <2>2
<1>2. ASSUME NEW r \in Runners, QueueNote(r)
      PROVE  [OutboxNext]_outboxVars
  <2>1. AnswerOf[runners[r].job] \in Posts
    BY <1>2, ResearchTyped, DashJobsAssumption DEF QueueNote
  <2>2. Enqueue(AnswerOf[runners[r].job])
    BY <1>2 DEF QueueNote, Enqueue
  <2> QED BY <2>1, <2>2 DEF OutboxNext
<1>3. ASSUME NEW r \in Runners, ClaimJob(r) \/ Checkpoint(r) \/ ReleaseJob(r) \/ RunnerCrash(r)
      PROVE  UNCHANGED outboxVars
  BY <1>3 DEF ClaimJob, TakeJob, ClaimDenied, Checkpoint, ReleaseJob, RunnerCrash
<1>4. ASSUME NEW j \in Jobs, LapseJob(j) \/ DueJob(j) \/ AgeJob(j)
      PROVE  UNCHANGED outboxVars
  BY <1>4 DEF LapseJob, DueJob, AgeJob
<1>5. ASSUME NEW s \in Senders, Deliver(s) \/ SenderCrash(s)
      PROVE  OutboxNext
  BY <1>5 DEF OutboxNext
<1> QED BY <1>1, <1>2, <1>3, <1>4, <1>5 DEF DashNext, JobsNext, EndPass

\* What a step makes of the rows, of the runner that takes it, and of a job's
\* result.  The token of a row that a runner holds, and its progress, are changed
\* by that runner, or else the row passes to another or is done with.
RowKept(j) ==
  /\ jobs'[j] \in JobRow
  /\ jobs'[j].result = "reply" =>
       jobs[j].result = "reply" \/ outbox'[AnswerOf[j]].status # "none"

SameLease(j) ==
  \/ jobs'[j].status # "pending" \/ jobs'[j].token = Nobody
  \/ jobs'[j].token = jobs[j].token /\ jobs'[j].progress = jobs[j].progress
       /\ jobs[j].status = "pending"

LEMMA SweptKept ==
  ASSUME JobsOK, NEW j \in Jobs, jobs'[j] \in {jobs[j], Swept(j), Inserted(j)}
  PROVE  RowKept(j) /\ SameLease(j)
<1>1. jobs[j] \in JobRow /\ "hold" \in Results
  BY DEF JobsOK, Results
<1>2. jobs'[j] \in {jobs[j], NoJob, NewJob, Completed("hold")}
  BY SweptTyped
<1> QED BY <1>1, <1>2, JobRowsTyped DEF RowKept, SameLease

\* Runners whose job keeps its lease, or loses it, have seen what is saved.
LEMMA SeenKept ==
  ASSUME JobsOK, NEW r \in Runners, runners'[r] = runners[r],
         runners[r].pc = "research" => SameLease(runners[r].job)
  PROVE  HolderHasSeen(r)'
<1>1. HolderHasSeen(r) /\ Nobody \notin Runners
  BY DashJobsAssumption DEF JobsOK
<1> QED BY <1>1 DEF HolderHasSeen, Owns, SameLease

LEMMA ClaimKeepsJobs ==
  ASSUME JobsOK, NEW r \in Runners, NEW j \in Jobs, TakeJob(r, j) \/ ClaimDenied(r, j)
  PROVE  JobsOK' /\ \A k \in Jobs : RowKept(k)
<1>t. /\ jobs \in [Jobs -> JobRow] /\ runners \in [Runners -> {NoResearch} \cup Research]
      /\ Inserted(j) \in JobRow
  BY SweptTyped DEF JobsOK
<1>1. CASE TakeJob(r, j)
  <2> DEFINE tries == AtMost(Inserted(j).attempts + 1, MAX_ATTEMPTS + 1)
  <2>1. tries \in 0..MAX_ATTEMPTS + 1
    BY <1>t DEF AtMost, MAX_ATTEMPTS, JobRow
  <2> DEFINE spent == CASE tries < MAX_ATTEMPTS -> "some" [] tries = MAX_ATTEMPTS -> "last"
                        [] OTHER -> "all"
  <2>2. /\ spent \in {"some", "last", "all"}
        /\ runners' = [runners EXCEPT ![r] = [pc |-> "research", job |-> j, spent |-> spent,
                                             seen |-> Inserted(j).progress]]
    <3>1. spent \in {"some", "last", "all"}
      OBVIOUS
    <3> QED BY <1>1, <3>1 DEF TakeJob
  <2>3. /\ jobs'[j] = [Inserted(j) EXCEPT !.token = r, !.leased = TRUE, !.attempts = tries]
        /\ \A k \in Jobs \ {j} : jobs'[k] = Swept(k)
        /\ jobs' = [k \in Jobs |-> jobs'[k]]
    BY <1>1 DEF TakeJob
  <2> HIDE DEF tries, spent
  <2>4. /\ jobs'[j] \in JobRow /\ jobs'[j].result = Inserted(j).result
        /\ jobs'[j].progress = Inserted(j).progress
    BY <1>t, <2>1, <2>3 DEF JobRow
  <2>5. Inserted(j).result = "reply" => jobs[j].result = "reply"
    BY SweptTyped, JobRowsTyped DEF Results
  <2>6. ASSUME NEW k \in Jobs PROVE RowKept(k) /\ (k # j => SameLease(k))
    <3>1. CASE k = j
      BY <2>4, <2>5, <3>1 DEF RowKept
    <3>2. CASE k # j
      BY <2>3, <3>2, SweptKept
    <3> QED BY <3>1, <3>2
  <2>7. /\ runners'[r] \in Research /\ runners'[r].job = j
        /\ runners'[r].seen = Inserted(j).progress
        /\ runners' \in [Runners -> {NoResearch} \cup Research]
        /\ \A q \in Runners \ {r} : runners'[q] = runners[q]
    BY <1>t, <2>2 DEF Research, JobRow
  <2>8. ASSUME NEW q \in Runners PROVE HolderHasSeen(q)'
    <3>1. CASE q = r
      BY <2>4, <2>7, <3>1 DEF HolderHasSeen
    <3>2. CASE q # r /\ runners[q].pc = "research" /\ runners[q].job = j
      <4>1. jobs'[j].token = r
        BY <1>t, <2>3 DEF JobRow
      <4>2. runners'[q] = runners[q] /\ runners'[q].job = j
        BY <2>7, <3>2
      <4> QED BY <3>2, <4>1, <4>2 DEF HolderHasSeen, Owns
    <3>3. CASE q # r /\ ~(runners[q].pc = "research" /\ runners[q].job = j)
      <4>1. runners[q].pc = "research" => SameLease(runners[q].job)
        BY <2>6, <3>3, ResearchTyped
      <4>2. runners'[q] = runners[q]
        BY <2>7, <3>3
      <4> QED BY <4>1, <4>2, SeenKept
    <3> QED BY <3>1, <3>2, <3>3
  <2>9. jobs' \in [Jobs -> JobRow]
    BY <2>3, <2>6 DEF RowKept
  <2> QED BY <2>6, <2>7, <2>8, <2>9 DEF JobsOK
<1>2. CASE ClaimDenied(r, j)
  <2>1. ASSUME NEW k \in Jobs PROVE RowKept(k) /\ SameLease(k)
    <3>1. jobs'[k] \in {Swept(k), Inserted(k)}
      BY <1>2 DEF ClaimDenied
    <3> QED BY <3>1, SweptKept
  <2>2. jobs' \in [Jobs -> JobRow]
    BY <1>2, <2>1 DEF ClaimDenied, RowKept
  <2>3. NoteOf(j) \in Research /\ NoteOf(j).pc = "note"
    BY NoteTyped
  <2>4. /\ runners'[r] \in {NoteOf(j), runners[r]}
        /\ runners' \in [Runners -> {NoResearch} \cup Research]
        /\ \A q \in Runners \ {r} : runners'[q] = runners[q]
    BY <1>t, <1>2, <2>3 DEF ClaimDenied
  <2>5. ASSUME NEW q \in Runners PROVE HolderHasSeen(q)'
    <3>1. CASE runners'[q] = runners[q]
      <4>1. runners[q].pc = "research" => SameLease(runners[q].job)
        BY <2>1, ResearchTyped
      <4> QED BY <3>1, <4>1, SeenKept
    <3>2. CASE runners'[q] # runners[q]
      BY <2>3, <2>4, <3>2 DEF HolderHasSeen
    <3> QED BY <3>1, <3>2
  <2> QED BY <2>1, <2>2, <2>4, <2>5 DEF JobsOK
<1> QED BY <1>1, <1>2

\* A runner at work changes the row of its job only, and only while it holds it.
LEMMA PassKeepsJobs ==
  ASSUME JobsOK, NEW r \in Runners, Checkpoint(r) \/ EndPass(r) \/ RunnerCrash(r)
  PROVE  JobsOK' /\ \A k \in Jobs : RowKept(k)
<1>t. /\ jobs \in [Jobs -> JobRow] /\ runners \in [Runners -> {NoResearch} \cup Research]
      /\ NoResearch.pc = "idle"
  BY DEF JobsOK, NoResearch
<1>1. PICK j \in Jobs : j = runners[r].job
  BY ResearchTyped DEF Checkpoint, EndPass, ReleaseJob, FinishJob, QueueNote, RunnerCrash
<1>2. ASSUME NEW row \in JobRow, jobs' = [jobs EXCEPT ![j] = row], Owns(r),
             row.result = "reply" => jobs[j].result = "reply" \/ outbox'[AnswerOf[j]].status # "none",
             runners' \in [Runners -> {NoResearch} \cup Research],
             \A q \in Runners \ {r} : runners'[q] = runners[q],
             runners'[r].pc # "research"
               \/ (runners'[r].job = j /\ row.progress = runners'[r].seen),
             row.token \in {r, Nobody} \/ row.status # "pending"
      PROVE  JobsOK' /\ \A k \in Jobs : RowKept(k)
  <2>1. /\ jobs' \in [Jobs -> JobRow] /\ jobs'[j] = row
        /\ \A k \in Jobs \ {j} : jobs'[k] = jobs[k]
    BY <1>t, <1>2
  <2>2. ASSUME NEW k \in Jobs PROVE RowKept(k) /\ (k # j => SameLease(k))
    <3>1. CASE k = j
      BY <1>2, <2>1, <3>1 DEF RowKept
    <3>2. CASE k # j
      BY <2>1, <3>2, SweptKept
    <3> QED BY <3>1, <3>2
  <2>3. ASSUME NEW q \in Runners PROVE HolderHasSeen(q)'
    <3>1. CASE q = r
      <4>1. CASE runners'[r].pc # "research"
        BY <3>1, <4>1 DEF HolderHasSeen
      <4>2. CASE runners'[r].pc = "research" /\ runners'[r].job = j
        BY <1>2, <2>1, <3>1, <4>2 DEF HolderHasSeen, Owns
      <4> QED BY <1>2, <4>1, <4>2
    <3>2. CASE q # r /\ runners[q].pc = "research" /\ runners[q].job = j
      <4>1. runners'[q] = runners[q] /\ runners'[q].job = j /\ Nobody \notin Runners
        BY <1>2, <3>2, DashJobsAssumption
      <4> QED BY <1>2, <2>1, <3>2, <4>1 DEF HolderHasSeen, Owns
    <3>3. CASE q # r /\ ~(runners[q].pc = "research" /\ runners[q].job = j)
      <4>1. runners[q].pc = "research" => SameLease(runners[q].job)
        BY <2>2, <3>3, ResearchTyped
      <4>2. runners'[q] = runners[q]
        BY <1>2, <3>3
      <4> QED BY <4>1, <4>2, SeenKept
    <3> QED BY <3>1, <3>2, <3>3
  <2> QED BY <1>2, <2>1, <2>2, <2>3 DEF JobsOK
<1>3. ASSUME UNCHANGED jobs, runners' = [runners EXCEPT ![r] = NoResearch]
      PROVE  JobsOK' /\ \A k \in Jobs : RowKept(k)
  <2>1. ASSUME NEW k \in Jobs PROVE RowKept(k) /\ SameLease(k)
    BY <1>3, SweptKept
  <2>2. ASSUME NEW q \in Runners PROVE HolderHasSeen(q)'
    <3>1. CASE q = r
      BY <1>t, <1>3, <3>1 DEF HolderHasSeen
    <3>2. CASE q # r
      <4>1. runners'[q] = runners[q]
        BY <1>t, <1>3, <3>2
      <4>2. runners[q].pc = "research" => SameLease(runners[q].job)
        BY <2>1, ResearchTyped
      <4> QED BY <4>1, <4>2, SeenKept
    <3> QED BY <3>1, <3>2
  <2>3. jobs' \in [Jobs -> JobRow] /\ runners' \in [Runners -> {NoResearch} \cup Research]
    BY <1>t, <1>3
  <2> QED BY <2>1, <2>2, <2>3 DEF JobsOK
<1>4. CASE Checkpoint(r) /\ Owns(r)
  <2> DEFINE next == AtMost(runners[r].seen + 1, MaxProgress)
  <2> DEFINE row == [jobs[j] EXCEPT !.progress = next]
  <2>1. runners[r] \in Research /\ runners[r].seen \in 0..MaxProgress /\ jobs[j] \in JobRow
    BY <1>t, <1>4, ResearchTyped DEF Checkpoint
  <2>2. next \in 0..MaxProgress
    BY <2>1, DashJobsAssumption DEF AtMost
  <2>3. jobs' = [jobs EXCEPT ![j] = row] /\ runners' = [runners EXCEPT ![r].seen = next]
    BY <1>1, <1>4 DEF Checkpoint
  <2> HIDE DEF next
  <2>4. /\ row \in JobRow /\ row.progress = next /\ row.result = jobs[j].result
        /\ row.token = r
    BY <1>1, <1>4, <2>1, <2>2 DEF JobRow, Owns
  <2>5. /\ runners'[r] = [runners[r] EXCEPT !.seen = next]
        /\ \A q \in Runners \ {r} : runners'[q] = runners[q]
    BY <1>t, <2>3
  <2>6. runners'[r] \in Research /\ runners'[r].job = j /\ runners'[r].seen = next
    BY <1>1, <2>1, <2>2, <2>5 DEF Research
  <2>7. runners' \in [Runners -> {NoResearch} \cup Research]
    BY <1>t, <2>3, <2>5, <2>6
  <2> HIDE DEF row
  <2> QED BY <1>2, <1>4, <2>3, <2>4, <2>5, <2>6, <2>7
<1>5. CASE ReleaseJob(r) /\ Owns(r)
  <2> DEFINE row == [jobs[j] EXCEPT !.token = Nobody, !.leased = FALSE, !.due = FALSE]
  <2>1. jobs[j] \in JobRow
    BY <1>t
  <2>2. jobs' = [jobs EXCEPT ![j] = row] /\ runners' = [runners EXCEPT ![r] = NoResearch]
    BY <1>1, <1>5 DEF ReleaseJob, Leave
  <2>3. row \in JobRow /\ row.result = jobs[j].result /\ row.token = Nobody
    BY <2>1 DEF JobRow
  <2> HIDE DEF row
  <2>4. /\ runners'[r] = NoResearch /\ runners' \in [Runners -> {NoResearch} \cup Research]
        /\ \A q \in Runners \ {r} : runners'[q] = runners[q]
    BY <1>t, <2>2
  <2> QED BY <1>t, <1>2, <1>5, <2>2, <2>3, <2>4
<1>6. ASSUME NEW result \in {"reply", "hold"}, FinishJob(r, result), Owns(r)
      PROVE  JobsOK' /\ \A k \in Jobs : RowKept(k)
  <2>1. /\ jobs' = [jobs EXCEPT ![j] = Completed(result)]
        /\ outbox' = IF result = "reply" THEN enqueue_cards({AnswerOf[j]}) ELSE outbox
        /\ runners' = [runners EXCEPT ![r] = IF result = "reply" THEN NoteOf(j) ELSE NoResearch]
    BY <1>1, <1>6 DEF FinishJob
  <2>2. /\ Completed(result) \in JobRow /\ Completed(result).result = result
        /\ Completed(result).status = "complete"
    BY JobRowsTyped DEF Results
  <2>3. result = "reply" => outbox'[AnswerOf[j]].status # "none"
    <3>1. AnswerOf[j] \in Posts
      BY DashJobsAssumption
    <3>2. [NoRow EXCEPT !.status = "pending"].status = "pending"
      BY DEF NoRow
    <3> QED BY <2>1, <3>1, <3>2 DEF enqueue_cards
  <2>4. /\ runners'[r] \in {NoteOf(j), NoResearch} /\ runners'[r].pc # "research"
        /\ runners' \in [Runners -> {NoResearch} \cup Research]
        /\ \A q \in Runners \ {r} : runners'[q] = runners[q]
    <3>1. NoteOf(j) \in Research /\ NoteOf(j).pc = "note"
      BY NoteTyped
    <3> QED BY <1>t, <2>1, <3>1
  <2> QED BY <1>2, <1>6, <2>1, <2>2, <2>3, <2>4
<1>7. CASE UNCHANGED jobs
  <2>1. runners' = [runners EXCEPT ![r] = NoResearch] \/ (Checkpoint(r) /\ Owns(r))
          \/ (ReleaseJob(r) /\ Owns(r))
          \/ \E result \in {"reply", "hold"} : FinishJob(r, result) /\ Owns(r)
    BY DEF Checkpoint, EndPass, ReleaseJob, FinishJob, QueueNote, RunnerCrash, Leave
  <2> QED BY <1>3, <1>4, <1>5, <1>6, <1>7, <2>1
<1>8. CASE ~UNCHANGED jobs
  <2>1. (Checkpoint(r) /\ Owns(r)) \/ (ReleaseJob(r) /\ Owns(r))
          \/ \E result \in {"reply", "hold"} : FinishJob(r, result) /\ Owns(r)
    BY <1>8 DEF Checkpoint, EndPass, ReleaseJob, FinishJob, QueueNote, RunnerCrash
  <2> QED BY <1>4, <1>5, <1>6, <2>1
<1> QED BY <1>7, <1>8

\* Time and the senders leave every job to its runner.
LEMMA TimeKeepsRows ==
  ASSUME JobsOK,
         \/ \E j \in Jobs : LapseJob(j) \/ DueJob(j) \/ AgeJob(j)
         \/ UNCHANGED jobVars
  PROVE  /\ UNCHANGED runners
         /\ jobs' \in [Jobs -> JobRow]
         /\ \A k \in Jobs : /\ jobs'[k].status = jobs[k].status /\ jobs'[k].token = jobs[k].token
                            /\ jobs'[k].progress = jobs[k].progress
                            /\ jobs'[k].result = jobs[k].result
<1>1. UNCHANGED runners
  BY DEF LapseJob, DueJob, AgeJob, jobVars
<1>2. /\ jobs' \in [Jobs -> JobRow]
      /\ \A k \in Jobs : /\ jobs'[k].status = jobs[k].status /\ jobs'[k].token = jobs[k].token
                         /\ jobs'[k].progress = jobs[k].progress
                         /\ jobs'[k].result = jobs[k].result
  <2>1. jobs \in [Jobs -> JobRow]
    BY DEF JobsOK
  <2>2. ASSUME NEW j \in Jobs, LapseJob(j) \/ DueJob(j) \/ AgeJob(j)
        PROVE  jobs' \in [Jobs -> JobRow]
               /\ \A k \in Jobs : /\ jobs'[k].status = jobs[k].status
                                  /\ jobs'[k].token = jobs[k].token
                                  /\ jobs'[k].progress = jobs[k].progress
                                  /\ jobs'[k].result = jobs[k].result
    <3> DEFINE Same(row) == /\ row \in JobRow /\ row.status = jobs[j].status
                            /\ row.token = jobs[j].token /\ row.progress = jobs[j].progress
                            /\ row.result = jobs[j].result
    <3>1. jobs[j] \in JobRow
      BY <2>1
    <3>2. Same([jobs[j] EXCEPT !.leased = FALSE])
      BY <3>1 DEF JobRow
    <3>3. Same([jobs[j] EXCEPT !.due = TRUE])
      BY <3>1 DEF JobRow
    <3>4. Same([jobs[j] EXCEPT !.old = TRUE])
      BY <3>1 DEF JobRow
    <3>5. PICK row : Same(row) /\ jobs' = [jobs EXCEPT ![j] = row]
      <4> HIDE DEF Same
      <4>1. CASE LapseJob(j)
        BY <3>2, <4>1 DEF LapseJob
      <4>2. CASE DueJob(j)
        BY <3>3, <4>2 DEF DueJob
      <4>3. CASE AgeJob(j)
        BY <3>4, <4>3 DEF AgeJob
      <4> QED BY <2>2, <4>1, <4>2, <4>3
    <3> QED BY <2>1, <3>5
  <2>3. CASE UNCHANGED jobVars
    BY <2>1, <2>3 DEF jobVars
  <2> QED BY <2>2, <2>3
<1> QED BY <1>1, <1>2

LEMMA OthersKeepJobs ==
  ASSUME JobsOK,
         \/ \E j \in Jobs : LapseJob(j) \/ DueJob(j) \/ AgeJob(j)
         \/ UNCHANGED jobVars
  PROVE  JobsOK' /\ \A k \in Jobs : RowKept(k)
<1>1. UNCHANGED runners
  BY TimeKeepsRows
<1>2. /\ jobs' \in [Jobs -> JobRow]
      /\ \A k \in Jobs : /\ jobs'[k].status = jobs[k].status /\ jobs'[k].token = jobs[k].token
                         /\ jobs'[k].progress = jobs[k].progress
                         /\ jobs'[k].result = jobs[k].result
  BY TimeKeepsRows
<1>3. ASSUME NEW r \in Runners PROVE HolderHasSeen(r)'
  <2>1. HolderHasSeen(r) /\ runners'[r] = runners[r]
    BY <1>1 DEF JobsOK
  <2>2. runners[r].pc = "research" => runners[r].job \in Jobs
    BY ResearchTyped
  <2> QED BY <1>2, <2>1, <2>2 DEF HolderHasSeen, Owns
<1>4. runners' \in [Runners -> {NoResearch} \cup Research]
  BY <1>1 DEF JobsOK
<1> QED BY <1>2, <1>3, <1>4 DEF JobsOK, RowKept

LEMMA JobsOKIsInductive ==
  ASSUME JobsOK, DashNext
  PROVE  JobsOK' /\ \A k \in Jobs : RowKept(k)
BY ClaimKeepsJobs, PassKeepsJobs, OthersKeepJobs DEF DashNext, JobsNext, ClaimJob

LEMMA InitDashInv == DashInit => DashInv
<1> SUFFICES ASSUME DashInit PROVE DashInv
  OBVIOUS
<1>1. OutboxInv
  BY InitOutboxInv DEF DashInit
<1>2. JobsOK
  BY JobRowsTyped DEF DashInit, JobsOK, HolderHasSeen, NoResearch
<1>3. ResultHasPost
  BY JobRowsTyped DEF DashInit, ResultHasPost
<1> QED BY <1>1, <1>2, <1>3 DEF DashInv

LEMMA DashInvIsInductive == DashInv /\ [DashNext]_dashVars => DashInv'
<1> SUFFICES ASSUME DashInv, [DashNext]_dashVars PROVE DashInv'
  OBVIOUS
<1>1. CASE DashNext
  <2>1. [OutboxNext]_outboxVars
    BY <1>1, JobsStepIsOutbox DEF DashInv
  <2>2. OutboxInv'
    BY <2>1, OutboxInvIsInductive DEF DashInv
  <2>3. JobsOK' /\ \A k \in Jobs : RowKept(k)
    BY <1>1, JobsOKIsInductive DEF DashInv
  <2>4. ASSUME NEW j \in Jobs, jobs'[j].result = "reply" PROVE outbox'[AnswerOf[j]].status # "none"
    <3>1. AnswerOf[j] \in Posts
      BY DashJobsAssumption
    <3>2. CASE jobs[j].result = "reply"
      BY <2>1, <3>1, <3>2, PostsStay DEF DashInv, ResultHasPost
    <3>3. CASE jobs[j].result # "reply"
      BY <2>3, <2>4, <3>3 DEF RowKept
    <3> QED BY <3>2, <3>3
  <2> QED BY <2>2, <2>3, <2>4 DEF DashInv, ResultHasPost
<1>2. CASE UNCHANGED dashVars
  <2>1. UNCHANGED outboxVars /\ UNCHANGED jobs /\ UNCHANGED runners /\ UNCHANGED outbox
    BY <1>2 DEF dashVars, jobVars, outboxVars
  <2>2. OutboxInv'
    BY <2>1, OutboxInvIsInductive DEF DashInv
  <2> QED
    BY <2>1, <2>2 DEF DashInv, JobsOK, HolderHasSeen, Owns, ResultHasPost
<1> QED BY <1>1, <1>2

\* Jobs and runners agree and no answer is without its post: the invariant of
\* dash_jobs.py beside deliver_outbox.
THEOREM DashInvariant == DashSpec => []DashInv
<1> QED BY InitDashInv, DashInvIsInductive, PTL DEF DashSpec

\* finish() hands result and card over together (dash_jobs.py:1): whoever crashes,
\* loses a lease or answers twice, every reply is in a post, no post appears twice
\* and every record of it is true.
THEOREM AnswersArePosted == DashSpec => []PostsTruthful
<1>1. DashInv => PostsTruthful
  BY DEF DashInv, OutboxInv, PostTruthful, OutboxTruthful, PostsTruthful
<1> QED BY <1>1, DashInvariant, PTL

-----------------------------------------------------------------------------
\* The refinement: what the jobs and their runners are to LeasedWork.
LeaseHolder == [j \in Jobs |-> IF jobs[j].status = "pending" THEN jobs[j].token ELSE Nobody]
LeaseSaved == [j \in Jobs |-> <<jobs[j].status, jobs[j].progress>>]
LeaseWork == [r \in Runners |-> IF runners[r].pc = "research"
                                THEN [task |-> runners[r].job, seen |-> <<"pending", runners[r].seen>>]
                                ELSE [task |-> Nobody, seen |-> Nobody]]
NoLeaseWork == [task |-> Nobody, seen |-> Nobody]
LeaseSaves == {"none", "pending", "complete"} \X (0..MaxProgress)
LeaseResets == {"none", "pending", "complete"} \X {0}

LEMMA InitImplements == DashInit => JobLease!Init
<1> SUFFICES ASSUME DashInit PROVE JobLease!Init
  OBVIOUS
<1>1. LeaseHolder = [j \in Jobs |-> Nobody]
  BY JobRowsTyped DEF DashInit, LeaseHolder
<1>2. LeaseSaved \in [Jobs -> LeaseResets]
  BY JobRowsTyped DEF DashInit, LeaseSaved, LeaseResets
<1>3. LeaseWork = [r \in Runners |-> NoLeaseWork]
  BY DEF DashInit, LeaseWork, NoLeaseWork, NoResearch
<1> QED
  BY <1>1, <1>2, <1>3
  DEF JobLease!Init, JobLease!NoWork, LeaseHolder, LeaseSaved, LeaseWork, NoLeaseWork, LeaseResets

\* claim() starts afresh, or ends, each job that its sweep or its insert changes.
Tended(j, k) == IF k = j THEN Inserted(k) ELSE Swept(k)
Resets(j) == {k \in Jobs : Tended(j, k) # jobs[k]}

LEMMA TendedTyped ==
  ASSUME JobsOK, NEW j \in Jobs, NEW k \in Jobs
  PROVE  /\ Tended(j, k) \in JobRow
         /\ <<Tended(j, k).status, Tended(j, k).progress>> \in LeaseSaves
         /\ k \in Resets(j) => /\ <<Tended(j, k).status, Tended(j, k).progress>> \in LeaseResets
                               /\ Tended(j, k).token = Nobody
         /\ k \notin Resets(j) => Tended(j, k) = jobs[k]
<1>1. Tended(j, k) \in JobRow
  BY SweptTyped DEF Tended
<1>2. Tended(j, k).status \in {"none", "pending", "complete"} /\ Tended(j, k).progress \in 0..MaxProgress
  BY <1>1 DEF JobRow
<1>3. Tended(j, k) \in {jobs[k], NoJob, NewJob, Completed("hold")}
  BY SweptTyped DEF Tended
<1>4. k \in Resets(j) => Tended(j, k).progress = 0 /\ Tended(j, k).token = Nobody
  BY <1>3, JobRowsTyped DEF Resets, Results
<1> QED BY <1>1, <1>2, <1>4 DEF LeaseSaves, LeaseResets, Resets

LEMMA TakeTakes ==
  ASSUME JobsOK, NEW r \in Runners, NEW j \in Jobs, TakeJob(r, j)
  PROVE  JobLease!Take(r, j)
<1>t. /\ jobs \in [Jobs -> JobRow] /\ runners \in [Runners -> {NoResearch} \cup Research]
      /\ Inserted(j) \in JobRow /\ Tended(j, j) = Inserted(j) /\ Inserted(j).status = "pending"
  BY SweptTyped DEF JobsOK, Tended, TakeJob, Claimable
<1>1. PICK tries : jobs'[j] = [Inserted(j) EXCEPT !.token = r, !.leased = TRUE, !.attempts = tries]
  BY DEF TakeJob
<1>2. \A k \in Jobs \ {j} : jobs'[k] = Tended(j, k)
  BY DEF TakeJob, Tended
<1>3. /\ jobs'[j].status = "pending" /\ jobs'[j].token = r
      /\ jobs'[j].progress = Inserted(j).progress
  BY <1>t, <1>1 DEF JobRow
<1>4. PICK spent : runners'[r] = [pc |-> "research", job |-> j, spent |-> spent,
                                  seen |-> Inserted(j).progress]
  BY <1>t DEF TakeJob
<1>5. LeaseWork[r] = NoLeaseWork
  BY DEF TakeJob, LeaseWork, NoLeaseWork, NoResearch
<1>6. LeaseSaved' = [k \in Jobs |-> <<Tended(j, k).status, Tended(j, k).progress>>]
  <2>1. ASSUME NEW k \in Jobs
        PROVE  <<jobs'[k].status, jobs'[k].progress>> = <<Tended(j, k).status, Tended(j, k).progress>>
    BY <1>t, <1>2, <1>3
  <2> QED BY <2>1 DEF LeaseSaved
<1>7. LeaseSaved' \in [Jobs -> LeaseSaves]
  BY <1>6, TendedTyped
<1>8. LeaseWork' = [LeaseWork EXCEPT ![r] = [task |-> j, seen |-> LeaseSaved'[j]]]
  <2>1. LeaseSaved'[j] = <<"pending", Inserted(j).progress>>
    BY <1>t, <1>6
  <2>2. runners'[r].pc = "research" /\ runners'[r].job = j /\ runners'[r].seen = Inserted(j).progress
    BY <1>4
  <2>3. \A q \in Runners \ {r} : runners'[q] = runners[q]
    BY <1>t DEF TakeJob
  <2> QED BY <2>1, <2>2, <2>3 DEF LeaseWork
<1>9. \E R \in SUBSET Jobs :
        /\ \A k \in Jobs : IF k \in R THEN LeaseSaved'[k] \in LeaseResets
                                      ELSE LeaseSaved'[k] = LeaseSaved[k]
        /\ LeaseHolder' = [[k \in Jobs |-> IF k \in R THEN Nobody ELSE LeaseHolder[k]] EXCEPT ![j] = r]
  <2>1. Resets(j) \in SUBSET Jobs
    BY DEF Resets
  <2>2. ASSUME NEW k \in Jobs
        PROVE  IF k \in Resets(j) THEN LeaseSaved'[k] \in LeaseResets
                                  ELSE LeaseSaved'[k] = LeaseSaved[k]
    BY <1>6, TendedTyped DEF LeaseSaved
  <2>3. ASSUME NEW k \in Jobs
        PROVE  LeaseHolder'[k] = IF k = j THEN r
                                 ELSE IF k \in Resets(j) THEN Nobody ELSE LeaseHolder[k]
    <3>1. CASE k = j
      BY <1>3, <3>1 DEF LeaseHolder
    <3>2. CASE k # j
      <4>1. LeaseHolder'[k] = IF Tended(j, k).status = "pending" THEN Tended(j, k).token ELSE Nobody
        BY <1>2, <3>2 DEF LeaseHolder
      <4> QED BY <3>2, <4>1, TendedTyped DEF LeaseHolder
    <3> QED BY <3>1, <3>2
  <2>4. LeaseHolder' = [[k \in Jobs |-> IF k \in Resets(j) THEN Nobody ELSE LeaseHolder[k]] EXCEPT ![j] = r]
    BY <2>3 DEF LeaseHolder
  <2> QED BY <2>1, <2>2, <2>4
<1> QED
  BY <1>5, <1>7, <1>8, <1>9
  DEF JobLease!Take, JobLease!Reset, JobLease!Freed, JobLease!NoWork,
      LeaseHolder, LeaseSaved, LeaseWork, NoLeaseWork, LeaseSaves, LeaseResets

LEMMA DeniedRetires ==
  ASSUME JobsOK, NEW r \in Runners, NEW j \in Jobs, ClaimDenied(r, j)
  PROVE  \E R \in SUBSET Jobs : JobLease!Retire(R)
<1>1. \A k \in Jobs : jobs'[k] = Tended(j, k)
  BY DEF ClaimDenied, Tended
<1>2. LeaseSaved' = [k \in Jobs |-> <<Tended(j, k).status, Tended(j, k).progress>>]
  BY <1>1 DEF LeaseSaved
<1>3. LeaseSaved' \in [Jobs -> LeaseSaves]
  BY <1>2, TendedTyped
<1>4. ASSUME NEW k \in Jobs
      PROVE  IF k \in Resets(j) THEN LeaseSaved'[k] \in LeaseResets ELSE LeaseSaved'[k] = LeaseSaved[k]
  BY <1>2, TendedTyped DEF LeaseSaved
<1>5. ASSUME NEW k \in Jobs
      PROVE  LeaseHolder'[k] = IF k \in Resets(j) THEN Nobody ELSE LeaseHolder[k]
  <2>1. LeaseHolder'[k] = IF Tended(j, k).status = "pending" THEN Tended(j, k).token ELSE Nobody
    BY <1>1 DEF LeaseHolder
  <2> QED BY <2>1, TendedTyped DEF LeaseHolder
<1>6. LeaseHolder' = [k \in Jobs |-> IF k \in Resets(j) THEN Nobody ELSE LeaseHolder[k]]
  BY <1>5 DEF LeaseHolder
<1>7. LeaseWork' = LeaseWork
  <2>1. NoteOf(j).pc = "note" /\ runners[r].pc = "idle"
    BY NoteTyped DEF ClaimDenied, NoResearch
  <2>2. ASSUME NEW q \in Runners
        PROVE  runners'[q] = runners[q] \/ (runners'[q].pc = "note" /\ runners[q].pc = "idle")
    BY <2>1 DEF ClaimDenied, JobsOK
  <2>3. ASSUME NEW q \in Runners
        PROVE  LeaseWork'[q] = LeaseWork[q]
    BY <2>2 DEF LeaseWork
  <2> QED BY <2>3 DEF LeaseWork
<1>8. Resets(j) \in SUBSET Jobs
  BY DEF Resets
<1>9. \E R \in SUBSET Jobs :
        /\ LeaseSaved' \in [Jobs -> LeaseSaves]
        /\ \A k \in Jobs : IF k \in R THEN LeaseSaved'[k] \in LeaseResets
                                      ELSE LeaseSaved'[k] = LeaseSaved[k]
        /\ LeaseHolder' = [k \in Jobs |-> IF k \in R THEN Nobody ELSE LeaseHolder[k]]
        /\ LeaseWork' = LeaseWork
  BY <1>3, <1>4, <1>6, <1>7, <1>8
<1> QED
  BY <1>9
  DEF JobLease!Retire, JobLease!Reset, JobLease!Freed,
      LeaseHolder, LeaseSaved, LeaseWork, LeaseSaves, LeaseResets

\* What leaving is to the lease, and what a runner at work has there.
LEMMA AtWork ==
  ASSUME JobsOK, NEW r \in Runners, runners[r].pc = "research"
  PROVE  /\ runners[r].job \in Jobs /\ runners[r].job # Nobody
         /\ LeaseWork[r] = [task |-> runners[r].job, seen |-> <<"pending", runners[r].seen>>]
         /\ Owns(r) => /\ LeaseHolder[runners[r].job] = r
                       /\ LeaseSaved[runners[r].job] = LeaseWork[r].seen
         /\ runners'[r].pc # "research" /\ (\A q \in Runners \ {r} : runners'[q] = runners[q])
              => LeaseWork' = [LeaseWork EXCEPT ![r] = NoLeaseWork]
<1>1. runners[r].job \in Jobs /\ runners[r].job # Nobody
  BY ResearchTyped, DashJobsAssumption
<1>2. LeaseWork[r] = [task |-> runners[r].job, seen |-> <<"pending", runners[r].seen>>]
  BY DEF LeaseWork
<1>3. ASSUME Owns(r)
      PROVE  LeaseHolder[runners[r].job] = r /\ LeaseSaved[runners[r].job] = LeaseWork[r].seen
  BY <1>1, <1>2, <1>3 DEF Owns, LeaseHolder, LeaseSaved, JobsOK, HolderHasSeen
<1>4. ASSUME runners'[r].pc # "research", \A q \in Runners \ {r} : runners'[q] = runners[q]
      PROVE  LeaseWork' = [LeaseWork EXCEPT ![r] = NoLeaseWork]
  BY <1>4 DEF LeaseWork, NoLeaseWork
<1> QED BY <1>1, <1>2, <1>3, <1>4

LEMMA CheckpointCommits ==
  ASSUME JobsOK, NEW r \in Runners, Checkpoint(r), Owns(r)
  PROVE  JobLease!Commit(r)
<1> DEFINE j == runners[r].job
<1> DEFINE next == AtMost(runners[r].seen + 1, MaxProgress)
<1>t. /\ jobs \in [Jobs -> JobRow] /\ runners \in [Runners -> {NoResearch} \cup Research]
      /\ runners[r] \in Research /\ runners[r].pc = "research"
      /\ runners[r].seen \in 0..MaxProgress /\ j \in Jobs /\ jobs[j] \in JobRow
  BY ResearchTyped DEF JobsOK, Checkpoint
<1>1. /\ j # Nobody
      /\ LeaseWork[r] = [task |-> j, seen |-> <<"pending", runners[r].seen>>]
      /\ LeaseHolder[j] = r /\ LeaseSaved[j] = LeaseWork[r].seen
  BY <1>t, AtWork
<1>2. next \in 0..MaxProgress
  BY <1>t, DashJobsAssumption DEF AtMost
<1>3. /\ jobs' = [jobs EXCEPT ![j].progress = next]
      /\ runners' = [runners EXCEPT ![r].seen = next]
  BY DEF Checkpoint
<1> HIDE DEF next
<1>4. /\ jobs'[j].progress = next /\ jobs'[j].status = "pending" /\ jobs'[j].token = r
      /\ jobs[j].status = "pending" /\ jobs[j].token = r
      /\ \A k \in Jobs \ {j} : jobs'[k] = jobs[k]
  BY <1>t, <1>3 DEF JobRow, Owns
<1>5. /\ runners'[r].pc = "research" /\ runners'[r].job = j /\ runners'[r].seen = next
      /\ \A q \in Runners \ {r} : runners'[q] = runners[q]
  BY <1>t, <1>3 DEF Research
<1>6. <<"pending", next>> \in LeaseSaves
  BY <1>2 DEF LeaseSaves
<1>7. LeaseSaved' = [LeaseSaved EXCEPT ![j] = <<"pending", next>>]
  BY <1>t, <1>4 DEF LeaseSaved
<1>8. LeaseHolder' = LeaseHolder
  BY <1>t, <1>4 DEF LeaseHolder
<1>9. LeaseWork' = [LeaseWork EXCEPT ![r].seen = LeaseSaved'[j]]
  <2>1. LeaseSaved'[j] = <<"pending", next>>
    BY <1>t, <1>7 DEF LeaseSaved
  <2>2. LeaseWork'[r] = [task |-> j, seen |-> <<"pending", next>>]
    BY <1>5 DEF LeaseWork
  <2>3. \A q \in Runners \ {r} : LeaseWork'[q] = LeaseWork[q]
    BY <1>5 DEF LeaseWork
  <2>4. /\ LeaseWork' = [q \in Runners |-> LeaseWork'[q]]
        /\ LeaseWork = [q \in Runners |-> LeaseWork[q]]
    BY DEF LeaseWork
  <2> QED BY <1>1, <2>1, <2>2, <2>3, <2>4
<1> HIDE DEF j
<1> QED
  BY <1>1, <1>6, <1>7, <1>8, <1>9
  DEF JobLease!Commit, JobLease!NoWork, LeaseHolder, LeaseSaved, LeaseWork, NoLeaseWork, LeaseSaves

LEMMA FinishCommits ==
  ASSUME JobsOK, NEW r \in Runners, NEW result \in {"reply", "hold"}, FinishJob(r, result), Owns(r)
  PROVE  JobLease!Commit(r)
<1> DEFINE j == runners[r].job
<1>t. /\ jobs \in [Jobs -> JobRow] /\ runners \in [Runners -> {NoResearch} \cup Research]
      /\ runners[r].pc = "research" /\ j \in Jobs
  BY ResearchTyped DEF JobsOK, FinishJob
<1>1. /\ j # Nobody
      /\ LeaseWork[r] = [task |-> j, seen |-> <<"pending", runners[r].seen>>]
      /\ LeaseHolder[j] = r /\ LeaseSaved[j] = LeaseWork[r].seen
  BY <1>t, AtWork
<1>2. /\ jobs' = [jobs EXCEPT ![j] = Completed(result)]
      /\ runners' = [runners EXCEPT ![r] = IF result = "reply" THEN NoteOf(j) ELSE NoResearch]
  BY DEF FinishJob
<1>3. /\ jobs'[j].status = "complete" /\ jobs'[j].progress = 0
      /\ \A k \in Jobs \ {j} : jobs'[k] = jobs[k]
  BY <1>t, <1>2, JobRowsTyped DEF Results
<1>4. runners'[r].pc # "research" /\ \A q \in Runners \ {r} : runners'[q] = runners[q]
  BY <1>t, <1>2, NoteTyped DEF NoResearch
<1>5. <<"complete", 0>> \in LeaseSaves
  BY DashJobsAssumption DEF LeaseSaves
<1>6. LeaseSaved' = [LeaseSaved EXCEPT ![j] = <<"complete", 0>>]
  BY <1>t, <1>3 DEF LeaseSaved
<1>7. LeaseHolder' = [LeaseHolder EXCEPT ![j] = Nobody]
  BY <1>t, <1>3 DEF LeaseHolder
<1>8. LeaseWork' = [LeaseWork EXCEPT ![r] = NoLeaseWork]
  BY <1>t, <1>4, AtWork
<1> HIDE DEF j
<1> QED
  BY <1>1, <1>5, <1>6, <1>7, <1>8
  DEF JobLease!Commit, JobLease!NoWork, LeaseHolder, LeaseSaved, LeaseWork, NoLeaseWork, LeaseSaves

\* A runner that gives its job back, that lost it, or that crashes.
LEMMA LeavesStop ==
  ASSUME JobsOK, NEW r \in Runners, runners[r].pc = "research",
         Leave(r), UNCHANGED jobs \/ (ReleaseJob(r) /\ Owns(r))
  PROVE  JobLease!Stop(r)
<1> DEFINE j == runners[r].job
<1>t. /\ jobs \in [Jobs -> JobRow] /\ runners \in [Runners -> {NoResearch} \cup Research]
      /\ j \in Jobs /\ jobs[j] \in JobRow
  BY ResearchTyped DEF JobsOK
<1>1. runners'[r].pc # "research" /\ \A q \in Runners \ {r} : runners'[q] = runners[q]
  BY <1>t DEF Leave, NoResearch
<1>2. /\ j # Nobody
      /\ LeaseWork[r] = [task |-> j, seen |-> <<"pending", runners[r].seen>>]
      /\ LeaseWork' = [LeaseWork EXCEPT ![r] = NoLeaseWork]
  BY <1>1, AtWork
<1>3. LeaseSaved' = LeaseSaved
      /\ (LeaseHolder' = LeaseHolder
            \/ (LeaseHolder[j] = r /\ LeaseHolder' = [LeaseHolder EXCEPT ![j] = Nobody]))
  <2>1. CASE UNCHANGED jobs
    BY <2>1 DEF LeaseSaved, LeaseHolder
  <2>2. CASE ReleaseJob(r) /\ Owns(r)
    <3>1. jobs' = [jobs EXCEPT ![j] = [jobs[j] EXCEPT !.token = Nobody, !.leased = FALSE, !.due = FALSE]]
      BY <2>2 DEF ReleaseJob
    <3>2. /\ jobs'[j].status = jobs[j].status /\ jobs'[j].progress = jobs[j].progress
          /\ jobs'[j].token = Nobody
          /\ \A k \in Jobs \ {j} : jobs'[k] = jobs[k]
      BY <1>t, <3>1 DEF JobRow
    <3>3. LeaseHolder[j] = r
      BY <2>2, AtWork
    <3>4. LeaseSaved' = LeaseSaved
      BY <3>2 DEF LeaseSaved
    <3>5. LeaseHolder' = [LeaseHolder EXCEPT ![j] = Nobody]
      BY <1>t, <3>2 DEF LeaseHolder
    <3> QED BY <3>3, <3>4, <3>5
  <2> QED BY <2>1, <2>2
<1> HIDE DEF j
<1> QED
  BY <1>2, <1>3
  DEF JobLease!Stop, JobLease!NoWork, LeaseHolder, LeaseSaved, LeaseWork, NoLeaseWork

\* Notes, time and the senders are nothing to the lease.
LEMMA OthersStutter ==
  ASSUME JobsOK,
         \/ \E r \in Runners : (QueueNote(r) \/ RunnerCrash(r)) /\ runners[r].pc # "research"
         \/ \E j \in Jobs : LapseJob(j) \/ DueJob(j) \/ AgeJob(j)
         \/ UNCHANGED jobVars
  PROVE  UNCHANGED <<LeaseHolder, LeaseSaved, LeaseWork>>
<1>1. ASSUME NEW r \in Runners, QueueNote(r) \/ RunnerCrash(r), runners[r].pc # "research"
      PROVE  UNCHANGED <<LeaseHolder, LeaseSaved, LeaseWork>>
  <2>1. UNCHANGED jobs
    BY <1>1 DEF QueueNote, RunnerCrash
  <2>2. \A q \in Runners : runners'[q] = runners[q] \/ (runners'[q].pc # "research" /\ runners[q].pc # "research")
    BY <1>1 DEF QueueNote, RunnerCrash, Leave, JobsOK, NoResearch
  <2> QED BY <2>1, <2>2 DEF LeaseHolder, LeaseSaved, LeaseWork
<1>2. CASE \/ \E j \in Jobs : LapseJob(j) \/ DueJob(j) \/ AgeJob(j)
           \/ UNCHANGED jobVars
  BY <1>2, TimeKeepsRows DEF LeaseHolder, LeaseSaved, LeaseWork
<1> QED BY <1>1, <1>2

LEMMA StepImplements ==
  ASSUME JobsOK, [DashNext]_dashVars
  PROVE  [JobLease!Next]_<<LeaseHolder, LeaseSaved, LeaseWork>>
<1>1. CASE UNCHANGED dashVars
  BY <1>1, OthersStutter DEF dashVars
<1>2. ASSUME NEW r \in Runners, NEW j \in Jobs, TakeJob(r, j)
      PROVE  JobLease!Next
  BY <1>2, TakeTakes DEF JobLease!Next
<1>3. ASSUME NEW r \in Runners, NEW j \in Jobs, ClaimDenied(r, j)
      PROVE  JobLease!Next
  BY <1>3, DeniedRetires DEF JobLease!Next
<1>4. ASSUME NEW r \in Runners, Checkpoint(r) \/ EndPass(r) \/ RunnerCrash(r), runners[r].pc = "research"
      PROVE  JobLease!Next
  <2>1. CASE Checkpoint(r) /\ Owns(r)
    BY <2>1, CheckpointCommits DEF JobLease!Next
  <2>2. ASSUME NEW result \in {"reply", "hold"}, FinishJob(r, result), Owns(r)
        PROVE  JobLease!Next
    BY <2>2, FinishCommits DEF JobLease!Next
  <2>3. CASE Leave(r) /\ (UNCHANGED jobs \/ (ReleaseJob(r) /\ Owns(r)))
    BY <1>4, <2>3, LeavesStop DEF JobLease!Next
  <2> QED
    BY <1>4, <2>1, <2>2, <2>3 DEF Checkpoint, EndPass, ReleaseJob, FinishJob, QueueNote, RunnerCrash
<1>5. ASSUME NEW r \in Runners, Checkpoint(r) \/ EndPass(r) \/ RunnerCrash(r), runners[r].pc # "research"
      PROVE  UNCHANGED <<LeaseHolder, LeaseSaved, LeaseWork>>
  BY <1>5, OthersStutter DEF Checkpoint, EndPass, ReleaseJob, FinishJob
<1>6. CASE \/ \E j \in Jobs : LapseJob(j) \/ DueJob(j) \/ AgeJob(j)
           \/ UNCHANGED jobVars
  BY <1>6, OthersStutter
<1> QED
  BY <1>1, <1>2, <1>3, <1>4, <1>5, <1>6 DEF DashNext, JobsNext, ClaimJob

\* Jobs are leased work: a checkpoint or a result is saved only by the runner that
\* holds the job, on top of the progress it read, however leases lapse.
THEOREM JobsImplementLease == DashSpec => JobsAreLeased
<1>1. DashInv /\ [DashNext]_dashVars => [JobLease!Next]_<<LeaseHolder, LeaseSaved, LeaseWork>>
  BY StepImplements DEF DashInv
<1>2. [JobLease!Next]_<<LeaseHolder, LeaseSaved, LeaseWork>> =>
        [JobLease!Next]_<<[j \in Jobs |-> IF jobs[j].status = "pending" THEN jobs[j].token ELSE Nobody],
           [j \in Jobs |-> <<jobs[j].status, jobs[j].progress>>],
           [r \in Runners |-> IF runners[r].pc = "research"
                              THEN [task |-> runners[r].job, seen |-> <<"pending", runners[r].seen>>]
                              ELSE [task |-> Nobody, seen |-> Nobody]]>>
  BY DEF LeaseHolder, LeaseSaved, LeaseWork
<1> QED
  BY <1>1, <1>2, InitImplements, DashInvariant, PTL
  DEF DashSpec, JobsAreLeased, JobLease!Spec

\* The invariant contains the types.
LEMMA DashTypesFromInvariant == DashInv => DashTypeOK
BY DEF DashInv, OutboxInv, JobsOK, Research, DashTypeOK

-----------------------------------------------------------------------------
(***************************************************************************)
(* The parts side by side (MCParts).  A step of the whole is a step of one *)
(* part and leaves the others alone, so that their invariants hold         *)
(* together.                                                               *)
(***************************************************************************)
\* In "posts" and "race" the outbox goes on and the desk rests.
OutboxOrDash == DashNext \/ (OutboxNext /\ UNCHANGED jobVars)

LEMMA OutboxStepKeepsDash ==
  ASSUME DashInv, [OutboxNext]_outboxVars, UNCHANGED jobVars
  PROVE  DashInv' /\ UNCHANGED <<LeaseHolder, LeaseSaved, LeaseWork>>
<1>1. OutboxInv'
  BY OutboxInvIsInductive DEF DashInv
<1>2. JobsOK'
  BY OthersKeepJobs DEF DashInv
<1>3. ResultHasPost'
  <2>1. UNCHANGED jobs
    BY DEF jobVars
  <2> QED BY <2>1, PostsStay, DashJobsAssumption DEF DashInv, ResultHasPost
<1>4. UNCHANGED <<LeaseHolder, LeaseSaved, LeaseWork>>
  BY OthersStutter DEF DashInv
<1> QED BY <1>1, <1>2, <1>3, <1>4 DEF DashInv

LEMMA OutboxOrDashKeepsDash ==
  ASSUME DashInv, [OutboxOrDash]_dashVars
  PROVE  DashInv' /\ [JobLease!Next]_<<LeaseHolder, LeaseSaved, LeaseWork>>
<1>1. CASE [DashNext]_dashVars
  BY <1>1, DashInvIsInductive, StepImplements DEF DashInv
<1>2. CASE OutboxNext /\ UNCHANGED jobVars
  BY <1>2, OutboxStepKeepsDash
<1> QED BY <1>1, <1>2 DEF OutboxOrDash

PartSteps ==
  /\ [OutboxOrDash]_dashVars
  /\ [ReplayNext]_replayVars
  /\ [BudgetNext]_budgetVars
  /\ [WalletNext]_walletVars
  /\ [ReportsNext \/ AnswerUnheard]_reportVars
  /\ [RotationNext]_latest
  /\ [ClaimsNext]_claimVars
  /\ [FlashNext]_flashVars

LEMMA PartsStep == [PartsNext]_partVars => PartSteps
<1> SUFFICES ASSUME [PartsNext]_partVars PROVE PartSteps
  OBVIOUS
<1>1. CASE PostsStep
  BY <1>1 DEF PostsStep, InPosts, PartSteps, OutboxOrDash
<1>2. CASE AnswersStep
  BY <1>2 DEF AnswersStep, InAnswers, PartSteps, OutboxOrDash
<1>3. CASE ReplaysStep
  BY <1>3 DEF ReplaysStep, InReplays, PartSteps
<1>4. CASE BudgetStep
  BY <1>4 DEF BudgetStep, InBudget, PartSteps
<1>5. CASE WalletsStep
  BY <1>5 DEF WalletsStep, InWallets, PartSteps
<1>6. CASE ReportsStep
  BY <1>6 DEF ReportsStep, InReports, PartSteps
<1>7. CASE RotationsStep
  BY <1>7 DEF RotationsStep, InRotations, PartSteps
<1>8. CASE ClaimsStep
  BY <1>8 DEF ClaimsStep, InClaims, PartSteps
<1>9. CASE BetsStep
  BY <1>9 DEF BetsStep, InBets, PartSteps
<1>10. CASE UNCHANGED partVars
  BY <1>10 DEF partVars, PartSteps
<1> QED
  BY <1>1, <1>2, <1>3, <1>4, <1>5, <1>6, <1>7, <1>8, <1>9, <1>10 DEF PartsNext

PartsInv ==
  /\ DashInv /\ ReplayInv /\ BudgetInv /\ WalletInv /\ ReportsInv
  /\ RotationInv /\ ClaimsInv /\ ClaimsTypeOK /\ FlashInv

LEMMA InitPartsInv == PartsInit => PartsInv
BY InitDashInv, InitReplayInv, InitBudgetInv, InitWalletInv, InitReportsInv,
   InitRotationInv, InitClaimsInv, InitClaimsType, InitFlashInv
DEF PartsInit, PartsInv

LEMMA PartsInvIsInductive == PartsInv /\ PartSteps => PartsInv'
<1> SUFFICES ASSUME PartsInv, PartSteps PROVE PartsInv'
  OBVIOUS
<1>1. DashInv'
  BY OutboxOrDashKeepsDash DEF PartsInv, PartSteps
<1>2. ReplayInv' /\ BudgetInv' /\ WalletInv' /\ ReportsInv'
  BY ReplayInvIsInductive, BudgetInvIsInductive, WalletInvIsInductive, ReportsInvIsInductive
  DEF PartsInv, PartSteps
<1>3. RotationInv' /\ FlashInv'
  BY RotationInvIsInductive, FlashInvIsInductive DEF PartsInv, PartSteps
<1>4. ClaimsInv' /\ ClaimsTypeOK'
  BY ClaimsInvIsInductive, ClaimsTypeIsInductive DEF PartsInv, PartSteps
<1> QED BY <1>1, <1>2, <1>3, <1>4 DEF PartsInv

\* Whichever part runs, the invariants of all of them hold: nothing that one does
\* is seen by another.
THEOREM PartsInvariant == PartsSpec => []PartsInv
BY InitPartsInv, PartsStep, PartsInvIsInductive, PTL DEF PartsSpec

\* Every row of every part keeps its type and its bounds, for any numbers of them:
\* no reservation of the budget is given back twice, and no more claims are stored
\* than there is room for, each once.
THEOREM RowsAlwaysFit == PartsSpec => []RowsFit
<1>1. PartsInv => RowsFit
  BY TypesFromInvariants, DashTypesFromInvariant DEF PartsInv, RotationInv, RowsFit
<1> QED BY <1>1, PartsInvariant, PTL

\* Desk jobs, replays and wallet histories are leased work, whatever else goes on:
\* what is saved of one is saved by the worker that holds it, on top of what it
\* has read, however leases lapse, workers crash and come late.
THEOREM WorkIsAlwaysLeased == PartsSpec => WorkIsLeased
<1>1. PartsInit => JobLease!Init /\ ReplayLease!Init /\ WalletLease!Init
  BY InitImplements, ReplayInitImplements, WalletInitImplements DEF PartsInit
<1>2. PartsInv /\ PartSteps =>
        /\ [JobLease!Next]_<<LeaseHolder, LeaseSaved, LeaseWork>>
        /\ [ReplayLease!Next]_<<ReplayHolder, ReplaySaved, ReplayWork>>
        /\ [WalletLease!Next]_<<WalletHolder, WalletSaved, WalletWork>>
  BY OutboxOrDashKeepsDash, ReplayStepImplements, WalletStepImplements DEF PartsInv, PartSteps
<1>3. [JobLease!Next]_<<LeaseHolder, LeaseSaved, LeaseWork>> =>
        [JobLease!Next]_<<[j \in Jobs |-> IF jobs[j].status = "pending" THEN jobs[j].token ELSE Nobody],
           [j \in Jobs |-> <<jobs[j].status, jobs[j].progress>>],
           [r \in Runners |-> IF runners[r].pc = "research"
                              THEN [task |-> runners[r].job, seen |-> <<"pending", runners[r].seen>>]
                              ELSE [task |-> Nobody, seen |-> Nobody]]>>
  BY DEF LeaseHolder, LeaseSaved, LeaseWork
<1>4. [ReplayLease!Next]_<<ReplayHolder, ReplaySaved, ReplayWork>> =>
        [ReplayLease!Next]_<<[c \in Coins |-> cases[c].token], [c \in Coins |-> cases[c].processed],
           [r \in Renderers |-> [task |-> renderers[r].coin,
              seen |-> IF renderers[r] = NoReplay THEN NoToken ELSE renderers[r].base]]>>
  BY DEF ReplayHolder, ReplaySaved, ReplayWork
<1>5. [WalletLease!Next]_<<WalletHolder, WalletSaved, WalletWork>> =>
        [WalletLease!Next]_<<[w \in Wallets |-> wallets[w].token], [w \in Wallets |-> wallets[w].cursor],
           [r \in Readers |-> [task |-> readers[r].wallet,
              seen |-> IF readers[r] = NotReading THEN NoReader ELSE readers[r].cursor]]>>
  BY DEF WalletHolder, WalletSaved, WalletWork
<1> QED
  BY <1>1, <1>2, <1>3, <1>4, <1>5, PartsStep, PartsInvariant, PTL
  DEF PartsSpec, WorkIsLeased, JobLease!Spec, ReplayLease!Spec, WalletLease!Spec

\* What each part promises holds in the whole: stakes, posts and answers, replays,
\* the budget, reports, identities and withdrawn claims, as their modules state it.
THEOREM PartsKeepPromises ==
  PartsSpec => [](/\ StakesKept /\ PostsTruthful /\ ReplayUpToDate /\ BudgetKept
                  /\ NothingLost /\ ContinuityAgrees /\ WithdrawnStays)
<1>1. PartsInv => StakesKept /\ ReplayUpToDate /\ BudgetKept /\ NothingLost
  BY DEF PartsInv, FlashInv, ReplayInv, BudgetInv, ReportsInv
<1>2. PartsInv => PostsTruthful
  BY DEF PartsInv, DashInv, OutboxInv, PostTruthful, OutboxTruthful, PostsTruthful
<1>3. PartsInv => ContinuityAgrees /\ WithdrawnStays
  BY AgreesFromInv, WithdrawnFromInv DEF PartsInv
<1> QED BY <1>1, <1>2, <1>3, PartsInvariant, PTL
=============================================================================
