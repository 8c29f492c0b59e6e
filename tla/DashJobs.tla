------------------------------ MODULE DashJobs ------------------------------
(***************************************************************************)
(* Research jobs of the Dash desk (src/src/runner_web/dash_jobs.py) as     *)
(* run_research() of dash_research.py drives them, on top of the outbox.   *)
(*                                                                         *)
(* A job is leased for five minutes and the lease is not renewed, so a     *)
(* runner may find at any checkpoint, or at the end, that another runner   *)
(* has its job.  A desk job's answer goes to the outbox with its result.   *)
(***************************************************************************)
EXTENDS TelegramOutbox

CONSTANTS
  Jobs,         \* desk jobs
  Runners,      \* processes in run_research
  AnswerOf,     \* the card of each job's answer
  MaxProgress,  \* checkpoints of a job (bound)
  Nobody

ASSUME DashJobsAssumption ==
  /\ AnswerOf \in [Jobs -> Posts]
  /\ \A j, k \in Jobs : AnswerOf[j] = AnswerOf[k] => j = k
  /\ MaxProgress \in Nat
  /\ Nobody \notin Jobs \cup Runners

VARIABLES
  jobs,    \* rows of dash_research_jobs
  runners  \* the run_research call of each process

jobVars == <<jobs, runners>>
dashVars == <<outboxVars, jobVars>>

-----------------------------------------------------------------------------
MAX_ATTEMPTS == 3
Results == {"none", "reply", "hold"}
JobRow == [status : {"none", "pending", "complete"}, token : Runners \cup {Nobody},
           leased : BOOLEAN,  \* lease_until is ahead
           due : BOOLEAN,     \* next_at is past
           old : BOOLEAN,     \* pending for a day, or complete for two weeks
           attempts : 0..MAX_ATTEMPTS + 1, progress : 0..MaxProgress, result : Results]
NoJob == [status |-> "none", token |-> Nobody, leased |-> FALSE, due |-> TRUE, old |-> FALSE,
          attempts |-> 0, progress |-> 0, result |-> "none"]
NewJob == [NoJob EXCEPT !.status = "pending"]
NoResearch == [pc |-> "idle", job |-> Nobody, spent |-> "some", seen |-> 0]

NoteOf(j) == [NoResearch EXCEPT !.pc = "note", !.job = j]

DashTypeOK ==
  /\ OutboxTypeOK
  /\ jobs \in [Jobs -> JobRow]
  /\ runners \in [Runners -> {NoResearch} \cup
                    [pc : {"research", "note"}, job : Jobs,
                     spent : {"some", "last", "all"}, seen : 0..MaxProgress]]

DashInit ==
  /\ OutboxInit
  /\ jobs = [j \in Jobs |-> NoJob]
  /\ runners = [r \in Runners |-> NoResearch]

\* The rest of a complete row does not matter any more.
Completed(result) == [NoJob EXCEPT !.status = "complete", !.result = result]

\* claim() first sweeps the table: it ends a job that nobody finished in a day
\* and drops what has been complete for two weeks.
Swept(j) ==
  LET row == jobs[j] IN
  CASE row.status = "pending" /\ row.old /\ ~row.leased -> Completed("hold")
    [] row.status = "complete" /\ row.old -> NoJob
    [] OTHER -> row
Inserted(j) == IF Swept(j).status = "none" THEN NewJob ELSE Swept(j)

Claimable(j) ==
  Inserted(j).status = "pending" /\ Inserted(j).due /\ ~Inserted(j).leased

AtMost(n, limit) == IF n < limit THEN n ELSE limit

TakeJob(r, j) ==
  LET tries == AtMost(Inserted(j).attempts + 1, MAX_ATTEMPTS + 1)
      spent == CASE tries < MAX_ATTEMPTS -> "some" [] tries = MAX_ATTEMPTS -> "last" [] OTHER -> "all"
  IN
  /\ runners[r] = NoResearch
  /\ Claimable(j)
  /\ jobs' = [k \in Jobs |->
                IF k = j
                THEN [Inserted(j) EXCEPT !.token = r, !.leased = TRUE, !.attempts = tries]
                ELSE Swept(k)]
  /\ runners' = [runners EXCEPT ![r] = [pc |-> "research", job |-> j, spent |-> spent,
                                        seen |-> Inserted(j).progress]]
  /\ UNCHANGED outboxVars

\* A job that is complete gives its result again; one that is not to be had
\* is tried later.
ClaimDenied(r, j) ==
  /\ runners[r] = NoResearch
  /\ ~Claimable(j)
  /\ jobs' = [k \in Jobs |-> IF k = j THEN Inserted(k) ELSE Swept(k)]
  /\ runners' = [runners EXCEPT ![r] =
                   IF Inserted(j).result = "reply"
                   THEN NoteOf(j) ELSE @]
  /\ UNCHANGED outboxVars

Owns_Pending(r) == jobs[runners[r].job].status = "pending"
Owns(r) ==
  LET row == jobs[runners[r].job] IN row.token = r /\ row.status = "pending"
Leave(r) == runners' = [runners EXCEPT ![r] = NoResearch]

\* A runner whose lease changed stops; its release() changes nothing either.
Checkpoint(r) ==
  LET j == runners[r].job
      next == AtMost(runners[r].seen + 1, MaxProgress)
  IN
  /\ runners[r].pc = "research"
  /\ runners[r].spent # "all"
  /\ IF Owns(r)
     THEN /\ jobs' = [jobs EXCEPT ![j].progress = next]
          /\ runners' = [runners EXCEPT ![r].seen = next]
     ELSE Leave(r) /\ UNCHANGED jobs
  /\ UNCHANGED outboxVars

\* release(): an exception or an incomplete pass, and attempts are left.
ReleaseJob(r) ==
  LET j == runners[r].job IN
  /\ runners[r].pc = "research"
  /\ runners[r].spent = "some"
  /\ jobs' = IF Owns(r)
             THEN [jobs EXCEPT ![j].token = Nobody, ![j].leased = FALSE, ![j].due = FALSE]
             ELSE jobs
  /\ Leave(r)
  /\ UNCHANGED outboxVars

\* finish(): the result, the notes and the card, or nothing of them.  After
\* the last attempt the result is a hold or an apology.
FinishJob(r, result) ==
  LET j == runners[r].job IN
  /\ runners[r].pc = "research"
  /\ IF Owns(r)
     THEN /\ jobs' = [jobs EXCEPT ![j] = Completed(result)]
          /\ outbox' = IF result = "reply" THEN enqueue_cards({AnswerOf[j]}) ELSE outbox
          /\ runners' = [runners EXCEPT ![r] = IF result = "reply" THEN NoteOf(j) ELSE NoResearch]
     ELSE Leave(r) /\ UNCHANGED <<jobs, outbox>>
  /\ UNCHANGED <<history, channel, senders, posted>>

\* post_dash_desk_note() queues the answer that it was given once more.
QueueNote(r) ==
  /\ runners[r].pc = "note"
  /\ outbox' = enqueue_cards({AnswerOf[runners[r].job]})
  /\ Leave(r)
  /\ UNCHANGED <<history, channel, senders, posted, jobs>>

RunnerCrash(r) ==
  /\ runners[r] # NoResearch
  /\ Leave(r)
  /\ UNCHANGED <<outboxVars, jobs>>

\* Time: five minutes, one minute, a day or two weeks have passed.
LapseJob(j) ==
  /\ jobs[j].leased
  /\ jobs' = [jobs EXCEPT ![j].leased = FALSE]
  /\ UNCHANGED <<outboxVars, runners>>
DueJob(j) ==
  /\ jobs' = [jobs EXCEPT ![j].due = TRUE]
  /\ UNCHANGED <<outboxVars, runners>>
AgeJob(j) ==
  /\ jobs[j].status # "none"
  /\ jobs' = [jobs EXCEPT ![j].old = TRUE]
  /\ UNCHANGED <<outboxVars, runners>>

ClaimJob(r) == \E j \in Jobs : TakeJob(r, j) \/ ClaimDenied(r, j)
EndPass(r) == ReleaseJob(r) \/ (\E result \in {"reply", "hold"} : FinishJob(r, result)) \/ QueueNote(r)

JobsNext ==
  \/ \E r \in Runners : ClaimJob(r) \/ Checkpoint(r) \/ EndPass(r) \/ RunnerCrash(r)
  \/ \E j \in Jobs : LapseJob(j) \/ DueJob(j) \/ AgeJob(j)

\* The answers are delivered meanwhile; TelegramOutbox has what time does to them.
DashNext ==
  \/ JobsNext
  \/ \E s \in Senders : (Deliver(s) \/ SenderCrash(s)) /\ UNCHANGED jobVars

-----------------------------------------------------------------------------
\* Runners come by, end their passes or crash, and time passes.
DashFairness ==
  /\ \A r \in Runners : WF_dashVars(ClaimJob(r)) /\ WF_dashVars(EndPass(r))
  /\ \A j \in Jobs : WF_dashVars(LapseJob(j)) /\ WF_dashVars(AgeJob(j))

DashSpec == DashInit /\ [][DashNext]_dashVars /\ DashFairness

\* "atomic handoff to Telegram's outbox" (dash_jobs.py:1): a job is never
\* complete with a reply that is in no post.
ResultHasPost ==
  \A j \in Jobs : jobs[j].result = "reply" => outbox[AnswerOf[j]].status # "none"

\* The posts of the outbox are truthful, those of the desk's answers too, and
\* no answer is without its post.
PostsTruthful == OutboxTruthful /\ ResultHasPost

\* Jobs are leased work: checkpoints and results are saved only by the runner
\* that holds the job, on top of the progress it read.
JobLease == INSTANCE LeasedWork WITH
  Tasks <- Jobs, Holders <- Runners,
  Saves <- {"none", "pending", "complete"} \X (0..MaxProgress),
  Resets <- {"none", "pending", "complete"} \X {0},
  holder <- [j \in Jobs |-> IF jobs[j].status = "pending" THEN jobs[j].token ELSE Nobody],
  saved <- [j \in Jobs |-> <<jobs[j].status, jobs[j].progress>>],
  work <- [r \in Runners |-> IF runners[r].pc = "research"
                             THEN [task |-> runners[r].job, seen |-> <<"pending", runners[r].seen>>]
                             ELSE [task |-> Nobody, seen |-> Nobody]]
JobsAreLeased == JobLease!Spec

\* Every job comes to an end, if only because "research_expired": a crash of
\* each of its runners does not keep it pending.
JobPending(j) == jobs[j].status = "pending"
JobsEnd == \A j \in Jobs : JobPending(j) ~> ~JobPending(j)
=============================================================================
