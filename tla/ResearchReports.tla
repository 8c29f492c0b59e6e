-------------------------- MODULE ResearchReports --------------------------
(***************************************************************************)
(* Paid research reports: the web process that charges and queues them,    *)
(* the Redis queue with its list of jobs in work per worker                *)
(* (src/src/runner_web/shared_state.py), and the workers that write them   *)
(* (research_job_worker() and _run_research_commission() of main.py).      *)
(*                                                                         *)
(* A worker keeps its name over restarts (FLY_MACHINE_ID).  Its list is    *)
(* put back by itself when it starts, and by another worker that finds it  *)
(* among the members without a lease.  A worker that is told to stop takes *)
(* no new job, but its calls to Redis and its report are threads, which    *)
(* nothing interrupts: they go on until they are over or the process ends. *)
(***************************************************************************)
EXTENDS Sequences, SequencesExt

CONSTANTS
  Reports,
  Workers,   \* names of worker processes (WORKER_INSTANCE_ID)
  MaxStops,  \* processes that end, and leases that run out under one that has not (bound)
  NoReport

ASSUME ResearchReportsAssumption ==
  /\ MaxStops \in Nat
  /\ NoReport \notin Reports

VARIABLES
  reports,     \* rows of research_commissions, and the order's place in the web process
  queue,       \* the Redis list of jobs: pushed left, popped right
  processing,  \* the Redis list of each worker's jobs
  members,     \* the Redis set of workers
  leased,      \* whose lease key is there
  workers,     \* the worker processes
  stops        \* how often one has ended, or missed the end of its lease

redisVars == <<queue, processing, members, leased>>
reportVars == <<reports, redisVars, workers, stops>>

-----------------------------------------------------------------------------
Unordered == [status |-> "none", refunded |-> FALSE, web |-> "none"]
Off == [pc |-> "off", job |-> NoReport, mine |-> <<>>, peers |-> {}, stop |-> "no"]
WorkerPcs == {"off", "start", "idle", "poll", "pop", "read", "work", "ack"}
Going(w) == workers[w].stop = "no"
Rests(w) == workers' = [workers EXCEPT ![w] = [Off EXCEPT !.pc = "idle", !.stop = workers[w].stop]]

ReportsTypeOK ==
  /\ reports \in [Reports -> [status : {"none", "running", "complete", "failed"},
                              refunded : BOOLEAN,
                              web : {"none", "created", "refused", "unheard", "queued", "gone"}]]
  /\ queue \in Seq(Reports)
  /\ processing \in [Workers -> Seq(Reports)]
  /\ members \subseteq Workers /\ leased \subseteq Workers
  /\ workers \in [Workers -> [pc : WorkerPcs, job : Reports \cup {NoReport},
                              mine : Seq(Reports), peers : SUBSET Workers,
                              stop : {"no", "told", "released"}]]
  /\ stops \in 0..MaxStops

ReportsInit ==
  /\ reports = [c \in Reports |-> Unordered]
  /\ queue = <<>>
  /\ processing = [w \in Workers |-> <<>>]
  /\ members = {} /\ leased = {}
  /\ workers = [w \in Workers |-> Off]
  /\ stops = 0

-----------------------------------------------------------------------------
\* The web process.

\* The charge and the row are one transaction.
CreateReport(c) ==
  /\ reports[c].status = "none"
  /\ reports' = [reports EXCEPT ![c].status = "running", ![c].web = "created"]
  /\ UNCHANGED <<redisVars, workers, stops>>

\* Failing a report gives its price back, once for each report.
Failed(c) == [reports[c] EXCEPT !.status = "failed", !.refunded = TRUE]

Handed(c) == reports[c].web \in {"unheard", "queued"}

enqueue_research_job(c) ==
  /\ reports[c].web \in {"created", "unheard"}
  /\ queue' = <<c>> \o queue
  /\ reports' = [reports EXCEPT ![c].web = "queued"]
  /\ UNCHANGED <<processing, members, leased, workers, stops>>

EnqueueFails(c) ==
  /\ reports[c].web = "created"
  /\ reports' = [reports EXCEPT ![c].web = "refused"]
  /\ UNCHANGED <<redisVars, workers, stops>>

\* Redis has the job and the web process does not hear of it: the client pushes
\* once more, or gives up.
EnqueueUnheard(c) ==
  /\ reports[c].web = "created"
  /\ queue' = <<c>> \o queue
  /\ reports' = [reports EXCEPT ![c].web = "unheard"]
  /\ UNCHANGED <<processing, members, leased, workers, stops>>

\* The web process is done with the report; its job is in Redis, or is not.
Left(c) == IF Handed(c) THEN "queued" ELSE "gone"

\* A transaction of its own, which does not look at the status.
FailEnqueue(c) ==
  /\ reports[c].web \in {"refused", "unheard"}
  /\ reports' = [reports EXCEPT ![c] = [Failed(c) EXCEPT !.web = Left(c)]]
  /\ UNCHANGED <<redisVars, workers, stops>>

\* A report that was charged and not queued stays "running".
WebCrash(c) ==
  /\ reports[c].web \in {"created", "refused", "unheard"}
  /\ reports' = [reports EXCEPT ![c].web = Left(c)]
  /\ UNCHANGED <<redisVars, workers, stops>>

-----------------------------------------------------------------------------
\* A worker.
Goto(w, pc) == workers' = [workers EXCEPT ![w].pc = pc]
touch_research_worker(w) ==
  /\ members' = members \cup {w}
  /\ leased' = leased \cup {w}
Drop(s, c) == IF Contains(s, c) THEN RemoveFirst(s, c) ELSE s

\* recover_research_jobs() reads its own list first,
ReadLists(w) ==
  workers' = [workers EXCEPT ![w].pc = "start", ![w].mine = processing[w], ![w].peers = members \ {w}]
StartWorker(w) ==
  /\ workers[w].pc = "off"
  /\ ReadLists(w)
  /\ UNCHANGED <<reports, redisVars, stops>>

\* then looks at every other worker, here and before each job: the script puts
\* the list of one without a lease back and forgets the worker.
RecoverPeer(w, p) ==
  /\ workers[w].pc \in {"start", "poll"}
  /\ p \in workers[w].peers
  /\ workers' = [workers EXCEPT ![w].peers = @ \ {p}]
  /\ IF p \in leased
     THEN UNCHANGED <<queue, processing, members>>
     ELSE /\ queue' = queue \o processing[p]
          /\ processing' = [processing EXCEPT ![p] = <<>>]
          /\ members' = members \ {p}
  /\ UNCHANGED <<reports, leased, stops>>

\* and puts back what it read, whether it is still in the list or not.
Requeue(w) ==
  LET c == Head(workers[w].mine) IN
  /\ workers[w].pc = "start" /\ workers[w].peers = {} /\ workers[w].mine # <<>>
  /\ processing' = [processing EXCEPT ![w] = Drop(@, c)]
  /\ queue' = Append(queue, c)
  /\ workers' = [workers EXCEPT ![w].mine = Tail(@)]
  /\ UNCHANGED <<reports, members, leased, stops>>

Recovered(w) ==
  /\ workers[w].pc = "start" /\ workers[w].peers = {} /\ workers[w].mine = <<>>
  /\ touch_research_worker(w)
  /\ Goto(w, "idle")
  /\ UNCHANGED <<reports, queue, processing, stops>>

\* dequeue_research_job()
Poll(w) ==
  /\ workers[w].pc = "idle" /\ Going(w)
  /\ workers' = [workers EXCEPT ![w].pc = "poll", ![w].peers = members \ {w}]
  /\ UNCHANGED <<reports, redisVars, stops>>

TouchToPop(w) ==
  /\ workers[w].pc = "poll" /\ workers[w].peers = {}
  /\ touch_research_worker(w)
  /\ Goto(w, "pop")
  /\ UNCHANGED <<reports, queue, processing, stops>>

PopTo_Unlisted(w, pc, job) ==
  /\ workers[w].pc = "pop" /\ queue # <<>>
  /\ queue' = Front(queue)
  /\ workers' = [workers EXCEPT ![w].pc = pc, ![w].job = job]
  /\ UNCHANGED <<reports, processing, members, leased, stops>>
PopTo(w, pc, job) ==
  /\ workers[w].pc = "pop" /\ queue # <<>>
  /\ queue' = Front(queue)
  /\ processing' = [processing EXCEPT ![w] = <<Last(queue)>> \o @]
  /\ workers' = [workers EXCEPT ![w].pc = pc, ![w].job = job]
  /\ UNCHANGED <<reports, members, leased, stops>>
Pop(w) == Going(w) /\ PopTo(w, "read", Last(queue))

\* Nobody takes the answer of the thread of a worker that is told to stop: the
\* job is in its list, whether it is a member or was forgotten meanwhile.
PopInVain(w) == ~Going(w) /\ PopTo(w, "idle", NoReport)

PopNothing(w) ==
  /\ workers[w].pc = "pop" /\ queue = <<>>
  /\ Goto(w, "idle")
  /\ UNCHANGED <<reports, redisVars, stops>>

\* The connection breaks: the job is in the worker's list, and the worker, which
\* goes on, does not know.
PopUnheard(w) == Going(w) /\ PopTo(w, "idle", NoReport)

\* Redis refuses: what the worker was at begins anew.
RedisFails(w) ==
  /\ \/ workers[w].pc = "start" /\ Going(w) /\ ReadLists(w)
     \/ workers[w].pc \in {"poll", "pop"} /\ Rests(w)
  /\ UNCHANGED <<reports, redisVars, stops>>

\* A job is acknowledged by a worker that goes on.
Finishes(w) == IF Going(w) THEN Goto(w, "ack") ELSE Rests(w)

\* _run_research_commission() works on a report that is running when it looks,
ReadStatus(w) ==
  /\ workers[w].pc = "read"
  /\ IF reports[workers[w].job].status = "running" THEN Goto(w, "work") ELSE Finishes(w)
  /\ UNCHANGED <<reports, redisVars, stops>>

\* and stores what came of it without looking again.
Store(w, row) ==
  /\ workers[w].pc = "work"
  /\ reports' = [reports EXCEPT ![workers[w].job] = row]
  /\ Finishes(w)
  /\ UNCHANGED <<redisVars, stops>>
CompleteReport(w) == Store(w, [reports[workers[w].job] EXCEPT !.status = "complete"])
FailReport(w) == Store(w, Failed(workers[w].job))

Acknowledge(w) ==
  /\ workers[w].pc = "ack"
  /\ processing' = [processing EXCEPT ![w] = Drop(@, workers[w].job)]
  /\ Rests(w)
  /\ UNCHANGED <<reports, queue, members, leased, stops>>

AcknowledgeFails(w) ==
  /\ workers[w].pc = "ack"
  /\ Rests(w)
  /\ UNCHANGED <<reports, redisVars, stops>>

\* The heartbeat is a thread too.
Heartbeat(w) ==
  /\ workers[w].pc # "off"
  /\ touch_research_worker(w)
  /\ UNCHANGED <<reports, queue, processing, workers, stops>>

Kill(w) ==
  /\ workers[w].pc # "off" /\ Going(w)
  /\ stops < MaxStops
  /\ stops' = stops + 1
  /\ workers' = [workers EXCEPT ![w] = Off]
  /\ UNCHANGED <<reports, redisVars>>

\* SIGTERM cancels the tasks, then gives the lease up if Redis answers, and the
\* process ends with its threads, or is killed after kill_timeout.
Shutdown(w) ==
  /\ workers[w].pc # "off" /\ Going(w)
  /\ stops < MaxStops
  /\ stops' = stops + 1
  /\ workers' = [workers EXCEPT ![w].stop = "told"]
  /\ UNCHANGED <<reports, redisVars>>

release_research_worker(w) ==
  /\ workers[w].stop = "told"
  /\ leased' = leased \ {w}
  /\ workers' = [workers EXCEPT ![w].stop = "released"]
  /\ UNCHANGED <<reports, queue, processing, members, stops>>

EndProcess(w) ==
  /\ ~Going(w)
  /\ workers' = [workers EXCEPT ![w] = Off]
  /\ UNCHANGED <<reports, redisVars, stops>>

\* The lease key of a process that has ended, or not yet begun, expires,
LapseWorker(w) ==
  /\ w \in leased /\ workers[w].pc \in {"off", "start"}
  /\ leased' = leased \ {w}
  /\ UNCHANGED <<reports, queue, processing, members, workers, stops>>

\* or that of one at work: that its heartbeats fail is only logged.
HeartbeatsFail(w) ==
  /\ w \in leased /\ workers[w].pc \notin {"off", "start"}
  /\ stops < MaxStops
  /\ stops' = stops + 1
  /\ leased' = leased \ {w}
  /\ UNCHANGED <<reports, queue, processing, members, workers>>

Work(w) ==
  \/ StartWorker(w) \/ Requeue(w) \/ Recovered(w)
  \/ \E p \in Workers : RecoverPeer(w, p)
  \/ Poll(w) \/ TouchToPop(w) \/ Pop(w) \/ PopInVain(w) \/ PopNothing(w)
  \/ ReadStatus(w) \/ CompleteReport(w) \/ FailReport(w)
  \/ Acknowledge(w) \/ AcknowledgeFails(w) \/ EndProcess(w)

ReportsNext ==
  \/ \E c \in Reports :
       CreateReport(c) \/ enqueue_research_job(c) \/ EnqueueFails(c) \/ FailEnqueue(c) \/ WebCrash(c)
  \/ \E w \in Workers :
       \/ Work(w) \/ Heartbeat(w) \/ Kill(w) \/ Shutdown(w) \/ release_research_worker(w)
       \/ LapseWorker(w) \/ HeartbeatsFail(w)

\* Redis carries a command out and its answer is lost, or refuses it.
AnswerUnheard ==
  \/ \E c \in Reports : EnqueueUnheard(c)
  \/ \E w \in Workers : PopUnheard(w) \/ RedisFails(w)

-----------------------------------------------------------------------------
\* Workers are started again, under their names, and go on; leases of those that
\* are not run out.
ReportsFairness ==
  \A w \in Workers : WF_reportVars(Work(w)) /\ WF_reportVars(LapseWorker(w))

ReportsSpec ==
  ReportsInit /\ [][ReportsNext \/ AnswerUnheard]_reportVars /\ ReportsFairness

\* The same with every answer of Redis heard.
HeardSpec == ReportsInit /\ [][ReportsNext]_reportVars

Ordered(c) == Handed(c) /\ reports[c].status = "running"

\* A job that was handed to Redis and is still running is never out of reach: it
\* is in the queue, or in the list of a worker, which puts it back when it starts
\* if nobody does before.
NothingLost ==
  \A c \in Reports :
    Ordered(c) =>
      \/ Contains(queue, c)
      \/ \E w \in Workers : Contains(processing[w], c)

\* What the customer is told of the price is so: "charged" while a report is
\* running or complete, and the price back when it failed (main.py:7314).
ChargedAsTold ==
  \A c \in Reports :
    /\ reports[c].status \in {"running", "complete"} => ~reports[c].refunded
    /\ reports[c].status = "failed" => reports[c].refunded
=============================================================================
