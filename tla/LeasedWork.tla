----------------------------- MODULE LeasedWork -----------------------------
(***************************************************************************)
(* What a lease on a row promises the workers that share a table of tasks: *)
(* progress is saved only by the holder of the task, and only on top of    *)
(* the progress that this holder last saw.                                 *)
(*                                                                         *)
(* A worker may stop at any time, and may work on after it lost the task;  *)
(* then nothing it has done is saved.  DashJobs, ReplayJobs and            *)
(* WalletBackfill implement this specification.                            *)
(***************************************************************************)
CONSTANTS
  Tasks,
  Holders,
  Nobody,  \* no holder and no task: in neither of the two sets
  Saves,   \* what may be saved of a task
  Resets   \* those that a task has when the table ends it or starts it afresh

VARIABLES
  holder,  \* who may save each task
  saved,   \* what is saved of it
  work     \* the task at each worker, and the progress it has seen

NoWork == [task |-> Nobody, seen |-> Nobody]

LeasedTypeOK ==
  /\ holder \in [Tasks -> Holders \cup {Nobody}]
  /\ saved \in [Tasks -> Saves]
  /\ work \in [Holders -> [task : Tasks, seen : Saves] \cup {NoWork}]

Init ==
  /\ holder = [t \in Tasks |-> Nobody]
  /\ saved \in [Tasks -> Resets]
  /\ work = [h \in Holders |-> NoWork]

\* The table ends the tasks R, or starts them afresh; their holders lose them.
Freed(R) == [t \in Tasks |-> IF t \in R THEN Nobody ELSE holder[t]]

Reset(R) ==
  /\ saved' \in [Tasks -> Saves]
  /\ \A t \in Tasks : IF t \in R THEN saved'[t] \in Resets ELSE saved'[t] = saved[t]

Retire(R) ==
  /\ Reset(R)
  /\ holder' = Freed(R)
  /\ UNCHANGED work

\* A task may be taken from a holder that is thought to be gone.  The table may
\* be tidied up in the same step.
Take(h, t) ==
  /\ work[h] = NoWork
  /\ \E R \in SUBSET Tasks : Reset(R) /\ holder' = [Freed(R) EXCEPT ![t] = h]
  /\ work' = [work EXCEPT ![h] = [task |-> t, seen |-> saved'[t]]]

\* The holder saves, and gives the task up or goes on with it.
Commit(h) ==
  LET t == work[h].task IN
  /\ t # Nobody
  /\ holder[t] = h
  /\ work[h].seen = saved[t]
  /\ \E s \in Saves : saved' = [saved EXCEPT ![t] = s]
  /\ work' \in {[work EXCEPT ![h] = NoWork], [work EXCEPT ![h].seen = saved'[t]]}
  /\ holder' \in {holder, [holder EXCEPT ![t] = Nobody]}

\* A worker gives up, fails, crashes or finds that it lost the task.
Stop(h) ==
  LET t == work[h].task IN
  /\ t # Nobody
  /\ work' = [work EXCEPT ![h] = NoWork]
  /\ \/ UNCHANGED holder
     \/ holder[t] = h /\ holder' = [holder EXCEPT ![t] = Nobody]
  /\ UNCHANGED saved

Next ==
  \/ \E R \in SUBSET Tasks : Retire(R)
  \/ \E h \in Holders, t \in Tasks : Take(h, t)
  \/ \E h \in Holders : Commit(h) \/ Stop(h)

Spec == Init /\ [][Next]_<<holder, saved, work>>
=============================================================================
