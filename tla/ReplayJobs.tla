----------------------------- MODULE ReplayJobs -----------------------------
(***************************************************************************)
(* Memecoin replays: the requests in memecoin_replay_cases and the         *)
(* processes that render them (render_pending_replays() of                 *)
(* src/src/runner_web/memecoin_replay_store.py).                           *)
(*                                                                         *)
(* A request is the stamp of the evidence that was collected; it may come  *)
(* again, with newer evidence, while the last one is being rendered.       *)
(***************************************************************************)
EXTENDS Integers

CONSTANTS
  Coins,
  Renderers,
  MaxRequests,  \* stamps of requests, 1 up (bound)
  NoToken       \* no renderer, no coin

ASSUME ReplayJobsAssumption ==
  /\ MaxRequests \in Nat
  /\ NoToken \notin Coins \cup Renderers

VARIABLES
  cases,      \* rows of memecoin_replay_cases
  renderers,  \* the replay that each process works on
  shown       \* the evidence that the last answer to a coin's requests rests on

replayVars == <<cases, renderers, shown>>

Stamps == 0..MaxRequests  \* 0: none yet
Case == [requested : Stamps, processed : Stamps, token : Renderers \cup {NoToken}, leased : BOOLEAN]
NoReplay == [pc |-> "idle", coin |-> NoToken, claimed |-> 0, evidence |-> 0, base |-> 0]

ReplayTypeOK ==
  /\ cases \in [Coins -> Case]
  /\ renderers \in [Renderers -> {NoReplay} \cup
        [pc : {"load", "render"}, coin : Coins, claimed : Stamps, evidence : Stamps, base : Stamps]]
  /\ shown \in [Coins -> Stamps]

ReplayInit ==
  /\ cases = [c \in Coins |-> [requested |-> 0, processed |-> 0, token |-> NoToken, leased |-> FALSE]]
  /\ renderers = [r \in Renderers |-> NoReplay]
  /\ shown = [c \in Coins |-> 0]

-----------------------------------------------------------------------------
\* Collections may be stored out of order: the newest one stays requested.
queue_replay(c, stamp) ==
  /\ cases[c].requested < stamp
  /\ cases' = [cases EXCEPT ![c].requested = stamp]
  /\ UNCHANGED <<renderers, shown>>

Pending(c) == cases[c].requested > cases[c].processed

ClaimReplay(r, c) ==
  /\ renderers[r] = NoReplay
  /\ Pending(c) /\ ~cases[c].leased
  /\ cases' = [cases EXCEPT ![c].token = r, ![c].leased = TRUE]
  /\ renderers' = [renderers EXCEPT ![r] =
       [pc |-> "load", coin |-> c, claimed |-> cases[c].requested, evidence |-> 0,
        base |-> cases[c].processed]]
  /\ UNCHANGED shown

\* All evidence that was requested by now is there to be loaded.
LoadEvidence(r) ==
  /\ renderers[r].pc = "load"
  /\ renderers' = [renderers EXCEPT ![r].pc = "render",
                                    ![r].evidence = cases[renderers[r].coin].requested]
  /\ UNCHANGED <<cases, shown>>

Held(r) == cases[renderers[r].coin].token = r
PutDown(r) == renderers' = [renderers EXCEPT ![r] = NoReplay]

\* The replay is stored, or put off for a reason that more of the same would
\* not change (evidence_pending, archive_capacity, ...).
Answer_AsRequested(r) ==
  LET c == renderers[r].coin IN
  /\ renderers[r].pc = "render"
  /\ Held(r)
  /\ cases' = [cases EXCEPT ![c].processed = cases[c].requested,
                            ![c].token = NoToken, ![c].leased = FALSE]
  /\ shown' = [shown EXCEPT ![c] = renderers[r].evidence]
  /\ PutDown(r)
Answer(r) ==
  LET c == renderers[r].coin IN
  /\ renderers[r].pc = "render"
  /\ Held(r)
  /\ cases' = [cases EXCEPT ![c].processed = renderers[r].claimed,
                            ![c].token = NoToken, ![c].leased = FALSE]
  /\ shown' = [shown EXCEPT ![c] = renderers[r].evidence]
  /\ PutDown(r)

\* render_failed: again in a minute.
RenderFailed(r) ==
  LET c == renderers[r].coin IN
  /\ renderers[r].pc \in {"load", "render"}
  /\ Held(r)
  /\ cases' = [cases EXCEPT ![c].token = NoToken, ![c].leased = TRUE]
  /\ PutDown(r)
  /\ UNCHANGED shown

NotOwned(r) ==
  /\ renderers[r].pc \in {"load", "render"}
  /\ ~Held(r)
  /\ PutDown(r)
  /\ UNCHANGED <<cases, shown>>

\* The child process is killed by its time limit, or with the worker.
RendererCrash(r) ==
  /\ renderers[r] # NoReplay
  /\ PutDown(r)
  /\ UNCHANGED <<cases, shown>>

LapseReplay(c) ==
  /\ cases[c].leased
  /\ cases' = [cases EXCEPT ![c].leased = FALSE]
  /\ UNCHANGED <<renderers, shown>>

Render(r) ==
  \/ \E c \in Coins : ClaimReplay(r, c)
  \/ LoadEvidence(r) \/ NotOwned(r)

ReplayNext ==
  \/ \E c \in Coins : (\E stamp \in 1..MaxRequests : queue_replay(c, stamp)) \/ LapseReplay(c)
  \/ \E r \in Renderers : Render(r) \/ Answer(r) \/ RenderFailed(r) \/ RendererCrash(r)

-----------------------------------------------------------------------------
\* Renderers come by; a coin that is rendered again and again is at last
\* answered within the lease of its renderer.
LoadsHeld(c) == \E r \in Renderers : renderers[r].coin = c /\ LoadEvidence(r) /\ Held(r)
AnswersFor(c) == \E r \in Renderers : renderers[r].coin = c /\ Answer(r)

ReplayFairness ==
  /\ \A r \in Renderers : WF_replayVars(Render(r))
  /\ \A c \in Coins : /\ SF_replayVars(LoadsHeld(c))
                      /\ SF_replayVars(AnswersFor(c))
                      /\ WF_replayVars(LapseReplay(c))

ReplaySpec == ReplayInit /\ [][ReplayNext]_replayVars /\ ReplayFairness

\* A request is not passed over: where a coin's requests up to a stamp count as
\* processed, the replay (or the reason to have none) rests on evidence that
\* includes that stamp's, also when it came in while a replay was rendered, or
\* when a renderer went on after its lease.
ReplayUpToDate ==
  \A c \in Coins : cases[c].processed <= shown[c]

ReplayLease == INSTANCE LeasedWork WITH
  Tasks <- Coins, Holders <- Renderers, Nobody <- NoToken, Saves <- Stamps, Resets <- {0},
  holder <- [c \in Coins |-> cases[c].token],
  saved <- [c \in Coins |-> cases[c].processed],
  work <- [r \in Renderers |-> [task |-> renderers[r].coin,
             seen |-> IF renderers[r] = NoReplay THEN NoToken ELSE renderers[r].base]]
ReplaysAreLeased == ReplayLease!Spec

\* Every request is answered.
ReplaysEnd == \A c \in Coins : Pending(c) ~> ~Pending(c)
=============================================================================
