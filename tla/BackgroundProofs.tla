-------------------------- MODULE BackgroundProofs --------------------------
(***************************************************************************)
(* The background work, for any number of its workers and things to do:    *)
(* no request for a replay is passed over, the daily credits of the        *)
(* provider are never overspent, replays and wallet histories are leased   *)
(* work, no paid report that was queued gets lost, and no stake of a Call  *)
(* is lost or paid back twice.                                             *)
(*                                                                         *)
(* The modules share no state; each has its own part below.                *)
(***************************************************************************)
EXTENDS ReplayJobs, ProviderBudget, WalletBackfill, ResearchReports, FlashCalls,
        SequenceTheorems, SumTheorems

-----------------------------------------------------------------------------
(***************************************************************************)
(* Replays (ReplayJobs).                                                   *)
(***************************************************************************)
Working(r) == renderers[r].pc \in {"load", "render"}

\* What a renderer has read stays true for as long as it may save: the request
\* it claimed is still there, its evidence includes it, and while it holds the
\* coin nobody else has saved.
Reads ==
  \A r \in Renderers : Working(r) =>
    /\ renderers[r].claimed <= cases[renderers[r].coin].requested
    /\ renderers[r].pc = "render" => renderers[r].claimed <= renderers[r].evidence
    /\ Held(r) => renderers[r].base = cases[renderers[r].coin].processed

ReplayInv == ReplayTypeOK /\ ReplayUpToDate /\ Reads

-----------------------------------------------------------------------------
LEMMA StampsAreNumbers == Stamps \subseteq Nat /\ 0 \in Stamps
BY ReplayJobsAssumption DEF Stamps

\* A renderer is idle or has a whole record.
LEMMA WorkingTyped ==
  ASSUME ReplayTypeOK, NEW r \in Renderers
  PROVE  /\ Working(r) => renderers[r] \in
              [pc : {"load", "render"}, coin : Coins, claimed : Stamps, evidence : Stamps, base : Stamps]
         /\ ~Working(r) => renderers[r] = NoReplay
BY DEF ReplayTypeOK, Working, NoReplay

LEMMA InitReplayInv == ReplayInit => ReplayInv
BY StampsAreNumbers
DEF ReplayInit, ReplayInv, ReplayTypeOK, ReplayUpToDate, Reads, Working, Case, NoReplay

\* Claims, and the renderer that loads what was requested by now.
LEMMA QueueReplayKeepsInv ==
  ASSUME ReplayInv, NEW c \in Coins, NEW stamp \in 1..MaxRequests, queue_replay(c, stamp)
  PROVE  ReplayInv'
<1>1. stamp \in Stamps
  BY ReplayJobsAssumption DEF Stamps
<1>2. ReplayTypeOK'
  BY <1>1 DEF queue_replay, ReplayInv, ReplayTypeOK, Case
<1>3. \A k \in Coins : /\ cases[k].requested <= cases'[k].requested
                       /\ cases'[k].processed = cases[k].processed
                       /\ cases'[k].token = cases[k].token
  BY <1>1, StampsAreNumbers DEF queue_replay, ReplayInv, ReplayTypeOK, Case
<1>4. ReplayUpToDate'
  BY <1>3 DEF queue_replay, ReplayInv, ReplayUpToDate
<1>5. Reads'
  <2> SUFFICES ASSUME NEW r \in Renderers, Working(r)'
               PROVE  /\ renderers'[r].claimed <= cases'[renderers'[r].coin].requested
                      /\ renderers'[r].pc = "render" => renderers'[r].claimed <= renderers'[r].evidence
                      /\ Held(r)' => renderers'[r].base = cases'[renderers'[r].coin].processed
    BY DEF Reads
  <2>1. Working(r) /\ renderers' = renderers
    BY DEF queue_replay, Working
  <2>2. renderers[r].coin \in Coins /\ renderers[r].claimed \in Stamps
    BY <2>1 DEF ReplayInv, ReplayTypeOK, Working, NoReplay
  <2>3. cases[renderers[r].coin].requested \in Nat /\ cases'[renderers[r].coin].requested \in Nat
    BY <1>2, <2>2, StampsAreNumbers DEF ReplayInv, ReplayTypeOK, Case
  <2>4. /\ renderers[r].claimed <= cases[renderers[r].coin].requested
        /\ renderers[r].pc = "render" => renderers[r].claimed <= renderers[r].evidence
        /\ Held(r) => renderers[r].base = cases[renderers[r].coin].processed
    BY <2>1 DEF ReplayInv, Reads
  <2>5. renderers[r].claimed \in Nat
    BY <2>2, StampsAreNumbers
  <2>6. renderers[r].claimed <= cases'[renderers[r].coin].requested
    BY <1>3, <2>2, <2>3, <2>4, <2>5
  <2>7. Held(r)' => renderers[r].base = cases'[renderers[r].coin].processed
    BY <1>3, <2>1, <2>2, <2>4 DEF Held
  <2> QED
    BY <2>1, <2>4, <2>6, <2>7
<1> QED BY <1>2, <1>4, <1>5 DEF ReplayInv

LEMMA ClaimReplayKeepsInv ==
  ASSUME ReplayInv, NEW c \in Coins, NEW r \in Renderers, ClaimReplay(r, c)
  PROVE  ReplayInv'
<1> USE DEF ClaimReplay
<1>1. cases[c] \in Case
  BY DEF ReplayInv, ReplayTypeOK
<1>2. ReplayTypeOK'
  BY <1>1, StampsAreNumbers DEF ReplayInv, ReplayTypeOK, Case
<1>3. ReplayUpToDate'
  BY DEF ReplayInv, ReplayTypeOK, ReplayUpToDate, Case
<1>4. Reads'
  <2> SUFFICES ASSUME NEW q \in Renderers, Working(q)'
               PROVE  /\ renderers'[q].claimed <= cases'[renderers'[q].coin].requested
                      /\ renderers'[q].pc = "render" => renderers'[q].claimed <= renderers'[q].evidence
                      /\ Held(q)' => renderers'[q].base = cases'[renderers'[q].coin].processed
    BY DEF Reads
  <2>1. CASE q = r
    BY <1>1, <2>1, StampsAreNumbers DEF ReplayInv, ReplayTypeOK, Case
  <2>2. CASE q # r
    <3>1. renderers'[q] = renderers[q] /\ Working(q)
      BY <2>2 DEF ReplayInv, ReplayTypeOK, Working
    <3>2. renderers[q].coin \in Coins
      BY <3>1 DEF ReplayInv, ReplayTypeOK, Working, NoReplay
    <3>3. cases'[renderers[q].coin].token = q => cases[renderers[q].coin].token = q
      BY <2>2, <3>2 DEF ReplayInv, ReplayTypeOK, Case
    <3>4. /\ cases'[renderers[q].coin].requested = cases[renderers[q].coin].requested
          /\ cases'[renderers[q].coin].processed = cases[renderers[q].coin].processed
      BY <3>2 DEF ReplayInv, ReplayTypeOK, Case
    <3> QED BY <3>1, <3>3, <3>4 DEF ReplayInv, Reads, Held
  <2> QED BY <2>1, <2>2
<1> QED BY <1>2, <1>3, <1>4 DEF ReplayInv

\* A renderer that stops, for whatever reason, leaves the others as they were.
LEMMA StopKeepsReads ==
  ASSUME ReplayInv, NEW r \in Renderers, PutDown(r),
         \A k \in Coins : /\ cases'[k].requested = cases[k].requested
                          /\ cases'[k].token \in {cases[k].token, NoToken}
                          /\ cases'[k].processed = cases[k].processed \/ cases'[k].token = NoToken
  PROVE  Reads'
<1> SUFFICES ASSUME NEW q \in Renderers, Working(q)'
             PROVE  /\ renderers'[q].claimed <= cases'[renderers'[q].coin].requested
                    /\ renderers'[q].pc = "render" => renderers'[q].claimed <= renderers'[q].evidence
                    /\ Held(q)' => renderers'[q].base = cases'[renderers'[q].coin].processed
  BY DEF Reads
<1>1. q # r /\ renderers'[q] = renderers[q] /\ Working(q)
  BY DEF ReplayInv, ReplayTypeOK, Working, PutDown, NoReplay
<1>2. renderers[q].coin \in Coins
  BY <1>1 DEF ReplayInv, ReplayTypeOK, Working, NoReplay
<1>3. q # NoToken
  BY ReplayJobsAssumption
<1> QED BY <1>1, <1>2, <1>3 DEF ReplayInv, Reads, Held

LEMMA LoadKeepsInv ==
  ASSUME ReplayInv, NEW r \in Renderers, LoadEvidence(r)
  PROVE  ReplayInv'
<1> USE DEF LoadEvidence
<1>1. Working(r) /\ renderers[r].coin \in Coins
  BY DEF ReplayInv, ReplayTypeOK, Working, NoReplay
<1>2. cases[renderers[r].coin].requested \in Stamps
  BY <1>1 DEF ReplayInv, ReplayTypeOK, Case
<1>3. ReplayTypeOK'
  <2>1. renderers'[r] \in
          [pc : {"load", "render"}, coin : Coins, claimed : Stamps, evidence : Stamps, base : Stamps]
    BY <1>1, <1>2, WorkingTyped DEF ReplayInv, ReplayTypeOK
  <2> QED BY <2>1 DEF ReplayInv, ReplayTypeOK
<1>4. ReplayUpToDate'
  BY DEF ReplayInv, ReplayUpToDate
<1>5. Reads'
  BY <1>1, <1>2 DEF ReplayInv, ReplayTypeOK, Reads, Working, Held, NoReplay
<1> QED BY <1>3, <1>4, <1>5 DEF ReplayInv

LEMMA AnswerKeepsInv ==
  ASSUME ReplayInv, NEW r \in Renderers, Answer(r)
  PROVE  ReplayInv'
<1> DEFINE c == renderers[r].coin
<1>1. Working(r) /\ renderers[r].pc = "render"
  BY DEF Answer, Working
<1>2. c \in Coins /\ renderers[r].claimed \in Stamps /\ renderers[r].evidence \in Stamps
  BY <1>1 DEF ReplayInv, ReplayTypeOK, NoReplay
<1>3. renderers[r].claimed <= renderers[r].evidence
  BY <1>1 DEF ReplayInv, Reads
<1>4. ReplayTypeOK'
  BY <1>2 DEF Answer, PutDown, ReplayInv, ReplayTypeOK, Case
<1>5. ReplayUpToDate'
  BY <1>2, <1>3 DEF Answer, ReplayInv, ReplayTypeOK, ReplayUpToDate, Case
<1>6. \A k \in Coins : /\ cases'[k].requested = cases[k].requested
                       /\ cases'[k].token \in {cases[k].token, NoToken}
                       /\ cases'[k].processed = cases[k].processed \/ cases'[k].token = NoToken
  BY <1>2 DEF Answer, ReplayInv, ReplayTypeOK, Case
<1>7. Reads'
  BY <1>6, StopKeepsReads DEF Answer
<1> QED BY <1>4, <1>5, <1>7 DEF ReplayInv

\* The other ways to stop save nothing.
LEMMA StopRenderKeepsInv ==
  ASSUME ReplayInv, NEW r \in Renderers, RenderFailed(r) \/ NotOwned(r) \/ RendererCrash(r)
  PROVE  ReplayInv'
<1>1. PutDown(r) /\ UNCHANGED shown
  BY DEF RenderFailed, NotOwned, RendererCrash
<1>2. /\ cases' \in [Coins -> Case]
      /\ \A k \in Coins : /\ cases'[k].requested = cases[k].requested
                          /\ cases'[k].token \in {cases[k].token, NoToken}
                          /\ cases'[k].processed = cases[k].processed
  <2>1. CASE UNCHANGED cases
    BY <2>1 DEF ReplayInv, ReplayTypeOK
  <2>2. CASE RenderFailed(r)
    <3>1. renderers[r].coin \in Coins
      BY <2>2, WorkingTyped DEF RenderFailed, Working, ReplayInv
    <3> QED BY <2>2, <3>1 DEF RenderFailed, ReplayInv, ReplayTypeOK, Case
  <2> QED BY <2>1, <2>2 DEF NotOwned, RendererCrash
<1>3. ReplayTypeOK'
  BY <1>1, <1>2 DEF PutDown, ReplayInv, ReplayTypeOK
<1>4. ReplayUpToDate'
  BY <1>1, <1>2 DEF ReplayInv, ReplayUpToDate
<1>5. Reads'
  BY <1>1, <1>2, StopKeepsReads
<1> QED BY <1>3, <1>4, <1>5 DEF ReplayInv

LEMMA LapseReplayKeepsInv ==
  ASSUME ReplayInv, NEW c \in Coins, LapseReplay(c)
  PROVE  ReplayInv'
<1>1. ReplayTypeOK'
  BY DEF LapseReplay, ReplayInv, ReplayTypeOK, Case
<1>2. /\ UNCHANGED <<renderers, shown>>
      /\ \A k \in Coins : /\ cases'[k].requested = cases[k].requested
                          /\ cases'[k].processed = cases[k].processed
                          /\ cases'[k].token = cases[k].token
  BY DEF LapseReplay, ReplayInv, ReplayTypeOK, Case
<1>3. \A r \in Renderers : Working(r) => renderers[r].coin \in Coins
  BY DEF ReplayInv, ReplayTypeOK, Working, NoReplay
<1> QED BY <1>1, <1>2, <1>3 DEF ReplayInv, ReplayUpToDate, Reads, Working, Held

LEMMA ReplayInvIsInductive == ReplayInv /\ [ReplayNext]_replayVars => ReplayInv'
<1> SUFFICES ASSUME ReplayInv, [ReplayNext]_replayVars PROVE ReplayInv'
  OBVIOUS
<1>1. CASE UNCHANGED replayVars
  BY <1>1 DEF replayVars, ReplayInv, ReplayTypeOK, ReplayUpToDate, Reads, Working, Held
<1>2. CASE ReplayNext
  BY <1>2, QueueReplayKeepsInv, ClaimReplayKeepsInv, LoadKeepsInv, AnswerKeepsInv, StopRenderKeepsInv, LapseReplayKeepsInv
  DEF ReplayNext, Render
<1> QED BY <1>1, <1>2

-----------------------------------------------------------------------------
\* What the renderers have read stays usable: the invariant of ReplayJobs
\* (render_pending_replays).
THEOREM ReplayInvariant == ReplaySpec => []ReplayInv
<1> QED BY InitReplayInv, ReplayInvIsInductive, PTL DEF ReplaySpec

\* Whatever is processed rests on evidence as new as its request, although
\* requests come in while a replay is rendered and renderers outlive leases.
THEOREM NoRequestPassedOver == ReplaySpec => []ReplayUpToDate
<1>1. ReplayInv => ReplayUpToDate
  BY DEF ReplayInv
<1> QED BY <1>1, ReplayInvariant, PTL

-----------------------------------------------------------------------------
\* The refinement: what the table of replays and its renderers are to LeasedWork.
ReplayHolder == [c \in Coins |-> cases[c].token]
ReplaySaved == [c \in Coins |-> cases[c].processed]
ReplayWork == [r \in Renderers |-> [task |-> renderers[r].coin,
                seen |-> IF renderers[r] = NoReplay THEN NoToken ELSE renderers[r].base]]
NoReplayWork == [task |-> NoToken, seen |-> NoToken]

LEMMA ReplayInitImplements == ReplayInit => ReplayLease!Init
<1> SUFFICES ASSUME ReplayInit PROVE ReplayLease!Init
  OBVIOUS
<1>1. ReplayHolder = [c \in Coins |-> NoToken]
  BY DEF ReplayInit, ReplayHolder
<1>2. ReplaySaved \in [Coins -> {0}]
  BY DEF ReplayInit, ReplaySaved
<1>3. ReplayWork = [r \in Renderers |-> NoReplayWork]
  BY DEF ReplayInit, ReplayWork, NoReplayWork, NoReplay
<1> QED
  BY <1>1, <1>2, <1>3
  DEF ReplayLease!Init, ReplayLease!NoWork, ReplayHolder, ReplaySaved, ReplayWork, NoReplayWork

\* Requests, loading and lapses are nothing to the lease.
LEMMA QuietReplaySteps ==
  ASSUME ReplayInv,
         \/ \E c \in Coins : \E stamp \in 1..MaxRequests : queue_replay(c, stamp)
         \/ \E c \in Coins : LapseReplay(c)
         \/ \E r \in Renderers : LoadEvidence(r)
  PROVE  UNCHANGED <<ReplayHolder, ReplaySaved, ReplayWork>>
<1>1. CASE \E c \in Coins : (\E stamp \in 1..MaxRequests : queue_replay(c, stamp)) \/ LapseReplay(c)
  <2>1. UNCHANGED renderers /\ \A k \in Coins : /\ cases'[k].token = cases[k].token
                                                /\ cases'[k].processed = cases[k].processed
    BY <1>1 DEF queue_replay, LapseReplay, ReplayInv, ReplayTypeOK, Case
  <2> QED BY <2>1 DEF ReplayHolder, ReplaySaved, ReplayWork
<1>2. CASE \E r \in Renderers : LoadEvidence(r)
  <2> PICK r \in Renderers : LoadEvidence(r)
    BY <1>2
  <2>1. UNCHANGED cases
    BY DEF LoadEvidence
  <2>2. ASSUME NEW q \in Renderers
        PROVE  /\ renderers'[q].coin = renderers[q].coin /\ renderers'[q].base = renderers[q].base
               /\ renderers'[q] = NoReplay <=> renderers[q] = NoReplay
    <3>1. CASE q = r
      <4>1. renderers[r] \in
              [pc : {"load", "render"}, coin : Coins, claimed : Stamps, evidence : Stamps, base : Stamps]
        BY WorkingTyped DEF ReplayInv, LoadEvidence, Working
      <4>2. renderers'[r] = [renderers[r] EXCEPT !.pc = "render",
                                                 !.evidence = cases[renderers[r].coin].requested]
        BY DEF LoadEvidence, ReplayInv, ReplayTypeOK
      <4>3. renderers[r].pc # NoReplay.pc /\ renderers'[r].pc # NoReplay.pc
        BY <4>1, <4>2 DEF NoReplay
      <4>4. renderers'[r].coin = renderers[r].coin /\ renderers'[r].base = renderers[r].base
        BY <4>1, <4>2
      <4>5. renderers[r] # NoReplay /\ renderers'[r] # NoReplay
        BY <4>3
      <4> QED BY <3>1, <4>4, <4>5
    <3>2. CASE q # r
      BY <3>2 DEF LoadEvidence, ReplayInv, ReplayTypeOK
    <3> QED BY <3>1, <3>2
  <2> QED BY <2>1, <2>2 DEF ReplayHolder, ReplaySaved, ReplayWork
<1> QED BY <1>1, <1>2

\* A claim takes the coin; the table tidies nothing up.
LEMMA ClaimReplayTakes ==
  ASSUME ReplayInv, NEW r \in Renderers, NEW c \in Coins, ClaimReplay(r, c)
  PROVE  ReplayLease!Take(r, c)
<1>1. /\ ReplayWork[r] = NoReplayWork
      /\ ReplayHolder' = [ReplayHolder EXCEPT ![c] = r]
      /\ ReplaySaved' = ReplaySaved
  BY DEF ClaimReplay, ReplayInv, ReplayTypeOK, Case, ReplayHolder, ReplaySaved, ReplayWork,
         NoReplayWork, NoReplay
<1>2. ReplaySaved' \in [Coins -> Stamps]
  BY <1>1 DEF ReplayInv, ReplayTypeOK, Case, ReplaySaved
<1>3. ReplayWork' = [ReplayWork EXCEPT ![r] = [task |-> c, seen |-> ReplaySaved'[c]]]
  <2>1. renderers'[r].coin = c /\ renderers'[r] # NoReplay /\ renderers'[r].base = ReplaySaved[c]
    BY DEF ClaimReplay, ReplayInv, ReplayTypeOK, ReplaySaved, NoReplay
  <2>2. \A q \in Renderers \ {r} : renderers'[q] = renderers[q]
    BY DEF ClaimReplay, ReplayInv, ReplayTypeOK
  <2> QED BY <1>1, <2>1, <2>2 DEF ReplayWork
<1>4. ReplayHolder = [k \in Coins |-> IF k \in {} THEN NoToken ELSE ReplayHolder[k]]
  BY DEF ReplayHolder
<1>5. \E R \in SUBSET Coins :
        /\ \A k \in Coins : IF k \in R THEN ReplaySaved'[k] \in {0} ELSE ReplaySaved'[k] = ReplaySaved[k]
        /\ ReplayHolder' = [[k \in Coins |-> IF k \in R THEN NoToken ELSE ReplayHolder[k]] EXCEPT ![c] = r]
  <2> WITNESS {} \in SUBSET Coins
  <2> QED BY <1>1, <1>4
<1> QED
  BY <1>1, <1>2, <1>3, <1>5
  DEF ReplayLease!Take, ReplayLease!Reset, ReplayLease!Freed, ReplayLease!NoWork,
      ReplayHolder, ReplaySaved, ReplayWork, NoReplayWork

\* What PutDown is to the lease.
LEMMA PutDownLeaves ==
  ASSUME ReplayInv, NEW r \in Renderers, renderers[r] # NoReplay, PutDown(r)
  PROVE  /\ renderers[r].coin \in Coins
         /\ ReplayWork[r] = [task |-> renderers[r].coin, seen |-> renderers[r].base]
         /\ ReplayWork' = [ReplayWork EXCEPT ![r] = NoReplayWork]
<1>1. renderers[r].coin \in Coins
  BY WorkingTyped DEF ReplayInv, Working
<1>2. renderers'[r] = NoReplay /\ \A q \in Renderers \ {r} : renderers'[q] = renderers[q]
  BY DEF PutDown, ReplayInv, ReplayTypeOK
<1>3. NoReplay.coin = NoToken
  BY DEF NoReplay
<1>4. ReplayWork[r] = [task |-> renderers[r].coin, seen |-> renderers[r].base]
  BY DEF ReplayWork
<1>5. ASSUME NEW q \in Renderers
      PROVE  ReplayWork'[q] = IF q = r THEN NoReplayWork ELSE ReplayWork[q]
  BY <1>2, <1>3 DEF ReplayWork, NoReplayWork
<1>6. ReplayWork' = [ReplayWork EXCEPT ![r] = NoReplayWork]
  BY <1>5 DEF ReplayWork
<1> QED BY <1>1, <1>4, <1>6

LEMMA AnswerCommits ==
  ASSUME ReplayInv, NEW r \in Renderers, Answer(r)
  PROVE  ReplayLease!Commit(r)
<1> DEFINE c == renderers[r].coin
<1>1. Working(r) /\ Held(r) /\ PutDown(r) /\ renderers[r] # NoReplay
  BY DEF Answer, Working, NoReplay
<1>2. /\ c \in Coins /\ c # NoToken
      /\ ReplayWork[r] = [task |-> c, seen |-> renderers[r].base]
      /\ ReplayWork' = [ReplayWork EXCEPT ![r] = NoReplayWork]
  BY <1>1, PutDownLeaves, ReplayJobsAssumption
<1>3. ReplayHolder[c] = r /\ renderers[r].base = ReplaySaved[c]
  BY <1>1, <1>2 DEF Held, ReplayInv, Reads, ReplayHolder, ReplaySaved
<1>4. renderers[r].claimed \in Stamps
  BY <1>1, WorkingTyped DEF ReplayInv
<1>5. ReplaySaved' = [ReplaySaved EXCEPT ![c] = renderers[r].claimed]
  BY <1>2 DEF Answer, ReplayInv, ReplayTypeOK, Case, ReplaySaved
<1>6. ReplayHolder' = [ReplayHolder EXCEPT ![c] = NoToken]
  BY <1>2 DEF Answer, ReplayInv, ReplayTypeOK, Case, ReplayHolder
<1> HIDE DEF c
<1> QED
  BY <1>2, <1>3, <1>4, <1>5, <1>6
  DEF ReplayLease!Commit, ReplayLease!NoWork, ReplayHolder, ReplaySaved, ReplayWork, NoReplayWork

LEMMA RenderersStop ==
  ASSUME ReplayInv, NEW r \in Renderers, RenderFailed(r) \/ NotOwned(r) \/ RendererCrash(r)
  PROVE  ReplayLease!Stop(r)
<1> DEFINE c == renderers[r].coin
<1>1. PutDown(r) /\ renderers[r] # NoReplay
  BY DEF RenderFailed, NotOwned, RendererCrash, NoReplay
<1>2. /\ c \in Coins /\ c # NoToken
      /\ ReplayWork[r] = [task |-> c, seen |-> renderers[r].base]
      /\ ReplayWork' = [ReplayWork EXCEPT ![r] = NoReplayWork]
  BY <1>1, PutDownLeaves, ReplayJobsAssumption
<1>3. ReplaySaved' = ReplaySaved
  BY <1>2 DEF RenderFailed, NotOwned, RendererCrash, ReplayInv, ReplayTypeOK, Case, ReplaySaved
<1>4. \/ ReplayHolder' = ReplayHolder
      \/ ReplayHolder[c] = r /\ ReplayHolder' = [ReplayHolder EXCEPT ![c] = NoToken]
  <2>1. CASE RenderFailed(r)
    BY <1>2, <2>1 DEF RenderFailed, Held, ReplayInv, ReplayTypeOK, Case, ReplayHolder
  <2>2. CASE UNCHANGED cases
    BY <2>2 DEF ReplayHolder
  <2> QED BY <2>1, <2>2 DEF NotOwned, RendererCrash
<1> HIDE DEF c
<1> QED
  BY <1>2, <1>3, <1>4
  DEF ReplayLease!Stop, ReplayLease!NoWork, ReplayHolder, ReplaySaved, ReplayWork, NoReplayWork

LEMMA ReplayStepImplements ==
  ReplayInv /\ [ReplayNext]_replayVars =>
    [ReplayLease!Next]_<<ReplayHolder, ReplaySaved, ReplayWork>>
<1> SUFFICES ASSUME ReplayInv, [ReplayNext]_replayVars
             PROVE  [ReplayLease!Next]_<<ReplayHolder, ReplaySaved, ReplayWork>>
  OBVIOUS
<1>1. CASE UNCHANGED replayVars
  BY <1>1 DEF replayVars, ReplayHolder, ReplaySaved, ReplayWork
<1>2. CASE \/ \E c \in Coins : (\E stamp \in 1..MaxRequests : queue_replay(c, stamp)) \/ LapseReplay(c)
           \/ \E r \in Renderers : LoadEvidence(r)
  BY <1>2, QuietReplaySteps
<1>3. CASE \E r \in Renderers, c \in Coins : ClaimReplay(r, c)
  BY <1>3, ClaimReplayTakes DEF ReplayLease!Next
<1>4. CASE \E r \in Renderers : Answer(r)
  BY <1>4, AnswerCommits DEF ReplayLease!Next
<1>5. CASE \E r \in Renderers : RenderFailed(r) \/ NotOwned(r) \/ RendererCrash(r)
  BY <1>5, RenderersStop DEF ReplayLease!Next
<1> QED BY <1>1, <1>2, <1>3, <1>4, <1>5 DEF ReplayNext, Render

\* Replays are leased work: a replay is saved only by the renderer that holds the
\* coin, on top of what it found there, however requests, lapses and crashes fall.
THEOREM ReplaysImplementLease == ReplaySpec => ReplaysAreLeased
<1>1. [ReplayLease!Next]_<<ReplayHolder, ReplaySaved, ReplayWork>> =>
        [ReplayLease!Next]_<<[c \in Coins |-> cases[c].token], [c \in Coins |-> cases[c].processed],
           [r \in Renderers |-> [task |-> renderers[r].coin,
              seen |-> IF renderers[r] = NoReplay THEN NoToken ELSE renderers[r].base]]>>
  BY DEF ReplayHolder, ReplaySaved, ReplayWork
<1> QED
  BY <1>1, ReplayInitImplements, ReplayStepImplements, ReplayInvariant, PTL
  DEF ReplaySpec, ReplaysAreLeased, ReplayLease!Spec

-----------------------------------------------------------------------------
(***************************************************************************)
(* The provider's credits (ProviderBudget).                                *)
(***************************************************************************)
Charged(d) == {c \in Calls : calls[c] = d}
UnderWay == [d \in Days |-> PageCredits * Cardinality(Charged(d))]

\* A page under way still has all its credits reserved on the day it was charged
\* to, over and above what the provider has counted: this is what keeps a reply
\* from giving back what another page needs.
PagesCovered == \A d \in Days : used[d].wallet + UnderWay[d] <= budget[d].wallet

BudgetInv == BudgetTypeOK /\ BudgetKept /\ PagesCovered

-----------------------------------------------------------------------------
LEMMA Limits ==
  /\ CreditLimit \in Nat /\ OtherLimit \in Nat /\ WalletLimit \in Nat
  /\ WalletLimit <= OtherLimit /\ OtherLimit <= CreditLimit
  /\ PageCredits \in Nat /\ 1 <= PageCredits /\ PageCredits <= WalletLimit
  /\ \A cost \in PageCosts : cost \in Nat /\ 1 <= cost /\ cost <= PageCredits
BY ProviderBudgetAssumption

LEMMA ChargedFinite ==
  ASSUME NEW d \in Days
  PROVE  /\ IsFiniteSet(Charged(d)) /\ Cardinality(Charged(d)) \in Nat
         /\ UnderWay[d] \in Nat
<1>1. IsFiniteSet(Charged(d))
  BY ProviderBudgetAssumption, FS_Subset DEF Charged
<1>2. Cardinality(Charged(d)) \in Nat
  BY <1>1, FS_CardinalityType
<1> QED BY <1>1, <1>2, Limits DEF UnderWay

\* One page more, one page less.
LEMMA OneMore ==
  ASSUME NEW n \in Nat
  PROVE  PageCredits * (n + 1) = PageCredits * n + PageCredits
BY Limits

LEMMA PageStarts ==
  ASSUME NEW c \in Calls, calls[c] = "none", BudgetTypeOK,
         calls' = [calls EXCEPT ![c] = "today"]
  PROVE  /\ UnderWay'["today"] = UnderWay["today"] + PageCredits
         /\ UnderWay'["yesterday"] = UnderWay["yesterday"]
<1> "today" \in Days /\ "yesterday" \in Days
  BY DEF Days
<1>1. Charged("today")' = Charged("today") \cup {c} /\ c \notin Charged("today")
  BY DEF Charged, BudgetTypeOK
<1>2. Charged("yesterday")' = Charged("yesterday")
  BY DEF Charged, BudgetTypeOK
<1>3. Cardinality(Charged("today")') = Cardinality(Charged("today")) + 1
  BY <1>1, ChargedFinite, FS_AddElement
<1> QED BY <1>2, <1>3, ChargedFinite, OneMore DEF UnderWay

LEMMA PageEnds ==
  ASSUME NEW c \in Calls, NEW d \in Days, BudgetTypeOK, calls' = [calls EXCEPT ![c] = "none"]
  PROVE  UnderWay'[d] = IF calls[c] = d THEN UnderWay[d] - PageCredits ELSE UnderWay[d]
<1>1. CASE calls[c] = d
  <2>1. c \in Charged(d) /\ Charged(d)' = Charged(d) \ {c}
    BY <1>1 DEF Charged, BudgetTypeOK, Days
  <2>2. Cardinality(Charged(d)') = Cardinality(Charged(d)) - 1 /\ Cardinality(Charged(d)') \in Nat
    <3>1. Cardinality(Charged(d)') = Cardinality(Charged(d)) - 1
      BY <2>1, ChargedFinite, FS_RemoveElement
    <3>2. IsFiniteSet(Charged(d)')
      BY <2>1, ChargedFinite, FS_Subset
    <3> QED BY <3>1, <3>2, FS_CardinalityType
  <2>3. PageCredits * Cardinality(Charged(d)) =
          PageCredits * Cardinality(Charged(d)') + PageCredits
    <3> DEFINE n == Cardinality(Charged(d)')
    <3>1. n \in Nat /\ Cardinality(Charged(d)) = n + 1
      BY <2>2, ChargedFinite
    <3> HIDE DEF n
    <3>2. PageCredits * (n + 1) = PageCredits * n + PageCredits
      BY <3>1, OneMore
    <3> QED BY <3>1, <3>2 DEF n
  <2> QED BY <1>1, <2>2, <2>3, ChargedFinite, Limits DEF UnderWay
<1>2. CASE calls[c] # d
  <2>1. Charged(d)' = Charged(d)
    BY <1>2 DEF Charged, BudgetTypeOK, Days
  <2> QED BY <1>2, <2>1 DEF UnderWay
<1> QED BY <1>1, <1>2

LEMMA InitBudgetInv == BudgetInit => BudgetInv
<1> SUFFICES ASSUME BudgetInit PROVE BudgetInv
  OBVIOUS
<1>1. \A d \in Days : Charged(d) = {}
  BY DEF Charged, BudgetInit, Days
<1>2. \A d \in Days : UnderWay[d] = 0
  BY <1>1, FS_EmptySet, Limits DEF UnderWay
<1>3. BudgetTypeOK
  BY DEF BudgetInit, BudgetTypeOK, NoCharge, NoUse
<1> QED
  BY <1>2, <1>3, Limits DEF BudgetInit, BudgetInv, BudgetKept, PagesCovered, NoCharge, NoUse

-----------------------------------------------------------------------------
LEMMA OtherReadKeepsInv ==
  ASSUME BudgetInv, NEW lane \in {"price", "other"}, OtherRead(lane)
  PROVE  BudgetInv'
<1> DEFINE taken == IF lane = "price" THEN 1 ELSE 0
<1>1. "today" \in Days /\ budget["today"] \in [reserved : Nat, wallet : Nat]
                       /\ used["today"] \in [wallet : Nat, price : Nat]
  BY DEF BudgetInv, BudgetTypeOK, Days
<1>2. budget["today"].reserved + 1 <= IF lane = "price" THEN CreditLimit ELSE OtherLimit
  BY DEF OtherRead, reserve_credits, Fits, lane_limit
<1>3. /\ \A d \in Days : d # "today" => budget'[d] = budget[d] /\ used'[d] = used[d]
      /\ UNCHANGED calls
  BY DEF OtherRead, reserve_credits, BudgetInv, BudgetTypeOK
<1>4. /\ budget'["today"] = [reserved |-> budget["today"].reserved + 1,
                             wallet |-> budget["today"].wallet]
      /\ used'["today"] = [wallet |-> used["today"].wallet, price |-> used["today"].price + taken]
  <2>1. budget'["today"] = [budget["today"] EXCEPT !.reserved = @ + 1, !.wallet = @ + 0]
    BY <1>1 DEF OtherRead, reserve_credits, BudgetInv, BudgetTypeOK
  <2>2. used'["today"] = [used["today"] EXCEPT !.price = @ + taken]
    BY <1>1 DEF OtherRead, BudgetInv, BudgetTypeOK
  <2>3. budget'["today"] = [reserved |-> budget["today"].reserved + 1,
                            wallet |-> budget["today"].wallet]
    <3>1. budget["today"].wallet + 0 = budget["today"].wallet
      BY <1>1
    <3>2. budget'["today"] = [budget["today"] EXCEPT !.reserved = budget["today"].reserved + 1,
                                                     !.wallet = budget["today"].wallet]
      BY <2>1, <3>1
    <3> QED BY <1>1, <3>2
  <2> HIDE DEF taken
  <2>4. used'["today"] = [wallet |-> used["today"].wallet, price |-> used["today"].price + taken]
    BY <1>1, <2>2
  <2> QED BY <2>3, <2>4
<1>5. BudgetTypeOK'
  <2>1. budget'["today"] \in [reserved : Nat, wallet : Nat] /\ used'["today"] \in [wallet : Nat, price : Nat]
    BY <1>1, <1>4
  <2>2. DOMAIN budget' = Days /\ DOMAIN used' = Days
    BY DEF OtherRead, reserve_credits, BudgetInv, BudgetTypeOK
  <2>3. budget' = [d \in Days |-> budget'[d]] /\ used' = [d \in Days |-> used'[d]]
    BY <2>2 DEF OtherRead, reserve_credits, BudgetInv, BudgetTypeOK
  <2> QED BY <1>3, <2>1, <2>3 DEF BudgetInv, BudgetTypeOK
<1>6. PagesCovered'
  BY <1>1, <1>3, <1>4 DEF BudgetInv, PagesCovered, UnderWay, Charged
<1>7. BudgetKept'
  <2> SUFFICES ASSUME NEW d \in Days
               PROVE  /\ used'[d].wallet <= budget'[d].wallet
                      /\ budget'[d].wallet <= WalletLimit
                      /\ budget'[d].wallet + used'[d].price <= budget'[d].reserved
                      /\ budget'[d].reserved - used'[d].price <= OtherLimit
                      /\ budget'[d].reserved <= CreditLimit
    BY DEF BudgetKept
  <2>1. CASE d = "today"
    BY <2>1, <1>2, <1>3, <1>4, Limits DEF BudgetInv, BudgetKept, BudgetTypeOK
  <2>2. CASE d # "today"
    BY <2>2, <1>3 DEF BudgetInv, BudgetKept
  <2> QED BY <2>1, <2>2
<1> QED BY <1>5, <1>6, <1>7 DEF BudgetInv

LEMMA StartPageKeepsInv ==
  ASSUME BudgetInv, NEW c \in Calls, StartPage(c)
  PROVE  BudgetInv'
<1>1. /\ budget' = [budget EXCEPT !["today"].reserved = @ + PageCredits,
                                  !["today"].wallet = @ + PageCredits]
      /\ UNCHANGED used
      /\ calls[c] = "none" /\ calls' = [calls EXCEPT ![c] = "today"]
  BY DEF StartPage, reserve_credits
<1>2. /\ budget["today"].reserved + PageCredits <= OtherLimit
      /\ budget["today"].reserved > 0 => budget["today"].wallet + PageCredits <= WalletLimit
  BY DEF StartPage, reserve_credits, Fits, lane_limit
<1>3. "today" \in Days /\ "yesterday" \in Days /\ \A d \in Days : d # "today" => d = "yesterday"
  BY DEF Days
<1>4. /\ budget'["today"].reserved = budget["today"].reserved + PageCredits
      /\ budget'["today"].wallet = budget["today"].wallet + PageCredits
      /\ budget'["yesterday"] = budget["yesterday"]
  BY <1>1, <1>3 DEF BudgetInv, BudgetTypeOK
<1>5. BudgetTypeOK'
  BY <1>1, <1>3, Limits DEF BudgetInv, BudgetTypeOK
<1>6. budget'["today"].wallet <= WalletLimit
  BY <1>2, <1>3, <1>4, Limits DEF BudgetInv, BudgetKept, BudgetTypeOK
<1>7. BudgetKept'
  <2>1. /\ used'["today"].wallet <= budget'["today"].wallet
        /\ budget'["today"].wallet + used'["today"].price <= budget'["today"].reserved
        /\ budget'["today"].reserved - used'["today"].price <= OtherLimit
        /\ budget'["today"].reserved <= CreditLimit
    BY <1>1, <1>2, <1>3, <1>4, Limits DEF BudgetInv, BudgetKept, BudgetTypeOK
  <2> QED BY <2>1, <1>1, <1>3, <1>4, <1>6 DEF BudgetInv, BudgetKept
<1>8. PagesCovered'
  <2>1. /\ UnderWay'["today"] = UnderWay["today"] + PageCredits
        /\ UnderWay'["yesterday"] = UnderWay["yesterday"]
    BY <1>1, PageStarts DEF BudgetInv
  <2>2. UnderWay["today"] \in Nat /\ UnderWay["yesterday"] \in Nat
    BY <1>3, ChargedFinite
  <2>3. /\ used["today"].wallet + UnderWay["today"] <= budget["today"].wallet
        /\ used["yesterday"].wallet + UnderWay["yesterday"] <= budget["yesterday"].wallet
        /\ used["today"].wallet \in Nat /\ budget["today"].wallet \in Nat
    BY <1>3 DEF BudgetInv, PagesCovered, BudgetTypeOK
  <2>4. used["today"].wallet + UnderWay'["today"] <= budget'["today"].wallet
    BY <1>4, <2>1, <2>2, <2>3, Limits
  <2>5. used["yesterday"].wallet + UnderWay'["yesterday"] <= budget'["yesterday"].wallet
    BY <1>4, <2>1, <2>3
  <2> QED BY <1>1, <1>3, <2>4, <2>5 DEF PagesCovered
<1> QED BY <1>5, <1>7, <1>8 DEF BudgetInv

\* A page that ends: at most PageCredits - cost come back when cost was counted.
LEMMA PageEndKeepsInv ==
  ASSUME BudgetInv, NEW c \in Calls, calls[c] # "none", calls' = [calls EXCEPT ![c] = "none"],
         NEW back \in Nat, NEW cost \in Nat, back + cost <= PageCredits,
         budget' = release_wallet_credits(back, calls[c]), used' = Count(cost, calls[c])
  PROVE  BudgetInv'
<1>1. calls' \in [Calls -> Days \cup {"none", "before"}]
  BY DEF BudgetInv, BudgetTypeOK
<1>2. CASE calls[c] \notin Days
  <2>1. UNCHANGED <<budget, used>>
    BY <1>2 DEF release_wallet_credits, Count
  <2>2. \A d \in Days : UnderWay'[d] = UnderWay[d]
    BY <1>2, PageEnds DEF BudgetInv
  <2> QED BY <1>1, <2>1, <2>2 DEF BudgetInv, BudgetTypeOK, BudgetKept, PagesCovered
<1>3. CASE calls[c] \in Days
  <2>1. PICK d \in Days : d = calls[c]
    BY <1>3
  <2>2. /\ budget[d].reserved \in Nat /\ budget[d].wallet \in Nat
        /\ used[d].wallet \in Nat /\ used[d].price \in Nat
    BY <2>1 DEF BudgetInv, BudgetTypeOK
  <2>3. UnderWay[d] \in Nat /\ UnderWay'[d] = UnderWay[d] - PageCredits
    BY <2>1, ChargedFinite, PageEnds DEF BudgetInv
  <2>4. UnderWay'[d] \in Nat
    <3>1. IsFiniteSet(Charged(d)')
      BY ProviderBudgetAssumption, FS_Subset DEF Charged
    <3> QED BY <3>1, FS_CardinalityType, Limits DEF UnderWay
  <2>5. used[d].wallet + UnderWay[d] <= budget[d].wallet /\ budget[d].wallet <= budget[d].reserved
    BY <2>1, <2>2 DEF BudgetInv, BudgetKept, PagesCovered
  <2>6. budget[d].wallet >= back /\ budget[d].reserved >= back
    BY <2>2, <2>3, <2>4, <2>5, Limits
  <2>7. /\ budget' = [budget EXCEPT ![d].reserved = @ - back, ![d].wallet = @ - back]
        /\ used' = [used EXCEPT ![d].wallet = @ + cost]
    BY <2>1, <2>6 DEF release_wallet_credits, Count
  <2>8. /\ budget'[d].reserved = budget[d].reserved - back
        /\ budget'[d].wallet = budget[d].wallet - back
        /\ used'[d].wallet = used[d].wallet + cost
        /\ used'[d].price = used[d].price
        /\ \A k \in Days \ {d} : budget'[k] = budget[k] /\ used'[k] = used[k]
    BY <2>1, <2>7 DEF BudgetInv, BudgetTypeOK
  <2>9. /\ budget[d].reserved - back \in Nat /\ budget[d].wallet - back \in Nat
        /\ used[d].wallet + cost \in Nat
    BY <2>2, <2>6
  <2>10. BudgetTypeOK'
    BY <1>1, <2>1, <2>7, <2>9 DEF BudgetInv, BudgetTypeOK
  <2>11. used'[d].wallet + UnderWay'[d] <= budget'[d].wallet
    BY <2>2, <2>3, <2>4, <2>5, <2>8, Limits
  <2>12. PagesCovered'
    <3>1. \A k \in Days \ {d} : UnderWay'[k] = UnderWay[k]
      BY <2>1, PageEnds DEF BudgetInv
    <3> QED BY <2>8, <2>11, <3>1 DEF BudgetInv, PagesCovered
  <2>13. BudgetKept'
    <3>1. /\ used'[d].wallet <= budget'[d].wallet
          /\ budget'[d].wallet <= WalletLimit
          /\ budget'[d].wallet + used'[d].price <= budget'[d].reserved
          /\ budget'[d].reserved - used'[d].price <= OtherLimit
          /\ budget'[d].reserved <= CreditLimit
      BY <2>1, <2>2, <2>4, <2>8, <2>9, <2>11, Limits DEF BudgetInv, BudgetKept
    <3> QED BY <2>8, <3>1 DEF BudgetInv, BudgetKept
  <2> QED BY <2>10, <2>12, <2>13 DEF BudgetInv
<1> QED BY <1>2, <1>3

LEMMA PageReplyKeepsInv ==
  ASSUME BudgetInv, NEW c \in Calls, PageReply(c)
  PROVE  BudgetInv'
<1> PICK cost \in PageCosts : /\ budget' = release_wallet_credits(PageCredits - cost, calls[c])
                              /\ used' = Count(cost, calls[c])
  BY DEF PageReply
<1>1. cost \in Nat /\ PageCredits - cost \in Nat /\ (PageCredits - cost) + cost <= PageCredits
  BY Limits
<1> QED BY <1>1, PageEndKeepsInv DEF PageReply

\* A page that is lost gives nothing back, and the provider may have counted it.
LEMMA PageLostKeepsInv ==
  ASSUME BudgetInv, NEW c \in Calls, PageLost(c)
  PROVE  BudgetInv'
<1>1. PICK cost \in PageCosts \cup {0} : used' = Count(cost, calls[c])
  <2>1. Count(0, calls[c]) = used
    BY DEF Count, BudgetInv, BudgetTypeOK
  <2> QED BY <2>1 DEF PageLost
<1>2. cost \in Nat /\ 0 + cost <= PageCredits
  BY Limits
<1>3. release_wallet_credits(0, calls[c]) = budget
  <2>1. ASSUME NEW d \in Days
        PROVE  [budget EXCEPT ![d].reserved = @ - 0, ![d].wallet = @ - 0] = budget
    <3>1. budget \in [Days -> [reserved : Nat, wallet : Nat]]
      BY DEF BudgetInv, BudgetTypeOK
    <3>2. [budget EXCEPT ![d].reserved = @ - 0] = budget
      BY <3>1
    <3>3. [budget EXCEPT ![d].wallet = @ - 0] = budget
      BY <3>1
    <3> QED BY <3>2, <3>3
  <2> QED BY <2>1 DEF release_wallet_credits
<1> QED BY <1>1, <1>2, <1>3, PageEndKeepsInv DEF PageLost

LEMMA MidnightKeepsInv ==
  ASSUME BudgetInv, Midnight
  PROVE  BudgetInv'
<1>1. "today" \in Days /\ "yesterday" \in Days /\ \A d \in Days : d \in {"today", "yesterday"}
  BY DEF Days
<1>2. Charged("today")' = {} /\ Charged("yesterday")' = Charged("today")
  BY DEF Midnight, Charged, BudgetInv, BudgetTypeOK, Days
<1>3. UnderWay'["today"] = 0 /\ UnderWay'["yesterday"] = UnderWay["today"]
  BY <1>1, <1>2, FS_EmptySet, Limits DEF UnderWay
<1>4. budget'["today"] = NoCharge /\ used'["today"] = NoUse
  BY DEF Midnight
<1>5. \/ budget'["yesterday"] = budget["today"] /\ used'["yesterday"] = used["today"]
      \/ /\ budget'["yesterday"] = NoCharge /\ used'["yesterday"] = NoUse
         /\ UnderWay'["yesterday"] = 0
  <2>1. CASE \E c \in Calls : calls[c] = "today"
    BY <2>1 DEF Midnight
  <2>2. CASE ~\E c \in Calls : calls[c] = "today"
    <3>1. Charged("today") = {}
      BY <2>2 DEF Charged
    <3>2. UnderWay["today"] = 0
      BY <1>1, <3>1, FS_EmptySet, Limits DEF UnderWay
    <3> QED BY <1>3, <2>2, <3>2 DEF Midnight
  <2> QED BY <2>1, <2>2
<1>6. BudgetTypeOK'
  BY <1>1 DEF Midnight, BudgetInv, BudgetTypeOK, NoCharge, NoUse, Days
<1>7. BudgetKept' /\ PagesCovered'
  BY <1>1, <1>3, <1>4, <1>5, Limits DEF BudgetInv, BudgetKept, PagesCovered, NoCharge, NoUse
<1> QED BY <1>6, <1>7 DEF BudgetInv

LEMMA BudgetInvIsInductive == BudgetInv /\ [BudgetNext]_budgetVars => BudgetInv'
<1> SUFFICES ASSUME BudgetInv, [BudgetNext]_budgetVars PROVE BudgetInv'
  OBVIOUS
<1>1. CASE UNCHANGED budgetVars
  BY <1>1 DEF budgetVars, BudgetInv, BudgetTypeOK, BudgetKept, PagesCovered, UnderWay, Charged
<1>2. CASE BudgetNext
  BY <1>2, OtherReadKeepsInv, StartPageKeepsInv, PageReplyKeepsInv, PageLostKeepsInv, MidnightKeepsInv
  DEF BudgetNext
<1> QED BY <1>1, <1>2

-----------------------------------------------------------------------------
\* Pages under way stay covered on the day that was charged: the invariant behind
\* reserve_credits and release_wallet_credits.
THEOREM BudgetInvariant == BudgetSpec => []BudgetInv
<1> QED BY InitBudgetInv, BudgetInvIsInductive, PTL DEF BudgetSpec

\* The day's credits are never overspent, in whole, by wallets or into the reserve
\* of the prices, and what the provider counted stays reserved.
THEOREM BudgetAlwaysKept == BudgetSpec => []BudgetKept
<1>1. BudgetInv => BudgetKept
  BY DEF BudgetInv
<1> QED BY <1>1, BudgetInvariant, PTL

-----------------------------------------------------------------------------
(***************************************************************************)
(* Wallet histories (WalletBackfill).                                      *)
(***************************************************************************)
WalletRow(w) == [cursor : 0..Length[w], token : Readers \cup {NoReader},
                 leased : BOOLEAN, due : BOOLEAN, waiting : BOOLEAN]
ReadingRecord == [pc : {"reserve", "read", "save", "fail", "park"}, wallet : Wallets, cursor : Cursors]
Reading(r) == readers[r] # NotReading

\* A reader that still holds its wallet has read the cursor that is saved.
WalletInv ==
  /\ wallets = [w \in Wallets |-> wallets[w]]
  /\ \A w \in Wallets : wallets[w] \in WalletRow(w)
  /\ readers \in [Readers -> {NotReading} \cup ReadingRecord]
  /\ room \in BOOLEAN
  /\ \A r \in Readers : Reading(r) /\ Owned(r) => readers[r].cursor = wallets[readers[r].wallet].cursor

LEMMA ReadingTyped ==
  ASSUME WalletInv, NEW r \in Readers
  PROVE  /\ Reading(r) => /\ readers[r] \in ReadingRecord /\ readers[r].wallet \in Wallets
                          /\ readers[r].wallet # NoReader /\ readers[r].cursor \in Cursors
         /\ readers[r].pc # "idle" <=> Reading(r)
  BY WalletBackfillAssumption DEF WalletInv, Reading, NotReading, ReadingRecord

LEMMA CursorsOf ==
  ASSUME NEW w \in Wallets
  PROVE  0 \in 0..Length[w] /\ 0..Length[w] \subseteq Cursors /\ Length[w] \in Nat
<1>1. Length[w] \in Nat
  BY WalletBackfillAssumption
<1>2. 0..Length[w] \subseteq Cursors
  BY DEF Cursors
<1> QED BY <1>1, <1>2

LEMMA InitWalletInv == WalletInit => WalletInv
<1> SUFFICES ASSUME WalletInit PROVE WalletInv
  OBVIOUS
<1>1. ASSUME NEW w \in Wallets PROVE wallets[w] \in WalletRow(w)
  BY CursorsOf DEF WalletInit, NewWallet, WalletRow
<1> QED BY <1>1 DEF WalletInit, WalletInv, Reading

\* A step of a reader: it changes the row of one wallet, as its holder, or takes
\* it, and nobody else's place.
LEMMA WalletStepKeepsInv ==
  ASSUME WalletInv, NEW r \in Readers, NEW w \in Wallets, NEW row \in WalletRow(w),
         wallets' = [wallets EXCEPT ![w] = row],
         readers' \in [Readers -> {NotReading} \cup ReadingRecord],
         \A q \in Readers \ {r} : readers'[q] = readers[q],
         row = wallets[w] \/ row.token \in {r, NoReader},
         readers'[r] = NotReading
           \/ (readers'[r].wallet = w /\ (row.token = r => readers'[r].cursor = row.cursor)),
         room' \in BOOLEAN
  PROVE  WalletInv'
<1>1. wallets' = [k \in Wallets |-> IF k = w THEN row ELSE wallets[k]]
  BY DEF WalletInv
<1>2. wallets'[w] = row /\ \A k \in Wallets \ {w} : wallets'[k] = wallets[k]
  BY <1>1
<1>3. ASSUME NEW q \in Readers, Reading(q)', Owned(q)'
      PROVE  readers'[q].cursor = wallets'[readers'[q].wallet].cursor
  <2>1. CASE q = r
    BY <1>2, <1>3, <2>1 DEF Reading, Owned
  <2>2. CASE q # r
    <3>1. readers'[q] = readers[q] /\ Reading(q) /\ q # NoReader /\ readers[q].wallet \in Wallets
      BY <1>3, <2>2, ReadingTyped, WalletBackfillAssumption DEF Reading
    <3>2. wallets'[readers[q].wallet] = wallets[readers[q].wallet]
      BY <1>2, <1>3, <2>2, <3>1 DEF Owned
    <3> QED BY <1>3, <3>1, <3>2 DEF WalletInv, Owned
  <2> QED BY <2>1, <2>2
<1>4. \A k \in Wallets : wallets'[k] \in WalletRow(k)
  BY <1>2 DEF WalletInv
<1>5. wallets' = [k \in Wallets |-> wallets'[k]]
  BY <1>1
<1> QED BY <1>3, <1>4, <1>5 DEF WalletInv

LEMMA ClaimWalletKeepsInv ==
  ASSUME WalletInv, NEW r \in Readers, NEW w \in Wallets, ClaimWallet(r, w)
  PROVE  WalletInv'
<1> DEFINE row == [wallets[w] EXCEPT !.leased = TRUE, !.token = r]
           place == [pc |-> "reserve", wallet |-> w, cursor |-> wallets[w].cursor]
<1>1. /\ wallets[w] \in WalletRow(w) /\ wallets[w].cursor \in Cursors
      /\ readers \in [Readers -> {NotReading} \cup ReadingRecord]
  BY CursorsOf DEF WalletInv, WalletRow
<1>2. row \in WalletRow(w) /\ row.token = r /\ row.cursor = wallets[w].cursor
  BY <1>1 DEF WalletRow
<1>3. wallets' = [wallets EXCEPT ![w] = row] /\ readers' = [readers EXCEPT ![r] = place]
  BY DEF ClaimWallet
<1>4. place \in ReadingRecord /\ place.wallet = w /\ place.cursor = wallets[w].cursor
  BY <1>1 DEF ReadingRecord
<1>5. room' \in BOOLEAN
  BY DEF ClaimWallet, WalletInv
<1> HIDE DEF row, place
<1> QED BY <1>1, <1>2, <1>3, <1>4, <1>5, WalletStepKeepsInv

\* The budget answers, or the provider does: the reader goes on.
LEMMA GoKeepsInv ==
  ASSUME WalletInv, NEW r \in Readers, Reserve(r) \/ PageRead(r) \/ PageFailed(r)
  PROVE  /\ WalletInv' /\ UNCHANGED wallets
         /\ \A q \in Readers : /\ readers'[q].wallet = readers[q].wallet
                               /\ readers'[q].cursor = readers[q].cursor
                               /\ Reading(q)' <=> Reading(q)
<1>1. PICK pc \in {"read", "park", "save", "fail"} : Go(r, pc)
  BY DEF Reserve, PageRead, PageFailed
<1>2. UNCHANGED wallets /\ room' \in BOOLEAN
  BY DEF Reserve, PageRead, PageFailed, WalletInv
<1>3. Reading(r) /\ readers[r] \in ReadingRecord
  BY ReadingTyped DEF Reserve, PageRead, PageFailed
<1>4. /\ readers'[r] = [readers[r] EXCEPT !.pc = pc]
      /\ \A q \in Readers \ {r} : readers'[q] = readers[q]
      /\ readers' = [q \in Readers |-> readers'[q]]
  BY <1>1 DEF Go, WalletInv
<1>5. /\ readers'[r] \in ReadingRecord /\ readers'[r].wallet = readers[r].wallet
      /\ readers'[r].cursor = readers[r].cursor /\ readers'[r].pc # "idle"
  BY <1>3, <1>4 DEF ReadingRecord
<1>6. \A q \in Readers : /\ readers'[q].wallet = readers[q].wallet
                         /\ readers'[q].cursor = readers[q].cursor
                         /\ Reading(q)' <=> Reading(q)
  <2>1. readers'[r] # NotReading
    BY <1>5 DEF NotReading
  <2>2. ASSUME NEW q \in Readers
        PROVE  /\ readers'[q].wallet = readers[q].wallet
               /\ readers'[q].cursor = readers[q].cursor
               /\ readers'[q] # NotReading <=> readers[q] # NotReading
    <3>1. CASE q = r
      BY <1>3, <1>5, <2>1, <3>1 DEF Reading
    <3>2. CASE q # r
      BY <1>4, <3>2
    <3> QED BY <3>1, <3>2
  <2> QED BY <2>2 DEF Reading
<1>7. readers' \in [Readers -> {NotReading} \cup ReadingRecord]
  BY <1>4, <1>5 DEF WalletInv
<1> QED BY <1>2, <1>6, <1>7 DEF WalletInv, Owned

LEMMA SavePageKeepsInv ==
  ASSUME WalletInv, NEW r \in Readers, SavePage(r)
  PROVE  WalletInv'
<1> DEFINE w == readers[r].wallet
           next == IF readers[r].cursor < Length[w] THEN readers[r].cursor + 1 ELSE readers[r].cursor
<1>1. Reading(r) /\ readers[r] \in ReadingRecord /\ w \in Wallets
  BY ReadingTyped DEF SavePage
<1>2. /\ Owned(r) /\ readers[r].cursor = wallets[w].cursor /\ wallets[w] \in WalletRow(w)
      /\ readers \in [Readers -> {NotReading} \cup ReadingRecord]
  BY <1>1 DEF SavePage, WalletInv
<1>3. next \in 0..Length[w] /\ next \in Cursors
  BY <1>1, <1>2, CursorsOf DEF WalletRow
<1>4. PICK keep_lease \in BOOLEAN :
        /\ wallets' = [wallets EXCEPT
             ![w] = [cursor |-> next, due |-> FALSE, waiting |-> FALSE,
                     leased |-> keep_lease /\ @.leased,
                     token |-> IF keep_lease THEN r ELSE NoReader]]
        /\ IF keep_lease
           THEN readers' = [readers EXCEPT ![r].pc = "reserve", ![r].cursor = next]
           ELSE StopReading(r)
  BY <1>3, CursorsOf DEF SavePage
<1> HIDE DEF next
<1> DEFINE row == [cursor |-> next, due |-> FALSE, waiting |-> FALSE,
                   leased |-> keep_lease /\ wallets[w].leased,
                   token |-> IF keep_lease THEN r ELSE NoReader]
<1>5. /\ row \in WalletRow(w) /\ row.token \in {r, NoReader} /\ row.cursor = next
      /\ ~keep_lease => row.token = NoReader
  <2>1. (keep_lease /\ wallets[w].leased) \in BOOLEAN
    OBVIOUS
  <2> QED BY <1>2, <1>3, <2>1 DEF WalletRow
<1>6. wallets' = [wallets EXCEPT ![w] = row]
  BY <1>1, <1>2, <1>4 DEF WalletInv
<1>7. /\ readers' \in [Readers -> {NotReading} \cup ReadingRecord]
      /\ \A q \in Readers \ {r} : readers'[q] = readers[q]
      /\ readers'[r] = NotReading \/ (readers'[r].wallet = w /\ readers'[r].cursor = next)
  <2>1. CASE keep_lease
    <3>1. readers' = [readers EXCEPT ![r] = [readers[r] EXCEPT !.pc = "reserve", !.cursor = next]]
      BY <1>2, <1>4, <2>1
    <3>2. /\ [readers[r] EXCEPT !.pc = "reserve", !.cursor = next] \in ReadingRecord
          /\ [readers[r] EXCEPT !.pc = "reserve", !.cursor = next].wallet = w
          /\ [readers[r] EXCEPT !.pc = "reserve", !.cursor = next].cursor = next
      BY <1>1, <1>3 DEF ReadingRecord
    <3> QED BY <1>2, <3>1, <3>2
  <2>2. CASE ~keep_lease
    BY <1>2, <1>4, <2>2 DEF StopReading
  <2> QED BY <2>1, <2>2
<1>8. room' \in BOOLEAN
  BY DEF SavePage, WalletInv
<1> HIDE DEF row, w
<1> QED BY <1>1, <1>5, <1>6, <1>7, <1>8, WalletStepKeepsInv

LEMMA StopReadingKeepsInv ==
  ASSUME WalletInv, NEW r \in Readers, PutOff(r) \/ LostWallet(r) \/ ReaderCrash(r)
  PROVE  WalletInv'
<1> DEFINE w == readers[r].wallet
<1>1. Reading(r) /\ w \in Wallets
  BY ReadingTyped DEF PutOff, LostWallet, ReaderCrash, Reading
<1>2. /\ readers' = [readers EXCEPT ![r] = NotReading] /\ UNCHANGED room
      /\ readers \in [Readers -> {NotReading} \cup ReadingRecord] /\ room \in BOOLEAN
      /\ wallets[w] \in WalletRow(w)
  BY <1>1 DEF PutOff, LostWallet, ReaderCrash, StopReading, WalletInv
<1>3. PICK row \in WalletRow(w) :
        /\ wallets' = [wallets EXCEPT ![w] = row]
        /\ row = wallets[w] \/ row.token = NoReader
  <2>1. CASE UNCHANGED wallets
    <3>1. wallets' = [wallets EXCEPT ![w] = wallets[w]]
      BY <1>1, <2>1 DEF WalletInv
    <3> QED BY <1>2, <3>1
  <2>2. CASE PutOff(r)
    <3> DEFINE row == [cursor |-> wallets[w].cursor, token |-> NoReader, leased |-> FALSE,
                       due |-> FALSE, waiting |-> readers[r].pc = "park"]
    <3>1. wallets' = [wallets EXCEPT ![w] = row]
      BY <1>1, <2>2 DEF PutOff, WalletInv
    <3>2. row \in WalletRow(w) /\ row.token = NoReader
      <4>1. (readers[r].pc = "park") \in BOOLEAN
        OBVIOUS
      <4> QED BY <1>2, <4>1 DEF WalletRow
    <3> QED BY <3>1, <3>2
  <2> QED BY <2>1, <2>2 DEF LostWallet, ReaderCrash
<1> HIDE DEF w
<1> QED BY <1>1, <1>2, <1>3, WalletStepKeepsInv

\* Time and the budget change when a wallet is due, and whether its lease runs.
LEMMA WalletClock ==
  ASSUME WalletInv,
         \/ \E w \in Wallets : LapseWallet(w) \/ DueWallet(w)
         \/ resume_budget_waits \/ CreditsMove \/ NewCredits
  PROVE  /\ WalletInv' /\ UNCHANGED readers
         /\ \A k \in Wallets : /\ wallets'[k].token = wallets[k].token
                               /\ wallets'[k].cursor = wallets[k].cursor
<1>1. UNCHANGED readers /\ room' \in BOOLEAN
  BY DEF LapseWallet, DueWallet, resume_budget_waits, CreditsMove, NewCredits, WalletInv
<1>2. /\ wallets' = [k \in Wallets |-> wallets'[k]]
      /\ \A k \in Wallets : /\ wallets'[k] \in WalletRow(k)
                            /\ wallets'[k].token = wallets[k].token
                            /\ wallets'[k].cursor = wallets[k].cursor
  <2>0. \A k \in Wallets : wallets[k] \in WalletRow(k)
    BY DEF WalletInv
  <2>1. ASSUME NEW W, Wake(W)
        PROVE  /\ wallets' = [k \in Wallets |-> wallets'[k]]
               /\ \A k \in Wallets : /\ wallets'[k] \in WalletRow(k)
                                     /\ wallets'[k].token = wallets[k].token
                                     /\ wallets'[k].cursor = wallets[k].cursor
    <3>1. ASSUME NEW k \in Wallets
          PROVE  /\ [wallets[k] EXCEPT !.due = TRUE] \in WalletRow(k)
                 /\ [wallets[k] EXCEPT !.due = TRUE].token = wallets[k].token
                 /\ [wallets[k] EXCEPT !.due = TRUE].cursor = wallets[k].cursor
      BY <2>0 DEF WalletRow
    <3> QED BY <2>0, <2>1, <3>1 DEF Wake
  <2>2. ASSUME NEW w \in Wallets, LapseWallet(w)
        PROVE  /\ wallets' = [k \in Wallets |-> wallets'[k]]
               /\ \A k \in Wallets : /\ wallets'[k] \in WalletRow(k)
                                     /\ wallets'[k].token = wallets[k].token
                                     /\ wallets'[k].cursor = wallets[k].cursor
    <3>1. /\ [wallets[w] EXCEPT !.leased = FALSE] \in WalletRow(w)
          /\ [wallets[w] EXCEPT !.leased = FALSE].token = wallets[w].token
          /\ [wallets[w] EXCEPT !.leased = FALSE].cursor = wallets[w].cursor
      BY <2>0 DEF WalletRow
    <3>2. wallets' = [k \in Wallets |-> IF k = w THEN [wallets[w] EXCEPT !.leased = FALSE] ELSE wallets[k]]
      BY <2>2 DEF LapseWallet, WalletInv
    <3> QED BY <2>0, <3>1, <3>2
  <2>3. CASE UNCHANGED wallets
    BY <2>0, <2>3 DEF WalletInv
  <2> QED BY <2>1, <2>2, <2>3 DEF DueWallet, resume_budget_waits, CreditsMove, NewCredits
<1>3. ASSUME NEW r \in Readers, Reading(r), Owned(r)'
      PROVE  readers[r].cursor = wallets'[readers[r].wallet].cursor
  BY <1>1, <1>2, <1>3, ReadingTyped DEF WalletInv, Owned
<1> QED BY <1>1, <1>2, <1>3 DEF WalletInv, Reading

LEMMA WalletInvIsInductive == WalletInv /\ [WalletNext]_walletVars => WalletInv'
<1> SUFFICES ASSUME WalletInv, [WalletNext]_walletVars PROVE WalletInv'
  OBVIOUS
<1>1. CASE UNCHANGED walletVars
  BY <1>1 DEF walletVars, WalletInv, Reading, Owned
<1>2. CASE WalletNext
  BY <1>2, ClaimWalletKeepsInv, GoKeepsInv, SavePageKeepsInv, StopReadingKeepsInv, WalletClock
  DEF WalletNext, ReadPage
<1> QED BY <1>1, <1>2

\* Readers and wallets agree on the cursors: the invariant of advance_wallet().
THEOREM WalletInvariant == WalletSpec => []WalletInv
<1> QED BY InitWalletInv, WalletInvIsInductive, PTL DEF WalletSpec

\* The refinement: what the wallets and their readers are to LeasedWork.
WalletHolder == [w \in Wallets |-> wallets[w].token]
WalletSaved == [w \in Wallets |-> wallets[w].cursor]
WalletWork == [r \in Readers |-> [task |-> readers[r].wallet,
                 seen |-> IF readers[r] = NotReading THEN NoReader ELSE readers[r].cursor]]
NoWalletWork == [task |-> NoReader, seen |-> NoReader]

LEMMA WalletInitImplements == WalletInit => WalletLease!Init
<1> SUFFICES ASSUME WalletInit PROVE WalletLease!Init
  OBVIOUS
<1>1. WalletHolder = [w \in Wallets |-> NoReader] /\ WalletSaved \in [Wallets -> {0}]
  BY DEF WalletInit, WalletHolder, WalletSaved, NewWallet
<1>2. WalletWork = [r \in Readers |-> NoWalletWork]
  BY DEF WalletInit, WalletWork, NoWalletWork, NotReading
<1> QED
  BY <1>1, <1>2
  DEF WalletLease!Init, WalletLease!NoWork, WalletHolder, WalletSaved, WalletWork, NoWalletWork

LEMMA ClaimWalletTakes ==
  ASSUME WalletInv, NEW r \in Readers, NEW w \in Wallets, ClaimWallet(r, w)
  PROVE  WalletLease!Take(r, w)
<1>1. /\ \A k \in Wallets : wallets[k] \in WalletRow(k) /\ wallets[k].cursor \in Cursors
      /\ readers \in [Readers -> {NotReading} \cup ReadingRecord]
      /\ wallets = [k \in Wallets |-> wallets[k]]
  BY CursorsOf DEF WalletInv, WalletRow
<1>2. /\ wallets'[w].token = r /\ wallets'[w].cursor = wallets[w].cursor
      /\ \A k \in Wallets \ {w} : wallets'[k] = wallets[k]
  BY <1>1 DEF ClaimWallet, WalletRow
<1>3. /\ readers[r] = NotReading
      /\ readers'[r] = [pc |-> "reserve", wallet |-> w, cursor |-> wallets[w].cursor]
      /\ \A q \in Readers \ {r} : readers'[q] = readers[q]
  BY <1>1 DEF ClaimWallet
<1>4. readers'[r].pc # NotReading.pc
  BY <1>3 DEF NotReading
<1>5. WalletHolder' = [WalletHolder EXCEPT ![w] = r]
  BY <1>2 DEF WalletHolder
<1>6. WalletSaved' = WalletSaved /\ WalletSaved' \in [Wallets -> Cursors]
  BY <1>1, <1>2 DEF WalletSaved
<1>7. WalletWork[r] = NoWalletWork
  BY <1>3 DEF WalletWork, NoWalletWork, NotReading
<1>8. WalletWork' = [WalletWork EXCEPT ![r] = [task |-> w, seen |-> WalletSaved'[w]]]
  <2>1. WalletSaved'[w] = wallets[w].cursor
    BY <1>2 DEF WalletSaved
  <2>2. readers'[r].wallet = w /\ readers'[r].cursor = wallets[w].cursor /\ readers'[r] # NotReading
    BY <1>3, <1>4
  <2> QED BY <1>3, <2>1, <2>2 DEF WalletWork
<1>9. WalletHolder = [k \in Wallets |-> IF k \in {} THEN NoReader ELSE WalletHolder[k]]
  BY DEF WalletHolder
<1>10. \E R \in SUBSET Wallets :
         /\ \A k \in Wallets : IF k \in R THEN WalletSaved'[k] \in {0} ELSE WalletSaved'[k] = WalletSaved[k]
         /\ WalletHolder' = [[k \in Wallets |-> IF k \in R THEN NoReader ELSE WalletHolder[k]] EXCEPT ![w] = r]
  <2> WITNESS {} \in SUBSET Wallets
  <2> QED BY <1>5, <1>6, <1>9
<1> QED
  BY <1>6, <1>7, <1>8, <1>10
  DEF WalletLease!Take, WalletLease!Reset, WalletLease!Freed, WalletLease!NoWork,
      WalletHolder, WalletSaved, WalletWork, NoWalletWork

\* What a reader has at the lease, and what its leaving is to it.
LEMMA AtWallet ==
  ASSUME WalletInv, NEW r \in Readers, Reading(r)
  PROVE  /\ readers[r].wallet \in Wallets /\ readers[r].wallet # NoReader
         /\ WalletWork[r] = [task |-> readers[r].wallet, seen |-> readers[r].cursor]
         /\ Owned(r) => /\ WalletHolder[readers[r].wallet] = r
                        /\ WalletSaved[readers[r].wallet] = readers[r].cursor
         /\ StopReading(r) => WalletWork' = [WalletWork EXCEPT ![r] = NoWalletWork]
<1>1. readers[r].wallet \in Wallets /\ readers[r].wallet # NoReader
  BY ReadingTyped
<1>2. WalletWork[r] = [task |-> readers[r].wallet, seen |-> readers[r].cursor]
  BY DEF WalletWork, Reading
<1>3. ASSUME Owned(r)
      PROVE  WalletHolder[readers[r].wallet] = r /\ WalletSaved[readers[r].wallet] = readers[r].cursor
  BY <1>1, <1>3 DEF Owned, WalletHolder, WalletSaved, WalletInv
<1>4. ASSUME StopReading(r) PROVE WalletWork' = [WalletWork EXCEPT ![r] = NoWalletWork]
  <2>1. readers'[r] = NotReading /\ \A q \in Readers \ {r} : readers'[q] = readers[q]
    BY <1>4 DEF StopReading, WalletInv
  <2>2. NotReading.wallet = NoReader
    BY DEF NotReading
  <2> QED BY <2>1, <2>2 DEF WalletWork, NoWalletWork
<1> QED BY <1>1, <1>2, <1>3, <1>4

LEMMA SavePageCommits ==
  ASSUME WalletInv, NEW r \in Readers, SavePage(r)
  PROVE  WalletLease!Commit(r)
<1> DEFINE w == readers[r].wallet
           next == IF readers[r].cursor < Length[w] THEN readers[r].cursor + 1 ELSE readers[r].cursor
<1>1. Reading(r) /\ readers[r] \in ReadingRecord /\ w \in Wallets /\ Owned(r)
  BY ReadingTyped DEF SavePage
<1>2. /\ w # NoReader
      /\ WalletWork[r] = [task |-> w, seen |-> readers[r].cursor]
      /\ WalletHolder[w] = r /\ WalletSaved[w] = readers[r].cursor
      /\ StopReading(r) => WalletWork' = [WalletWork EXCEPT ![r] = NoWalletWork]
  BY <1>1, AtWallet
<1>3. /\ readers[r].cursor = wallets[w].cursor /\ wallets[w] \in WalletRow(w)
      /\ readers \in [Readers -> {NotReading} \cup ReadingRecord]
      /\ wallets = [k \in Wallets |-> wallets[k]]
  BY <1>1 DEF WalletInv
<1>4. next \in Cursors
  <2>1. next \in 0..Length[w]
    BY <1>1, <1>3, CursorsOf DEF WalletRow
  <2> QED BY <1>1, <2>1, CursorsOf
<1>5. PICK keep_lease \in BOOLEAN :
        /\ wallets' = [wallets EXCEPT
             ![w] = [cursor |-> next, due |-> FALSE, waiting |-> FALSE,
                     leased |-> keep_lease /\ @.leased,
                     token |-> IF keep_lease THEN r ELSE NoReader]]
        /\ IF keep_lease
           THEN readers' = [readers EXCEPT ![r].pc = "reserve", ![r].cursor = next]
           ELSE StopReading(r)
  <2>1. (next < Length[w]) \in BOOLEAN
    OBVIOUS
  <2> QED BY <2>1 DEF SavePage
<1> HIDE DEF next
<1>6. /\ wallets'[w].cursor = next /\ wallets'[w].token = IF keep_lease THEN r ELSE NoReader
      /\ \A k \in Wallets \ {w} : wallets'[k] = wallets[k]
  BY <1>1, <1>3, <1>5
<1>7. WalletSaved' = [WalletSaved EXCEPT ![w] = next]
  BY <1>1, <1>6 DEF WalletSaved
<1>8. WalletHolder' \in {WalletHolder, [WalletHolder EXCEPT ![w] = NoReader]}
  <2>1. CASE keep_lease
    <3>1. \A k \in Wallets : wallets'[k].token = wallets[k].token
      BY <1>1, <1>6, <2>1 DEF Owned
    <3> QED BY <3>1 DEF WalletHolder
  <2>2. CASE ~keep_lease
    BY <1>1, <1>6, <2>2 DEF WalletHolder
  <2> QED BY <2>1, <2>2
<1>9. WalletWork' \in {[WalletWork EXCEPT ![r] = NoWalletWork],
                       [WalletWork EXCEPT ![r].seen = WalletSaved'[w]]}
  <2>1. CASE keep_lease
    <3>1. readers' = [readers EXCEPT ![r] = [readers[r] EXCEPT !.pc = "reserve", !.cursor = next]]
      BY <1>3, <1>5, <2>1
    <3>2. /\ readers'[r] = [readers[r] EXCEPT !.pc = "reserve", !.cursor = next]
          /\ \A q \in Readers \ {r} : readers'[q] = readers[q]
      BY <1>3, <3>1
    <3>3. readers'[r].wallet = w /\ readers'[r].cursor = next /\ readers'[r].pc # "idle"
      BY <1>1, <3>2 DEF ReadingRecord
    <3>4. readers'[r] # NotReading
      BY <3>3 DEF NotReading
    <3>5. WalletSaved'[w] = next
      BY <1>1, <1>7 DEF WalletSaved
    <3>6. /\ WalletWork'[r] = [task |-> w, seen |-> next]
          /\ \A q \in Readers \ {r} : WalletWork'[q] = WalletWork[q]
      BY <3>2, <3>3, <3>4 DEF WalletWork
    <3>7. /\ WalletWork' = [q \in Readers |-> WalletWork'[q]]
          /\ WalletWork = [q \in Readers |-> WalletWork[q]]
      BY DEF WalletWork
    <3> QED BY <1>2, <3>5, <3>6, <3>7
  <2>2. CASE ~keep_lease
    BY <1>2, <1>5, <2>2
  <2> QED BY <2>1, <2>2
<1> HIDE DEF w
<1> QED
  BY <1>2, <1>4, <1>7, <1>8, <1>9
  DEF WalletLease!Commit, WalletLease!NoWork, WalletHolder, WalletSaved, WalletWork, NoWalletWork

LEMMA ReadersStop ==
  ASSUME WalletInv, NEW r \in Readers, PutOff(r) \/ LostWallet(r) \/ ReaderCrash(r)
  PROVE  WalletLease!Stop(r)
<1> DEFINE w == readers[r].wallet
<1>1. Reading(r) /\ w \in Wallets /\ StopReading(r)
  BY ReadingTyped DEF PutOff, LostWallet, ReaderCrash, Reading
<1>2. /\ w # NoReader
      /\ WalletWork[r] = [task |-> w, seen |-> readers[r].cursor]
      /\ WalletWork' = [WalletWork EXCEPT ![r] = NoWalletWork]
      /\ Owned(r) => WalletHolder[w] = r
  BY <1>1, AtWallet
<1>3. CASE UNCHANGED wallets
  <2>1. WalletSaved' = WalletSaved /\ WalletHolder' = WalletHolder
    BY <1>3 DEF WalletSaved, WalletHolder
  <2> HIDE DEF w
  <2> QED
    BY <1>2, <2>1
    DEF WalletLease!Stop, WalletLease!NoWork, WalletHolder, WalletSaved, WalletWork, NoWalletWork
<1>4. CASE PutOff(r)
  <2>1. /\ wallets'[w].cursor = wallets[w].cursor /\ wallets'[w].token = NoReader
        /\ \A k \in Wallets \ {w} : wallets'[k] = wallets[k]
    BY <1>1, <1>4 DEF PutOff, WalletInv
  <2>2. WalletSaved' = WalletSaved /\ WalletHolder' = [WalletHolder EXCEPT ![w] = NoReader]
    BY <1>1, <2>1 DEF WalletSaved, WalletHolder
  <2>3. WalletHolder[w] = r
    BY <1>2, <1>4 DEF PutOff
  <2> HIDE DEF w
  <2> QED
    BY <1>2, <2>2, <2>3
    DEF WalletLease!Stop, WalletLease!NoWork, WalletHolder, WalletSaved, WalletWork, NoWalletWork
<1> QED BY <1>3, <1>4 DEF LostWallet, ReaderCrash

LEMMA WalletStepImplements ==
  WalletInv /\ [WalletNext]_walletVars =>
    [WalletLease!Next]_<<WalletHolder, WalletSaved, WalletWork>>
<1> SUFFICES ASSUME WalletInv, [WalletNext]_walletVars
             PROVE  [WalletLease!Next]_<<WalletHolder, WalletSaved, WalletWork>>
  OBVIOUS
<1>1. CASE UNCHANGED walletVars
  BY <1>1 DEF walletVars, WalletHolder, WalletSaved, WalletWork
<1>2. CASE \/ \E w \in Wallets : LapseWallet(w) \/ DueWallet(w)
           \/ resume_budget_waits \/ CreditsMove \/ NewCredits
  BY <1>2, WalletClock DEF WalletHolder, WalletSaved, WalletWork
<1>3. ASSUME NEW r \in Readers, Reserve(r) \/ PageRead(r) \/ PageFailed(r)
      PROVE  UNCHANGED <<WalletHolder, WalletSaved, WalletWork>>
  <2>1. UNCHANGED wallets
    BY <1>3, GoKeepsInv
  <2>2. \A q \in Readers : /\ readers'[q].wallet = readers[q].wallet
                           /\ readers'[q].cursor = readers[q].cursor
                           /\ Reading(q)' <=> Reading(q)
    BY <1>3, GoKeepsInv
  <2>3. \A q \in Readers : readers'[q] = NotReading <=> readers[q] = NotReading
    BY <2>2 DEF Reading
  <2> QED BY <2>1, <2>2, <2>3 DEF WalletHolder, WalletSaved, WalletWork
<1>4. ASSUME NEW r \in Readers, NEW w \in Wallets, ClaimWallet(r, w)
      PROVE  WalletLease!Next
  BY <1>4, ClaimWalletTakes DEF WalletLease!Next
<1>5. ASSUME NEW r \in Readers, SavePage(r)
      PROVE  WalletLease!Next
  BY <1>5, SavePageCommits DEF WalletLease!Next
<1>6. ASSUME NEW r \in Readers, PutOff(r) \/ LostWallet(r) \/ ReaderCrash(r)
      PROVE  WalletLease!Next
  BY <1>6, ReadersStop DEF WalletLease!Next
<1> QED BY <1>1, <1>2, <1>3, <1>4, <1>5, <1>6 DEF WalletNext, ReadPage

\* Wallet histories are leased work: a cursor is saved only by the reader that
\* holds the wallet, on top of the one it read, so that no page is skipped.
THEOREM WalletsImplementLease == WalletSpec => WalletsAreLeased
<1>1. [WalletLease!Next]_<<WalletHolder, WalletSaved, WalletWork>> =>
        [WalletLease!Next]_<<[w \in Wallets |-> wallets[w].token], [w \in Wallets |-> wallets[w].cursor],
           [r \in Readers |-> [task |-> readers[r].wallet,
              seen |-> IF readers[r] = NotReading THEN NoReader ELSE readers[r].cursor]]>>
  BY DEF WalletHolder, WalletSaved, WalletWork
<1> QED
  BY <1>1, WalletInitImplements, WalletStepImplements, WalletInvariant, PTL
  DEF WalletSpec, WalletsAreLeased, WalletLease!Spec

-----------------------------------------------------------------------------
(***************************************************************************)
(* Paid research reports (ResearchReports).                                *)
(*                                                                         *)
(* First, what is in a list after Redis' list commands.                    *)
(***************************************************************************)
LEMMA PushedIn ==
  ASSUME NEW S, NEW s \in Seq(S), NEW c \in S
  PROVE  /\ <<c>> \o s \in Seq(S) /\ Append(s, c) \in Seq(S)
         /\ \A d : Contains(<<c>> \o s, d) <=> d = c \/ Contains(s, d)
         /\ \A d : Contains(Append(s, c), d) <=> d = c \/ Contains(s, d)
<1>1. /\ <<c>> \in Seq(S) /\ Len(<<c>>) = 1 /\ <<c>>[1] = c
      /\ Len(s) \in Nat
  OBVIOUS
<1>2. /\ <<c>> \o s \in Seq(S) /\ Len(<<c>> \o s) = Len(s) + 1
      /\ \A i \in 1..Len(s) + 1 : (<<c>> \o s)[i] = IF i = 1 THEN c ELSE s[i - 1]
  BY <1>1, ConcatProperties
<1>3. /\ Append(s, c) \in Seq(S) /\ Len(Append(s, c)) = Len(s) + 1
      /\ \A i \in 1..Len(s) : Append(s, c)[i] = s[i]
      /\ Append(s, c)[Len(s) + 1] = c
  OBVIOUS
<1>4. ASSUME NEW d PROVE Contains(<<c>> \o s, d) <=> d = c \/ Contains(s, d)
  <2>1. ASSUME Contains(s, d) PROVE Contains(<<c>> \o s, d)
    <3>1. PICK i \in 1..Len(s) : s[i] = d
      BY <2>1 DEF Contains
    <3>2. i + 1 \in 1..Len(s) + 1 /\ (<<c>> \o s)[i + 1] = d
      BY <1>1, <1>2, <3>1
    <3> QED BY <1>2, <3>2 DEF Contains
  <2>2. Contains(<<c>> \o s, c)
    <3>1. 1 \in 1..Len(s) + 1
      BY <1>1
    <3> QED BY <1>2, <3>1 DEF Contains
  <2>3. ASSUME Contains(<<c>> \o s, d), d # c PROVE Contains(s, d)
    <3>1. PICK i \in 1..Len(s) + 1 : (<<c>> \o s)[i] = d
      BY <1>2, <2>3 DEF Contains
    <3>2. i - 1 \in 1..Len(s) /\ s[i - 1] = d
      BY <1>1, <1>2, <2>3, <3>1
    <3> QED BY <3>2 DEF Contains
  <2> QED BY <2>1, <2>2, <2>3
<1>5. ASSUME NEW d PROVE Contains(Append(s, c), d) <=> d = c \/ Contains(s, d)
  <2>1. \A i \in 1..Len(s) + 1 : i \in 1..Len(s) \/ i = Len(s) + 1
    BY <1>1
  <2>2. 1..Len(s) \subseteq 1..Len(s) + 1 /\ Len(s) + 1 \in 1..Len(s) + 1
    BY <1>1
  <2> QED BY <1>3, <2>1, <2>2 DEF Contains
<1> QED BY <1>2, <1>3, <1>4, <1>5

LEMMA JoinedIn ==
  ASSUME NEW S, NEW s \in Seq(S), NEW t \in Seq(S)
  PROVE  /\ s \o t \in Seq(S)
         /\ \A d : Contains(s \o t, d) <=> Contains(s, d) \/ Contains(t, d)
<1>1. /\ s \o t \in Seq(S) /\ Len(s \o t) = Len(s) + Len(t)
      /\ \A i \in 1..Len(s) + Len(t) : (s \o t)[i] = IF i <= Len(s) THEN s[i] ELSE t[i - Len(s)]
      /\ Len(s) \in Nat /\ Len(t) \in Nat
  BY ConcatProperties
<1>2. ASSUME NEW d PROVE Contains(s \o t, d) <=> Contains(s, d) \/ Contains(t, d)
  <2>1. ASSUME Contains(s, d) PROVE Contains(s \o t, d)
    <3>1. PICK i \in 1..Len(s) : s[i] = d
      BY <2>1 DEF Contains
    <3>2. i \in 1..Len(s) + Len(t) /\ (s \o t)[i] = d
      BY <1>1, <3>1
    <3> QED BY <1>1, <3>2 DEF Contains
  <2>2. ASSUME Contains(t, d) PROVE Contains(s \o t, d)
    <3>1. PICK i \in 1..Len(t) : t[i] = d
      BY <2>2 DEF Contains
    <3>2. Len(s) + i \in 1..Len(s) + Len(t) /\ (s \o t)[Len(s) + i] = d
      BY <1>1, <3>1
    <3> QED BY <1>1, <3>2 DEF Contains
  <2>3. ASSUME Contains(s \o t, d), ~Contains(s, d) PROVE Contains(t, d)
    <3>1. PICK i \in 1..Len(s) + Len(t) : (s \o t)[i] = d
      BY <1>1, <2>3 DEF Contains
    <3>2. ~(i <= Len(s))
      BY <1>1, <2>3, <3>1 DEF Contains
    <3>3. i - Len(s) \in 1..Len(t) /\ t[i - Len(s)] = d
      BY <1>1, <3>1, <3>2
    <3> QED BY <3>3 DEF Contains
  <2> QED BY <2>1, <2>2, <2>3
<1> QED BY <1>1, <1>2

LEMMA PoppedIn ==
  ASSUME NEW S, NEW s \in Seq(S), s # <<>>
  PROVE  /\ Front(s) \in Seq(S) /\ Last(s) \in S
         /\ Tail(s) \in Seq(S) /\ Head(s) \in S
         /\ Contains(s, Last(s)) /\ Contains(s, Head(s))
         /\ \A d : Contains(Front(s), d) => Contains(s, d)
         /\ \A d : Contains(Tail(s), d) => Contains(s, d)
         /\ \A d : Contains(s, d) => d = Last(s) \/ Contains(Front(s), d)
         /\ Len(Front(s)) = Len(s) - 1 /\ \A i \in 1..Len(s) - 1 : Front(s)[i] = s[i]
<1>1. Len(s) \in Nat /\ Len(s) >= 1 /\ \A i \in 1..Len(s) : s[i] \in S
  BY EmptySeq, LenProperties, ElementOfSeq
<1>2. /\ Front(s) \in Seq(S) /\ Len(Front(s)) = Len(s) - 1
      /\ \A i \in 1..Len(s) - 1 : Front(s)[i] = s[i]
  <2>1. \A i \in 1..Len(s) - 1 : s[i] \in S
    BY <1>1
  <2>2. /\ Front(s) \in Seq(S)
        /\ Len(Front(s)) = IF 1 <= Len(s) - 1 THEN Len(s) - 1 - 1 + 1 ELSE 0
        /\ \A i \in 1..Len(s) - 1 - 1 + 1 : Front(s)[i] = s[1 + i - 1]
    BY <1>1, <2>1, SubSeqProperties DEF Front
  <2>3. Len(Front(s)) = Len(s) - 1
    <3>1. PICK n \in Nat : n = Len(s) /\ n >= 1
      BY <1>1
    <3>2. Len(Front(s)) = IF 1 <= n - 1 THEN n - 1 - 1 + 1 ELSE 0
      BY <2>2, <3>1
    <3>3. (IF 1 <= n - 1 THEN n - 1 - 1 + 1 ELSE 0) = n - 1
      BY <3>1
    <3> QED BY <3>1, <3>2, <3>3
  <2>4. \A i \in 1..Len(s) - 1 : Front(s)[i] = s[i]
    BY <1>1, <2>2
  <2> QED BY <2>2, <2>3, <2>4
<1>3. /\ Head(s) \in S /\ Tail(s) \in Seq(S) /\ Len(Tail(s)) = Len(s) - 1
      /\ \A i \in 1..Len(Tail(s)) : Tail(s)[i] = s[i + 1]
      /\ Head(s) = s[1]
  BY HeadTailProperties
<1>4. Last(s) \in S /\ Contains(s, Last(s)) /\ Contains(s, Head(s))
  BY <1>1, <1>3 DEF Last, Contains
<1>5. ASSUME NEW d, Contains(Front(s), d) PROVE Contains(s, d)
  BY <1>1, <1>2, <1>5 DEF Contains
<1>6. ASSUME NEW d, Contains(Tail(s), d) PROVE Contains(s, d)
  <2>1. PICK i \in 1..Len(Tail(s)) : Tail(s)[i] = d
    BY <1>6 DEF Contains
  <2>2. i + 1 \in 1..Len(s) /\ s[i + 1] = d
    BY <1>1, <1>3, <2>1
  <2> QED BY <2>2 DEF Contains
<1>7. ASSUME NEW d, Contains(s, d), d # Last(s) PROVE Contains(Front(s), d)
  <2>1. PICK i \in 1..Len(s) : s[i] = d
    BY <1>7 DEF Contains
  <2>2. i \in 1..Len(s) - 1
    BY <1>1, <1>7, <2>1 DEF Last
  <2> QED BY <1>2, <2>1, <2>2 DEF Contains
<1> QED BY <1>2, <1>3, <1>4, <1>5, <1>6, <1>7

\* The first place of c in s.
LEMMA FirstPlace ==
  ASSUME NEW S, NEW s \in Seq(S), NEW c, Contains(s, c)
  PROVE  \E i \in 1..Len(s) : s[i] = c /\ RemoveFirst(s, c) = RemoveAt(s, i)
<1> DEFINE I == {i \in 1..Len(s) : s[i] = c}
<1>1. I \subseteq Nat /\ I # {} /\ I \subseteq 1..Len(s) /\ \A i \in I : s[i] = c
  BY DEF Contains
<1>2. SelectInSeq(s, LAMBDA v : v = c) = Min(I)
  BY <1>1 DEF SelectInSeq
<1>3. RemoveFirst(s, c) = RemoveAt(s, Min(I))
  BY <1>2 DEF RemoveFirst, Contains
<1> HIDE DEF I
<1>4. PICK x \in I : \A y \in I : x <= y
  BY <1>1, SmallestNumber
<1>5. Min(I) \in I
  BY <1>4 DEF Min
<1> QED BY <1>1, <1>3, <1>5

LEMMA DroppedIn ==
  ASSUME NEW S, NEW s \in Seq(S), NEW c
  PROVE  /\ Drop(s, c) \in Seq(S)
         /\ \A d : Contains(Drop(s, c), d) => Contains(s, d)
         /\ \A d : d # c /\ Contains(s, d) => Contains(Drop(s, c), d)
<1>1. CASE ~Contains(s, c)
  BY <1>1 DEF Drop
<1>2. CASE Contains(s, c)
  <2>1. PICK i \in 1..Len(s) : s[i] = c /\ Drop(s, c) = RemoveAt(s, i)
    BY <1>2, FirstPlace DEF Drop
  <2> DEFINE a == SubSeq(s, 1, i - 1)
             b == SubSeq(s, i + 1, Len(s))
  <2>2. Len(s) \in Nat /\ \A k \in 1..Len(s) : s[k] \in S
    BY LenProperties, ElementOfSeq
  <2>3. /\ a \in Seq(S) /\ Len(a) = i - 1 /\ \A k \in 1..i - 1 : a[k] = s[k]
    <3>1. \A k \in 1..i - 1 : s[k] \in S
      BY <2>2
    <3>2. /\ a \in Seq(S) /\ Len(a) = IF 1 <= i - 1 THEN i - 1 - 1 + 1 ELSE 0
          /\ \A k \in 1..i - 1 - 1 + 1 : a[k] = s[1 + k - 1]
      BY <2>2, <3>1, SubSeqProperties
    <3> QED BY <3>2
  <2>4. /\ b \in Seq(S) /\ Len(b) = Len(s) - i /\ \A k \in 1..Len(s) - i : b[k] = s[i + k]
    <3>1. \A k \in i + 1..Len(s) : s[k] \in S
      BY <2>2
    <3>2. /\ b \in Seq(S) /\ Len(b) = IF i + 1 <= Len(s) THEN Len(s) - (i + 1) + 1 ELSE 0
          /\ \A k \in 1..Len(s) - (i + 1) + 1 : b[k] = s[i + 1 + k - 1]
      BY <2>2, <3>1, SubSeqProperties
    <3>3. Len(b) = Len(s) - i
      BY <2>2, <3>2
    <3>4. ASSUME NEW k \in 1..Len(s) - i PROVE b[k] = s[i + k]
      <4>1. k \in 1..Len(s) - (i + 1) + 1 /\ i + 1 + k - 1 = i + k
        BY <2>2
      <4> QED BY <3>2, <4>1
    <3> QED BY <3>2, <3>3, <3>4
  <2>5. Drop(s, c) = a \o b
    BY <2>1 DEF RemoveAt
  <2> HIDE DEF a, b
  <2>6. /\ Drop(s, c) \in Seq(S)
        /\ \A d : Contains(Drop(s, c), d) <=> Contains(a, d) \/ Contains(b, d)
    BY <2>3, <2>4, <2>5, JoinedIn
  <2>7. ASSUME NEW d PROVE Contains(a, d) \/ Contains(b, d) => Contains(s, d)
    <3>1. ASSUME NEW k \in 1..Len(a), a[k] = d PROVE Contains(s, d)
      BY <2>2, <2>3, <3>1 DEF Contains
    <3>2. ASSUME NEW k \in 1..Len(b), b[k] = d PROVE Contains(s, d)
      <4>0. i \in Nat /\ k \in Nat /\ k \in 1..Len(s) - i
        BY <2>2, <2>4, <3>2
      <4>1. i + k \in 1..Len(s) /\ s[i + k] = d
        BY <2>2, <2>4, <3>2, <4>0
      <4> QED BY <4>1 DEF Contains
    <3> QED BY <3>1, <3>2 DEF Contains
  <2>8. ASSUME NEW d, d # c, Contains(s, d) PROVE Contains(a, d) \/ Contains(b, d)
    <3>1. PICK k \in 1..Len(s) : s[k] = d
      BY <2>8 DEF Contains
    <3>2. CASE k < i
      <4>1. k \in 1..Len(a) /\ a[k] = d
        BY <2>2, <2>3, <3>1, <3>2
      <4> QED BY <4>1 DEF Contains
    <3>3. CASE k > i
      <4>1. k - i \in 1..Len(b) /\ b[k - i] = s[i + (k - i)] /\ i + (k - i) = k
        BY <2>2, <2>4, <3>1, <3>3
      <4> QED BY <3>1, <4>1 DEF Contains
    <3> QED BY <2>1, <2>8, <3>1, <3>2, <3>3
  <2> QED BY <2>6, <2>7, <2>8
<1> QED BY <1>1, <1>2

-----------------------------------------------------------------------------
\* The invariant of the reports.  Whatever is in a list, or in work, was put into
\* the queue, and its row is there; a job is acknowledged when its report no longer
\* runs.
Webs == {"none", "created", "refused", "unheard", "queued", "gone"}
HandedWebs == {"unheard", "queued"}
ReportRow == [status : {"none", "running", "complete", "failed"}, refunded : BOOLEAN, web : Webs]
Place == [pc : WorkerPcs, job : Reports \cup {NoReport}, mine : Seq(Reports), peers : SUBSET Workers,
          stop : {"no", "told", "released"}]
BusyPcs == {"read", "work", "ack"}

Found(c) == Contains(queue, c) \/ \E w \in Workers : Contains(processing[w], c)

RowsOK ==
  /\ reports \in [Reports -> ReportRow]
  /\ \A c \in Reports : reports[c].web # "none" => reports[c].status # "none"

ListsOK ==
  /\ queue \in Seq(Reports) /\ processing \in [Workers -> Seq(Reports)]
  /\ members \subseteq Workers /\ leased \subseteq Workers
  /\ \A c \in Reports : Contains(queue, c) => Handed(c)
  /\ \A w \in Workers, c \in Reports : Contains(processing[w], c) => Handed(c)

WorkerKnows(w) ==
  /\ workers[w].pc \in BusyPcs => workers[w].job \in Reports /\ Handed(workers[w].job)
  /\ workers[w].pc = "ack" => reports[workers[w].job].status # "running"
  /\ \A c \in Reports : Contains(workers[w].mine, c) => Handed(c)

WorkersOK ==
  /\ workers \in [Workers -> Place]
  /\ \A w \in Workers : WorkerKnows(w)

ReportsInv == RowsOK /\ ListsOK /\ WorkersOK /\ NothingLost /\ stops \in 0..MaxStops

\* What a step keeps of the rows and of the lists.
RowsKept ==
  /\ RowsOK'
  /\ \A c \in Reports :
       /\ Handed(c) => Handed(c)'
       /\ Handed(c) /\ reports[c].status # "running" => reports'[c].status # "running"
       /\ Ordered(c)' => Ordered(c) \/ Contains(queue', c)

ListsKept ==
  /\ ListsOK'
  /\ \A c \in Reports : Found(c) /\ reports'[c].status = "running" => Found(c)'

LEMMA NothingLostKept ==
  ASSUME ReportsInv, RowsKept, ListsKept
  PROVE  NothingLost'
<1> SUFFICES ASSUME NEW c \in Reports, Ordered(c)' PROVE Found(c)'
  BY DEF NothingLost, Found
<1>1. CASE Ordered(c)
  <2>1. Found(c)
    BY <1>1 DEF ReportsInv, NothingLost, Found
  <2>2. reports'[c].status = "running"
    BY DEF Ordered
  <2> QED BY <2>1, <2>2 DEF ListsKept
<1>2. CASE ~Ordered(c)
  BY <1>2 DEF RowsKept, Found
<1> QED BY <1>1, <1>2

LEMMA SameRows ==
  ASSUME ReportsInv, UNCHANGED reports
  PROVE  RowsKept
BY DEF ReportsInv, RowsKept, RowsOK, Handed, Ordered

\* One row changes: created, queued, given up, written or failed.
LEMMA OneRow ==
  ASSUME ReportsInv, NEW c \in Reports, NEW row \in ReportRow, reports' = [reports EXCEPT ![c] = row],
         row.status # "none", Handed(c) => row.web \in HandedWebs,
         Handed(c) /\ reports[c].status # "running" => row.status # "running",
         row.status = "running" /\ row.web \in HandedWebs => Ordered(c) \/ Contains(queue', c)
  PROVE  RowsKept
<1>1. /\ reports' \in [Reports -> ReportRow] /\ reports'[c] = row
      /\ \A d \in Reports \ {c} : reports'[d] = reports[d]
  BY DEF ReportsInv, RowsOK
<1>2. ASSUME NEW d \in Reports
      PROVE  /\ reports'[d].web # "none" => reports'[d].status # "none"
             /\ Handed(d) => Handed(d)'
             /\ Handed(d) /\ reports[d].status # "running" => reports'[d].status # "running"
             /\ Ordered(d)' => Ordered(d) \/ Contains(queue', d)
  <2>1. CASE d = c
    BY <1>1, <2>1 DEF Handed, HandedWebs, Ordered
  <2>2. CASE d # c
    BY <1>1, <2>2 DEF Handed, Ordered, ReportsInv, RowsOK
  <2> QED BY <2>1, <2>2
<1> QED BY <1>1, <1>2 DEF RowsKept, RowsOK

LEMMA SameLists ==
  ASSUME ReportsInv, RowsKept, UNCHANGED <<queue, processing>>,
         members' \subseteq Workers, leased' \subseteq Workers
  PROVE  ListsKept
BY DEF ReportsInv, ListsKept, ListsOK, RowsKept, Found

\* A worker's place changes.
LEMMA OneWorker ==
  ASSUME ReportsInv, RowsKept, NEW w \in Workers, NEW place \in Place,
         workers' = [workers EXCEPT ![w] = place],
         place.pc \in BusyPcs => place.job \in Reports /\ Handed(place.job)',
         place.pc = "ack" => reports'[place.job].status # "running",
         \A c \in Reports : Contains(place.mine, c) => Handed(c)'
  PROVE  WorkersOK'
<1>1. /\ workers' \in [Workers -> Place] /\ workers'[w] = place
      /\ \A q \in Workers \ {w} : workers'[q] = workers[q]
  BY DEF ReportsInv, WorkersOK
<1>2. WorkerKnows(w)'
  BY <1>1 DEF WorkerKnows, Handed
<1>3. ASSUME NEW q \in Workers, q # w PROVE WorkerKnows(q)'
  <2>1. WorkerKnows(q) /\ workers'[q] = workers[q]
    BY <1>1, <1>3 DEF ReportsInv, WorkersOK
  <2>2. workers[q].pc \in BusyPcs =>
          /\ workers[q].job \in Reports /\ Handed(workers[q].job) /\ Handed(workers[q].job)'
    BY <2>1 DEF WorkerKnows, RowsKept
  <2>3. workers[q].pc = "ack" => reports'[workers[q].job].status # "running"
    BY <2>1, <2>2 DEF WorkerKnows, RowsKept, BusyPcs
  <2>4. \A c \in Reports : Contains(workers[q].mine, c) => Handed(c)'
    BY <2>1 DEF WorkerKnows, RowsKept
  <2> QED BY <2>1, <2>2, <2>3, <2>4 DEF WorkerKnows, Handed
<1> QED BY <1>1, <1>2, <1>3 DEF WorkersOK

LEMMA SameWorkers ==
  ASSUME ReportsInv, RowsKept, UNCHANGED workers
  PROVE  WorkersOK'
<1>1. ASSUME NEW w \in Workers PROVE WorkerKnows(w)'
  <2>1. WorkerKnows(w)
    BY DEF ReportsInv, WorkersOK
  <2> QED BY <2>1 DEF RowsKept, WorkerKnows, Handed, BusyPcs
<1> QED BY <1>1 DEF ReportsInv, WorkersOK

LEMMA Together ==
  ASSUME ReportsInv, RowsKept, ListsKept, WorkersOK', stops' \in 0..MaxStops
  PROVE  ReportsInv'
BY NothingLostKept DEF ReportsInv, RowsKept, ListsKept

\* The web process changes the row of a report that it is not done with yet.
WebStep(c) ==
  \/ CreateReport(c) \/ enqueue_research_job(c) \/ EnqueueFails(c) \/ FailEnqueue(c)
  \/ WebCrash(c) \/ EnqueueUnheard(c)

LEMMA WebRow ==
  ASSUME ReportsInv, NEW c \in Reports, WebStep(c)
  PROVE  \E row \in ReportRow :
           /\ reports' = [reports EXCEPT ![c] = row] /\ row.status # "none"
           /\ Handed(c) => row.web \in HandedWebs
           /\ row.web \in HandedWebs => Handed(c) \/ queue' = <<c>> \o queue
           /\ queue' = queue \/ (queue' = <<c>> \o queue /\ row.web \in HandedWebs)
           /\ \/ row.status = "failed" /\ row.refunded /\ reports[c].web \in {"refused", "unheard"}
              \/ /\ row.status = "running" /\ reports[c].status = "none" /\ ~Handed(c)
                 /\ row.refunded = reports[c].refunded
              \/ row.status = reports[c].status /\ row.refunded = reports[c].refunded
<1>1. /\ reports[c] \in ReportRow
      /\ reports[c].web # "none" => reports[c].status # "none"
      /\ Failed(c) = [reports[c] EXCEPT !.status = "failed", !.refunded = TRUE]
      /\ Left(c) \in Webs /\ (Left(c) \in HandedWebs <=> Handed(c))
  BY DEF ReportsInv, RowsOK, Failed, Left, Handed, HandedWebs, Webs
<1>2. CASE CreateReport(c)
  <2> DEFINE row == [reports[c] EXCEPT !.status = "running", !.web = "created"]
  <2>1. row \in ReportRow /\ row.status = "running" /\ row.web = "created" /\ row.refunded = reports[c].refunded
    BY <1>1 DEF ReportRow, Webs
  <2>2. reports' = [reports EXCEPT ![c] = row]
    BY <1>1, <1>2 DEF CreateReport
  <2>3. queue' = queue /\ reports[c].status = "none" /\ ~Handed(c)
    BY <1>1, <1>2 DEF CreateReport, redisVars, Handed
  <2> HIDE DEF row
  <2> QED BY <2>1, <2>2, <2>3 DEF HandedWebs
<1>3. CASE enqueue_research_job(c)
  <2> DEFINE row == [reports[c] EXCEPT !.web = "queued"]
  <2>1. /\ row \in ReportRow /\ row.status = reports[c].status /\ row.web = "queued"
        /\ row.refunded = reports[c].refunded
    BY <1>1 DEF ReportRow, Webs
  <2>2. reports' = [reports EXCEPT ![c] = row]
    BY <1>1, <1>3 DEF enqueue_research_job
  <2>3. queue' = <<c>> \o queue /\ reports[c].status # "none"
    BY <1>1, <1>3 DEF enqueue_research_job
  <2> HIDE DEF row
  <2> QED BY <2>1, <2>2, <2>3 DEF HandedWebs
<1>4. CASE EnqueueFails(c)
  <2> DEFINE row == [reports[c] EXCEPT !.web = "refused"]
  <2>1. /\ row \in ReportRow /\ row.status = reports[c].status /\ row.web = "refused"
        /\ row.refunded = reports[c].refunded
    BY <1>1 DEF ReportRow, Webs
  <2>2. reports' = [reports EXCEPT ![c] = row]
    BY <1>1, <1>4 DEF EnqueueFails
  <2>3. queue' = queue /\ reports[c].status # "none" /\ ~Handed(c)
    BY <1>1, <1>4 DEF EnqueueFails, redisVars, Handed
  <2> HIDE DEF row
  <2> QED BY <2>1, <2>2, <2>3 DEF HandedWebs
<1>5. CASE FailEnqueue(c)
  <2> DEFINE row == [Failed(c) EXCEPT !.web = Left(c)]
  <2>1. row \in ReportRow /\ row.status = "failed" /\ row.refunded /\ row.web = Left(c)
    BY <1>1 DEF ReportRow
  <2>2. reports' = [reports EXCEPT ![c] = row]
    BY <1>5 DEF FailEnqueue
  <2>3. queue' = queue /\ reports[c].web \in {"refused", "unheard"}
    BY <1>5 DEF FailEnqueue, redisVars
  <2> HIDE DEF row
  <2> QED BY <1>1, <2>1, <2>2, <2>3
<1>6. CASE WebCrash(c)
  <2> DEFINE row == [reports[c] EXCEPT !.web = Left(c)]
  <2>1. /\ row \in ReportRow /\ row.status = reports[c].status /\ row.web = Left(c)
        /\ row.refunded = reports[c].refunded
    BY <1>1 DEF ReportRow
  <2>2. reports' = [reports EXCEPT ![c] = row]
    BY <1>1, <1>6 DEF WebCrash
  <2>3. queue' = queue /\ reports[c].status # "none"
    BY <1>1, <1>6 DEF WebCrash, redisVars
  <2> HIDE DEF row
  <2> QED BY <1>1, <2>1, <2>2, <2>3
<1>7. CASE EnqueueUnheard(c)
  <2> DEFINE row == [reports[c] EXCEPT !.web = "unheard"]
  <2>1. /\ row \in ReportRow /\ row.status = reports[c].status /\ row.web = "unheard"
        /\ row.refunded = reports[c].refunded
    BY <1>1 DEF ReportRow, Webs
  <2>2. reports' = [reports EXCEPT ![c] = row]
    BY <1>1, <1>7 DEF EnqueueUnheard
  <2>3. queue' = <<c>> \o queue /\ reports[c].status # "none"
    BY <1>1, <1>7 DEF EnqueueUnheard
  <2> HIDE DEF row
  <2> QED BY <2>1, <2>2, <2>3 DEF HandedWebs
<1> QED BY <1>2, <1>3, <1>4, <1>5, <1>6, <1>7 DEF WebStep

LEMMA WebKeepsInv ==
  ASSUME ReportsInv, NEW c \in Reports, WebStep(c)
  PROVE  ReportsInv'
<1>1. /\ reports \in [Reports -> ReportRow] /\ queue \in Seq(Reports)
      /\ members \subseteq Workers /\ leased \subseteq Workers /\ stops \in 0..MaxStops
  BY DEF ReportsInv, RowsOK, ListsOK
<1>2. UNCHANGED <<processing, members, leased, workers, stops>>
  BY DEF WebStep, CreateReport, enqueue_research_job, EnqueueFails, FailEnqueue, WebCrash,
         EnqueueUnheard, redisVars
<1>3. PICK row \in ReportRow :
        /\ reports' = [reports EXCEPT ![c] = row] /\ row.status # "none"
        /\ Handed(c) => row.web \in HandedWebs
        /\ row.web \in HandedWebs => Handed(c) \/ queue' = <<c>> \o queue
        /\ queue' = queue \/ (queue' = <<c>> \o queue /\ row.web \in HandedWebs)
        /\ \/ row.status = "failed"
           \/ row.status = "running" /\ ~Handed(c)
           \/ row.status = reports[c].status
  BY WebRow
<1>4. Contains(<<c>> \o queue, c)
  BY <1>1, PushedIn
<1>5. RowsKept /\ (row.web \in HandedWebs => Handed(c)')
  <2>1. row.status = "running" /\ row.web \in HandedWebs => Ordered(c) \/ Contains(queue', c)
    BY <1>3, <1>4 DEF Ordered
  <2>2. RowsKept
    BY <1>3, <2>1, OneRow
  <2>3. reports'[c] = row
    BY <1>1, <1>3
  <2> QED BY <2>2, <2>3 DEF Handed, HandedWebs
<1>6. ListsKept
  <2>1. CASE UNCHANGED queue
    BY <1>1, <1>2, <1>5, <2>1, SameLists
  <2>2. CASE queue' = <<c>> \o queue /\ row.web \in HandedWebs
    <3>1. queue' \in Seq(Reports) /\ \A d : Contains(queue', d) <=> d = c \/ Contains(queue, d)
      BY <1>1, <2>2, PushedIn
    <3> QED BY <1>2, <1>5, <2>2, <3>1 DEF ReportsInv, ListsKept, ListsOK, RowsKept, Found
  <2> QED BY <1>3, <2>1, <2>2
<1> QED BY <1>1, <1>2, <1>5, <1>6, SameWorkers, Together

\* Where a worker goes: on with its job, or to rest, or off.
LEMMA NewPlace ==
  ASSUME workers \in [Workers -> Place], NEW w \in Workers
  PROVE  /\ \A pc \in WorkerPcs : Goto(w, pc) =>
              \E place \in Place :
                /\ workers' = [workers EXCEPT ![w] = place]
                /\ place.pc = pc /\ place.job = workers[w].job /\ place.mine = workers[w].mine
         /\ Rests(w) =>
              \E place \in Place :
                /\ workers' = [workers EXCEPT ![w] = place]
                /\ place.pc = "idle" /\ \A c : ~Contains(place.mine, c)
         /\ workers' = [workers EXCEPT ![w] = Off] =>
              \E place \in Place :
                /\ workers' = [workers EXCEPT ![w] = place]
                /\ place.pc = "off" /\ \A c : ~Contains(place.mine, c)
<1>1. workers[w] \in Place
  OBVIOUS
<1>2. <<>> \in Seq(Reports) /\ \A c : ~Contains(<<>>, c)
  BY DEF Contains
<1>3. ASSUME NEW pc \in WorkerPcs, Goto(w, pc)
      PROVE  \E place \in Place :
               /\ workers' = [workers EXCEPT ![w] = place]
               /\ place.pc = pc /\ place.job = workers[w].job /\ place.mine = workers[w].mine
  <2> DEFINE place == [workers[w] EXCEPT !.pc = pc]
  <2>1. place \in Place /\ place.pc = pc /\ place.job = workers[w].job /\ place.mine = workers[w].mine
    BY <1>1 DEF Place
  <2>2. workers' = [workers EXCEPT ![w] = place]
    BY <1>3 DEF Goto
  <2> HIDE DEF place
  <2> QED BY <2>1, <2>2
<1>4. Off = [pc |-> "off", job |-> NoReport, mine |-> <<>>, peers |-> {}, stop |-> "no"]
  BY DEF Off
<1>5. ASSUME Rests(w)
      PROVE  \E place \in Place :
               /\ workers' = [workers EXCEPT ![w] = place]
               /\ place.pc = "idle" /\ \A c : ~Contains(place.mine, c)
  <2> DEFINE place == [Off EXCEPT !.pc = "idle", !.stop = workers[w].stop]
  <2>1. workers[w].stop \in {"no", "told", "released"}
    BY <1>1 DEF Place
  <2>2. place \in Place /\ place.pc = "idle" /\ place.mine = <<>>
    BY <1>2, <1>4, <2>1 DEF Place, WorkerPcs
  <2>3. workers' = [workers EXCEPT ![w] = place]
    BY <1>5 DEF Rests
  <2> HIDE DEF place
  <2> QED BY <1>2, <2>2, <2>3
<1>6. Off \in Place /\ Off.pc = "off" /\ \A c : ~Contains(Off.mine, c)
  BY <1>2, <1>4 DEF Place, WorkerPcs
<1> QED BY <1>3, <1>5, <1>6

\* A worker goes on, rests or ends; the lists stay as they are.
LEMMA GoesOn ==
  ASSUME ReportsInv, NEW w \in Workers,
         UNCHANGED <<reports, queue, processing>>,
         members' \subseteq Workers, leased' \subseteq Workers, stops' \in 0..MaxStops,
         \/ Rests(w)
         \/ workers' = [workers EXCEPT ![w] = Off]
         \/ \E pc \in WorkerPcs :
              /\ Goto(w, pc)
              /\ pc \in BusyPcs => workers[w].pc \in BusyPcs
              /\ pc = "ack" => reports[workers[w].job].status # "running"
  PROVE  ReportsInv'
<1>1. RowsKept /\ ListsKept
  BY SameRows, SameLists
<1>2. workers \in [Workers -> Place] /\ WorkerKnows(w)
  BY DEF ReportsInv, WorkersOK
<1>3. CASE Rests(w) \/ workers' = [workers EXCEPT ![w] = Off]
  <2>1. PICK place \in Place :
          /\ workers' = [workers EXCEPT ![w] = place]
          /\ place.pc \in {"idle", "off"} /\ \A c : ~Contains(place.mine, c)
    BY <1>2, <1>3, NewPlace
  <2>2. WorkersOK'
    BY <1>1, <2>1, OneWorker DEF BusyPcs
  <2> QED BY <1>1, <2>2, Together
<1>4. ASSUME NEW pc \in WorkerPcs, Goto(w, pc), pc \in BusyPcs => workers[w].pc \in BusyPcs,
             pc = "ack" => reports[workers[w].job].status # "running"
      PROVE  ReportsInv'
  <2>1. PICK place \in Place :
          /\ workers' = [workers EXCEPT ![w] = place]
          /\ place.pc = pc /\ place.job = workers[w].job /\ place.mine = workers[w].mine
    BY <1>2, <1>4, NewPlace
  <2>2. place.pc \in BusyPcs => place.job \in Reports /\ Handed(place.job)'
    BY <1>2, <1>4, <2>1 DEF WorkerKnows, Handed
  <2>3. \A c \in Reports : Contains(place.mine, c) => Handed(c)'
    BY <1>2, <2>1 DEF WorkerKnows, Handed
  <2>4. place.pc = "ack" => reports'[place.job].status # "running"
    BY <1>4, <2>1
  <2>5. WorkersOK'
    BY <1>1, <2>1, <2>2, <2>3, <2>4, OneWorker
  <2> QED BY <1>1, <2>5, Together
<1> QED BY <1>3, <1>4

LEMMA QuietKeepsInv ==
  ASSUME ReportsInv, NEW w \in Workers,
         \/ Recovered(w) \/ TouchToPop(w) \/ PopNothing(w) \/ ReadStatus(w)
         \/ AcknowledgeFails(w) \/ Kill(w) \/ EndProcess(w)
  PROVE  ReportsInv'
<1>1. /\ members \subseteq Workers /\ leased \subseteq Workers /\ stops \in 0..MaxStops
      /\ MaxStops \in Nat
  BY ResearchReportsAssumption DEF ReportsInv, ListsOK
<1>2. UNCHANGED <<reports, queue, processing>>
  BY DEF Recovered, TouchToPop, PopNothing, ReadStatus, AcknowledgeFails, Kill, EndProcess, redisVars
<1>3. members' \subseteq Workers /\ leased' \subseteq Workers /\ stops' \in 0..MaxStops
  BY <1>1 DEF Recovered, TouchToPop, PopNothing, ReadStatus, AcknowledgeFails, Kill, EndProcess, redisVars,
              touch_research_worker
<1>4. CASE Recovered(w) \/ TouchToPop(w) \/ PopNothing(w)
  <2>1. PICK pc \in {"idle", "pop"} : Goto(w, pc)
    BY <1>4 DEF Recovered, TouchToPop, PopNothing
  <2> QED BY <1>2, <1>3, <2>1, GoesOn DEF WorkerPcs, BusyPcs
<1>5. CASE ReadStatus(w)
  <2>1. workers[w].pc = "read"
    BY <1>5 DEF ReadStatus
  <2>2. CASE Rests(w)
    BY <1>2, <1>3, <2>2, GoesOn
  <2>3. ASSUME NEW pc \in {"work", "ack"}, Goto(w, pc),
               pc = "ack" => reports[workers[w].job].status # "running"
        PROVE  ReportsInv'
    BY <1>2, <1>3, <2>1, <2>3, GoesOn DEF WorkerPcs, BusyPcs
  <2> QED BY <1>5, <2>2, <2>3 DEF ReadStatus, Finishes
<1>6. CASE AcknowledgeFails(w)
  BY <1>2, <1>3, <1>6, GoesOn DEF AcknowledgeFails
<1>7. CASE Kill(w) \/ EndProcess(w)
  BY <1>2, <1>3, <1>7, GoesOn DEF Kill, EndProcess
<1> QED BY <1>4, <1>5, <1>6, <1>7

\* A worker starts, polls, beats, is told to stop, loses its lease or is refused by
\* Redis; the lists stay as they are.
LEMMA LooksAround ==
  ASSUME ReportsInv, NEW w \in Workers,
         \/ StartWorker(w) \/ Poll(w) \/ Heartbeat(w) \/ Shutdown(w) \/ release_research_worker(w)
         \/ LapseWorker(w) \/ HeartbeatsFail(w) \/ RedisFails(w)
  PROVE  ReportsInv'
<1>1. /\ members \subseteq Workers /\ leased \subseteq Workers /\ stops \in 0..MaxStops
      /\ workers \in [Workers -> Place] /\ workers[w] \in Place /\ WorkerKnows(w)
      /\ processing[w] \in Seq(Reports) /\ MaxStops \in Nat
      /\ \A c \in Reports : Contains(processing[w], c) => Handed(c)
  BY ResearchReportsAssumption DEF ReportsInv, ListsOK, WorkersOK
<1>2. /\ UNCHANGED <<reports, queue, processing>>
      /\ members' \subseteq Workers /\ leased' \subseteq Workers /\ stops' \in 0..MaxStops
  BY <1>1 DEF StartWorker, Poll, Heartbeat, Shutdown, release_research_worker, LapseWorker,
              HeartbeatsFail, RedisFails, redisVars, touch_research_worker
<1>3. RowsKept /\ ListsKept
  BY <1>2, SameRows, SameLists
<1>4. ASSUME NEW place \in Place, workers' = [workers EXCEPT ![w] = place],
             \/ place.pc \notin BusyPcs
             \/ place.pc = workers[w].pc /\ place.job = workers[w].job,
             \A c \in Reports : Contains(place.mine, c) => Handed(c)
      PROVE  ReportsInv'
  <2>1. /\ place.pc \in BusyPcs => place.job \in Reports /\ Handed(place.job)'
        /\ place.pc = "ack" => reports'[place.job].status # "running"
        /\ \A c \in Reports : Contains(place.mine, c) => Handed(c)'
    BY <1>1, <1>2, <1>4 DEF WorkerKnows, Handed, BusyPcs
  <2>2. WorkersOK'
    BY <1>3, <1>4, <2>1, OneWorker
  <2> QED BY <1>2, <1>3, <2>2, Together
<1>5. CASE ReadLists(w)
  <2> DEFINE place == [workers[w] EXCEPT !.pc = "start", !.mine = processing[w], !.peers = members \ {w}]
  <2>1. place \in Place /\ place.pc = "start" /\ place.mine = processing[w]
    BY <1>1 DEF Place, WorkerPcs
  <2>2. workers' = [workers EXCEPT ![w] = place]
    BY <1>1, <1>5 DEF ReadLists
  <2> HIDE DEF place
  <2> QED BY <1>1, <1>4, <2>1, <2>2 DEF BusyPcs
<1>6. CASE Poll(w)
  <2> DEFINE place == [workers[w] EXCEPT !.pc = "poll", !.peers = members \ {w}]
  <2>1. place \in Place /\ place.pc = "poll" /\ place.mine = workers[w].mine
    BY <1>1 DEF Place, WorkerPcs
  <2>2. workers' = [workers EXCEPT ![w] = place]
    BY <1>1, <1>6 DEF Poll
  <2> HIDE DEF place
  <2> QED BY <1>1, <1>4, <2>1, <2>2 DEF BusyPcs, WorkerKnows
<1>7. CASE Shutdown(w) \/ release_research_worker(w)
  <2>1. PICK stop \in {"told", "released"} : workers' = [workers EXCEPT ![w].stop = stop]
    BY <1>7 DEF Shutdown, release_research_worker
  <2> DEFINE place == [workers[w] EXCEPT !.stop = stop]
  <2>2. /\ place \in Place /\ place.pc = workers[w].pc /\ place.job = workers[w].job
        /\ place.mine = workers[w].mine
    BY <1>1 DEF Place
  <2>3. workers' = [workers EXCEPT ![w] = place]
    BY <1>1, <2>1
  <2> HIDE DEF place
  <2> QED BY <1>1, <1>4, <2>2, <2>3 DEF WorkerKnows
<1>8. CASE Heartbeat(w) \/ LapseWorker(w) \/ HeartbeatsFail(w)
  <2>1. UNCHANGED workers
    BY <1>8 DEF Heartbeat, LapseWorker, HeartbeatsFail
  <2> QED BY <1>2, <1>3, <2>1, SameWorkers, Together
<1>9. CASE Rests(w)
  <2>1. PICK place \in Place :
          /\ workers' = [workers EXCEPT ![w] = place]
          /\ place.pc = "idle" /\ \A c : ~Contains(place.mine, c)
    BY <1>1, <1>9, NewPlace
  <2> QED BY <1>4, <2>1 DEF BusyPcs
<1> QED BY <1>5, <1>6, <1>7, <1>8, <1>9 DEF StartWorker, RedisFails

\* The list of a worker without a lease goes back to the queue.
LEMMA RecoverPeerKeepsInv ==
  ASSUME ReportsInv, NEW w \in Workers, NEW p \in Workers, RecoverPeer(w, p)
  PROVE  ReportsInv'
<1>1. /\ members \subseteq Workers /\ leased \subseteq Workers /\ stops \in 0..MaxStops
      /\ queue \in Seq(Reports) /\ processing \in [Workers -> Seq(Reports)] /\ processing[p] \in Seq(Reports)
      /\ workers \in [Workers -> Place] /\ workers[w] \in Place /\ WorkerKnows(w)
      /\ \A c \in Reports : Contains(queue, c) => Handed(c)
      /\ \A q \in Workers, c \in Reports : Contains(processing[q], c) => Handed(c)
  BY DEF ReportsInv, ListsOK, WorkersOK
<1>2. UNCHANGED <<reports, leased, stops>> /\ workers[w].pc \in {"start", "poll"}
  BY DEF RecoverPeer
<1>3. RowsKept
  BY <1>2, SameRows
<1>4. ListsKept
  <2>1. CASE p \in leased
    <3>1. UNCHANGED <<queue, processing, members>>
      BY <2>1 DEF RecoverPeer
    <3> QED BY <1>1, <1>2, <1>3, <3>1, SameLists
  <2>2. CASE p \notin leased
    <3>1. /\ queue' = queue \o processing[p] /\ processing' = [processing EXCEPT ![p] = <<>>]
          /\ members' = members \ {p}
      BY <2>2 DEF RecoverPeer
    <3>2. /\ queue' \in Seq(Reports)
          /\ \A d : Contains(queue', d) <=> Contains(queue, d) \/ Contains(processing[p], d)
      BY <1>1, <3>1, JoinedIn
    <3>3. /\ processing' \in [Workers -> Seq(Reports)] /\ \A d : ~Contains(processing'[p], d)
          /\ \A q \in Workers \ {p} : processing'[q] = processing[q]
      <4>1. <<>> \in Seq(Reports) /\ \A d : ~Contains(<<>>, d)
        BY DEF Contains
      <4>2. processing'[p] = <<>>
        BY <1>1, <3>1
      <4> QED BY <1>1, <3>1, <4>1, <4>2
    <3>4. ListsOK'
      BY <1>1, <1>2, <3>1, <3>2, <3>3 DEF ListsOK, Handed
    <3>5. ASSUME NEW c \in Reports, Found(c) PROVE Found(c)'
      <4>1. CASE Contains(queue, c) \/ Contains(processing[p], c)
        BY <3>2, <4>1 DEF Found
      <4>2. CASE \E q \in Workers : q # p /\ Contains(processing[q], c)
        BY <1>1, <3>1, <3>3, <4>2 DEF Found
      <4> QED BY <3>5, <4>1, <4>2 DEF Found
    <3> QED BY <2>2, <3>1, <3>4, <3>5 DEF ListsKept
  <2> QED BY <2>1, <2>2
<1>5. PICK place \in Place :
        /\ workers' = [workers EXCEPT ![w] = place]
        /\ place.pc = workers[w].pc /\ place.mine = workers[w].mine
  <2> DEFINE place == [workers[w] EXCEPT !.peers = workers[w].peers \ {p}]
  <2>1. place \in Place /\ place.pc = workers[w].pc /\ place.mine = workers[w].mine
    BY <1>1 DEF Place
  <2>2. workers' = [workers EXCEPT ![w] = place]
    BY <1>1 DEF RecoverPeer
  <2> HIDE DEF place
  <2> QED BY <2>1, <2>2
<1>6. place.pc \notin BusyPcs /\ \A c \in Reports : Contains(place.mine, c) => Handed(c)'
  BY <1>1, <1>2, <1>5 DEF WorkerKnows, BusyPcs, Handed
<1>7. WorkersOK'
  BY <1>3, <1>5, <1>6, OneWorker DEF BusyPcs
<1> QED BY <1>1, <1>2, <1>3, <1>4, <1>7, Together

\* A worker puts a job of its own list back.
LEMMA RequeueKeepsInv ==
  ASSUME ReportsInv, NEW w \in Workers, Requeue(w)
  PROVE  ReportsInv'
<1>1. /\ members \subseteq Workers /\ leased \subseteq Workers /\ stops \in 0..MaxStops
      /\ queue \in Seq(Reports) /\ processing \in [Workers -> Seq(Reports)] /\ processing[w] \in Seq(Reports)
      /\ workers \in [Workers -> Place] /\ workers[w] \in Place /\ WorkerKnows(w)
      /\ workers[w].mine \in Seq(Reports)
      /\ \A c \in Reports : Contains(queue, c) => Handed(c)
      /\ \A q \in Workers, c \in Reports : Contains(processing[q], c) => Handed(c)
  BY DEF ReportsInv, ListsOK, WorkersOK, Place
<1>2. PICK c \in Reports :
        /\ Contains(workers[w].mine, c) /\ Handed(c)
        /\ processing' = [processing EXCEPT ![w] = Drop(processing[w], c)]
        /\ queue' = Append(queue, c)
  <2>1. workers[w].mine # <<>>
    BY DEF Requeue
  <2>2. Head(workers[w].mine) \in Reports /\ Contains(workers[w].mine, Head(workers[w].mine))
    BY <1>1, <2>1, PoppedIn
  <2>3. /\ processing' = [processing EXCEPT ![w] = Drop(processing[w], Head(workers[w].mine))]
        /\ queue' = Append(queue, Head(workers[w].mine))
    BY DEF Requeue
  <2> QED BY <1>1, <2>2, <2>3 DEF WorkerKnows
<1>3. UNCHANGED <<reports, members, leased, stops>> /\ workers[w].pc = "start" /\ workers[w].mine # <<>>
  BY DEF Requeue
<1>4. RowsKept
  BY <1>3, SameRows
<1>5. ListsKept
  <2>1. queue' \in Seq(Reports) /\ \A d : Contains(queue', d) <=> d = c \/ Contains(queue, d)
    BY <1>1, <1>2, PushedIn
  <2>2. /\ processing' \in [Workers -> Seq(Reports)]
        /\ \A d : Contains(processing'[w], d) => Contains(processing[w], d)
        /\ \A d : d # c /\ Contains(processing[w], d) => Contains(processing'[w], d)
        /\ \A q \in Workers \ {w} : processing'[q] = processing[q]
    <3>1. /\ Drop(processing[w], c) \in Seq(Reports)
          /\ \A d : Contains(Drop(processing[w], c), d) => Contains(processing[w], d)
          /\ \A d : d # c /\ Contains(processing[w], d) => Contains(Drop(processing[w], c), d)
      BY <1>1, DroppedIn
    <3>2. processing'[w] = Drop(processing[w], c)
      BY <1>1, <1>2
    <3> QED BY <1>1, <1>2, <3>1, <3>2
  <2>3. ListsOK'
    BY <1>1, <1>2, <1>3, <2>1, <2>2 DEF ListsOK, Handed
  <2>4. ASSUME NEW d \in Reports, Found(d) PROVE Found(d)'
    <3>1. CASE d = c \/ Contains(queue, d)
      BY <2>1, <3>1 DEF Found
    <3>2. CASE d # c /\ \E q \in Workers : Contains(processing[q], d)
      BY <1>1, <1>3, <2>2, <3>2 DEF Found
    <3> QED BY <2>4, <3>1, <3>2 DEF Found
  <2> QED BY <2>3, <2>4 DEF ListsKept
<1>6. PICK place \in Place :
        /\ workers' = [workers EXCEPT ![w] = place]
        /\ place.pc = "start" /\ \A d \in Reports : Contains(place.mine, d) => Handed(d)
  <2>1. /\ Tail(workers[w].mine) \in Seq(Reports)
        /\ \A d : Contains(Tail(workers[w].mine), d) => Contains(workers[w].mine, d)
    BY <1>1, <1>3, PoppedIn
  <2> DEFINE place == [workers[w] EXCEPT !.mine = Tail(workers[w].mine)]
  <2>2. place \in Place /\ place.pc = "start" /\ place.mine = Tail(workers[w].mine)
    BY <1>1, <1>3, <2>1 DEF Place
  <2>3. workers' = [workers EXCEPT ![w] = place]
    BY <1>1 DEF Requeue
  <2> HIDE DEF place
  <2> QED BY <1>1, <2>1, <2>2, <2>3 DEF WorkerKnows
<1>7. WorkersOK'
  BY <1>3, <1>4, <1>6, OneWorker DEF BusyPcs, Handed
<1> QED BY <1>1, <1>3, <1>4, <1>5, <1>7, Together

\* A job leaves the queue for the list of a worker, whether it hears of it or not.
LEMMA PopKeepsInv ==
  ASSUME ReportsInv, NEW w \in Workers, Pop(w) \/ PopInVain(w) \/ PopUnheard(w)
  PROVE  ReportsInv'
<1>1. /\ members \subseteq Workers /\ leased \subseteq Workers /\ stops \in 0..MaxStops
      /\ queue \in Seq(Reports) /\ processing \in [Workers -> Seq(Reports)] /\ processing[w] \in Seq(Reports)
      /\ workers \in [Workers -> Place] /\ workers[w] \in Place /\ WorkerKnows(w)
      /\ \A c \in Reports : Contains(queue, c) => Handed(c)
      /\ \A q \in Workers, c \in Reports : Contains(processing[q], c) => Handed(c)
  BY DEF ReportsInv, ListsOK, WorkersOK, Place
<1>2. /\ UNCHANGED <<reports, members, leased, stops>>
      /\ workers[w].pc = "pop" /\ queue # <<>> /\ queue' = Front(queue)
      /\ processing' = [processing EXCEPT ![w] = <<Last(queue)>> \o processing[w]]
  BY DEF Pop, PopInVain, PopUnheard, PopTo
<1>3. PICK c \in Reports :
        /\ c = Last(queue) /\ Handed(c)
        /\ Front(queue) \in Seq(Reports)
        /\ \A d : Contains(Front(queue), d) => Contains(queue, d)
        /\ \A d : Contains(queue, d) => d = c \/ Contains(Front(queue), d)
  BY <1>1, <1>2, PoppedIn
<1>4. RowsKept
  BY <1>2, SameRows
<1>5. ListsKept
  <2>1. /\ processing' \in [Workers -> Seq(Reports)]
        /\ \A d : Contains(processing'[w], d) <=> d = c \/ Contains(processing[w], d)
        /\ \A q \in Workers \ {w} : processing'[q] = processing[q]
    <3>1. /\ <<c>> \o processing[w] \in Seq(Reports)
          /\ \A d : Contains(<<c>> \o processing[w], d) <=> d = c \/ Contains(processing[w], d)
      BY <1>1, PushedIn
    <3>2. processing'[w] = <<c>> \o processing[w]
      BY <1>1, <1>2, <1>3
    <3> QED BY <1>1, <1>2, <3>1, <3>2
  <2>2. ListsOK'
    BY <1>1, <1>2, <1>3, <2>1 DEF ListsOK, Handed
  <2>3. ASSUME NEW d \in Reports, Found(d) PROVE Found(d)'
    <3>1. CASE Contains(queue, d)
      BY <1>2, <1>3, <2>1, <3>1 DEF Found
    <3>2. CASE \E q \in Workers : Contains(processing[q], d)
      BY <1>1, <1>2, <2>1, <3>2 DEF Found
    <3> QED BY <2>3, <3>1, <3>2 DEF Found
  <2> QED BY <2>2, <2>3 DEF ListsKept
<1>6. PICK place \in Place :
        /\ workers' = [workers EXCEPT ![w] = place]
        /\ place.pc \in {"read", "idle"} /\ (place.pc = "read" => place.job = c)
        /\ place.mine = workers[w].mine
  <2>1. PICK pc \in {"read", "idle"}, job \in Reports \cup {NoReport} :
          /\ workers' = [workers EXCEPT ![w].pc = pc, ![w].job = job]
          /\ pc = "read" => job = c
    <3>1. CASE Pop(w)
      BY <1>3, <3>1 DEF Pop, PopTo
    <3>2. CASE PopInVain(w) \/ PopUnheard(w)
      BY <3>2 DEF PopInVain, PopUnheard, PopTo
    <3> QED BY <3>1, <3>2
  <2> DEFINE place == [workers[w] EXCEPT !.pc = pc, !.job = job]
  <2>2. place \in Place /\ place.pc = pc /\ place.job = job /\ place.mine = workers[w].mine
    BY <1>1 DEF Place, WorkerPcs
  <2>3. workers' = [workers EXCEPT ![w] = place]
    BY <1>1, <2>1
  <2> HIDE DEF place
  <2> QED BY <2>1, <2>2, <2>3
<1>7. /\ place.pc \in BusyPcs => place.job \in Reports /\ Handed(place.job)'
      /\ \A d \in Reports : Contains(place.mine, d) => Handed(d)'
  BY <1>1, <1>2, <1>3, <1>6 DEF WorkerKnows, Handed, BusyPcs
<1>8. WorkersOK'
  BY <1>4, <1>6, <1>7, OneWorker
<1> QED BY <1>1, <1>2, <1>4, <1>5, <1>8, Together

\* A report is written, or fails: it no longer runs.
LEMMA StoreKeepsInv ==
  ASSUME ReportsInv, NEW w \in Workers, CompleteReport(w) \/ FailReport(w)
  PROVE  ReportsInv'
<1>1. /\ members \subseteq Workers /\ leased \subseteq Workers /\ stops \in 0..MaxStops
      /\ workers \in [Workers -> Place] /\ workers[w] \in Place /\ WorkerKnows(w)
      /\ reports \in [Reports -> ReportRow]
  BY DEF ReportsInv, RowsOK, ListsOK, WorkersOK
<1>2. /\ UNCHANGED <<redisVars, stops>>
      /\ workers[w].pc = "work"
      /\ Goto(w, "ack") \/ Rests(w)
  BY DEF CompleteReport, FailReport, Store, Finishes
<1>3. PICK c \in Reports : c = workers[w].job /\ Handed(c) /\ reports[c] \in ReportRow
  BY <1>1, <1>2 DEF WorkerKnows, BusyPcs
<1>4. PICK row \in ReportRow :
        /\ row.status \in {"complete", "failed"} /\ row.web = reports[c].web
        /\ reports' = [reports EXCEPT ![c] = row]
  <2>1. CASE CompleteReport(w)
    <3> DEFINE row == [reports[c] EXCEPT !.status = "complete"]
    <3>1. row \in ReportRow /\ row.status = "complete" /\ row.web = reports[c].web
      BY <1>3 DEF ReportRow, Webs
    <3>2. reports' = [reports EXCEPT ![c] = row]
      BY <1>3, <2>1 DEF CompleteReport, Store
    <3> HIDE DEF row
    <3> QED BY <3>1, <3>2
  <2>2. CASE FailReport(w)
    <3>1. Failed(c) \in ReportRow /\ Failed(c).status = "failed" /\ Failed(c).web = reports[c].web
      BY <1>3 DEF ReportRow, Failed
    <3>2. reports' = [reports EXCEPT ![c] = Failed(c)]
      BY <1>3, <2>2 DEF FailReport, Store
    <3> QED BY <3>1, <3>2
  <2> QED BY <2>1, <2>2
<1>5. RowsKept
  BY <1>3, <1>4, OneRow DEF Handed, HandedWebs
<1>6. UNCHANGED <<queue, processing, members, leased>>
  BY <1>2 DEF redisVars
<1>7. ListsKept
  BY <1>1, <1>5, <1>6, SameLists
<1>8. reports'[c].status \in {"complete", "failed"} /\ Handed(c)'
  BY <1>1, <1>3, <1>4 DEF Handed
<1>9. PICK place \in Place :
        /\ workers' = [workers EXCEPT ![w] = place]
        /\ \/ place.pc = "ack" /\ place.job = c
           \/ place.pc = "idle"
        /\ \A d \in Reports : Contains(place.mine, d) => Handed(d)
  <2>1. CASE Goto(w, "ack")
    <3>1. PICK place \in Place :
            /\ workers' = [workers EXCEPT ![w] = place]
            /\ place.pc = "ack" /\ place.job = workers[w].job /\ place.mine = workers[w].mine
      BY <1>1, <2>1, NewPlace DEF WorkerPcs
    <3> QED BY <1>1, <1>3, <3>1 DEF WorkerKnows
  <2>2. CASE Rests(w)
    BY <1>1, <2>2, NewPlace
  <2> QED BY <1>2, <2>1, <2>2
<1>10. /\ place.pc \in BusyPcs => place.job \in Reports /\ Handed(place.job)'
       /\ place.pc = "ack" => reports'[place.job].status # "running"
  BY <1>8, <1>9 DEF BusyPcs
<1>11. \A d \in Reports : Contains(place.mine, d) => Handed(d)'
  BY <1>5, <1>9 DEF RowsKept
<1>12. WorkersOK'
  BY <1>5, <1>9, <1>10, <1>11, OneWorker
<1> QED BY <1>1, <1>2, <1>5, <1>7, <1>12, Together

\* A job leaves its worker's list when its report no longer runs.
LEMMA AcknowledgeKeepsInv ==
  ASSUME ReportsInv, NEW w \in Workers, Acknowledge(w)
  PROVE  ReportsInv'
<1>1. /\ members \subseteq Workers /\ leased \subseteq Workers /\ stops \in 0..MaxStops
      /\ queue \in Seq(Reports) /\ processing \in [Workers -> Seq(Reports)] /\ processing[w] \in Seq(Reports)
      /\ workers \in [Workers -> Place] /\ workers[w] \in Place /\ WorkerKnows(w)
      /\ \A c \in Reports : Contains(queue, c) => Handed(c)
      /\ \A q \in Workers, c \in Reports : Contains(processing[q], c) => Handed(c)
  BY DEF ReportsInv, ListsOK, WorkersOK, Place
<1>2. UNCHANGED <<reports, queue, members, leased, stops>> /\ workers[w].pc = "ack"
  BY DEF Acknowledge
<1>3. PICK c \in Reports : c = workers[w].job /\ reports[c].status # "running"
  BY <1>1, <1>2 DEF WorkerKnows, BusyPcs
<1>4. RowsKept
  BY <1>2, SameRows
<1>5. ListsKept
  <2>1. /\ processing' \in [Workers -> Seq(Reports)]
        /\ \A d : Contains(processing'[w], d) => Contains(processing[w], d)
        /\ \A d : d # c /\ Contains(processing[w], d) => Contains(processing'[w], d)
        /\ \A q \in Workers \ {w} : processing'[q] = processing[q]
    <3>1. /\ Drop(processing[w], c) \in Seq(Reports)
          /\ \A d : Contains(Drop(processing[w], c), d) => Contains(processing[w], d)
          /\ \A d : d # c /\ Contains(processing[w], d) => Contains(Drop(processing[w], c), d)
      BY <1>1, DroppedIn
    <3>2. processing' = [processing EXCEPT ![w] = Drop(processing[w], c)]
      BY <1>3 DEF Acknowledge
    <3>3. processing'[w] = Drop(processing[w], c)
      BY <1>1, <3>2
    <3> QED BY <1>1, <3>1, <3>2, <3>3
  <2>2. ListsOK'
    BY <1>1, <1>2, <2>1 DEF ListsOK, Handed
  <2>3. ASSUME NEW d \in Reports, Found(d), reports'[d].status = "running" PROVE Found(d)'
    BY <1>1, <1>2, <1>3, <2>1, <2>3 DEF Found
  <2> QED BY <2>2, <2>3 DEF ListsKept
<1>6. PICK place \in Place :
        /\ workers' = [workers EXCEPT ![w] = place]
        /\ place.pc = "idle" /\ \A d : ~Contains(place.mine, d)
  BY <1>1, NewPlace DEF Acknowledge
<1>7. WorkersOK'
  BY <1>4, <1>6, OneWorker DEF BusyPcs
<1> QED BY <1>1, <1>2, <1>4, <1>5, <1>7, Together

LEMMA InitReportsInv == ReportsInit => ReportsInv
<1> SUFFICES ASSUME ReportsInit PROVE ReportsInv
  OBVIOUS
<1>1. <<>> \in Seq(Reports) /\ \A c : ~Contains(<<>>, c)
  BY DEF Contains
<1>2. Unordered = [status |-> "none", refunded |-> FALSE, web |-> "none"]
  BY DEF Unordered
<1>3. Unordered \in ReportRow /\ Unordered.status = "none" /\ Unordered.web = "none"
  BY <1>2 DEF ReportRow, Webs
<1>4. \A c \in Reports : reports[c] = Unordered
  BY DEF ReportsInit
<1>5. RowsOK
  BY <1>3 DEF ReportsInit, RowsOK
<1>6. ListsOK
  BY <1>1 DEF ReportsInit, ListsOK
<1>7. NothingLost
  BY <1>3, <1>4 DEF NothingLost, Ordered, Handed
<1>8. WorkersOK
  <2>1. Off = [pc |-> "off", job |-> NoReport, mine |-> <<>>, peers |-> {}, stop |-> "no"]
    BY DEF Off
  <2>2. Off \in Place /\ Off.pc = "off" /\ Off.mine = <<>>
    BY <1>1, <2>1 DEF Place, WorkerPcs
  <2>3. workers = [w \in Workers |-> Off]
    BY DEF ReportsInit
  <2> QED BY <1>1, <2>2, <2>3 DEF WorkersOK, WorkerKnows, BusyPcs
<1>9. stops \in 0..MaxStops
  BY ResearchReportsAssumption DEF ReportsInit
<1> QED BY <1>5, <1>6, <1>7, <1>8, <1>9 DEF ReportsInv

LEMMA ReportsInvIsInductive == ReportsInv /\ [ReportsNext \/ AnswerUnheard]_reportVars => ReportsInv'
<1> SUFFICES ASSUME ReportsInv, [ReportsNext \/ AnswerUnheard]_reportVars PROVE ReportsInv'
  OBVIOUS
<1>1. ASSUME NEW c \in Reports, WebStep(c)
      PROVE  ReportsInv'
  BY <1>1, WebKeepsInv
<1>2. ASSUME NEW w \in Workers, Work(w) PROVE ReportsInv'
  <2>1. CASE \E p \in Workers : RecoverPeer(w, p)
    BY <2>1, RecoverPeerKeepsInv
  <2>2. CASE StartWorker(w) \/ Poll(w)
    BY <2>2, LooksAround
  <2>3. CASE Requeue(w)
    BY <2>3, RequeueKeepsInv
  <2>4. CASE Recovered(w) \/ TouchToPop(w) \/ PopNothing(w) \/ ReadStatus(w) \/ AcknowledgeFails(w) \/ EndProcess(w)
    BY <2>4, QuietKeepsInv
  <2>5. CASE Pop(w) \/ PopInVain(w)
    BY <2>5, PopKeepsInv
  <2>6. CASE CompleteReport(w) \/ FailReport(w)
    BY <2>6, StoreKeepsInv
  <2>7. CASE Acknowledge(w)
    BY <2>7, AcknowledgeKeepsInv
  <2> QED BY <1>2, <2>1, <2>2, <2>3, <2>4, <2>5, <2>6, <2>7 DEF Work
<1>3. ASSUME NEW w \in Workers,
             \/ Heartbeat(w) \/ Kill(w) \/ Shutdown(w) \/ release_research_worker(w)
             \/ LapseWorker(w) \/ HeartbeatsFail(w) \/ PopUnheard(w) \/ RedisFails(w)
      PROVE  ReportsInv'
  BY <1>3, LooksAround, QuietKeepsInv, PopKeepsInv
<1>4. CASE UNCHANGED reportVars
  <2>1. UNCHANGED <<reports, queue, processing, members, leased, workers, stops>>
    BY <1>4 DEF reportVars, redisVars
  <2>2. RowsKept /\ ListsKept /\ WorkersOK' /\ stops' \in 0..MaxStops
    BY <2>1, SameRows, SameLists, SameWorkers DEF ReportsInv, ListsOK
  <2> QED BY <2>2, Together
<1> QED BY <1>1, <1>2, <1>3, <1>4 DEF ReportsNext, AnswerUnheard, WebStep

\* The invariant of the reports holds however workers and the web process crash,
\* and whatever the threads of a worker do that was told to stop.
THEOREM ReportsInvariant == ReportsSpec => []ReportsInv
BY InitReportsInv, ReportsInvIsInductive, PTL DEF ReportsSpec

\* A report that was paid for and handed to Redis is in the queue, or in the list
\* of a worker, which puts it back when it starts, until it is written or its price
\* is given back: no crash, lost lease, lost answer or thread that outlives its
\* worker's lease puts its job out of reach.
THEOREM NoReportIsLost == ReportsSpec => []NothingLost
<1>1. ReportsInv => NothingLost
  BY DEF ReportsInv
<1> QED BY <1>1, ReportsInvariant, PTL

-----------------------------------------------------------------------------
(***************************************************************************)
(* The price of a report (ChargedAsTold), which can be told wrong when two *)
(* write one report: two workers, the second because the first one's lease *)
(* was gone, or a worker and the web process, which gives the price of a   *)
(* report back whose job it believes refused.                              *)
(***************************************************************************)
Writing(w) == workers[w].pc = "work"

OneWriter ==
  \A w \in Workers : Writing(w) =>
    /\ \A v \in Workers : Writing(v) /\ workers[v].job = workers[w].job => v = w
    /\ reports[workers[w].job].web # "unheard"

\* What a worker does is seen at itself alone.
WorkerStep(w) ==
  \/ Work(w) \/ Heartbeat(w) \/ Kill(w) \/ Shutdown(w) \/ release_research_worker(w)
  \/ LapseWorker(w) \/ HeartbeatsFail(w) \/ PopUnheard(w) \/ RedisFails(w)

\* It begins to write a report that it has just seen running, and one step of
\* writing it is its last.
LEMMA WorkerWrites ==
  ASSUME ReportsInv, NEW w \in Workers, WorkerStep(w)
  PROVE  /\ \A v \in Workers \ {w} : workers'[v] = workers[v]
         /\ \/ UNCHANGED reports
            \/ (CompleteReport(w) \/ FailReport(w)) /\ Writing(w) /\ ~Writing(w)'
         /\ Writing(w)' =>
              /\ workers'[w].job = workers[w].job /\ UNCHANGED reports
              /\ Writing(w) \/ reports[workers[w].job].status = "running"
<1>1. workers \in [Workers -> Place] /\ workers[w] \in Place
  BY DEF ReportsInv, WorkersOK
<1>2. ASSUME NEW pc \in WorkerPcs, Goto(w, pc)
      PROVE  /\ \A v \in Workers \ {w} : workers'[v] = workers[v]
             /\ workers'[w].pc = pc /\ workers'[w].job = workers[w].job
  BY <1>1, <1>2 DEF Goto, Place
<1>3. ASSUME Rests(w) \/ workers' = [workers EXCEPT ![w] = Off]
      PROVE  (\A v \in Workers \ {w} : workers'[v] = workers[v]) /\ ~Writing(w)'
  <2>1. PICK place \in Place :
          workers' = [workers EXCEPT ![w] = place] /\ place.pc \in {"idle", "off"}
    BY <1>1, <1>3, NewPlace
  <2> QED BY <1>1, <2>1 DEF Writing
<1>4. CASE Recovered(w) \/ TouchToPop(w) \/ PopNothing(w)
  <2>1. UNCHANGED reports /\ \E pc \in {"idle", "pop"} : Goto(w, pc)
    BY <1>4 DEF Recovered, TouchToPop, PopNothing
  <2> QED BY <1>2, <2>1 DEF Writing, WorkerPcs
<1>5. CASE ReadStatus(w)
  <2>1. /\ UNCHANGED reports
        /\ \/ Goto(w, "work") /\ reports[workers[w].job].status = "running"
           \/ Goto(w, "ack") \/ Rests(w)
    BY <1>5 DEF ReadStatus, Finishes
  <2> QED BY <1>2, <1>3, <2>1 DEF Writing, WorkerPcs
<1>6. CASE CompleteReport(w) \/ FailReport(w)
  <2>1. Writing(w) /\ (Goto(w, "ack") \/ Rests(w))
    BY <1>6 DEF CompleteReport, FailReport, Store, Finishes, Writing
  <2> QED BY <1>2, <1>3, <1>6, <2>1 DEF Writing, WorkerPcs
<1>7. CASE Acknowledge(w) \/ AcknowledgeFails(w) \/ Kill(w) \/ EndProcess(w)
  BY <1>3, <1>7 DEF Acknowledge, AcknowledgeFails, Kill, EndProcess
<1>8. CASE Shutdown(w) \/ release_research_worker(w)
  <2>1. UNCHANGED reports /\ \E stop \in {"told", "released"} : workers' = [workers EXCEPT ![w].stop = stop]
    BY <1>8 DEF Shutdown, release_research_worker
  <2> QED BY <1>1, <2>1 DEF Place, Writing
<1>9. CASE Heartbeat(w) \/ LapseWorker(w) \/ HeartbeatsFail(w)
  BY <1>9 DEF Heartbeat, LapseWorker, HeartbeatsFail, Writing
<1>10. CASE StartWorker(w) \/ RedisFails(w)
  <2>1. UNCHANGED reports /\ (ReadLists(w) \/ Rests(w))
    BY <1>10 DEF StartWorker, RedisFails
  <2>2. CASE ReadLists(w)
    BY <1>1, <2>1, <2>2 DEF ReadLists, Place, Writing
  <2> QED BY <1>3, <2>1, <2>2
<1>11. CASE Poll(w)
  BY <1>1, <1>11 DEF Poll, Place, Writing
<1>12. CASE \E p \in Workers : RecoverPeer(w, p)
  BY <1>1, <1>12 DEF RecoverPeer, Place, Writing
<1>13. CASE Requeue(w)
  BY <1>1, <1>13 DEF Requeue, Place, Writing
<1>14. CASE Pop(w) \/ PopInVain(w) \/ PopUnheard(w)
  <2>1. /\ UNCHANGED reports
        /\ \E pc \in {"read", "idle"}, job \in {Last(queue), NoReport} :
             workers' = [workers EXCEPT ![w].pc = pc, ![w].job = job]
    BY <1>14 DEF Pop, PopInVain, PopUnheard, PopTo
  <2> QED BY <1>1, <2>1 DEF Place, Writing
<1> QED
  BY <1>4, <1>5, <1>6, <1>7, <1>8, <1>9, <1>10, <1>11, <1>12, <1>13, <1>14
  DEF WorkerStep, Work

\* A step of the reports is one of a worker or of the web process.
LEMMA ReportSteps ==
  ASSUME ReportsNext \/ AnswerUnheard
  PROVE  (\E c \in Reports : WebStep(c)) \/ (\E w \in Workers : WorkerStep(w))
BY DEF ReportsNext, AnswerUnheard, WebStep, WorkerStep

\* Whose report is being written has not been given its price back.
ChargeInv ==
  /\ ChargedAsTold
  /\ \A c \in Reports : reports[c].status = "none" => ~reports[c].refunded
  /\ \A w \in Workers : Writing(w) => reports[workers[w].job].status = "running"

LEMMA WorkerKeepsCharge ==
  ASSUME ReportsInv, ChargeInv, OneWriter, NEW w \in Workers, WorkerStep(w)
  PROVE  ChargeInv'
<1>1. /\ reports \in [Reports -> ReportRow] /\ WorkerKnows(w)
      /\ \A v \in Workers : Writing(v) => workers[v].job \in Reports
  BY DEF ReportsInv, RowsOK, WorkersOK, WorkerKnows, Writing, BusyPcs
<1>2. CASE (CompleteReport(w) \/ FailReport(w)) /\ Writing(w) /\ ~Writing(w)'
  <2>1. PICK c \in Reports : c = workers[w].job /\ reports[c] \in ReportRow /\ reports[c].status = "running"
    BY <1>1, <1>2 DEF ChargeInv
  <2>2. PICK row \in ReportRow :
          /\ reports' = [reports EXCEPT ![c] = row]
          /\ \/ row.status = "complete" /\ row.refunded = reports[c].refunded
             \/ row.status = "failed" /\ row.refunded
    <3>1. CASE CompleteReport(w)
      <4> DEFINE row == [reports[c] EXCEPT !.status = "complete"]
      <4>1. row \in ReportRow /\ row.status = "complete" /\ row.refunded = reports[c].refunded
        BY <2>1 DEF ReportRow
      <4>2. reports' = [reports EXCEPT ![c] = row]
        BY <2>1, <3>1 DEF CompleteReport, Store
      <4> HIDE DEF row
      <4> QED BY <4>1, <4>2
    <3>2. CASE FailReport(w)
      <4>1. Failed(c) \in ReportRow /\ Failed(c).status = "failed" /\ Failed(c).refunded
        BY <2>1 DEF ReportRow, Failed
      <4>2. reports' = [reports EXCEPT ![c] = Failed(c)]
        BY <2>1, <3>2 DEF FailReport, Store
      <4> QED BY <4>1, <4>2
    <3> QED BY <1>2, <3>1, <3>2
  <2>3. reports'[c] = row /\ \A d \in Reports \ {c} : reports'[d] = reports[d]
    BY <1>1, <2>2
  <2>4. ASSUME NEW v \in Workers, Writing(v)' PROVE reports'[workers'[v].job].status = "running"
    <3>1. v # w /\ workers'[v] = workers[v] /\ Writing(v)
      BY <1>2, <2>4, WorkerWrites DEF Writing
    <3>2. workers[v].job # c
      BY <1>2, <2>1, <3>1 DEF OneWriter
    <3> QED BY <1>1, <2>3, <3>1, <3>2 DEF ChargeInv
  <2> QED BY <2>1, <2>2, <2>3, <2>4 DEF ChargeInv, ChargedAsTold
<1>3. CASE UNCHANGED reports
  <2>1. ASSUME NEW v \in Workers, Writing(v)' PROVE reports[workers'[v].job].status = "running"
    <3>1. CASE v = w
      BY <2>1, <3>1, WorkerWrites DEF ChargeInv
    <3>2. CASE v # w
      BY <2>1, <3>2, WorkerWrites DEF Writing, ChargeInv
    <3> QED BY <3>1, <3>2
  <2> QED BY <1>3, <2>1 DEF ChargeInv, ChargedAsTold
<1> QED BY <1>2, <1>3, WorkerWrites

LEMMA WebKeepsCharge ==
  ASSUME ReportsInv, ChargeInv, OneWriter, NEW c \in Reports, WebStep(c)
  PROVE  ChargeInv'
<1>1. PICK row \in ReportRow :
        /\ reports' = [reports EXCEPT ![c] = row] /\ row.status # "none"
        /\ \/ row.status = "failed" /\ row.refunded /\ reports[c].web \in {"refused", "unheard"}
           \/ /\ row.status = "running" /\ reports[c].status = "none" /\ ~Handed(c)
              /\ row.refunded = reports[c].refunded
           \/ row.status = reports[c].status /\ row.refunded = reports[c].refunded
  BY WebRow
<1>2. reports'[c] = row /\ \A d \in Reports \ {c} : reports'[d] = reports[d]
  BY <1>1 DEF ReportsInv, RowsOK
<1>3. UNCHANGED workers
  BY DEF WebStep, CreateReport, enqueue_research_job, EnqueueFails, FailEnqueue, WebCrash, EnqueueUnheard
<1>4. ASSUME NEW w \in Workers, Writing(w)' PROVE reports'[workers'[w].job].status = "running"
  <2>1. /\ Writing(w) /\ workers[w].job \in Reports /\ Handed(workers[w].job)
        /\ reports[workers[w].job].status = "running" /\ reports[workers[w].job].web # "unheard"
    BY <1>3, <1>4 DEF Writing, BusyPcs, ReportsInv, WorkersOK, WorkerKnows, ChargeInv, OneWriter
  <2>2. workers[w].job = c => row.status = "running"
    BY <1>1, <2>1 DEF Handed
  <2> QED BY <1>2, <1>3, <2>1, <2>2
<1> QED BY <1>1, <1>2, <1>4 DEF ChargeInv, ChargedAsTold

LEMMA ChargeInvIsInductive ==
  ReportsInv /\ ChargeInv /\ OneWriter /\ [ReportsNext \/ AnswerUnheard]_reportVars => ChargeInv'
<1> SUFFICES ASSUME ReportsInv, ChargeInv, OneWriter, [ReportsNext \/ AnswerUnheard]_reportVars
             PROVE  ChargeInv'
  OBVIOUS
<1>1. CASE ReportsNext \/ AnswerUnheard
  BY <1>1, ReportSteps, WorkerKeepsCharge, WebKeepsCharge
<1>2. CASE UNCHANGED reportVars
  BY <1>2 DEF reportVars, ChargeInv, ChargedAsTold, Writing
<1> QED BY <1>1, <1>2

LEMMA InitChargeInv == ReportsInit => ChargeInv
<1> SUFFICES ASSUME ReportsInit PROVE ChargeInv
  OBVIOUS
<1>1. /\ \A c \in Reports : reports[c].status = "none" /\ ~reports[c].refunded
      /\ \A w \in Workers : workers[w].pc = "off"
  BY DEF ReportsInit, Unordered, Off
<1> QED BY <1>1 DEF ChargeInv, ChargedAsTold, Writing

\* As long as a worker that writes a report is alone with it, without a second
\* worker and without a web process that does not know its job is queued, a
\* customer is told the truth of the price (main.py:7314), whatever crashes, lapses
\* or goes unheard: a second writer is the only way in which it goes wrong.
THEOREM ChargedAsToldByOneWriter == ReportsSpec /\ []OneWriter => []ChargedAsTold
<1>1. ChargeInv => ChargedAsTold
  BY DEF ChargeInv
<1> QED BY <1>1, InitChargeInv, ChargeInvIsInductive, ReportsInvariant, PTL DEF ReportsSpec

\* Where there is one worker, and the web process hears what became of each push, a
\* customer is told the truth of the price: for any reports, crashes, stops and
\* leases that run out.  The run reports_charged shows that two workers are enough
\* to break it; so is one worker and one push that is not heard.
THEOREM ChargedAsToldHolds ==
  ASSUME \A v, w \in Workers : v = w
  PROVE  HeardSpec => []ChargedAsTold
<1> DEFINE Heard == \A c \in Reports : reports[c].web # "unheard"
<1>1. ReportsInit => ReportsInv /\ ChargeInv /\ Heard
  <2>1. ReportsInit => Heard
    BY DEF ReportsInit, Unordered
  <2> QED BY <2>1, InitReportsInv, InitChargeInv
<1>2. ReportsInv /\ Heard => OneWriter
  BY DEF OneWriter, ReportsInv, WorkersOK, WorkerKnows, Writing, BusyPcs
<1>3. ReportsInv /\ Heard /\ [ReportsNext]_reportVars => Heard'
  <2> SUFFICES ASSUME ReportsInv, Heard, [ReportsNext]_reportVars, NEW d \in Reports
               PROVE  reports'[d].web # "unheard"
    OBVIOUS
  <2>1. reports \in [Reports -> ReportRow]
    BY DEF ReportsInv, RowsOK
  <2>2. ASSUME NEW c \in Reports,
               CreateReport(c) \/ enqueue_research_job(c) \/ EnqueueFails(c) \/ FailEnqueue(c) \/ WebCrash(c)
        PROVE  reports'[d].web # "unheard"
    <3>1. CASE CreateReport(c)
      BY <2>1, <3>1 DEF CreateReport, ReportRow
    <3>2. CASE enqueue_research_job(c)
      BY <2>1, <3>2 DEF enqueue_research_job, ReportRow
    <3>3. CASE EnqueueFails(c)
      BY <2>1, <3>3 DEF EnqueueFails, ReportRow
    <3>4. CASE FailEnqueue(c)
      BY <2>1, <3>4 DEF FailEnqueue, Failed, Left, ReportRow
    <3>5. CASE WebCrash(c)
      BY <2>1, <3>5 DEF WebCrash, Left, ReportRow
    <3> QED BY <2>2, <3>1, <3>2, <3>3, <3>4, <3>5
  <2>3. ASSUME NEW w \in Workers, WorkerStep(w) PROVE reports'[d].web # "unheard"
    <3>1. CASE CompleteReport(w)
      BY <2>1, <3>1 DEF CompleteReport, Store, ReportRow
    <3>2. CASE FailReport(w)
      BY <2>1, <3>2 DEF FailReport, Store, Failed, ReportRow
    <3>3. CASE UNCHANGED reports
      BY <3>3
    <3> QED BY <2>3, <3>1, <3>2, <3>3, WorkerWrites
  <2>4. CASE UNCHANGED reportVars
    BY <2>4 DEF reportVars
  <2> QED BY <2>2, <2>3, <2>4 DEF ReportsNext, WorkerStep
<1>4. ReportsInv /\ ChargeInv /\ Heard /\ [ReportsNext]_reportVars => ReportsInv' /\ ChargeInv' /\ Heard'
  BY <1>2, <1>3, ReportsInvIsInductive, ChargeInvIsInductive
<1>5. ChargeInv => ChargedAsTold
  BY DEF ChargeInv
<1> HIDE DEF Heard
<1> QED BY <1>1, <1>4, <1>5, PTL DEF HeardSpec

-----------------------------------------------------------------------------
(***************************************************************************)
(* Staked Calls (FlashCalls).                                              *)
(***************************************************************************)
\* The invariant of the Calls.  One worker at most fills orders, and an order that
\* opens a Call waits until it does; an order or a Call that has left its first
\* state knows its coin; and the stakes are kept.
Maybe == Quote \cup {NoQuote}
CoinOrNone == Tokens \cup {"none"}
TicketRow == [status : {"none", "asked", "pending", "filled", "cancelled"}, coin : CoinOrNone,
              call : CallIds \cup {"none"}, requested : Quote, old : BOOLEAN]
BetRow == [status : {"none", "active", "closed"}, coin : CoinOrNone, entry : Maybe, exit : Maybe,
           expired : BOOLEAN, awaiting : BOOLEAN]
MarketRow == [seen : Quote, quotes : SUBSET Quote, asset : Maybe]
FillerPlace == [coin : CoinOrNone, quote : Maybe, batch : SUBSET Orders]

FlashRows ==
  /\ market \in [Tokens -> MarketRow] /\ tickets \in [Orders -> TicketRow]
  /\ bets \in [CallIds -> BetRow] /\ fillers \in [Fillers -> FillerPlace]
  /\ sweep \in [call : CallIds \cup {"none"}, quote : Maybe]

TicketKnows(o) ==
  tickets[o].status # "none" =>
    /\ tickets[o].coin \in Tokens
    /\ tickets[o].call \in CallIds /\ (o \in Opens => tickets[o].call = o)

BetKnows(k) ==
  /\ bets[k].status # "none" => bets[k].coin \in Tokens /\ bets[k].entry \in Quote
  /\ bets[k].status = "closed" => bets[k].exit \in Quote

FillerKnows(w) ==
  /\ fillers[w].quote # NoQuote => fillers[w].coin \in Tokens
  /\ fillers[w].batch # {} => \A v \in Fillers \ {w} : fillers[v].batch = {}
  /\ \A o \in fillers[w].batch : /\ tickets[o].status \in {"pending", "filled", "cancelled"}
                                 /\ o \in Opens => tickets[o].status = "pending"

FlashKnows ==
  /\ \A o \in Orders : TicketKnows(o)
  /\ \A k \in CallIds : BetKnows(k)
  /\ \A w \in Fillers : FillerKnows(w)
  /\ sweep # NoSweep => sweep.call \in CallIds /\ bets[sweep.call].status # "none"

WalletAdds ==
  /\ IsFiniteSet(flash.entries)
  /\ \A e \in flash.entries : e.amount \in Int
  /\ flash.balance \in Nat

FlashInv == FlashRows /\ FlashKnows /\ WalletAdds /\ StakesKept

\* The parts of StakesKept.
StakeAt(o) ==
  /\ Entry("memecoin_call_stake", o) # {} <=>
       tickets[o].status \in {"pending", "filled", "cancelled"}
  /\ Entry("memecoin_call_refund", o) # {} <=> tickets[o].status = "cancelled"
  /\ bets[o].status # "none" <=> tickets[o].status = "filled"
PaidAt(k) ==
  IF bets[k].status = "closed" /\ Payout(k, bets[k].exit) > 0
  THEN \E e \in Entry(PayoutKind(k), k) :
         Entry(PayoutKind(k), k) = {e} /\ e.amount = Payout(k, bets[k].exit)
  ELSE Entry(PayoutKind(k), k) = {}
Total(S) == MapThenSumSet(LAMBDA e : e.amount, S)
BalanceAdds == flash.balance = Total(flash.entries)

LEMMA StakesSplit ==
  /\ StakesKept <=> (\A o \in Opens : StakeAt(o)) /\ (\A k \in CallIds : PaidAt(k)) /\ BalanceAdds
  /\ (\A o \in Opens : StakeAt(o)') /\ (\A k \in CallIds : PaidAt(k)') /\ BalanceAdds' => StakesKept'
BY DEF StakesKept, StakeAt, PaidAt, BalanceAdds, Total

\* The sum over the entries, as a sum of a function.
AmountOf(S) == [e \in S |-> e.amount]
IsAmounts(g, S) == g = [s \in SUBSET S |-> IF s = {} THEN 0 ELSE First(s).amount + g[s \ {First(s)}]]

LEMMA AmountsSum ==
  ASSUME NEW S, IsFiniteSet(S)
  PROVE  Total(S) = SumFunctionOnSet(AmountOf(S), S)
<1>1. ASSUME NEW g PROVE IsAmounts(g, S) <=> IsSums(AmountOf(S), g, S)
  <2>1. ASSUME NEW s \in SUBSET S
        PROVE  SumStep(AmountOf(S), g, s) = IF s = {} THEN 0 ELSE First(s).amount + g[s \ {First(s)}]
    <3>1. CASE s # {}
      <4>1. First(s) \in S
        BY <3>1, FirstIn
      <4>2. AmountOf(S)[First(s)] = First(s).amount
        BY <4>1 DEF AmountOf
      <4> QED BY <3>1, <4>2 DEF SumStep
    <3> QED BY <3>1 DEF SumStep
  <2> QED BY <2>1 DEF IsAmounts, IsSums
<1> DEFINE a == CHOOSE g : IsAmounts(g, S)
           b == CHOOSE g : IsSums(AmountOf(S), g, S)
<1>2. IsSums(AmountOf(S), b, S)
  BY SumsExist
<1>3. IsSums(AmountOf(S), a, S)
  BY <1>1, <1>2
<1>4. Total(S) = a[S]
  BY DEF Total, MapThenSumSet, MapThenFoldSet, IsAmounts, First
<1>5. SumFunctionOnSet(AmountOf(S), S) = b[S]
  BY SumIsFold
<1> HIDE DEF a, b
<1>6. a[S] = b[S]
  BY <1>2, <1>3, SumsAgree
<1> QED BY <1>4, <1>5, <1>6

\* What posting an entry changes.
LEMMA PostedEntries ==
  ASSUME NEW amount, NEW kind, NEW ref, flash' = Posted(amount, kind, ref)
  PROVE  /\ \A k, r : k # kind \/ r # ref => Entry(k, r)' = Entry(k, r)
         /\ Entry(kind, ref) = {} => Entry(kind, ref)' = {[kind |-> kind, ref |-> ref, amount |-> amount]}
         /\ Entry(kind, ref) # {} => flash' = flash
<1> DEFINE e == [kind |-> kind, ref |-> ref, amount |-> amount]
<1>1. e.kind = kind /\ e.ref = ref
  OBVIOUS
<1>2. CASE Entry(kind, ref) # {}
  BY <1>2 DEF Posted, Entry
<1>3. CASE Entry(kind, ref) = {}
  <2>1. flash'.entries = flash.entries \cup {e}
    BY <1>3 DEF Posted
  <2> HIDE DEF e
  <2>2. ASSUME NEW k, NEW r, k # kind \/ r # ref PROVE Entry(k, r)' = Entry(k, r)
    BY <1>1, <2>1, <2>2 DEF Entry
  <2>3. Entry(kind, ref)' = {e}
    BY <1>1, <1>3, <2>1 DEF Entry
  <2> QED BY <1>3, <2>2, <2>3 DEF e
<1> QED BY <1>2, <1>3

LEMMA PostedAdds ==
  ASSUME WalletAdds, BalanceAdds, NEW amount \in Int, NEW kind, NEW ref,
         flash' = Posted(amount, kind, ref), flash.balance + amount >= 0
  PROVE  WalletAdds' /\ BalanceAdds'
<1> DEFINE e == [kind |-> kind, ref |-> ref, amount |-> amount]
<1>1. CASE Entry(kind, ref) # {}
  <2>1. flash' = flash
    BY <1>1 DEF Posted
  <2> QED BY <2>1 DEF WalletAdds, BalanceAdds
<1>2. CASE Entry(kind, ref) = {}
  <2>1. /\ flash'.entries = flash.entries \cup {e} /\ flash'.balance = flash.balance + amount
        /\ e.amount = amount
    BY <1>2 DEF Posted
  <2>2. e \notin flash.entries
    BY <1>2 DEF Entry
  <2> HIDE DEF e
  <2>3. IsFiniteSet(flash'.entries)
    BY <2>1, FS_AddElement DEF WalletAdds
  <2>4. \A d \in flash'.entries : d.amount \in Int
    BY <2>1 DEF WalletAdds
  <2> DEFINE old == AmountOf(flash.entries)
             new == AmountOf(flash'.entries)
  <2>5. \A d \in flash.entries : old[d] = d.amount /\ new[d] = d.amount
    BY <2>1 DEF AmountOf
  <2>6. new[e] = amount
    BY <2>1 DEF AmountOf
  <2> HIDE DEF old, new
  <2>7. SumFunctionOnSet(new, flash.entries \cup {e}) = SumFunctionOnSet(new, flash.entries) + amount
    <3>1. IsFiniteSet(flash.entries) /\ \A d \in flash.entries \cup {e} : new[d] \in Int
      BY <2>5, <2>6 DEF WalletAdds
    <3>2. SumFunctionOnSet(new, flash.entries \cup {e}) = SumFunctionOnSet(new, flash.entries) + new[e]
      BY <2>2, <3>1, SumAdd
    <3> QED BY <2>6, <3>2
  <2>8. SumFunctionOnSet(new, flash.entries) = SumFunctionOnSet(old, flash.entries)
    BY <2>5, SumSame DEF WalletAdds
  <2>9. Total(flash.entries) = SumFunctionOnSet(old, flash.entries)
    BY AmountsSum DEF WalletAdds, old
  <2>10. Total(flash'.entries) = SumFunctionOnSet(new, flash'.entries)
    BY <2>3, AmountsSum DEF new
  <2>11. BalanceAdds'
    BY <2>1, <2>7, <2>8, <2>9, <2>10 DEF BalanceAdds
  <2>12. flash'.balance \in Nat
    BY <2>1 DEF WalletAdds
  <2> QED BY <2>3, <2>4, <2>11, <2>12 DEF WalletAdds
<1> QED BY <1>1, <1>2

LEMMA OneOfTwo ==
  ASSUME NEW a \in Int, NEW b \in Int
  PROVE  Max({a, b}) \in {a, b} /\ Min({a, b}) \in {a, b}
<1>1. \E x \in {a, b} : \A y \in {a, b} : x >= y
  OBVIOUS
<1>2. \E x \in {a, b} : \A y \in {a, b} : x <= y
  OBVIOUS
<1> QED BY <1>1, <1>2 DEF Max, Min

LEMMA QuotesTyped ==
  /\ Quote \subseteq Nat /\ NoQuote \notin Quote /\ NoQuote \in Int
  /\ \A S \in SUBSET Quote : S # {} => Min(S) \in S /\ Max(S) \in S
  /\ \A a \in Maybe : \A b \in Maybe : Max({a, b}) \in Maybe
<1>1. MaxQuotes \in Nat /\ Quote \subseteq Nat /\ NoQuote \notin Quote /\ NoQuote \in Int
  BY FlashCallsAssumption DEF Quote, NoQuote
<1>2. ASSUME NEW S \in SUBSET Quote, S # {} PROVE Min(S) \in S
  <2>1. PICK x \in S : \A y \in S : x <= y
    BY <1>1, <1>2, SmallestNumber
  <2> QED BY <2>1 DEF Min
<1>3. ASSUME NEW S \in SUBSET Quote, S # {} PROVE Max(S) \in S
  <2> DEFINE T == {MaxQuotes - q : q \in S}
  <2>1. T \in SUBSET Nat /\ T # {}
    <3>1. ASSUME NEW q \in S PROVE MaxQuotes - q \in Nat
      <4>1. q \in 0..MaxQuotes
        BY DEF Quote
      <4> QED BY <1>1, <4>1
    <3>2. T # {}
      BY <1>3
    <3> QED BY <3>1, <3>2
  <2> HIDE DEF T
  <2>2. PICK t \in T : \A u \in T : t <= u
    BY <2>1, SmallestNumber
  <2>3. PICK x \in S : t = MaxQuotes - x
    BY DEF T
  <2>4. ASSUME NEW y \in S PROVE x >= y
    <3>1. MaxQuotes - x <= MaxQuotes - y
      BY <2>2, <2>3 DEF T
    <3>2. x \in Nat /\ y \in Nat
      BY <1>1
    <3> QED BY <1>1, <3>1, <3>2
  <2> QED BY <2>4 DEF Max
<1>4. ASSUME NEW a \in Maybe, NEW b \in Maybe PROVE Max({a, b}) \in Maybe
  <2>1. a \in Int /\ b \in Int
    BY <1>1 DEF Maybe
  <2> QED BY <2>1, OneOfTwo
<1> QED BY <1>1, <1>2, <1>3, <1>4

LEMMA PayoutTyped ==
  ASSUME FlashRows, NEW k \in CallIds, BetKnows(k), bets[k].status # "none", NEW q \in Quote
  PROVE  Payout(k, q) \in Int
<1>1. bets[k].coin \in Tokens /\ bets[k].entry \in Quote
  BY DEF BetKnows
<1>2. PICK p \in [Quote -> Nat \ {0}] : p = PriceAt[bets[k].coin]
  BY <1>1, FlashCallsAssumption DEF Quote
<1>3. PICK in \in Nat \ {0} : in = p[bets[k].entry]
  BY <1>1
<1>4. PICK out \in Nat \ {0} : out = p[q]
  OBVIOUS
<1>5. (100 * out) \div in - 100 \in Int /\ StakeOf(k) \in Int /\ -StakeOf(k) \in Int /\ 50 \in Int
  BY DEF StakeOf, MEMECOIN_CALL_STAKE
<1>6. Min({50, (100 * out) \div in - 100}) \in Int
  BY <1>5, OneOfTwo
<1>7. Max({-StakeOf(k), Min({50, (100 * out) \div in - 100})}) \in Int
  <2>1. PICK a \in Int : a = -StakeOf(k)
    BY <1>5
  <2>2. PICK b \in Int : b = Min({50, (100 * out) \div in - 100})
    BY <1>6
  <2>3. Max({a, b}) \in Int
    BY OneOfTwo
  <2> QED BY <2>1, <2>2, <2>3
<1>8. Net(StakeOf(k), in, out) \in Int
  BY <1>7 DEF Net, CALL_WIN_FLASH_CAP
<1>9. Payout(k, q) = StakeOf(k) + Net(StakeOf(k), in, out)
  BY <1>2, <1>3, <1>4 DEF Payout
<1> QED BY <1>5, <1>8, <1>9

\* How a step may change a ticket, a Call and a worker.
TicketStep(o) ==
  \/ /\ tickets'[o].coin = tickets[o].coin /\ tickets'[o].call = tickets[o].call
     /\ \/ tickets'[o].status = tickets[o].status
        \/ tickets[o].status = "asked" /\ tickets'[o].status = "pending"
        \/ tickets[o].status = "pending" /\ tickets'[o].status \in {"filled", "cancelled"}
  \/ tickets[o].status = "asked" /\ tickets'[o].status = "none"
  \/ tickets[o].status = "none" /\ tickets'[o].status = "asked" /\ TicketKnows(o)'
SameBet(k) ==
  /\ bets'[k].status = bets[k].status /\ bets'[k].coin = bets[k].coin
  /\ bets'[k].entry = bets[k].entry /\ bets'[k].exit = bets[k].exit
BetStep(k) ==
  \/ SameBet(k)
  \/ bets[k].status = "none" /\ bets'[k].status = "active" /\ BetKnows(k)'
  \/ /\ bets[k].status = "active" /\ bets'[k].status = "closed" /\ bets'[k].exit \in Quote
     /\ bets'[k].coin = bets[k].coin /\ bets'[k].entry = bets[k].entry
FillerStep(w) ==
  /\ fillers'[w].quote # NoQuote => fillers'[w].coin \in Tokens
  /\ fillers'[w].batch \subseteq fillers[w].batch
  /\ \A o \in fillers'[w].batch : o \in Opens => tickets'[o].status = tickets[o].status

LEMMA KnowsKept ==
  ASSUME FlashInv, \A o \in Orders : TicketStep(o), \A k \in CallIds : BetStep(k),
         \A w \in Fillers : FillerStep(w), sweep' = sweep \/ sweep' = NoSweep
  PROVE  FlashKnows'
<1>1. FlashRows /\ FlashKnows
  BY DEF FlashInv
<1>2. ASSUME NEW o \in Orders PROVE TicketKnows(o)'
  BY <1>1 DEF FlashKnows, TicketKnows, TicketStep
<1>3. ASSUME NEW k \in CallIds PROVE BetKnows(k)' /\ (bets[k].status # "none" => bets'[k].status # "none")
  BY <1>1 DEF FlashKnows, BetKnows, BetStep, SameBet
<1>4. ASSUME NEW w \in Fillers PROVE FillerKnows(w)'
  <2>1. FillerKnows(w) /\ FillerStep(w)
    BY <1>1 DEF FlashKnows
  <2>2. fillers'[w].batch # {} => \A v \in Fillers \ {w} : fillers'[v].batch = {}
    BY <2>1 DEF FillerKnows, FillerStep
  <2>3. ASSUME NEW o \in fillers'[w].batch
        PROVE  /\ tickets'[o].status \in {"pending", "filled", "cancelled"}
               /\ o \in Opens => tickets'[o].status = "pending"
    <3>1. /\ o \in fillers[w].batch /\ o \in Orders /\ tickets[o].status \in {"pending", "filled", "cancelled"}
          /\ o \in Opens => tickets'[o].status = "pending"
      BY <1>1, <2>1, <2>3 DEF FillerKnows, FillerStep, FlashRows, FillerPlace
    <3> QED BY <3>1 DEF TicketStep
  <2> QED BY <2>1, <2>2, <2>3 DEF FillerKnows, FillerStep
<1>5. sweep' # NoSweep => sweep'.call \in CallIds /\ bets'[sweep'.call].status # "none"
  BY <1>1, <1>3 DEF FlashKnows
<1> QED BY <1>2, <1>3, <1>4, <1>5 DEF FlashKnows

LEMMA SameStake ==
  ASSUME NEW o \in Opens, StakeAt(o),
         \/ tickets'[o].status = tickets[o].status
         \/ {tickets'[o].status, tickets[o].status} \subseteq {"none", "asked"},
         bets'[o].status = bets[o].status \/ {bets'[o].status, bets[o].status} \subseteq {"active", "closed"},
         Entry("memecoin_call_stake", o)' = Entry("memecoin_call_stake", o),
         Entry("memecoin_call_refund", o)' = Entry("memecoin_call_refund", o)
  PROVE  StakeAt(o)'
BY DEF StakeAt

LEMMA SamePaid ==
  ASSUME NEW k \in CallIds, PaidAt(k),
         SameBet(k) \/ {bets'[k].status, bets[k].status} \subseteq {"none", "active"},
         Entry(PayoutKind(k), k)' = Entry(PayoutKind(k), k)
  PROVE  PaidAt(k)'
<1>1. CASE SameBet(k)
  <2>1. \A q : Payout(k, q)' = Payout(k, q)
    BY <1>1 DEF SameBet, Payout, StakeOf
  <2>2. PayoutKind(k)' = PayoutKind(k)
    BY DEF PayoutKind
  <2> QED BY <1>1, <2>1, <2>2 DEF SameBet, PaidAt
<1>2. CASE {bets'[k].status, bets[k].status} \subseteq {"none", "active"}
  BY <1>2 DEF PaidAt, PayoutKind
<1> QED BY <1>1, <1>2

\* The wallet and what the stakes depend on stay as they are.
LEMMA MoneyStays ==
  ASSUME FlashInv, UNCHANGED flash, \A k \in CallIds : SameBet(k),
         \A o \in Opens : \/ tickets'[o].status = tickets[o].status
                          \/ {tickets'[o].status, tickets[o].status} \subseteq {"none", "asked"}
  PROVE  WalletAdds' /\ StakesKept'
<1>1. WalletAdds /\ (\A o \in Opens : StakeAt(o)) /\ (\A k \in CallIds : PaidAt(k)) /\ BalanceAdds
  BY StakesSplit DEF FlashInv
<1>2. \A k, r : Entry(k, r)' = Entry(k, r)
  BY DEF Entry
<1>3. ASSUME NEW o \in Opens PROVE StakeAt(o)'
  BY <1>1, <1>2, SameStake DEF SameBet, CallIds
<1>4. ASSUME NEW k \in CallIds PROVE PaidAt(k)'
  BY <1>1, <1>2, SamePaid
<1>5. WalletAdds' /\ BalanceAdds'
  BY <1>1 DEF WalletAdds, BalanceAdds
<1> QED BY <1>3, <1>4, <1>5, StakesSplit

LEMMA Idle ==
  /\ NotPricing = [coin |-> "none", quote |-> NoQuote, batch |-> {}] /\ NotPricing \in FillerPlace
  /\ NotPricing.quote = NoQuote /\ NotPricing.batch = {}
  /\ NoSweep = [call |-> "none", quote |-> NoQuote]
  /\ NoTicket = [status |-> "none", coin |-> "none", call |-> "none", requested |-> 0, old |-> FALSE]
  /\ NoTicket \in TicketRow /\ NoTicket.status = "none"
  /\ Opens \subseteq Orders /\ Closes \subseteq Orders /\ Opens \subseteq CallIds
  /\ Opens \cap Closes = {}
<1>1. /\ NotPricing = [coin |-> "none", quote |-> NoQuote, batch |-> {}]
      /\ NoTicket = [status |-> "none", coin |-> "none", call |-> "none", requested |-> 0, old |-> FALSE]
  BY DEF NotPricing, NoTicket
<1>2. 0 \in Quote
  BY FlashCallsAssumption DEF Quote
<1>3. NotPricing \in FillerPlace /\ NotPricing.quote = NoQuote /\ NotPricing.batch = {}
  BY <1>1 DEF FillerPlace, Maybe, CoinOrNone
<1>4. NoTicket \in TicketRow /\ NoTicket.status = "none"
  BY <1>1, <1>2 DEF TicketRow, CoinOrNone
<1> QED BY <1>1, <1>3, <1>4, FlashCallsAssumption DEF NoSweep, Orders, CallIds

\* A ticket changes, and nothing else.
LEMMA TicketChanges ==
  ASSUME FlashInv, NEW o \in Orders, NEW row \in TicketRow, tickets' = [tickets EXCEPT ![o] = row],
         UNCHANGED <<market, bets, flash, fillers, sweep>>,
         \A w \in Fillers : o \notin fillers[w].batch \/ row.status = tickets[o].status,
         TicketStep(o),
         o \in Opens => \/ row.status = tickets[o].status
                        \/ {row.status, tickets[o].status} \subseteq {"none", "asked"}
  PROVE  FlashInv'
<1>1. FlashRows /\ FlashKnows
  BY DEF FlashInv
<1>2. tickets'[o] = row /\ \A p \in Orders \ {o} : tickets'[p] = tickets[p]
  BY <1>1 DEF FlashRows
<1>3. FlashRows'
  BY <1>1 DEF FlashRows
<1>4. \A k \in CallIds : SameBet(k)
  BY DEF SameBet
<1>5. WalletAdds' /\ StakesKept'
  BY <1>2, <1>4, Idle, MoneyStays
<1>6. \A p \in Orders : TicketStep(p)
  BY <1>2 DEF TicketStep
<1>7. \A w \in Fillers : FillerStep(w)
  BY <1>1, <1>2, Idle DEF FlashKnows, FillerKnows, FillerStep
<1>8. FlashKnows'
  BY <1>4, <1>6, <1>7, KnowsKept DEF BetStep
<1> QED BY <1>3, <1>5, <1>8 DEF FlashInv

LEMMA AskKeepsInv ==
  ASSUME FlashInv, NEW o \in Orders, NEW c \in Tokens, NEW k \in CallIds, o \in Opens => k = o, Ask(o, c, k)
  PROVE  FlashInv'
<1>1. FlashRows /\ FlashKnows /\ market[c].seen \in Quote
  BY DEF FlashInv, FlashRows, MarketRow
<1> DEFINE row == [NoTicket EXCEPT !.status = "asked", !.coin = c, !.call = k, !.requested = market[c].seen]
<1>2. /\ row \in TicketRow /\ row.status = "asked" /\ row.coin = c /\ row.call = k
  BY <1>1, Idle DEF TicketRow, CoinOrNone
<1>3. /\ tickets' = [tickets EXCEPT ![o] = row] /\ tickets[o].status = "none"
      /\ UNCHANGED <<market, bets, flash, fillers, sweep>>
  BY DEF Ask
<1> HIDE DEF row
<1>4. tickets'[o] = row
  BY <1>1, <1>3 DEF FlashRows
<1>5. TicketStep(o)
  BY <1>2, <1>3, <1>4 DEF TicketStep, TicketKnows
<1>6. \A w \in Fillers : o \notin fillers[w].batch
  BY <1>1, <1>3 DEF FlashKnows, FillerKnows
<1> QED BY <1>2, <1>3, <1>5, <1>6, TicketChanges

LEMMA CallerKeepsInv ==
  ASSUME FlashInv, NEW o \in Orders,
         \/ Refuse(o) \/ AgeOrder(o)
         \/ close_memecoin_call(o) /\ o \in Closes
  PROVE  FlashInv'
<1>1. FlashRows /\ FlashKnows /\ tickets[o] \in TicketRow /\ UNCHANGED <<market, bets, flash, fillers, sweep>>
  BY DEF FlashInv, FlashRows, Refuse, AgeOrder, close_memecoin_call
<1>2. CASE Refuse(o)
  <2>1. tickets' = [tickets EXCEPT ![o] = NoTicket] /\ tickets[o].status = "asked"
    BY <1>2 DEF Refuse
  <2>2. tickets'[o] = NoTicket
    BY <1>1, <2>1 DEF FlashRows
  <2>3. TicketStep(o)
    BY <2>1, <2>2, Idle DEF TicketStep
  <2>4. \A w \in Fillers : o \notin fillers[w].batch
    BY <1>1, <2>1 DEF FlashKnows, FillerKnows
  <2> QED BY <1>1, <2>1, <2>3, <2>4, Idle, TicketChanges
<1>3. CASE AgeOrder(o)
  <2> DEFINE row == [tickets[o] EXCEPT !.old = TRUE]
  <2>1. /\ row \in TicketRow /\ row.status = tickets[o].status
        /\ row.coin = tickets[o].coin /\ row.call = tickets[o].call
    BY <1>1 DEF TicketRow
  <2>2. tickets' = [tickets EXCEPT ![o] = row] /\ tickets'[o] = row
    BY <1>1, <1>3 DEF AgeOrder, FlashRows
  <2> HIDE DEF row
  <2>3. TicketStep(o)
    BY <2>1, <2>2 DEF TicketStep
  <2> QED BY <1>1, <2>1, <2>2, <2>3, TicketChanges
<1>4. CASE close_memecoin_call(o) /\ o \in Closes
  <2> DEFINE row == [tickets[o] EXCEPT !.status = "pending"]
  <2>1. /\ row \in TicketRow /\ row.status = "pending"
        /\ row.coin = tickets[o].coin /\ row.call = tickets[o].call
    BY <1>1 DEF TicketRow
  <2>2. tickets' = [tickets EXCEPT ![o] = row] /\ tickets'[o] = row /\ tickets[o].status = "asked"
    BY <1>1, <1>4 DEF close_memecoin_call, FlashRows
  <2> HIDE DEF row
  <2>3. TicketStep(o)
    BY <2>1, <2>2 DEF TicketStep
  <2>4. \A w \in Fillers : o \notin fillers[w].batch
    BY <1>1, <2>2 DEF FlashKnows, FillerKnows
  <2>5. o \notin Opens
    BY <1>4, Idle
  <2> QED BY <1>1, <2>1, <2>2, <2>3, <2>4, <2>5, TicketChanges
<1> QED BY <1>2, <1>3, <1>4

\* Quotes are read, saved, lost and pruned; the sweep breaks off.
LEMMA QuotesKeepInv ==
  ASSUME FlashInv, FlashRows', UNCHANGED <<tickets, flash>>,
         \A k \in CallIds : SameBet(k), \A w \in Fillers : FillerStep(w),
         sweep' = sweep \/ sweep' = NoSweep
  PROVE  FlashInv'
<1>1. \A o \in Orders : TicketStep(o)
  BY DEF TicketStep
<1>2. FlashKnows'
  BY <1>1, KnowsKept DEF BetStep
<1>3. WalletAdds' /\ StakesKept'
  BY MoneyStays
<1> QED BY <1>2, <1>3 DEF FlashInv

LEMMA QuotesComeAndGo ==
  ASSUME FlashInv,
         \/ \E w \in Fillers : (\E c \in Tokens : Refresh(w, c)) \/ SaveQuote(w) \/ Interrupted(w)
         \/ SweepBreaks \/ (\E c \in Tokens : PruneQuotes(c)) \/ (\E k \in CallIds : AgeCall(k))
  PROVE  FlashInv'
<1>1. FlashRows /\ FlashKnows
  BY DEF FlashInv
<1>2. ASSUME NEW w \in Fillers, NEW c \in Tokens, Refresh(w, c) PROVE FlashInv'
  <2>1. market[c] \in MarketRow /\ market[c].seen + 1 \in Quote /\ fillers[w] = NotPricing
    BY <1>1, <1>2, FlashCallsAssumption DEF Refresh, FlashRows, MarketRow, Quote
  <2> DEFINE row == [market[c] EXCEPT !.seen = market[c].seen + 1]
             place == [NotPricing EXCEPT !.coin = c, !.quote = market[c].seen + 1]
  <2>2. row \in MarketRow
    BY <2>1 DEF MarketRow
  <2>3. place \in FillerPlace /\ place.coin = c /\ place.batch = {}
    BY <2>1, Idle DEF FillerPlace, CoinOrNone, Maybe
  <2>4. market' = [market EXCEPT ![c] = row] /\ fillers' = [fillers EXCEPT ![w] = place]
    BY <1>1, <1>2, <2>1 DEF Refresh, FlashRows
  <2> HIDE DEF row, place
  <2>5. UNCHANGED <<tickets, bets, flash, sweep>>
    BY <1>2 DEF Refresh
  <2>6. FlashRows'
    BY <1>1, <2>2, <2>3, <2>4, <2>5 DEF FlashRows
  <2>7. \A v \in Fillers : FillerStep(v)
    BY <1>1, <2>3, <2>4, <2>5 DEF FlashRows, FlashKnows, FillerKnows, FillerStep
  <2> QED BY <2>5, <2>6, <2>7, QuotesKeepInv DEF SameBet
<1>3. ASSUME NEW w \in Fillers, SaveQuote(w) PROVE FlashInv'
  <2>1. PICK c \in Tokens : c = fillers[w].coin /\ fillers[w].quote \in Quote
    BY <1>1, <1>3 DEF SaveQuote, FlashKnows, FillerKnows, FlashRows, FillerPlace, Maybe
  <2> DEFINE new == IF w = "slow" THEN Max({fillers[w].quote, market[c].asset}) ELSE market[c].asset
             row == [market[c] EXCEPT !.quotes = market[c].quotes \cup {fillers[w].quote}, !.asset = new]
  <2>2. market[c] \in MarketRow /\ fillers[w].quote \in Maybe /\ market[c].asset \in Maybe
    BY <1>1, <2>1 DEF FlashRows, MarketRow, Maybe
  <2>3. new \in Maybe
    BY <2>2, QuotesTyped
  <2>4. market' = [market EXCEPT ![c] = row] /\ fillers' = [fillers EXCEPT ![w] = NotPricing]
    BY <1>1, <1>3, <2>1 DEF SaveQuote, FlashRows
  <2> HIDE DEF new
  <2>5. row \in MarketRow
    BY <2>1, <2>2, <2>3 DEF MarketRow
  <2> HIDE DEF row
  <2>6. UNCHANGED <<tickets, bets, flash, sweep>>
    BY <1>3 DEF SaveQuote
  <2>7. FlashRows'
    BY <1>1, <2>4, <2>5, <2>6, Idle DEF FlashRows
  <2>8. \A v \in Fillers : FillerStep(v)
    BY <1>1, <2>4, <2>6, Idle DEF FlashRows, FlashKnows, FillerKnows, FillerStep
  <2> QED BY <2>6, <2>7, <2>8, QuotesKeepInv DEF SameBet
<1>4. ASSUME NEW w \in Fillers, Interrupted(w) PROVE FlashInv'
  <2>1. fillers' = [fillers EXCEPT ![w] = NotPricing] /\ UNCHANGED <<market, tickets, bets, flash, sweep>>
    BY <1>4 DEF Interrupted
  <2>2. FlashRows'
    BY <1>1, <2>1, Idle DEF FlashRows
  <2>3. \A v \in Fillers : FillerStep(v)
    BY <1>1, <2>1, Idle DEF FlashRows, FlashKnows, FillerKnows, FillerStep
  <2> QED BY <2>1, <2>2, <2>3, QuotesKeepInv DEF SameBet
<1>5. \A v \in Fillers : UNCHANGED <<fillers, tickets>> => FillerStep(v)
  BY <1>1 DEF FlashKnows, FillerKnows, FillerStep
<1>6. CASE SweepBreaks
  <2>1. sweep' = NoSweep /\ UNCHANGED <<market, tickets, bets, flash, fillers>>
    BY <1>6 DEF SweepBreaks
  <2>2. FlashRows'
    BY <1>1, <2>1, Idle DEF FlashRows, Maybe
  <2> QED BY <1>5, <2>1, <2>2, QuotesKeepInv DEF SameBet
<1>7. ASSUME NEW c \in Tokens, PruneQuotes(c) PROVE FlashInv'
  <2>1. /\ market' = [market EXCEPT ![c].quotes = {}]
        /\ UNCHANGED <<tickets, bets, flash, fillers, sweep>>
    BY <1>7 DEF PruneQuotes
  <2>2. FlashRows'
    BY <1>1, <2>1 DEF FlashRows, MarketRow
  <2> QED BY <1>5, <2>1, <2>2, QuotesKeepInv DEF SameBet
<1>8. ASSUME NEW k \in CallIds, AgeCall(k) PROVE FlashInv'
  <2>1. bets' = [bets EXCEPT ![k].expired = TRUE] /\ UNCHANGED <<market, tickets, flash, fillers, sweep>>
    BY <1>8 DEF AgeCall
  <2>2. FlashRows' /\ \A j \in CallIds : SameBet(j)
    BY <1>1, <2>1 DEF FlashRows, BetRow, SameBet
  <2> QED BY <1>5, <2>1, <2>2, QuotesKeepInv
<1> QED BY <1>2, <1>3, <1>4, <1>6, <1>7, <1>8

\* A pass begins: with the orders that are pending, and with the lock.
LEMMA StartFillKeepsInv ==
  ASSUME FlashInv, NEW w \in Fillers, StartFill(w)
  PROVE  FlashInv'
<1>1. FlashRows /\ FlashKnows
  BY DEF FlashInv
<1>2. PICK pending \in SUBSET Orders :
        /\ \A o \in pending : tickets[o].status = "pending"
        /\ fillers' = [fillers EXCEPT ![w].batch = pending]
        /\ \A v \in Fillers : fillers[v].batch = {}
        /\ UNCHANGED <<market, tickets, bets, flash, sweep>>
  BY DEF StartFill
<1>3. FlashRows'
  BY <1>1, <1>2 DEF FlashRows, FillerPlace
<1>4. ASSUME NEW v \in Fillers PROVE FillerKnows(v)'
  BY <1>1, <1>2 DEF FlashRows, FlashKnows, FillerKnows, FillerPlace
<1>5. FlashKnows'
  BY <1>1, <1>2, <1>4 DEF FlashKnows, TicketKnows, BetKnows
<1>6. WalletAdds' /\ StakesKept'
  BY <1>2, MoneyStays DEF SameBet
<1> QED BY <1>3, <1>5, <1>6 DEF FlashInv

LEMMA SweepReadKeepsInv ==
  ASSUME FlashInv, NEW k \in CallIds, SweepRead(k)
  PROVE  FlashInv'
<1>1. FlashRows /\ FlashKnows
  BY DEF FlashInv
<1>2. /\ bets[k].status = "active" /\ sweep' = [call |-> k, quote |-> ExpiryQuote(k)]
      /\ UNCHANGED <<market, tickets, bets, flash, fillers>>
  BY DEF SweepRead
<1>3. ExpiryQuote(k) \in Maybe
  <2>1. bets[k].coin \in Tokens /\ market[bets[k].coin] \in MarketRow
    BY <1>1, <1>2 DEF FlashKnows, BetKnows, FlashRows
  <2> DEFINE since == {q \in market[bets[k].coin].quotes : q >= bets[k].entry}
  <2>2. since \in SUBSET Quote /\ market[bets[k].coin].asset \in Maybe
    BY <2>1 DEF MarketRow
  <2>3. ExpiryQuote(k) = IF since # {} THEN Max(since)
                         ELSE IF market[bets[k].coin].asset >= bets[k].entry
                              THEN market[bets[k].coin].asset ELSE NoQuote
    BY DEF ExpiryQuote
  <2> HIDE DEF since
  <2> QED BY <2>2, <2>3, QuotesTyped DEF Maybe
<1>4. FlashRows'
  BY <1>1, <1>2, <1>3 DEF FlashRows
<1>5. FlashKnows'
  <2>1. bets'[sweep'.call].status # "none" /\ sweep'.call \in CallIds
    BY <1>2
  <2> QED BY <1>1, <1>2, <2>1 DEF FlashKnows, TicketKnows, BetKnows, FillerKnows
<1>6. WalletAdds' /\ StakesKept'
  BY <1>2, MoneyStays DEF SameBet
<1> QED BY <1>4, <1>5, <1>6 DEF FlashInv

\* The daily Flash.
LEMMA DailyKeepsInv ==
  ASSUME FlashInv, NEW day \in 1..MaxDays, claim_daily_flash(day)
  PROVE  FlashInv'
<1>1. FlashRows /\ FlashKnows /\ WalletAdds
      /\ (\A o \in Opens : StakeAt(o)) /\ (\A k \in CallIds : PaidAt(k)) /\ BalanceAdds
  BY StakesSplit DEF FlashInv
<1>2. flash' = Posted(100, "daily_claim", day) /\ UNCHANGED <<market, tickets, bets, fillers, sweep>>
  BY DEF claim_daily_flash, credit_flash, DAILY_CLAIM_AMOUNT
<1>3. WalletAdds' /\ BalanceAdds'
  BY <1>1, <1>2, PostedAdds DEF WalletAdds
<1>4. \A k, r : k # "daily_claim" => Entry(k, r)' = Entry(k, r)
  BY <1>2, PostedEntries
<1>5. \A k \in CallIds : SameBet(k)
  BY <1>2 DEF SameBet
<1>6. ASSUME NEW o \in Opens PROVE StakeAt(o)'
  BY <1>1, <1>2, <1>4, SameStake
<1>7. ASSUME NEW k \in CallIds PROVE PaidAt(k)'
  <2>1. PayoutKind(k) # "daily_claim"
    BY DEF PayoutKind
  <2> QED BY <1>1, <1>4, <1>5, <2>1, SamePaid
<1>8. StakesKept'
  BY <1>3, <1>6, <1>7, StakesSplit
<1>9. FlashRows' /\ FlashKnows'
  BY <1>1, <1>2 DEF FlashRows, FlashKnows, TicketKnows, BetKnows, FillerKnows
<1> QED BY <1>3, <1>8, <1>9 DEF FlashInv

\* A stake leaves the balance with its order.
LEMMA CreateKeepsInv ==
  ASSUME FlashInv, NEW o \in Opens, create_memecoin_call(o)
  PROVE  FlashInv'
<1>1. FlashRows /\ FlashKnows /\ WalletAdds
      /\ (\A p \in Opens : StakeAt(p)) /\ (\A k \in CallIds : PaidAt(k)) /\ BalanceAdds
  BY StakesSplit DEF FlashInv
<1>2. /\ flash' = Posted(-50, "memecoin_call_stake", o) /\ flash.balance >= 50
      /\ tickets[o].status = "asked" /\ tickets' = [tickets EXCEPT ![o].status = "pending"]
      /\ UNCHANGED <<market, bets, fillers, sweep>>
  BY DEF create_memecoin_call, spend_flash, MEMECOIN_CALL_STAKE
<1>3. WalletAdds' /\ BalanceAdds'
  <2>1. flash.balance + (-50) >= 0
    BY <1>1, <1>2 DEF WalletAdds
  <2> QED BY <1>1, <1>2, <2>1, PostedAdds
<1>4. Entry("memecoin_call_stake", o) = {}
  BY <1>1, <1>2 DEF StakeAt
<1>5. /\ \A k, r : k # "memecoin_call_stake" \/ r # o => Entry(k, r)' = Entry(k, r)
      /\ Entry("memecoin_call_stake", o)' # {}
  <2>1. PICK amount \in Int : flash' = Posted(amount, "memecoin_call_stake", o)
    BY <1>2
  <2>2. /\ \A k, r : k # "memecoin_call_stake" \/ r # o => Entry(k, r)' = Entry(k, r)
        /\ Entry("memecoin_call_stake", o)' =
             {[kind |-> "memecoin_call_stake", ref |-> o, amount |-> amount]}
    BY <1>4, <2>1, PostedEntries
  <2> QED BY <2>2
<1>6. /\ \A p \in Orders \ {o} : tickets'[p] = tickets[p]
      /\ tickets'[o].status = "pending" /\ tickets'[o].coin = tickets[o].coin /\ tickets'[o].call = tickets[o].call
      /\ FlashRows'
  BY <1>1, <1>2, Idle DEF FlashRows, TicketRow
<1>7. \A k \in CallIds : SameBet(k)
  BY <1>2 DEF SameBet
<1>8. ASSUME NEW p \in Opens PROVE StakeAt(p)'
  <2>1. CASE p = o
    BY <1>1, <1>2, <1>5, <1>6, <2>1 DEF StakeAt
  <2>2. CASE p # o
    BY <1>1, <1>2, <1>5, <1>6, <2>2, Idle, SameStake
  <2> QED BY <2>1, <2>2
<1>9. ASSUME NEW k \in CallIds PROVE PaidAt(k)'
  <2>1. PayoutKind(k) # "memecoin_call_stake"
    BY DEF PayoutKind
  <2> QED BY <1>1, <1>5, <1>7, <2>1, SamePaid
<1>10. StakesKept'
  BY <1>3, <1>8, <1>9, StakesSplit
<1>11. \A p \in Orders : TicketStep(p)
  BY <1>2, <1>6 DEF TicketStep
<1>12. \A w \in Fillers : FillerStep(w)
  BY <1>1, <1>2, <1>6 DEF FlashKnows, FillerKnows, FillerStep, FlashRows, FillerPlace
<1>13. FlashKnows'
  BY <1>2, <1>7, <1>11, <1>12, KnowsKept DEF BetStep
<1> QED BY <1>3, <1>6, <1>10, <1>13 DEF FlashInv

\* What resolving orders changes.
LEMMA ResolvedTickets ==
  ASSUME FlashRows, NEW status \in {"filled", "cancelled"}, NEW O, tickets' = Resolved(status, O)
  PROVE  /\ tickets' \in [Orders -> TicketRow]
         /\ \A o \in Orders : TicketStep(o)
         /\ \A o \in Orders : o \in O /\ tickets[o].status = "pending" => tickets'[o].status = status
         /\ \A o \in Orders : o \notin O \/ tickets[o].status # "pending" => tickets'[o] = tickets[o]
<1>1. ASSUME NEW o \in Orders, o \notin O \/ tickets[o].status # "pending"
      PROVE  tickets'[o] = tickets[o] /\ TicketStep(o) /\ tickets'[o] \in TicketRow
  <2>1. tickets'[o] = tickets[o]
    BY <1>1 DEF Resolved
  <2> QED BY <2>1 DEF TicketStep, FlashRows
<1>2. ASSUME NEW o \in Orders, o \in O, tickets[o].status = "pending"
      PROVE  tickets'[o].status = status /\ TicketStep(o) /\ tickets'[o] \in TicketRow
  <2>1. tickets'[o] = [tickets[o] EXCEPT !.status = status] /\ tickets[o] \in TicketRow
    BY <1>2 DEF Resolved, FlashRows
  <2>2. /\ tickets'[o].status = status /\ tickets'[o].coin = tickets[o].coin
        /\ tickets'[o].call = tickets[o].call /\ tickets'[o] \in TicketRow
    BY <2>1 DEF TicketRow
  <2> QED BY <1>2, <2>2 DEF TicketStep
<1>3. tickets' = [o \in Orders |-> tickets'[o]]
  BY DEF Resolved
<1>4. \A o \in Orders : tickets'[o] \in TicketRow
  BY <1>1, <1>2
<1> QED BY <1>1, <1>2, <1>3, <1>4

\* An order leaves the batch of the only worker that has one.
LEMMA BatchShrinks ==
  ASSUME FlashRows, FlashKnows, NEW w \in Fillers, NEW o \in fillers[w].batch,
         fillers' = [fillers EXCEPT ![w].batch = @ \ {o}],
         \A p \in Opens \ {o} : tickets'[p].status = tickets[p].status
  PROVE  fillers' \in [Fillers -> FillerPlace] /\ \A v \in Fillers : FillerStep(v)
<1>1. fillers' \in [Fillers -> FillerPlace]
  BY DEF FlashRows, FillerPlace
<1>2. FillerStep(w)
  <2>1. /\ fillers'[w].batch = fillers[w].batch \ {o} /\ fillers'[w].quote = fillers[w].quote
        /\ fillers'[w].coin = fillers[w].coin
    BY DEF FlashRows, FillerPlace
  <2> QED BY <2>1 DEF FillerStep, FlashKnows, FillerKnows
<1>3. ASSUME NEW v \in Fillers \ {w} PROVE FillerStep(v)
  <2>1. fillers'[v] = fillers[v] /\ fillers[v].batch = {}
    BY DEF FlashRows, FlashKnows, FillerKnows
  <2> QED BY <2>1 DEF FillerStep, FlashKnows, FillerKnows
<1> QED BY <1>1, <1>2, <1>3

\* A waiting stake comes back.
LEMMA Refunded ==
  ASSUME FlashInv, NEW o \in Opens, tickets[o].status = "pending",
         tickets' = Resolved("cancelled", {o}), flash' = Posted(50, "memecoin_call_refund", o),
         UNCHANGED bets
  PROVE  WalletAdds' /\ StakesKept'
<1>1. FlashRows /\ WalletAdds /\ BalanceAdds
      /\ (\A p \in Opens : StakeAt(p)) /\ (\A k \in CallIds : PaidAt(k))
  BY StakesSplit DEF FlashInv
<1>2. WalletAdds' /\ BalanceAdds'
  BY <1>1, PostedAdds DEF WalletAdds
<1>3. Entry("memecoin_call_refund", o) = {}
  BY <1>1 DEF StakeAt
<1>4. /\ \A k, r : k # "memecoin_call_refund" \/ r # o => Entry(k, r)' = Entry(k, r)
      /\ Entry("memecoin_call_refund", o)' =
           {[kind |-> "memecoin_call_refund", ref |-> o, amount |-> 50]}
  BY <1>3, PostedEntries
<1>5. /\ tickets'[o].status = "cancelled"
      /\ \A p \in Orders \ {o} : tickets'[p] = tickets[p]
  BY <1>1, Idle, ResolvedTickets
<1>6. \A k \in CallIds : SameBet(k)
  BY DEF SameBet
<1>7. ASSUME NEW p \in Opens PROVE StakeAt(p)'
  <2>1. CASE p = o
    <3>1. Entry("memecoin_call_stake", o)' = Entry("memecoin_call_stake", o)
      BY <1>4
    <3>2. Entry("memecoin_call_refund", o)' # {}
      BY <1>4
    <3> QED BY <1>1, <1>5, <2>1, <3>1, <3>2 DEF StakeAt
  <2>2. CASE p # o
    BY <1>1, <1>4, <1>5, <2>2, Idle, SameStake
  <2> QED BY <2>1, <2>2
<1>8. ASSUME NEW k \in CallIds PROVE PaidAt(k)'
  <2>1. PayoutKind(k) # "memecoin_call_refund"
    BY DEF PayoutKind
  <2> QED BY <1>1, <1>4, <1>6, <2>1, SamePaid
<1> QED BY <1>2, <1>7, <1>8, StakesSplit

\* A Call is settled, and its closing orders are cancelled.
LEMMA SettleKeeps ==
  ASSUME FlashInv, NEW k \in CallIds, NEW q \in Quote, Settle(k, q),
         tickets' = Resolved("cancelled", ClosesOf(k))
  PROVE  /\ bets' \in [CallIds -> BetRow] /\ \A j \in CallIds : BetStep(j)
         /\ \A p \in Opens : tickets'[p].status = tickets[p].status
         /\ WalletAdds' /\ StakesKept'
<1>1. FlashRows /\ FlashKnows /\ WalletAdds /\ BalanceAdds
      /\ (\A p \in Opens : StakeAt(p)) /\ (\A j \in CallIds : PaidAt(j))
  BY StakesSplit DEF FlashInv
<1>2. /\ bets[k].status = "active"
      /\ bets' = [bets EXCEPT ![k].status = "closed", ![k].exit = q, ![k].awaiting = FALSE]
      /\ IF Payout(k, q) > 0 THEN flash' = Posted(Payout(k, q), PayoutKind(k), k)
         ELSE UNCHANGED flash
  BY DEF Settle, credit_flash
<1>3. /\ bets' \in [CallIds -> BetRow] /\ \A j \in CallIds \ {k} : bets'[j] = bets[j]
      /\ bets'[k].status = "closed" /\ bets'[k].exit = q
      /\ bets'[k].coin = bets[k].coin /\ bets'[k].entry = bets[k].entry
  BY <1>1, <1>2 DEF FlashRows, BetRow, Maybe
<1>4. ASSUME NEW j \in CallIds PROVE BetStep(j)
  <2>1. CASE j = k
    BY <1>2, <1>3, <2>1 DEF BetStep
  <2>2. CASE j # k
    BY <1>3, <2>2 DEF BetStep, SameBet
  <2> QED BY <2>1, <2>2
<1>5. \A p \in Opens : tickets'[p] = tickets[p]
  <2>1. \A p \in Opens : p \in Orders /\ p \notin ClosesOf(k)
    BY Idle DEF ClosesOf
  <2> QED BY <1>1, <2>1, ResolvedTickets
<1>6. PICK payout \in Int : payout = Payout(k, q)
  BY <1>1, <1>2, PayoutTyped DEF FlashKnows
<1>7. PICK kind : kind = PayoutKind(k)
  OBVIOUS
<1>8. kind # "memecoin_call_stake" /\ kind # "memecoin_call_refund"
  BY <1>7 DEF PayoutKind
<1>9. Entry(kind, k) = {}
  BY <1>1, <1>2, <1>7 DEF PaidAt
<1>10. /\ \A x, r : x # kind \/ r # k => Entry(x, r)' = Entry(x, r)
       /\ payout > 0 => Entry(kind, k)' = {[kind |-> kind, ref |-> k, amount |-> payout]}
       /\ ~ (payout > 0) => Entry(kind, k)' = {}
       /\ WalletAdds' /\ BalanceAdds'
  <2>1. CASE payout > 0
    <3>1. flash' = Posted(payout, kind, k)
      BY <1>2, <1>6, <1>7, <2>1
    <3>2. flash.balance + payout >= 0
      BY <1>1, <2>1 DEF WalletAdds
    <3>3. WalletAdds' /\ BalanceAdds'
      BY <1>1, <3>1, <3>2, PostedAdds
    <3> QED BY <1>9, <2>1, <3>1, <3>3, PostedEntries
  <2>2. CASE ~ (payout > 0)
    <3>1. flash' = flash
      BY <1>2, <1>6, <2>2
    <3> QED BY <1>1, <1>9, <2>2, <3>1 DEF Entry, WalletAdds, BalanceAdds
  <2> QED BY <2>1, <2>2
<1>11. ASSUME NEW p \in Opens PROVE StakeAt(p)'
  <2>1. bets'[p].status = bets[p].status \/ {bets'[p].status, bets[p].status} \subseteq {"active", "closed"}
    BY <1>2, <1>3, Idle
  <2>2. /\ Entry("memecoin_call_stake", p)' = Entry("memecoin_call_stake", p)
        /\ Entry("memecoin_call_refund", p)' = Entry("memecoin_call_refund", p)
    BY <1>8, <1>10
  <2> QED BY <1>1, <1>5, <2>1, <2>2, SameStake
<1>12. ASSUME NEW j \in CallIds PROVE PaidAt(j)'
  <2>1. CASE j # k
    <3>1. SameBet(j) /\ Entry(PayoutKind(j), j)' = Entry(PayoutKind(j), j)
      BY <1>3, <1>10, <2>1 DEF SameBet, PayoutKind
    <3> QED BY <1>1, <3>1, SamePaid
  <2>2. CASE j = k
    <3>1. Payout(k, q)' = payout /\ PayoutKind(k)' = kind
      BY <1>3, <1>6, <1>7 DEF Payout, StakeOf, PayoutKind
    <3>2. Payout(k, bets[k].exit)' = payout
      BY <1>3, <3>1 DEF Payout, StakeOf
    <3>3. Entry(PayoutKind(k), k)' = Entry(kind, k)'
      BY <3>1 DEF Entry
    <3>4. CASE payout > 0
      <4>1. \E e \in Entry(kind, k)' : Entry(kind, k)' = {e} /\ e.amount = payout
        <5> DEFINE e == [kind |-> kind, ref |-> k, amount |-> payout]
        <5>1. Entry(kind, k)' = {e} /\ e.amount = payout
          BY <1>10, <3>4
        <5> HIDE DEF e
        <5> QED BY <5>1
      <4> QED BY <1>3, <2>2, <3>2, <3>3, <3>4, <4>1 DEF PaidAt
    <3>5. CASE ~ (payout > 0)
      BY <1>3, <1>10, <2>2, <3>2, <3>3, <3>5 DEF PaidAt
    <3> QED BY <3>4, <3>5
  <2> QED BY <2>1, <2>2
<1> QED BY <1>3, <1>4, <1>5, <1>10, <1>11, <1>12, StakesSplit

\* What filling an order does to orders, Calls and wallet.
LEMMA FillOrderFits ==
  ASSUME FlashInv, NEW w \in Fillers, NEW o \in Orders, FillOrder(w, o)
  PROVE  /\ tickets' \in [Orders -> TicketRow] /\ bets' \in [CallIds -> BetRow]
         /\ \A p \in Orders : TicketStep(p)
         /\ \A k \in CallIds : BetStep(k)
         /\ \A p \in Opens \ {o} : tickets'[p].status = tickets[p].status
         /\ WalletAdds' /\ StakesKept'
<1>1. FlashRows /\ FlashKnows
  BY DEF FlashInv
<1>2. /\ o \in fillers[w].batch
      /\ TimeOut(o) \/ OpenBet(o) \/ CloseBet(o)
      /\ fillers' = [fillers EXCEPT ![w].batch = @ \ {o}] /\ UNCHANGED <<market, sweep>>
  BY DEF FillOrder
<1>3. /\ o \in Opens => tickets[o].status = "pending"
      /\ tickets[o].coin \in Tokens /\ tickets[o].call \in CallIds
  BY <1>1, <1>2 DEF FlashKnows, FillerKnows, TicketKnows
<1>4. After(o) \in SUBSET Quote
  BY <1>1, <1>3 DEF After, FlashRows, MarketRow
<1>6. (\A k \in CallIds : SameBet(k)) => \A k \in CallIds : BetStep(k)
  BY DEF BetStep
<1>7. ASSUME UNCHANGED bets PROVE bets' \in [CallIds -> BetRow] /\ \A k \in CallIds : SameBet(k)
  BY <1>1, <1>7 DEF FlashRows, SameBet
\* A resolved order that opens no Call costs nothing.
<1>8. ASSUME o \notin Opens, UNCHANGED <<bets, flash>>, Finish("cancelled", o)
      PROVE  /\ tickets' \in [Orders -> TicketRow] /\ \A p \in Orders : TicketStep(p)
             /\ \A p \in Opens : tickets'[p].status = tickets[p].status
             /\ WalletAdds' /\ StakesKept'
  <2>1. /\ tickets' \in [Orders -> TicketRow] /\ \A p \in Orders : TicketStep(p)
        /\ \A p \in Orders : p \notin {o} => tickets'[p] = tickets[p]
    BY <1>1, <1>8, ResolvedTickets DEF Finish
  <2>2. \A p \in Opens : tickets'[p].status = tickets[p].status
    BY <1>8, <2>1, Idle
  <2>3. WalletAdds' /\ StakesKept'
    BY <1>7, <1>8, <2>2, MoneyStays
  <2> QED BY <2>1, <2>2, <2>3
<1>9. ASSUME o \in Opens, UNCHANGED bets, Finish("cancelled", o), flash' = Posted(50, "memecoin_call_refund", o)
      PROVE  /\ tickets' \in [Orders -> TicketRow] /\ \A p \in Orders : TicketStep(p)
             /\ \A p \in Opens \ {o} : tickets'[p].status = tickets[p].status
             /\ WalletAdds' /\ StakesKept'
  <2>1. /\ tickets' \in [Orders -> TicketRow] /\ \A p \in Orders : TicketStep(p)
        /\ \A p \in Orders : p \notin {o} => tickets'[p] = tickets[p]
    BY <1>1, <1>9, ResolvedTickets DEF Finish
  <2>2. WalletAdds' /\ StakesKept'
    BY <1>3, <1>9, Refunded DEF Finish
  <2> QED BY <2>1, <2>2, Idle
<1>10. CASE TimeOut(o)
  <2>1. UNCHANGED bets
    BY <1>10 DEF TimeOut
  <2>2. CASE tickets[o].old
    <3>1. /\ Finish("cancelled", o)
          /\ IF o \in Opens THEN flash' = Posted(50, "memecoin_call_refund", o) ELSE UNCHANGED flash
      BY <1>10, <2>2 DEF TimeOut, credit_flash, MEMECOIN_CALL_STAKE
    <3> QED BY <1>6, <1>7, <1>8, <1>9, <2>1, <3>1
  <2>3. CASE ~tickets[o].old
    <3>1. UNCHANGED <<tickets, flash>>
      BY <1>10, <2>3 DEF TimeOut
    <3>2. WalletAdds' /\ StakesKept'
      BY <1>7, <2>1, <3>1, MoneyStays
    <3> QED BY <1>1, <1>6, <1>7, <2>1, <3>1, <3>2 DEF FlashRows, TicketStep
  <2> QED BY <2>2, <2>3
<1>11. CASE OpenBet(o)
  <2>1. o \in Opens /\ After(o) # {}
    BY <1>11 DEF OpenBet
  <2>2. CASE ActiveOn(tickets[o].coin)
    <3>1. Finish("cancelled", o) /\ flash' = Posted(50, "memecoin_call_refund", o) /\ UNCHANGED bets
      BY <1>11, <2>2 DEF OpenBet, credit_flash, MEMECOIN_CALL_STAKE
    <3> QED BY <1>6, <1>7, <1>9, <2>1, <3>1
  <2>3. CASE ~ActiveOn(tickets[o].coin)
    <3> DEFINE row == [NoBet EXCEPT !.status = "active", !.coin = tickets[o].coin, !.entry = Min(After(o))]
    <3>1. bets' = [bets EXCEPT ![o] = row] /\ tickets' = Resolved("filled", {o}) /\ UNCHANGED flash
      BY <1>11, <2>3 DEF OpenBet, Finish
    <3>2. Min(After(o)) \in Quote
      BY <1>4, <2>1, QuotesTyped
    <3>3. /\ row \in BetRow /\ row.status = "active" /\ row.coin = tickets[o].coin
          /\ row.entry = Min(After(o))
      BY <1>3, <3>2 DEF BetRow, NoBet, Maybe, CoinOrNone
    <3> HIDE DEF row
    <3>4. /\ bets' \in [CallIds -> BetRow] /\ bets'[o] = row
          /\ \A k \in CallIds \ {o} : bets'[k] = bets[k]
      BY <1>1, <2>1, <3>1, <3>3, Idle DEF FlashRows
    <3>5. /\ tickets' \in [Orders -> TicketRow] /\ \A p \in Orders : TicketStep(p)
          /\ tickets'[o].status = "filled" /\ \A p \in Orders \ {o} : tickets'[p] = tickets[p]
      BY <1>1, <1>3, <2>1, <3>1, ResolvedTickets
    <3>6. WalletAdds /\ BalanceAdds /\ (\A p \in Opens : StakeAt(p)) /\ (\A k \in CallIds : PaidAt(k))
      BY StakesSplit DEF FlashInv
    <3>7. \A k, r : Entry(k, r)' = Entry(k, r)
      BY <3>1 DEF Entry
    <3>8. bets[o].status = "none"
      BY <1>1, <1>3, <2>1, <3>6, Idle DEF StakeAt, FlashRows, BetRow
    <3>9. ASSUME NEW k \in CallIds PROVE BetStep(k) /\ PaidAt(k)'
      <4>1. CASE k = o
        <5>1. BetStep(k)
          BY <1>3, <3>2, <3>3, <3>4, <3>8, <4>1 DEF BetStep, BetKnows
        <5>2. PaidAt(k)'
          BY <3>3, <3>4, <3>6, <3>7, <3>8, <4>1, SamePaid
        <5> QED BY <5>1, <5>2
      <4>2. CASE k # o
        <5>1. SameBet(k)
          BY <3>4, <4>2 DEF SameBet
        <5> QED BY <3>6, <3>7, <5>1, SamePaid DEF BetStep
      <4> QED BY <4>1, <4>2
    <3>10. ASSUME NEW p \in Opens PROVE StakeAt(p)'
      <4>1. CASE p = o
        BY <1>3, <2>1, <3>3, <3>4, <3>5, <3>6, <3>7, <4>1 DEF StakeAt
      <4>2. CASE p # o
        BY <3>4, <3>5, <3>6, <3>7, <4>2, Idle, SameStake
      <4> QED BY <4>1, <4>2
    <3>11. WalletAdds' /\ BalanceAdds'
      BY <3>1, <3>6 DEF WalletAdds, BalanceAdds
    <3>12. StakesKept'
      BY <3>9, <3>10, <3>11, StakesSplit
    <3> QED BY <3>4, <3>5, <3>9, <3>11, <3>12, Idle
  <2> QED BY <2>2, <2>3
<1>12. CASE CloseBet(o)
  <2>1. o \in Closes /\ After(o) # {} /\ o \notin Opens
    BY <1>12, Idle DEF CloseBet
  <2> DEFINE k == tickets[o].call
             settles == bets[k].status = "active" /\ Min(After(o)) >= bets[k].entry
  <2>2. CASE settles
    <3>1. /\ Settle(k, Min(After(o))) /\ tickets' = Resolved("cancelled", ClosesOf(k))
          /\ Min(After(o)) \in Quote /\ k \in CallIds
      BY <1>3, <1>4, <1>12, <2>1, <2>2, QuotesTyped DEF CloseBet
    <3> HIDE DEF k
    <3>2. /\ bets' \in [CallIds -> BetRow] /\ \A j \in CallIds : BetStep(j)
          /\ \A p \in Opens : tickets'[p].status = tickets[p].status
          /\ WalletAdds' /\ StakesKept'
      BY <3>1, SettleKeeps
    <3>3. tickets' \in [Orders -> TicketRow] /\ \A p \in Orders : TicketStep(p)
      BY <1>1, <3>1, ResolvedTickets
    <3> QED BY <3>2, <3>3
  <2>3. CASE ~settles
    <3>1. Finish("cancelled", o) /\ UNCHANGED <<bets, flash>>
      BY <1>12, <2>3 DEF CloseBet
    <3> QED BY <1>6, <1>7, <1>8, <2>1, <3>1
  <2> QED BY <2>2, <2>3
<1> QED BY <1>2, <1>10, <1>11, <1>12

\* A worker fills an order.
LEMMA FillOrderKeepsInv ==
  ASSUME FlashInv, NEW w \in Fillers, NEW o \in Orders, FillOrder(w, o)
  PROVE  FlashInv'
<1>1. FlashRows /\ FlashKnows
  BY DEF FlashInv
<1>2. /\ o \in fillers[w].batch
      /\ fillers' = [fillers EXCEPT ![w].batch = @ \ {o}] /\ UNCHANGED <<market, sweep>>
  BY DEF FillOrder
<1>3. /\ tickets' \in [Orders -> TicketRow] /\ bets' \in [CallIds -> BetRow]
      /\ \A p \in Orders : TicketStep(p)
      /\ \A k \in CallIds : BetStep(k)
      /\ \A p \in Opens \ {o} : tickets'[p].status = tickets[p].status
      /\ WalletAdds' /\ StakesKept'
  BY FillOrderFits
<1>4. fillers' \in [Fillers -> FillerPlace] /\ \A v \in Fillers : FillerStep(v)
  BY <1>1, <1>2, <1>3, BatchShrinks
<1>5. FlashRows'
  BY <1>1, <1>2, <1>3, <1>4 DEF FlashRows
<1>6. FlashKnows'
  BY <1>2, <1>3, <1>4, KnowsKept
<1> QED BY <1>3, <1>5, <1>6 DEF FlashInv

\* The sweep settles a Call, or marks that it waits for a quote.
LEMMA ExpireKeepsInv ==
  ASSUME FlashInv, expire_memecoin_calls
  PROVE  FlashInv'
<1>1. FlashRows /\ FlashKnows
  BY DEF FlashInv
<1>2. /\ sweep # NoSweep /\ sweep' = NoSweep /\ UNCHANGED <<market, fillers>>
  BY DEF expire_memecoin_calls
<1>3. PICK k \in CallIds : k = sweep.call
  BY <1>1, <1>2 DEF FlashKnows
<1>4. NoSweep \in [call : CallIds \cup {"none"}, quote : Maybe]
  BY Idle DEF Maybe
<1>5. ASSUME \A p \in Opens : tickets'[p].status = tickets[p].status
      PROVE  \A w \in Fillers : FillerStep(w)
  BY <1>1, <1>2, <1>5 DEF FillerStep, FlashKnows, FillerKnows
<1>6. CASE sweep.quote = NoQuote \/ bets[k].status # "active"
  <2>1. UNCHANGED <<tickets, flash>> /\ (bets' = [bets EXCEPT ![k].awaiting = TRUE] \/ UNCHANGED bets)
    BY <1>3, <1>6 DEF expire_memecoin_calls
  <2>2. bets' \in [CallIds -> BetRow] /\ \A j \in CallIds : SameBet(j)
    <3>1. CASE bets' = [bets EXCEPT ![k].awaiting = TRUE]
      BY <1>1, <3>1 DEF FlashRows, BetRow, SameBet
    <3>2. CASE UNCHANGED bets
      BY <1>1, <3>2 DEF FlashRows, SameBet
    <3> QED BY <2>1, <3>1, <3>2
  <2>3. FlashRows'
    BY <1>1, <1>2, <1>4, <2>1, <2>2 DEF FlashRows
  <2> QED BY <1>2, <1>5, <2>1, <2>2, <2>3, QuotesKeepInv
<1>7. CASE sweep.quote # NoQuote /\ bets[k].status = "active"
  <2>1. PICK q \in Quote : q = sweep.quote
    BY <1>1, <1>7 DEF FlashRows, Maybe
  <2>2. Settle(k, q) /\ tickets' = Resolved("cancelled", ClosesOf(k))
    BY <1>3, <1>7, <2>1 DEF expire_memecoin_calls
  <2>3. /\ bets' \in [CallIds -> BetRow] /\ \A j \in CallIds : BetStep(j)
        /\ \A p \in Opens : tickets'[p].status = tickets[p].status
        /\ WalletAdds' /\ StakesKept'
    BY <2>2, SettleKeeps
  <2>4. tickets' \in [Orders -> TicketRow] /\ \A p \in Orders : TicketStep(p)
    BY <1>1, <2>2, ResolvedTickets
  <2>5. FlashRows'
    BY <1>1, <1>2, <1>4, <2>3, <2>4 DEF FlashRows
  <2>6. FlashKnows'
    BY <1>2, <1>5, <2>3, <2>4, KnowsKept
  <2> QED BY <2>3, <2>5, <2>6 DEF FlashInv
<1> QED BY <1>6, <1>7

LEMMA InitFlashInv == FlashInit => FlashInv
<1> SUFFICES ASSUME FlashInit PROVE FlashInv
  OBVIOUS
<1>1. PICK known \in {0, NoQuote} :
        market = [c \in Tokens |-> [seen |-> 0, quotes |-> {}, asset |-> known]]
  BY DEF FlashInit
<1>2. /\ tickets = [o \in Orders |-> NoTicket] /\ flash = [balance |-> 0, entries |-> {}]
      /\ fillers = [w \in Fillers |-> NotPricing] /\ sweep = NoSweep
  BY DEF FlashInit
<1>3. PICK c \in Tokens, held \in SUBSET Legacy :
        bets = [k \in CallIds |-> IF k \notin held THEN NoBet ELSE
                  [NoBet EXCEPT !.status = "active", !.coin = c, !.entry = 0]]
  BY DEF FlashInit
<1>4. 0 \in Quote /\ NoQuote \in Maybe /\ 0 \in Maybe
  BY FlashCallsAssumption DEF Quote, Maybe
<1>5. ASSUME NEW k \in CallIds
      PROVE  /\ bets[k] \in BetRow /\ bets[k].status \in {"none", "active"} /\ BetKnows(k)
             /\ k \in Opens => bets[k].status = "none"
  <2>1. CASE k \notin held
    <3>1. bets[k] = [status |-> "none", coin |-> "none", entry |-> NoQuote, exit |-> NoQuote,
                     expired |-> FALSE, awaiting |-> FALSE]
      BY <1>3, <2>1 DEF NoBet
    <3> QED BY <1>4, <3>1 DEF BetRow, BetKnows, CoinOrNone
  <2>2. CASE k \in held
    <3>1. bets[k] = [status |-> "active", coin |-> c, entry |-> 0, exit |-> NoQuote,
                     expired |-> FALSE, awaiting |-> FALSE]
      BY <1>3, <2>2 DEF NoBet
    <3>2. k \notin Opens
      BY <2>2, FlashCallsAssumption DEF Orders
    <3> QED BY <1>4, <3>1, <3>2 DEF BetRow, BetKnows, CoinOrNone
  <2> QED BY <2>1, <2>2
<1>6. FlashRows
  <2>1. bets \in [CallIds -> BetRow]
    BY <1>3, <1>5
  <2>2. market \in [Tokens -> MarketRow]
    BY <1>1, <1>4 DEF MarketRow, Maybe
  <2>3. tickets \in [Orders -> TicketRow] /\ fillers \in [Fillers -> FillerPlace]
    BY <1>2, Idle
  <2>4. sweep \in [call : CallIds \cup {"none"}, quote : Maybe]
    BY <1>2, <1>4, Idle
  <2> QED BY <2>1, <2>2, <2>3, <2>4 DEF FlashRows
<1>7. FlashKnows
  BY <1>2, <1>5, Idle DEF FlashKnows, TicketKnows, FillerKnows
<1>8. \A k, r : Entry(k, r) = {}
  BY <1>2 DEF Entry
<1>9. WalletAdds /\ BalanceAdds
  <2>1. flash.entries = {} /\ flash.balance = 0 /\ IsFiniteSet({})
    BY <1>2, FS_EmptySet
  <2>2. Total({}) = 0
    BY <2>1, AmountsSum, SumEmpty
  <2> QED BY <2>1, <2>2 DEF WalletAdds, BalanceAdds
<1>10. \A o \in Opens : StakeAt(o)
  BY <1>2, <1>5, <1>8, Idle DEF StakeAt
<1>11. \A k \in CallIds : PaidAt(k)
  BY <1>5, <1>8 DEF PaidAt
<1>12. StakesKept
  BY <1>9, <1>10, <1>11, StakesSplit
<1> QED BY <1>6, <1>7, <1>9, <1>12 DEF FlashInv

LEMMA FlashInvIsInductive == FlashInv /\ [FlashNext]_flashVars => FlashInv'
<1> SUFFICES ASSUME FlashInv, [FlashNext]_flashVars PROVE FlashInv'
  OBVIOUS
<1>1. CASE UNCHANGED flashVars
  <2>1. UNCHANGED <<market, tickets, bets, flash, fillers, sweep>>
    BY <1>1 DEF flashVars
  <2>2. FlashRows /\ FlashKnows
    BY DEF FlashInv
  <2>3. FlashRows' /\ FlashKnows'
    BY <2>1, <2>2 DEF FlashRows, FlashKnows, TicketKnows, BetKnows, FillerKnows
  <2>4. WalletAdds' /\ StakesKept'
    BY <2>1, MoneyStays DEF SameBet
  <2> QED BY <2>3, <2>4 DEF FlashInv
<1>2. CASE Caller
  <2>1. ASSUME NEW day \in 1..MaxDays, claim_daily_flash(day) PROVE FlashInv'
    BY <2>1, DailyKeepsInv
  <2>2. ASSUME NEW o \in Opens, NEW c \in Tokens, AskOpen(o, c) PROVE FlashInv'
    BY <2>2, Idle, AskKeepsInv DEF AskOpen
  <2>3. ASSUME NEW o \in Opens, create_memecoin_call(o) PROVE FlashInv'
    BY <2>3, CreateKeepsInv
  <2>4. ASSUME NEW o \in Closes, NEW k \in CallIds, AskClose(o, k) PROVE FlashInv'
    <3>1. bets[k].coin \in Tokens /\ Ask(o, bets[k].coin, k) /\ o \in Orders /\ o \notin Opens
      BY <2>4, Idle DEF AskClose, FlashInv, FlashKnows, BetKnows
    <3> QED BY <3>1, AskKeepsInv
  <2>5. ASSUME NEW o \in Closes, close_memecoin_call(o) PROVE FlashInv'
    BY <2>5, Idle, CallerKeepsInv
  <2>6. ASSUME NEW o \in Orders, Refuse(o) PROVE FlashInv'
    BY <2>6, CallerKeepsInv
  <2> QED BY <1>2, <2>1, <2>2, <2>3, <2>4, <2>5, <2>6 DEF Caller
<1>3. CASE Sweeps \/ SweepBreaks
  BY <1>3, SweepReadKeepsInv, ExpireKeepsInv, QuotesComeAndGo DEF Sweeps
<1>4. CASE \E w \in Fillers : (\E c \in Tokens : Refresh(w, c)) \/ Filler(w) \/ Interrupted(w)
  BY <1>4, QuotesComeAndGo, StartFillKeepsInv DEF Filler
<1>5. CASE \E o \in Orders : Fills(o) \/ AgeOrder(o)
  BY <1>5, FillOrderKeepsInv, CallerKeepsInv DEF Fills
<1>6. CASE (\E k \in CallIds : AgeCall(k)) \/ (\E c \in Tokens : PruneQuotes(c))
  BY <1>6, QuotesComeAndGo
<1> QED BY <1>1, <1>2, <1>3, <1>4, <1>5, <1>6 DEF FlashNext

\* The invariant of the Calls holds in every state, for every set of coins, orders and
\* Calls and every history of prices.
THEOREM FlashInvariant == FlashSpec => []FlashInv
<1> QED BY InitFlashInv, FlashInvIsInductive, PTL DEF FlashSpec

\* No stake is lost or paid back twice: it waits with its order, is at risk in the Call that
\* the order opened, or came back once, and the balance is the sum of the entries
\* (credit_flash, spend_flash, fill_memecoin_call_orders, expire_memecoin_calls).
THEOREM StakesAlwaysKept == FlashSpec => []StakesKept
<1>1. FlashInv => StakesKept
  BY DEF FlashInv
<1> QED BY <1>1, FlashInvariant, PTL

-----------------------------------------------------------------------------
\* The invariants above contain the types of their modules.
LEMMA TypesFromInvariants ==
  /\ ReplayInv => ReplayTypeOK
  /\ BudgetInv => BudgetTypeOK
  /\ WalletInv => WalletTypeOK
  /\ ReportsInv => ReportsTypeOK
  /\ FlashInv => FlashTypeOK
<1>1. (ReplayInv => ReplayTypeOK) /\ (BudgetInv => BudgetTypeOK)
  BY DEF ReplayInv, BudgetInv
<1>2. WalletInv => WalletTypeOK
  BY DEF WalletInv, WalletTypeOK, WalletRow, ReadingRecord
<1>3. ReportsInv => ReportsTypeOK
  BY DEF ReportsInv, ReportsTypeOK, RowsOK, ListsOK, WorkersOK, ReportRow, Place, Webs
<1>4. FlashInv => FlashTypeOK
  <2> SUFFICES ASSUME FlashInv PROVE FlashTypeOK
    OBVIOUS
  <2>1. ASSUME NEW c \in Tokens
        PROVE  market[c].seen \in Quote /\ market[c].quotes \subseteq Quote /\ market[c].asset \in Maybe
    BY DEF FlashInv, FlashRows, MarketRow
  <2>2. ASSUME NEW o \in Orders
        PROVE  tickets[o].status \in {"none", "asked", "pending", "filled", "cancelled"}
    BY DEF FlashInv, FlashRows, TicketRow
  <2>3. ASSUME NEW k \in CallIds PROVE bets[k].status \in {"none", "active", "closed"}
    BY DEF FlashInv, FlashRows, BetRow
  <2>4. ASSUME NEW w \in Fillers PROVE fillers[w].quote \in Maybe /\ fillers[w].batch \subseteq Orders
    BY DEF FlashInv, FlashRows, FillerPlace
  <2>5. sweep.call \in CallIds \cup {"none"} /\ flash.balance \in Nat
    BY DEF FlashInv, FlashRows, WalletAdds
  <2> QED BY <2>1, <2>2, <2>3, <2>4, <2>5 DEF FlashTypeOK, Maybe
<1> QED BY <1>1, <1>2, <1>3, <1>4
=============================================================================
