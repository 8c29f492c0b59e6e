----------------------------- MODULE PeerClaims -----------------------------
(***************************************************************************)
(* The store of claims that peers signed (PeerClaimStore of                *)
(* src/src/runner_swarm/peer_store.py).                                    *)
(*                                                                         *)
(* The state of a stored claim is recomputed from all stored claims, the   *)
(* operator's revocations and the time before every use, so it is an       *)
(* operator here, not a variable.  Claims arrive in any order, and again.  *)
(***************************************************************************)
EXTENDS Integers, SequencesExt

CONSTANTS
  Claims,           \* signed claims: each a record of Claim
  Issuers, NoClaim,
  Horizon,          \* the clock runs 0..Horizon (bound)
  Skew,             \* MAX_CLOCK_SKEW
  Retention,        \* inactive_retention
  MaxClaims, MaxControls,
  ClaimsPerWindow   \* a unit of time is a rate_window

Observations == {c \in Claims : c.kind = "observation"}

\* MAX_OBSERVATION_TTL is a day and inactive_retention seven by default.
ASSUME PeerClaimsAssumption ==
  /\ {Horizon, Skew, Retention, MaxClaims, MaxControls, ClaimsPerWindow} \subseteq Nat
  /\ \A c \in Claims : /\ c.issuer \in Issuers
                        /\ c.issued \in Nat /\ c.expires \in Nat /\ c.issued < c.expires
  /\ \A c \in Observations : c.expires - c.issued <= Retention

VARIABLES
  now,
  stored,   \* rows of peer_claims in the order they were received
  revoked,  \* local_claim_revocations
  bans,     \* peer_bans of each issuer
  taken,    \* claims that each issuer has sent in this window
  heard     \* claims that were accepted, less those evicted for want of room

claimVars == <<now, stored, revoked, bans, taken, heard>>

ClaimsTypeOK ==
  /\ now \in 0..Horizon
  /\ stored \in Seq(Claims) /\ IsInjective(stored) /\ Len(stored) <= MaxClaims
  /\ revoked \subseteq Claims
  /\ bans \in [Issuers -> {"none", "banned", "lapsed"}]
  /\ taken \in [Issuers -> 0..ClaimsPerWindow]
  /\ ToSet(stored) \subseteq heard /\ heard \subseteq Claims

ClaimsInit ==
  /\ now = 0
  /\ stored = <<>>
  /\ revoked = {}
  /\ bans = [i \in Issuers |-> "none"]
  /\ taken = [i \in Issuers |-> 0]
  /\ heard = {}

-----------------------------------------------------------------------------
IsExpired(c) == c.expires <= now

\* Both kinds of a claim that takes another one back.  A claim that supersedes
\* does so even after it has expired itself.
Retracts(r, c) == r.kind = "retraction" /\ r.target = c.id /\ r.issuer = c.issuer /\ ~IsExpired(r)
Supersedes(s, c) ==
  /\ s.kind = "observation" /\ s.target = c.id /\ s.issuer = c.issuer
  /\ s.instrument = c.instrument /\ s.issued > c.issued

\* What _refresh_states_locked() makes of c among the rows R.
StateAmong(R, c) ==
  LET usable == R \ revoked IN
  CASE c \in revoked -> "revoked"
    [] c \notin revoked /\ IsExpired(c) -> "expired"
    [] OTHER ->
         IF c.kind = "observation" /\ \E r \in usable : Retracts(r, c) THEN "retracted"
         ELSE IF c.kind = "observation" /\ \E s \in usable : Supersedes(s, c) THEN "superseded"
         ELSE "active"

Active(R) == {c \in R : StateAmong(R, c) = "active"}

\* current_claims()
Current ==
  {c \in Active(ToSet(stored)) : c.kind = "observation" /\ bans[c.issuer] # "banned"}

\* The rows that are in S, in their order.
Only(rows, S) ==
  LET upto[i \in 0..Len(rows)] ==
        IF i = 0 THEN <<>>
        ELSE IF rows[i] \in S THEN Append(upto[i - 1], rows[i]) ELSE upto[i - 1]
  IN upto[Len(rows)]

\* _prune_locked() drops what has been inactive for long, and then what is too
\* much: what is not active first, then what was received first.
Cutoff_Now == now
Cutoff == now - Retention
Kept(rows) == Only(rows, Active(ToSet(rows)) \cup {c \in Claims : c.expires >= Cutoff})

Evicted_TooFew(rows) == {rows[i] : i \in 1..(Len(rows) - MaxClaims - 1)}
Evicted(rows) ==
  LET active == Active(ToSet(rows))
      order == Only(rows, Claims \ active) \o Only(rows, active)
  IN {order[i] : i \in 1..(Len(rows) - MaxClaims)}

Prune(rows) ==
  LET kept == Kept(rows) IN
  /\ stored' = Only(kept, Claims \ Evicted(kept))
  /\ heard' = (heard \cup ToSet(rows)) \ Evicted(kept)
  /\ bans' \in {bans} \cup {[bans EXCEPT ![i] = "none"] : i \in {j \in Issuers : bans[j] = "lapsed"}}

Verified(c) == c.issued <= now + Skew /\ ~IsExpired(c)

HasSlot(i) == taken[i] < ClaimsPerWindow

\* BANNED and RATE_LIMITED store nothing; DUPLICATE takes a slot.
Duplicate(c) ==
  /\ c \in ToSet(stored)
  /\ UNCHANGED <<stored, bans, heard>>

Insert(c) ==
  /\ c \notin ToSet(stored)
  /\ Prune(Append(stored, c))

ingest(c) ==
  /\ Verified(c)
  /\ bans[c.issuer] # "banned"
  /\ HasSlot(c.issuer)
  /\ taken' = [taken EXCEPT ![c.issuer] = @ + 1]
  /\ Duplicate(c) \/ Insert(c)
  /\ UNCHANGED <<now, revoked>>

prune ==
  /\ Prune(stored)
  /\ UNCHANGED <<now, revoked, taken>>

\* A revocation may name a claim that has not been received.
revoke_claim(c) ==
  /\ revoked' = revoked \cup {c}
  /\ Cardinality(revoked') <= MaxControls
  /\ UNCHANGED <<now, stored, bans, taken, heard>>

restore_claim(c) ==
  /\ revoked' = revoked \ {c}
  /\ UNCHANGED <<now, stored, bans, taken, heard>>

\* Lapsed bans take room until they are pruned.
ban_peer(i) ==
  /\ bans' = [bans EXCEPT ![i] = "banned"]
  /\ Cardinality({j \in Issuers : bans'[j] # "none"}) <= MaxControls
  /\ UNCHANGED <<now, stored, revoked, taken, heard>>

unban_peer(i) ==
  /\ bans' = [bans EXCEPT ![i] = "none"]
  /\ UNCHANGED <<now, stored, revoked, taken, heard>>

BanLapses(i) ==
  /\ bans[i] = "banned"
  /\ bans' = [bans EXCEPT ![i] = "lapsed"]
  /\ UNCHANGED <<now, stored, revoked, taken, heard>>

Tick ==
  /\ now < Horizon
  /\ now' = now + 1
  /\ taken' = [i \in Issuers |-> 0]
  /\ UNCHANGED <<stored, revoked, bans, heard>>

ClaimsNext ==
  \/ \E c \in Claims : ingest(c) \/ revoke_claim(c) \/ restore_claim(c)
  \/ \E i \in Issuers : ban_peer(i) \/ unban_peer(i) \/ BanLapses(i)
  \/ prune
  \/ Tick

ClaimsSpec == ClaimsInit /\ [][ClaimsNext]_claimVars

-----------------------------------------------------------------------------
\* What an issuer took back stays taken back, and nobody else takes it back.
\* A stored observation is current exactly when it has not expired, its issuer
\* is not banned, the operator has not revoked it, and its issuer has never
\* sent a newer one in its place or a retraction that still counts, which the
\* operator has not revoked.  Claims arrive in any order, and pruning forgets
\* the newer claim before the older one: this holds because what is forgotten
\* is older than any observation can live.  A claim that was evicted because
\* the store was full counts as never sent.
WithdrawnStays ==
  \A c \in Observations \cap ToSet(stored) :
    c \in Current <=>
      /\ ~IsExpired(c)
      /\ bans[c.issuer] # "banned"
      /\ c \notin revoked
      /\ \A w \in heard \ revoked : ~Retracts(w, c) /\ ~Supersedes(w, c)
=============================================================================
