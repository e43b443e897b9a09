------------------------------- MODULE Claims -------------------------------
(***************************************************************************)
(* The claim on one ticket, as internal/adapters/ticketstore/epos/claims.go *)
(* keeps it and the engine uses it.                                        *)
(*                                                                         *)
(* A claim has two copies: the LIVE one, in the ticket store and shared by *)
(* every run, and a DURABLE one per run, under .verk/runs/<run>/claims.     *)
(* Neither is changed together with the other: acquisition, renewal and     *)
(* release are each several file operations, and runs (processes), the      *)
(* renewal goroutine inside a run, crashes and the clock come in between.   *)
(*                                                                         *)
(* A run is one process at a time: resume and run both take the run lock.   *)
(* Each step below is one operation on the ticket store (atomic under the   *)
(* store's per-ticket flock) or one atomic file save.  A step that reads    *)
(* the live and the durable claim reads them together: only the run's own   *)
(* process writes its durable copy.                                        *)
(***************************************************************************)
EXTENDS Integers

CONSTANTS
    Run,        \* the runs that may work on the ticket
    NoClaim,    \* no record: a nil *ClaimArtifact
    TTL,        \* the lease's time to live, in clock ticks
    MaxTime,    \* bound: the clock stops here
    MaxLease,   \* bound: lease ids one run generates (first start, resumes)
    MaxRetries, \* retries of a crashed ticket goroutine (maxCrashRetries)
    MaxPanics,  \* bound: panics of the ticket goroutine in one process
    MaxFaults   \* bound: process crashes and failed saves

Slot == 0 .. MaxPanics          \* the renewal goroutines of a process
Lease == Nat                    \* a run's lease ids in order; 0: none yet
Claim == [owner : Run, lease : Lease, expires : Nat, released : BOOLEAN]

ASSUME ClaimsAssumption ==
    /\ TTL \in Nat \ {0}
    /\ MaxTime \in Nat
    /\ MaxLease \in Nat
    /\ MaxRetries \in Nat
    /\ MaxPanics \in Nat
    /\ MaxFaults \in Nat
    /\ NoClaim \notin Claim

VARIABLES
    now,      \* the clock
    live,     \* the claim in the ticket store
    durable,  \* durable[r]: run r's durable claim
    pc,       \* pc[r]: where the goroutine that handles the ticket stands
    held,     \* held[r]: the lease id of r's current or last acquisition
    buf,      \* buf[r]: the claim the operation in progress has read
    sawLive,  \* sawLive[r]: the release in progress found a live claim
    after,    \* after[r]: what the release in progress is followed by
    ren,      \* ren[r][i]: where r's i-th renewal goroutine stands
    got,      \* got[r][i]: the claim that goroutine has read back
    ended,    \* ended[r]: the terminal phase in the ticket's snapshot, if any
    impl,     \* impl[r]: the lease id in the implementation artifact, 0 if none
    panics,   \* panics[r]: panics of the ticket goroutine in this process
    faults    \* crashes and failed saves so far

process == << pc, held, buf, sawLive, after, panics >>
renewal == << ren, got >>
record  == << ended, impl >>
vars == << now, live, durable, process, renewal, record, faults >>

PC == {"down", "acquire", "readback", "save", "engine", "agent",
       "release", "unclaim", "tombstone", "done"}
RenPC == {"off", "idle", "renew", "reclaim", "readback", "save", "lost"}

\* The process is inside RunTicket with a claim AcquireClaim returned to it.
Working(r) == pc[r] \in {"engine", "agent"}

Is(c, r, l) == c # NoClaim /\ c.owner = r /\ c.lease = l
Expired(c)  == c.expires <= now
Fresh(r)    == [owner |-> r, lease |-> held[r], expires |-> now + TTL,
                released |-> FALSE]
Tombstone(c) == [c EXCEPT !.released = TRUE]
NoRenewal == [i \in Slot |-> "off"]
NoReads   == [i \in Slot |-> NoClaim]

Init ==
    /\ now = 0
    /\ live = NoClaim
    /\ durable = [r \in Run |-> NoClaim]
    /\ pc = [r \in Run |-> "down"]
    /\ held = [r \in Run |-> 0]
    /\ buf = [r \in Run |-> NoClaim]
    /\ sawLive = [r \in Run |-> FALSE]
    /\ after = [r \in Run |-> "exit"]
    /\ ren = [r \in Run |-> NoRenewal]
    /\ got = [r \in Run |-> NoReads]
    /\ ended = [r \in Run |-> "no"]
    /\ impl = [r \in Run |-> 0]
    /\ panics = [r \in Run |-> 0]
    /\ faults = 0

-----------------------------------------------------------------------------
(* The ticket store (external).  Each is atomic under the ticket's flock.  *)

\* Mutant: an expired lease is not told from one in force.
ClaimableByAnyone(r) == TRUE

\* runtime.Claim, or runtime.ReclaimExpired when another run's lease is over.
\* A run that already holds the claim may or may not be given it again.
Claimable(r) == live # NoClaim => live.owner = r \/ Expired(live)
ClaimRefused(r) == live # NoClaim /\ (live.owner = r \/ ~Expired(live))

\* runtime.Renew and runtime.Release: only for the owner.
OwnedBy(r) == live # NoClaim /\ live.owner = r

-----------------------------------------------------------------------------
(* AcquireClaim *)

Goto(r, l) == pc' = [pc EXCEPT ![r] = l]

\* A new run: `verk run` with a new run id, first wave of an epic.
Start(r) ==
    /\ pc[r] = "down" /\ held[r] = 0 /\ MaxLease > 0
    /\ Goto(r, "acquire")
    /\ held' = [held EXCEPT ![r] = 1]
    /\ UNCHANGED << now, live, durable, buf, sawLive, after, panics,
                    renewal, record, faults >>

AcquireLive(r) ==
    /\ pc[r] = "acquire" /\ Claimable(r)
    /\ live' = Fresh(r)
    /\ Goto(r, "readback")
    /\ UNCHANGED << now, durable, held, buf, sawLive, after, panics,
                    renewal, record, faults >>

AcquireRefused(r) ==
    /\ pc[r] = "acquire" /\ ClaimRefused(r)
    /\ Goto(r, "done")
    /\ UNCHANGED << now, live, durable, held, buf, sawLive, after, panics,
                    renewal, record, faults >>

\* Mutant: the record of the claim is what was asked for, not what is in the store.
AcquireReadBackBlind(r) ==
    /\ pc[r] = "readback"
    /\ buf' = [buf EXCEPT ![r] = Fresh(r)]
    /\ Goto(r, IF live = NoClaim THEN "done" ELSE "save")
    /\ UNCHANGED << now, live, durable, held, sawLive, after, panics,
                    renewal, record, faults >>

\* Whatever claim is in the store is taken for the one just made.
AcquireReadBack(r) ==
    /\ pc[r] = "readback"
    /\ buf' = [buf EXCEPT ![r] = live]
    /\ Goto(r, IF live = NoClaim THEN "done" ELSE "save")
    /\ UNCHANGED << now, live, durable, held, sawLive, after, panics,
                    renewal, record, faults >>

AcquireSave(r) ==
    /\ pc[r] = "save"
    /\ durable' = [durable EXCEPT ![r] = buf[r]]
    /\ Goto(r, "engine")
    /\ buf' = [buf EXCEPT ![r] = NoClaim]
    /\ UNCHANGED << now, live, held, sawLive, after, panics,
                    renewal, record, faults >>

\* The durable write fails: the live claim is rolled back.
AcquireSaveFails(r) ==
    /\ pc[r] = "save" /\ faults < MaxFaults
    /\ live' = IF OwnedBy(r) THEN NoClaim ELSE live
    /\ Goto(r, "done")
    /\ faults' = faults + 1
    /\ buf' = [buf EXCEPT ![r] = NoClaim]
    /\ UNCHANGED << now, durable, held, sawLive, after, panics,
                    renewal, record >>

-----------------------------------------------------------------------------
(* RunTicket: worker and reviewer calls run beside a renewal goroutine;    *)
(* verification, closeout and the gates run without one.                   *)

Renewer(r) == panics[r]     \* the slot of the call in progress

Renewal(r, i, l) == ren' = [ren EXCEPT ![r][i] = l]

BeginCall(r) ==
    /\ pc[r] = "engine"
    /\ Goto(r, "agent")
    /\ Renewal(r, Renewer(r), "idle")
    /\ UNCHANGED << now, live, durable, held, buf, sawLive, after, panics,
                    got, record, faults >>

\* Mutant: stopRenewal does not wait, nor stop a renewal under way.
EndCallNoWait(r) ==
    /\ pc[r] = "agent"
    /\ Goto(r, "engine")
    /\ \E l \in {impl[r], held[r]} : impl' = [impl EXCEPT ![r] = l]
    /\ ended' = [ended EXCEPT ![r] = "no"]
    /\ UNCHANGED << now, live, durable, held, buf, sawLive, after, panics,
                    renewal, faults >>

\* stopRenewal waits for the goroutine; the result's lease is checked against
\* the request's.  A worker's result is persisted as the implementation artifact
\* (a reviewer's is not) with a snapshot that is in no terminal phase.
EndCall(r) ==
    /\ pc[r] = "agent" /\ ren[r][Renewer(r)] = "idle"
    /\ Goto(r, "engine")
    /\ Renewal(r, Renewer(r), "off")
    /\ \E l \in {impl[r], held[r]} : impl' = [impl EXCEPT ![r] = l]
    /\ ended' = [ended EXCEPT ![r] = "no"]
    /\ UNCHANGED << now, live, durable, held, buf, sawLive, after, panics,
                    got, faults >>

\* A failed renewal cancels the call; the ticket is blocked and its claim let go.
LeaseLost(r) ==
    /\ pc[r] = "agent" /\ ren[r][Renewer(r)] = "lost"
    /\ Goto(r, "release")
    /\ after' = [after EXCEPT ![r] = "exit"]
    /\ Renewal(r, Renewer(r), "off")
    /\ ended' = [ended EXCEPT ![r] = "blocked"]
    /\ UNCHANGED << now, live, durable, held, buf, sawLive, panics,
                    got, impl, faults >>

\* The terminal snapshot is persisted, then the claim is released.  A gate or a
\* spent budget may block the ticket at any point; only an implementation closes.
Finish(r) ==
    /\ pc[r] = "engine"
    /\ Goto(r, "release")
    /\ after' = [after EXCEPT ![r] = "exit"]
    /\ \E p \in {"closed", "blocked"} :
          /\ p = "closed" => impl[r] # 0
          /\ ended' = [ended EXCEPT ![r] = p]
    /\ UNCHANGED << now, live, durable, held, buf, sawLive, panics,
                    renewal, impl, faults >>

\* An error or a cancelled context: the deferred release, no terminal snapshot.
Abort(r) ==
    /\ pc[r] = "engine"
    /\ Goto(r, "release")
    /\ after' = [after EXCEPT ![r] = "exit"]
    /\ UNCHANGED << now, live, durable, held, buf, sawLive, panics,
                    renewal, record, faults >>

\* The adapter panics: stopRenewal is not deferred, so the renewal goroutine
\* goes on; executeWithRecovery recovers, the wave releases the claim and retries.
Panic(r) ==
    /\ pc[r] = "agent" /\ panics[r] < MaxPanics
    /\ Goto(r, "release")
    /\ after' = [after EXCEPT ![r] = "retry"]
    /\ panics' = [panics EXCEPT ![r] = @ + 1]
    /\ UNCHANGED << now, live, durable, held, buf, sawLive,
                    renewal, record, faults >>

-----------------------------------------------------------------------------
(* RenewClaim, called by the renewal goroutine *)

\* The checks before the live claim is touched.
Renewable(r) ==
    LET d == durable[r]
        current == IF live # NoClaim THEN live ELSE d
    IN  /\ Is(current, r, held[r])
        /\ ~Expired(current)
        /\ d # NoClaim => ~d.released /\ Is(d, r, held[r])

\* Mutant: a failed renewal is left for the next tick instead of ending the call.
RenewCheckShrug(r, i) ==
    /\ ren[r][i] = "idle"
    /\ Renewal(r, i, IF ~Renewable(r) THEN "idle"
                     ELSE IF live # NoClaim THEN "renew" ELSE "reclaim")
    /\ UNCHANGED << now, live, durable, process, got, record, faults >>

RenewCheck(r, i) ==
    /\ ren[r][i] = "idle"
    /\ Renewal(r, i, IF ~Renewable(r) THEN "lost"
                     ELSE IF live # NoClaim THEN "renew" ELSE "reclaim")
    /\ UNCHANGED << now, live, durable, process, got, record, faults >>

\* The live claim is extended, or made anew when it was gone.  The store may
\* refuse an owner whose lease has run out since the check.
RenewLive(r, i) ==
    /\ \/ ren[r][i] = "renew" /\ OwnedBy(r)
       \/ ren[r][i] = "reclaim" /\ (live = NoClaim \/ OwnedBy(r))
    /\ live' = Fresh(r)
    /\ Renewal(r, i, "readback")
    /\ UNCHANGED << now, durable, process, got, record, faults >>

RenewRefused(r, i) ==
    /\ \/ ren[r][i] = "renew" /\ (OwnedBy(r) => Expired(live))
       \/ ren[r][i] = "reclaim" /\ live # NoClaim
    /\ Renewal(r, i, "lost")
    /\ UNCHANGED << now, live, durable, process, got, record, faults >>

\* Mutant: what the renewal asked for is recorded, not what the store says.
RenewReadBackBlind(r, i) ==
    /\ ren[r][i] = "readback"
    /\ got' = [got EXCEPT ![r][i] = Fresh(r)]
    /\ Renewal(r, i, IF live = NoClaim THEN "lost" ELSE "save")
    /\ UNCHANGED << now, live, durable, process, record, faults >>

RenewReadBack(r, i) ==
    /\ ren[r][i] = "readback"
    /\ got' = [got EXCEPT ![r][i] = live]
    /\ Renewal(r, i, IF live = NoClaim THEN "lost" ELSE "save")
    /\ UNCHANGED << now, live, durable, process, record, faults >>

RenewSave(r, i) ==
    /\ ren[r][i] = "save"
    /\ durable' = [durable EXCEPT ![r] = got[r][i]]
    /\ Renewal(r, i, "idle")
    /\ got' = [got EXCEPT ![r][i] = NoClaim]
    /\ UNCHANGED << now, live, process, record, faults >>

RenewSaveFails(r, i) ==
    /\ ren[r][i] = "save" /\ faults < MaxFaults
    /\ Renewal(r, i, "lost")
    /\ faults' = faults + 1
    /\ got' = [got EXCEPT ![r][i] = NoClaim]
    /\ UNCHANGED << now, live, durable, process, record >>

-----------------------------------------------------------------------------
(* ReleaseClaim *)

\* Mutant: a ticket goroutine that crashed is run again however often it did.
RetryForever(r) == after[r] = "retry"

\* The wave runs the crashed ticket again, at most MaxRetries times, whether or
\* not the claim could be released.
Retry(r) == after[r] = "retry" /\ panics[r] <= MaxRetries

\* What the caller does with the release's result: RunTicket returns, the wave
\* retries under the same lease, resume acquires under a new one.
Released(r) ==
    /\ Goto(r, IF after[r] = "resume" \/ Retry(r) THEN "acquire" ELSE "done")
    /\ held' = IF after[r] = "resume" THEN [held EXCEPT ![r] = @ + 1] ELSE held
ReleaseFailed(r) ==
    /\ Goto(r, IF Retry(r) THEN "acquire" ELSE "done")
    /\ held' = held

Current(r) == IF live # NoClaim THEN live ELSE durable[r]

\* RunTicket names its lease; crash recovery and resume give a reason only.
Releasable(r) ==
    LET c == Current(r) IN
        /\ c # NoClaim /\ c.owner = r
        /\ after[r] = "exit" => c.lease = held[r]
        /\ durable[r] # NoClaim => Is(durable[r], r, c.lease)

ReleaseCheck(r) ==
    /\ pc[r] = "release" /\ Releasable(r)
    /\ Goto(r, "unclaim")
    /\ sawLive' = [sawLive EXCEPT ![r] = live # NoClaim]
    /\ buf' = [buf EXCEPT ![r] = Tombstone(IF durable[r] # NoClaim THEN durable[r]
                                           ELSE live)]
    /\ UNCHANGED << now, live, durable, held, after, panics,
                    renewal, record, faults >>

\* Resume does not mind a claim that is not there (ErrClaimNotFound).
ReleaseRefused(r) ==
    /\ pc[r] = "release" /\ ~Releasable(r)
    /\ IF after[r] = "resume" /\ Current(r) = NoClaim
         THEN Released(r)
         ELSE ReleaseFailed(r)
    /\ UNCHANGED << now, live, durable, buf, sawLive, after, panics,
                    renewal, record, faults >>

ReleaseLive(r) ==
    /\ pc[r] = "unclaim"
    /\ IF sawLive[r] THEN OwnedBy(r) ELSE live = NoClaim
    /\ live' = NoClaim
    /\ Goto(r, "tombstone")
    /\ sawLive' = [sawLive EXCEPT ![r] = FALSE]
    /\ UNCHANGED << now, durable, held, buf, after, panics,
                    renewal, record, faults >>

\* The store refuses the owner check, or the claim came back under the lock.
ReleaseLiveRefused(r) ==
    /\ pc[r] = "unclaim"
    /\ ~ IF sawLive[r] THEN OwnedBy(r) ELSE live = NoClaim
    /\ ReleaseFailed(r)
    /\ buf' = [buf EXCEPT ![r] = NoClaim]
    /\ sawLive' = [sawLive EXCEPT ![r] = FALSE]
    /\ UNCHANGED << now, live, durable, after, panics,
                    renewal, record, faults >>

ReleaseSave(r) ==
    /\ pc[r] = "tombstone"
    /\ durable' = [durable EXCEPT ![r] = buf[r]]
    /\ Released(r)
    /\ buf' = [buf EXCEPT ![r] = NoClaim]
    /\ UNCHANGED << now, live, sawLive, after, panics,
                    renewal, record, faults >>

ReleaseSaveFails(r) ==
    /\ pc[r] = "tombstone" /\ faults < MaxFaults
    /\ ReleaseFailed(r)
    /\ faults' = faults + 1
    /\ buf' = [buf EXCEPT ![r] = NoClaim]
    /\ UNCHANGED << now, live, durable, sawLive, after, panics,
                    renewal, record >>

-----------------------------------------------------------------------------
(* ReconcileClaim and the checks resume makes around it *)

\* What ReconcileClaim makes of the two copies: a state, or an error.
Reconciled(l, d, r, terminal) ==
    IF l # NoClaim /\ d # NoClaim
      THEN IF ~Is(l, d.owner, d.lease) THEN "error"
           ELSE IF d.released THEN "released"
           ELSE IF l.owner # r THEN "error" ELSE "active"
    ELSE IF l # NoClaim
      THEN IF l.owner # r \/ terminal THEN "error" ELSE "active"
    ELSE IF d = NoClaim THEN "none"
    ELSE IF d.released THEN "released"
         ELSE IF terminal THEN "active" ELSE "error"

Terminal(r) == ended[r] # "no"

\* reconcileTicketClaimForResume returns no error.
Resumable(r) ==
    LET state == Reconciled(live, durable[r], r, Terminal(r))
        claim == IF durable[r] # NoClaim THEN durable[r] ELSE live
    IN  /\ state # "error"
        /\ state = "active" /\ impl[r] # 0 => impl[r] = claim.lease

\* `verk resume`: reconcile, rebuild a missing durable copy, and, unless the
\* ticket is closed, release the claim and acquire it under a new lease.
Resume(r) ==
    /\ pc[r] = "down" /\ held[r] \in 1 .. MaxLease - 1
    /\ ended[r] # "closed" /\ Resumable(r)
    /\ durable' = IF durable[r] = NoClaim /\ OwnedBy(r) /\ ~Terminal(r)
                  THEN [durable EXCEPT ![r] = live]
                  ELSE durable
    /\ Goto(r, "release")
    /\ after' = [after EXCEPT ![r] = "resume"]
    /\ UNCHANGED << now, live, held, buf, sawLive, panics,
                    renewal, record, faults >>

-----------------------------------------------------------------------------
(* The environment *)

StopProcess(r) ==
    /\ Goto(r, "down")
    /\ buf' = [buf EXCEPT ![r] = NoClaim]
    /\ sawLive' = [sawLive EXCEPT ![r] = FALSE]
    /\ panics' = [panics EXCEPT ![r] = 0]
    /\ ren' = [ren EXCEPT ![r] = NoRenewal]
    /\ got' = [got EXCEPT ![r] = NoReads]

\* The process exits; only then do leaked renewal goroutines stop.
Exit(r) ==
    /\ pc[r] = "done"
    /\ StopProcess(r)
    /\ UNCHANGED << now, live, durable, held, after, record, faults >>

Crash(r) ==
    /\ pc[r] \notin {"down", "done"} /\ faults < MaxFaults
    /\ StopProcess(r)
    /\ faults' = faults + 1
    /\ UNCHANGED << now, live, durable, held, after, record >>

Tick ==
    /\ now < MaxTime
    /\ now' = now + 1
    /\ UNCHANGED << live, durable, process, renewal, record, faults >>

Acquire(r) == AcquireLive(r) \/ AcquireRefused(r) \/ AcquireReadBack(r)
              \/ AcquireSave(r) \/ AcquireSaveFails(r)
Ticket(r)  == BeginCall(r) \/ EndCall(r) \/ LeaseLost(r) \/ Finish(r)
              \/ Abort(r) \/ Panic(r)
Renew(r, i) == RenewCheck(r, i) \/ RenewLive(r, i) \/ RenewRefused(r, i)
               \/ RenewReadBack(r, i) \/ RenewSave(r, i) \/ RenewSaveFails(r, i)
Release(r) == ReleaseCheck(r) \/ ReleaseRefused(r) \/ ReleaseLive(r)
              \/ ReleaseLiveRefused(r) \/ ReleaseSave(r) \/ ReleaseSaveFails(r)

Next ==
    \/ \E r \in Run : \/ Start(r) \/ Resume(r) \/ Acquire(r) \/ Ticket(r)
                      \/ Release(r) \/ Exit(r) \/ Crash(r)
    \/ \E r \in Run, i \in Slot : Renew(r, i)
    \/ Tick

Spec == Init /\ [][Next]_vars

\* The renewal goroutine is scheduled, and a call whose context its failure
\* cancelled returns.  Nothing is assumed of runs, agents or the clock.
FairSpec ==
    /\ Spec
    /\ \A r \in Run : WF_vars(LeaseLost(r))
    /\ \A r \in Run, i \in Slot : WF_vars(Renew(r, i))

-----------------------------------------------------------------------------
(* Properties *)

Types ==
    /\ now \in Nat
    /\ live \in Claim \cup {NoClaim}
    /\ durable \in [Run -> Claim \cup {NoClaim}]
    /\ pc \in [Run -> PC]
    /\ held \in [Run -> Lease]
    /\ buf \in [Run -> Claim \cup {NoClaim}]
    /\ sawLive \in [Run -> BOOLEAN]
    /\ after \in [Run -> {"exit", "retry", "resume"}]
    /\ ren \in [Run -> [Slot -> RenPC]]
    /\ got \in [Run -> [Slot -> Claim \cup {NoClaim}]]
    /\ ended \in [Run -> {"no", "blocked", "closed"}]
    /\ impl \in [Run -> Lease]
    /\ panics \in [Run -> Slot]
    /\ faults \in 0 .. MaxFaults

\* The type invariant.  A ticket whose goroutine has crashed more often than it
\* may be retried is not at work again in the process.
TypeOK ==
    /\ Types
    /\ \A r \in Run : panics[r] > MaxRetries => ~Working(r)

\* By run r's own record its claim is in force.
InForce(r) ==
    /\ durable[r] # NoClaim /\ durable[r].owner = r
    /\ ~durable[r].released /\ ~Expired(durable[r])

\* A run at work whose durable claim is its own, active and not over holds the
\* ticket in the store, under the lease it works with: whatever renewals, other
\* runs, crashes and leaked renewal goroutines of its process did meanwhile.
HolderOwnsLive ==
    \A r \in Run : Working(r) /\ InForce(r) => Is(live, r, held[r])

\* Claim acquisition is exclusive (initial_v1.md:923): no two runs are at work on
\* the ticket each with a claim of its own in force.
ExclusiveWork ==
    \A r, s \in Run :
        Working(r) /\ InForce(r) /\ Working(s) /\ InForce(s) => r = s

\* A claim that is not over is changed or removed only while the process of the
\* run that owns it is up: no other run, and no resume of one, touches it.
UnexpiredClaimUntouched ==
    [][live # NoClaim /\ ~Expired(live) /\ live' # live
         => pc[live.owner] # "down"]_vars

\* A tombstone is final: the lease whose release a run has recorded is never
\* again in the store.  (Without panics: see ReleasedClaimIsFree.)
TombstoneFinal ==
    \A r \in Run : durable[r] # NoClaim /\ durable[r].released
                     => ~Is(live, r, durable[r].lease)

\* When another run has taken the ticket, the agent call of the run that lost it
\* ends: its renewal goroutine finds out and cancels the call.
LostLeaseStopsAgent ==
    \A r \in Run :
        (pc[r] = "agent" /\ live # NoClaim /\ live.owner # r) ~> pc[r] # "agent"

-----------------------------------------------------------------------------
(* What the v1 specification says and the code does not do *)

\* initial_v1.md:319: "unexpired claims must be resumed".
UnexpiredClaimIsResumed ==
    \A r \in Run :
        (pc[r] = "down" /\ OwnedBy(r) /\ ~Expired(live) /\ durable[r] = live)
            => Resumable(r)

\* initial_v1.md:929: release updates both copies: when RunTicket's release is
\* done and recorded, the ticket is not owned by the run.
ReleasedClaimIsFree ==
    \A r \in Run :
        (/\ pc[r] = "done" /\ after[r] = "exit"
         /\ durable[r] # NoClaim /\ durable[r].released)
            => ~OwnedBy(r)
=============================================================================
