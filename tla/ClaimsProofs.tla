---------------------------- MODULE ClaimsProofs ----------------------------
(***************************************************************************)
(* Claims, for any set of runs, any TTL and any bounds: the types, and that *)
(* a run whose own record says its claim is in force holds the ticket in the *)
(* store, so that no two such runs are at work together.                   *)
(***************************************************************************)
EXTENDS Claims, TLAPS

\* A claim in the store bears the lease its owner acquired last.
LiveLease == \A r \in Run : OwnedBy(r) => live.lease = held[r]

\* A run that was never started owns nothing.
Unstarted == \A r \in Run : held[r] = 0 => pc[r] = "down" /\ ~OwnedBy(r)

\* No renewal goroutine outlives its process, none runs while resume releases.
Resuming(r) == after[r] = "resume" /\ pc[r] \in {"release", "unclaim", "tombstone"}
Quiet ==
    \A r \in Run :
        /\ pc[r] = "down" \/ Resuming(r) => \A i \in Slot : ren[r][i] = "off"
        /\ pc[r] = "tombstone" /\ after[r] = "resume" => ~OwnedBy(r)

\* No claim, and no copy of one, lasts longer than a TTL from now.
Within(c) == c # NoClaim => c.expires <= now + TTL
Horizon ==
    /\ Within(live)
    /\ \A r \in Run : /\ Within(durable[r]) /\ Within(buf[r])
                      /\ \A i \in Slot : Within(got[r][i])

\* From the live claim's creation until RunTicket lets go of it, every copy of it
\* that its run has, saved or about to be, is covered by the claim in the store.
Holding(r) == pc[r] \in {"readback", "save", "engine", "agent"}
Covered(r, c) ==
    (c # NoClaim /\ c.owner = r /\ ~c.released /\ ~Expired(c))
        => OwnedBy(r) /\ c.expires <= live.expires
Cover ==
    \A r \in Run : Holding(r) =>
        /\ Covered(r, durable[r]) /\ Covered(r, buf[r])
        /\ \A i \in Slot : Covered(r, got[r][i])

\* Panics are counted from the start of a process, and the last one the wave
\* tolerates is followed by a release and nothing else.
Retried ==
    \A r \in Run :
        /\ pc[r] = "down" => panics[r] = 0
        /\ panics[r] > MaxRetries =>
              /\ pc[r] \in {"release", "unclaim", "tombstone", "done"}
              /\ after[r] = "retry"

\* The inductive invariant.
IInv == Types /\ Retried /\ LiveLease /\ Unstarted /\ Quiet /\ Horizon /\ Cover

-----------------------------------------------------------------------------
\* What AcquireClaim and RenewClaim ask the store for is a claim of the run's own.
LEMMA FreshIsClaim ==
    ASSUME Types, NEW r \in Run
    PROVE  Fresh(r) \in Claim /\ Fresh(r).owner = r /\ Fresh(r).lease = held[r]
           /\ Fresh(r).expires = now + TTL /\ ~Fresh(r).released
  BY ClaimsAssumption DEF Types, Fresh, Claim

\* What a step of each part of the system may change has the right type.
LEMMA TypeInductive ==
    ASSUME Types, [Next]_vars
    PROVE  Types'
<1> USE ClaimsAssumption
<1>1. CASE UNCHANGED vars
  BY <1>1 DEF vars, process, renewal, record, Types
<1>2. ASSUME NEW r \in Run, Start(r) \/ Resume(r) PROVE Types'
  <2>1. CASE Start(r)
    BY <2>1 DEF Start, Goto, Types, PC, Lease, renewal, record
  <2>2. CASE Resume(r)
    BY <2>2 DEF Resume, Goto, Types, PC, OwnedBy, renewal, record
  <2> QED BY <1>2, <2>1, <2>2
<1>3. ASSUME NEW r \in Run, Acquire(r) PROVE Types'
  <2>1. CASE AcquireLive(r)
    BY <2>1, FreshIsClaim DEF AcquireLive, Goto, Types, PC, renewal, record
  <2>2. CASE AcquireRefused(r)
    BY <2>2 DEF AcquireRefused, Goto, Types, PC, renewal, record
  <2>3. CASE AcquireReadBack(r)
    BY <2>3 DEF AcquireReadBack, Goto, Types, PC, renewal, record
  <2>4. CASE AcquireSave(r)
    BY <2>4 DEF AcquireSave, Goto, Types, PC, renewal, record
  <2>5. CASE AcquireSaveFails(r)
    BY <2>5 DEF AcquireSaveFails, Goto, Types, PC, renewal, record
  <2> QED BY <1>3, <2>1, <2>2, <2>3, <2>4, <2>5 DEF Acquire
<1>4. ASSUME NEW r \in Run, Ticket(r) PROVE Types'
  <2>1. CASE BeginCall(r)
    BY <2>1 DEF BeginCall, Goto, Renewal, Renewer, Types, PC, RenPC, record
  <2>2. CASE EndCall(r)
    BY <2>2 DEF EndCall, Goto, Renewal, Renewer, Types, PC, RenPC
  <2>3. CASE LeaseLost(r)
    BY <2>3 DEF LeaseLost, Goto, Renewal, Renewer, Types, PC, RenPC
  <2>4. CASE Finish(r)
    BY <2>4 DEF Finish, Goto, Types, PC, renewal
  <2>5. CASE Abort(r)
    BY <2>5 DEF Abort, Goto, Types, PC, renewal, record
  <2>6. CASE Panic(r)
    BY <2>6 DEF Panic, Goto, Types, PC, Slot, renewal, record
  <2> QED BY <1>4, <2>1, <2>2, <2>3, <2>4, <2>5, <2>6 DEF Ticket
<1>5. ASSUME NEW r \in Run, Release(r) PROVE Types'
  <2>1. CASE ReleaseCheck(r)
    <3>1. durable[r] # NoClaim \/ live # NoClaim
      BY <2>1 DEF ReleaseCheck, Releasable, Current
    <3>2. \A c \in Claim : Tombstone(c) \in Claim
      BY DEF Tombstone, Claim
    <3>3. Tombstone(IF durable[r] # NoClaim THEN durable[r] ELSE live) \in Claim
      BY <3>1, <3>2 DEF Types
    <3>4. buf' \in [Run -> Claim \cup {NoClaim}]
      BY <2>1, <3>3 DEF ReleaseCheck, Types
    <3>5. sawLive' \in [Run -> BOOLEAN]
      BY <2>1, Zenon DEF ReleaseCheck, Types
    <3> QED
      BY <2>1, <3>4, <3>5 DEF ReleaseCheck, Goto, Types, PC, renewal, record
  <2>2. CASE ReleaseRefused(r)
    <3>1. Released(r) \/ ReleaseFailed(r)
      BY <2>2 DEF ReleaseRefused
    <3>2. held' \in [Run -> Lease] /\ pc' \in [Run -> PC]
      <4>1. CASE Released(r)
        BY <4>1 DEF Released, Goto, Types, PC, Lease
      <4>2. CASE ReleaseFailed(r)
        BY <4>2 DEF ReleaseFailed, Goto, Types, PC
      <4> QED BY <3>1, <4>1, <4>2
    <3> QED BY <2>2, <3>2 DEF ReleaseRefused, Types, renewal, record
  <2>3. CASE ReleaseLive(r)
    BY <2>3 DEF ReleaseLive, Goto, Types, PC, renewal, record
  <2>4. CASE ReleaseLiveRefused(r)
    BY <2>4 DEF ReleaseLiveRefused, ReleaseFailed, Goto, Types, PC, renewal, record
  <2>5. CASE ReleaseSave(r)
    BY <2>5 DEF ReleaseSave, Released, Goto, Types, PC, Lease, renewal, record
  <2>6. CASE ReleaseSaveFails(r)
    BY <2>6 DEF ReleaseSaveFails, ReleaseFailed, Goto, Types, PC, renewal, record
  <2> QED BY <1>5, <2>1, <2>2, <2>3, <2>4, <2>5, <2>6 DEF Release
<1>6. ASSUME NEW r \in Run, Exit(r) \/ Crash(r) PROVE Types'
  <2>1. 0 \in Slot /\ NoRenewal \in [Slot -> RenPC]
        /\ NoReads \in [Slot -> Claim \cup {NoClaim}]
    BY DEF Slot, NoRenewal, NoReads, RenPC
  <2>2. CASE Exit(r)
    BY <2>1, <2>2 DEF Exit, StopProcess, Goto, Types, PC, record
  <2>3. CASE Crash(r)
    BY <2>1, <2>3 DEF Crash, StopProcess, Goto, Types, PC, record
  <2> QED BY <1>6, <2>2, <2>3
<1>7. ASSUME NEW r \in Run, NEW i \in Slot, Renew(r, i) PROVE Types'
  <2>1. CASE RenewCheck(r, i)
    BY <2>1 DEF RenewCheck, Renewal, Types, RenPC, process, record
  <2>2. CASE RenewLive(r, i)
    BY <2>2, FreshIsClaim DEF RenewLive, Renewal, Types, RenPC, process, record
  <2>3. CASE RenewRefused(r, i)
    BY <2>3 DEF RenewRefused, Renewal, Types, RenPC, process, record
  <2>4. CASE RenewReadBack(r, i)
    BY <2>4 DEF RenewReadBack, Renewal, Types, RenPC, process, record
  <2>5. CASE RenewSave(r, i)
    BY <2>5 DEF RenewSave, Renewal, Types, RenPC, process, record
  <2>6. CASE RenewSaveFails(r, i)
    BY <2>6 DEF RenewSaveFails, Renewal, Types, RenPC, process, record
  <2> QED BY <1>7, <2>1, <2>2, <2>3, <2>4, <2>5, <2>6 DEF Renew
<1>8. CASE Tick
  BY <1>8 DEF Tick, Types, process, renewal, record
<1> QED BY <1>1, <1>2, <1>3, <1>4, <1>5, <1>6, <1>7, <1>8 DEF Next

\* A ticket goroutine is run again only after a panic that may be retried.
LEMMA RetriedInductive ==
    ASSUME Types, Retried, [Next]_vars
    PROVE  Retried'
<1> USE ClaimsAssumption DEF Retried
<1>1. CASE UNCHANGED vars
  BY <1>1 DEF vars, process
<1>2. ASSUME NEW r \in Run, Start(r) \/ Resume(r) PROVE Retried'
  BY <1>2 DEF Start, Resume, Goto, Types
<1>3. ASSUME NEW r \in Run, Acquire(r) PROVE Retried'
  BY <1>3 DEF Acquire, AcquireLive, AcquireRefused, AcquireReadBack, AcquireSave,
              AcquireSaveFails, Goto, Types
<1>4. ASSUME NEW r \in Run, Ticket(r) PROVE Retried'
  <2>1. CASE Panic(r)
    BY <2>1 DEF Panic, Goto, Types, Slot
  <2>2. CASE BeginCall(r) \/ EndCall(r)
    BY <2>2 DEF BeginCall, EndCall, Goto, Types
  <2>3. CASE LeaseLost(r) \/ Finish(r) \/ Abort(r)
    BY <2>3 DEF LeaseLost, Finish, Abort, Goto, Types
  <2> QED BY <1>4, <2>1, <2>2, <2>3 DEF Ticket
<1>5. ASSUME NEW r \in Run, Release(r) PROVE Retried'
  <2>1. UNCHANGED << panics, after >>
    BY <1>5 DEF Release, ReleaseCheck, ReleaseRefused, ReleaseLive,
                ReleaseLiveRefused, ReleaseSave, ReleaseSaveFails
  <2>2. pc[r] \in {"release", "unclaim", "tombstone"}
    BY <1>5 DEF Release, ReleaseCheck, ReleaseRefused, ReleaseLive,
                ReleaseLiveRefused, ReleaseSave, ReleaseSaveFails
  <2>3. \E l \in {"unclaim", "tombstone", "done", "acquire"} :
           /\ pc' = [pc EXCEPT ![r] = l]
           /\ l = "acquire" => after[r] = "resume" \/ Retry(r)
    BY <1>5 DEF Release, ReleaseCheck, ReleaseRefused, ReleaseLive,
                ReleaseLiveRefused, ReleaseSave, ReleaseSaveFails,
                Released, ReleaseFailed, Goto
  <2> QED BY <2>1, <2>2, <2>3 DEF Retry, Types, Slot
<1>6. ASSUME NEW r \in Run, Exit(r) \/ Crash(r) PROVE Retried'
  <2>1. StopProcess(r) /\ after' = after
    BY <1>6 DEF Exit, Crash
  <2>2. pc' = [pc EXCEPT ![r] = "down"] /\ panics' = [panics EXCEPT ![r] = 0]
    BY <2>1 DEF StopProcess, Goto
  <2> QED BY <2>1, <2>2 DEF Types
<1>7. ASSUME NEW r \in Run, NEW i \in Slot, Renew(r, i) PROVE Retried'
  BY <1>7 DEF Renew, RenewCheck, RenewLive, RenewRefused, RenewReadBack,
              RenewSave, RenewSaveFails, process
<1>8. CASE Tick
  BY <1>8 DEF Tick, process
<1> QED BY <1>1, <1>2, <1>3, <1>4, <1>5, <1>6, <1>7, <1>8 DEF Next

-----------------------------------------------------------------------------
Owners == LiveLease /\ Unstarted /\ Quiet

\* Who owns the live claim, and which renewal goroutines there are.
LEMMA OwnersInductive ==
    ASSUME Types, Owners, [Next]_vars
    PROVE  Owners'
<1> USE DEF Owners, LiveLease, Unstarted, Quiet, Resuming, OwnedBy
<1>1. CASE UNCHANGED vars
  BY <1>1 DEF vars, process, renewal, record
<1>2. ASSUME NEW r \in Run, Start(r) \/ Resume(r) PROVE Owners'
  <2>1. CASE Start(r)
    BY <2>1 DEF Start, Goto, Types, renewal, Lease
  <2>2. CASE Resume(r)
    BY <2>2 DEF Resume, Goto, Types, renewal
  <2> QED BY <1>2, <2>1, <2>2
<1>3. ASSUME NEW r \in Run, Acquire(r) PROVE Owners'
  <2>1. CASE AcquireLive(r)
    BY <2>1, FreshIsClaim DEF AcquireLive, Goto, Types, renewal
  <2>2. CASE AcquireRefused(r) \/ AcquireReadBack(r) \/ AcquireSave(r)
    <3>1. UNCHANGED << live, held, after, ren >>
      BY <2>2 DEF AcquireRefused, AcquireReadBack, AcquireSave, renewal
    <3>2. \E l \in {"done", "save", "engine"} : pc' = [pc EXCEPT ![r] = l]
      BY <2>2 DEF AcquireRefused, AcquireReadBack, AcquireSave, Goto
    <3>3. pc[r] # "down"
      BY <2>2 DEF AcquireRefused, AcquireReadBack, AcquireSave
    <3> QED BY <3>1, <3>2, <3>3 DEF Types
  <2>3. CASE AcquireSaveFails(r)
    BY <2>3 DEF AcquireSaveFails, Goto, Types, renewal
  <2> QED BY <1>3, <2>1, <2>2, <2>3 DEF Acquire
<1>4. ASSUME NEW r \in Run, Ticket(r) PROVE Owners'
  <2>1. CASE BeginCall(r)
    BY <2>1 DEF BeginCall, Goto, Renewal, Renewer, Types
  <2>2. CASE EndCall(r)
    BY <2>2 DEF EndCall, Goto, Renewal, Renewer, Types
  <2>3. CASE LeaseLost(r)
    BY <2>3 DEF LeaseLost, Goto, Renewal, Renewer, Types
  <2>4. CASE Finish(r) \/ Abort(r) \/ Panic(r)
    BY <2>4 DEF Finish, Abort, Panic, Goto, Types, renewal
  <2> QED BY <1>4, <2>1, <2>2, <2>3, <2>4 DEF Ticket
<1>5. ASSUME NEW r \in Run, Release(r) PROVE Owners'
  <2>1. CASE ReleaseCheck(r)
    BY <2>1 DEF ReleaseCheck, Goto, Types, renewal
  <2>2. CASE ReleaseRefused(r)
    <3>1. CASE after[r] = "resume" /\ Current(r) = NoClaim /\ Released(r)
      BY <2>2, <3>1 DEF ReleaseRefused, Current, Released, Goto, Types, renewal, Lease
    <3>2. CASE ReleaseFailed(r)
      BY <2>2, <3>2 DEF ReleaseRefused, ReleaseFailed, Goto, Types, renewal
    <3> QED BY <2>2, <3>1, <3>2 DEF ReleaseRefused
  <2>3. CASE ReleaseLive(r)
    BY <2>3 DEF ReleaseLive, Goto, Types, renewal
  <2>4. CASE ReleaseLiveRefused(r)
    BY <2>4 DEF ReleaseLiveRefused, ReleaseFailed, Goto, Types, renewal
  <2>5. CASE ReleaseSave(r)
    BY <2>5 DEF ReleaseSave, Released, Goto, Types, renewal, Lease
  <2>6. CASE ReleaseSaveFails(r)
    BY <2>6 DEF ReleaseSaveFails, ReleaseFailed, Goto, Types, renewal
  <2> QED BY <1>5, <2>1, <2>2, <2>3, <2>4, <2>5, <2>6 DEF Release
<1>6. ASSUME NEW r \in Run, Exit(r) \/ Crash(r) PROVE Owners'
  <2>1. StopProcess(r) /\ UNCHANGED << live, held, after >>
    BY <1>6 DEF Exit, Crash
  <2>2. \A i \in Slot : ren'[r][i] = "off"
    BY <2>1 DEF StopProcess, NoRenewal, Types
  <2>3. \A s \in Run \ {r} : pc'[s] = pc[s] /\ ren'[s] = ren[s]
    BY <2>1 DEF StopProcess, Goto, Types
  <2>4. pc'[r] = "down"
    BY <2>1 DEF StopProcess, Goto, Types
  <2> QED BY <2>1, <2>2, <2>3, <2>4
<1>7. ASSUME NEW r \in Run, NEW i \in Slot, Renew(r, i) PROVE Owners'
  <2>1. CASE RenewLive(r, i)
    <3>1. pc[r] # "down" /\ ~Resuming(r) /\ held[r] # 0
      BY <2>1 DEF RenewLive
    <3>2. live' = Fresh(r) /\ UNCHANGED << pc, held, after >>
      BY <2>1 DEF RenewLive, process
    <3>3. \A s \in Run, j \in Slot : ren[s][j] = "off" => ren'[s][j] = "off"
      BY <2>1 DEF RenewLive, Renewal, Types
    <3>4. live'.owner = r /\ live'.lease = held[r]
      BY <3>2, FreshIsClaim
    <3> QED BY <3>1, <3>2, <3>3, <3>4
  <2>2. CASE ~RenewLive(r, i)
    <3>1. UNCHANGED << live, pc, held, after >> /\ ren[r][i] # "off"
      BY <1>7, <2>2 DEF Renew, RenewCheck, RenewRefused, RenewReadBack,
                        RenewSave, RenewSaveFails, process
    <3>2. \A s \in Run, j \in Slot : ren[s][j] = "off" => ren'[s][j] = "off"
      BY <1>7, <2>2, <3>1 DEF Renew, RenewCheck, RenewRefused, RenewReadBack,
                              RenewSave, RenewSaveFails, Renewal, Types
    <3> QED BY <3>1, <3>2
  <2> QED BY <2>1, <2>2
<1>8. CASE Tick
  BY <1>8 DEF Tick, process, renewal
<1> QED BY <1>1, <1>2, <1>3, <1>4, <1>5, <1>6, <1>7, <1>8 DEF Next

-----------------------------------------------------------------------------
\* The clock stands still but for Tick, and nothing is made to last longer than
\* a TTL: a copy comes from the store or from another copy.
LEMMA HorizonInductive ==
    ASSUME Types, Horizon, [Next]_vars
    PROVE  Horizon'
<1> USE ClaimsAssumption DEF Horizon, Within
<1>1. CASE UNCHANGED vars
  BY <1>1 DEF vars, process, renewal, record
<1>2. ASSUME NEW r \in Run, Start(r) \/ Resume(r) PROVE Horizon'
  BY <1>2 DEF Start, Resume, OwnedBy, Types, renewal
<1>3. ASSUME NEW r \in Run, Acquire(r) PROVE Horizon'
  <2>1. CASE AcquireLive(r)
    BY <2>1, FreshIsClaim DEF AcquireLive, Types, renewal
  <2>2. CASE AcquireRefused(r) \/ AcquireReadBack(r)
    BY <2>2 DEF AcquireRefused, AcquireReadBack, Types, renewal
  <2>3. CASE AcquireSave(r) \/ AcquireSaveFails(r)
    BY <2>3 DEF AcquireSave, AcquireSaveFails, Types, renewal
  <2> QED BY <1>3, <2>1, <2>2, <2>3 DEF Acquire
<1>4. ASSUME NEW r \in Run, Ticket(r) PROVE Horizon'
  BY <1>4 DEF Ticket, BeginCall, EndCall, LeaseLost, Finish, Abort, Panic, renewal
<1>5. ASSUME NEW r \in Run, Release(r) PROVE Horizon'
  <2>1. CASE ReleaseCheck(r)
    <3>1. durable[r] # NoClaim \/ live # NoClaim
      BY <2>1 DEF ReleaseCheck, Releasable, Current
    <3>2. \A c \in Claim : Tombstone(c).expires = c.expires
      BY DEF Tombstone, Claim
    <3>3. buf'[r].expires <= now + TTL
      BY <2>1, <3>1, <3>2 DEF ReleaseCheck, Types
    <3> QED BY <2>1, <3>3 DEF ReleaseCheck, Types, renewal
  <2>2. CASE ReleaseRefused(r) \/ ReleaseLive(r)
    BY <2>2 DEF ReleaseRefused, ReleaseLive, renewal
  <2>3. CASE ReleaseLiveRefused(r) \/ ReleaseSave(r) \/ ReleaseSaveFails(r)
    BY <2>3 DEF ReleaseLiveRefused, ReleaseSave, ReleaseSaveFails, Types, renewal
  <2> QED BY <1>5, <2>1, <2>2, <2>3 DEF Release
<1>6. ASSUME NEW r \in Run, Exit(r) \/ Crash(r) PROVE Horizon'
  <2>1. StopProcess(r) /\ UNCHANGED << now, live, durable >>
    BY <1>6 DEF Exit, Crash
  <2>2. \A s \in Run : buf'[s] \in {buf[s], NoClaim}
    BY <2>1 DEF StopProcess, Types
  <2>3. \A s \in Run, j \in Slot : got'[s][j] \in {got[s][j], NoClaim}
    BY <2>1 DEF StopProcess, NoReads, Types
  <2> QED BY <2>1, <2>2, <2>3
<1>7. ASSUME NEW r \in Run, NEW i \in Slot, Renew(r, i) PROVE Horizon'
  <2>1. CASE RenewLive(r, i)
    <3>1. live' = Fresh(r) /\ UNCHANGED << now, durable, buf, got >>
      BY <2>1 DEF RenewLive, process
    <3> QED BY <3>1, FreshIsClaim DEF Types
  <2>2. CASE RenewCheck(r, i) \/ RenewRefused(r, i)
    BY <2>2 DEF RenewCheck, RenewRefused, process
  <2>3. CASE RenewReadBack(r, i)
    <3>1. \A s \in Run, j \in Slot : got'[s][j] \in {got[s][j], live}
      BY <2>3 DEF RenewReadBack, Types
    <3> QED BY <2>3, <3>1 DEF RenewReadBack, process
  <2>4. CASE RenewSave(r, i) \/ RenewSaveFails(r, i)
    <3>0. got' = [got EXCEPT ![r][i] = NoClaim]
      BY <2>4 DEF RenewSave, RenewSaveFails
    <3>1. \A s \in Run, j \in Slot : got'[s][j] \in {got[s][j], NoClaim}
      BY <3>0 DEF Types
    <3>2. \A s \in Run : durable'[s] \in {durable[s], got[r][i]}
      <4>1. CASE RenewSave(r, i)
        BY <4>1 DEF RenewSave, Types
      <4>2. CASE RenewSaveFails(r, i)
        BY <4>2 DEF RenewSaveFails
      <4> QED BY <2>4, <4>1, <4>2
    <3>3. UNCHANGED << now, live, buf >>
      BY <2>4 DEF RenewSave, RenewSaveFails, process
    <3> QED BY <3>1, <3>2, <3>3
  <2> QED BY <1>7, <2>1, <2>2, <2>3, <2>4 DEF Renew
<1>8. CASE Tick
  BY <1>8 DEF Tick, Types, Claim, process, renewal
<1> QED BY <1>1, <1>2, <1>3, <1>4, <1>5, <1>6, <1>7, <1>8 DEF Next

-----------------------------------------------------------------------------
\* What a copy is covered by stays covered by it: while the store's claim is the
\* run's own it only grows, and only once it is over does another run take it.
LEMMA CoverKept ==
    ASSUME Types, NEW r \in Run, NEW c \in Claim \cup {NoClaim}, Covered(r, c),
           now <= now', now' \in Nat, live' \in Claim \cup {NoClaim},
           \/ live' = live
           \/ live # NoClaim /\ live.owner # r
           \/ live = NoClaim
           \/ Expired(live)
           \/ OwnedBy(r)' /\ live.expires <= live'.expires
    PROVE  Covered(r, c)'
<1> USE ClaimsAssumption
<1>1. SUFFICES ASSUME c # NoClaim, c.owner = r, ~c.released, now' < c.expires
               PROVE  OwnedBy(r)' /\ c.expires <= live'.expires
  BY DEF Covered, Expired, Claim
<1>2. now < c.expires
  BY <1>1 DEF Types, Claim
<1>3. OwnedBy(r) /\ c.expires <= live.expires
  BY <1>1, <1>2 DEF Covered, Expired, Types, Claim
<1>4. live.expires \in Nat /\ c.expires \in Nat /\ now \in Nat
  BY <1>1, <1>3 DEF OwnedBy, Types, Claim
<1>5. ~Expired(live)
  BY <1>2, <1>3, <1>4 DEF Expired
<1>6. CASE live' = live
  BY <1>3, <1>6 DEF OwnedBy
<1>7. CASE OwnedBy(r)' /\ live.expires <= live'.expires
  <2>1. live'.expires \in Nat
    BY <1>7 DEF OwnedBy, Claim
  <2> QED BY <1>3, <1>4, <1>7, <2>1
<1> QED BY <1>3, <1>5, <1>6, <1>7 DEF OwnedBy

\* Every copy that a run has while it holds the ticket is covered.
LEMMA CoverInductive ==
    ASSUME IInv, [Next]_vars
    PROVE  Cover'
<1> USE DEF IInv
<1> DEFINE Copies(r) == {durable[r], buf[r]} \cup {got[r][i] : i \in Slot}
<1>1. \A r \in Run : Copies(r) \subseteq Claim \cup {NoClaim}
  BY DEF Types
<1>2. ASSUME NEW r \in Run, Holding(r),
             now' = now \/ now' = now + 1,
             Copies(r)' \subseteq Copies(r) \cup {live, NoClaim},
             \/ live' = live
             \/ live # NoClaim /\ live.owner # r
             \/ live = NoClaim
             \/ Expired(live)
             \/ OwnedBy(r)' /\ live.expires <= live'.expires
      PROVE  \A c \in Copies(r)' : Covered(r, c)'
  <2>1. \A c \in Copies(r) : Covered(r, c)
    BY <1>2 DEF Cover
  <2>2. Types /\ now' \in Nat /\ now <= now'
    BY <1>2 DEF Types
  <2>0. live' \in Claim \cup {NoClaim}
    BY TypeInductive DEF Types
  <2>3. Covered(r, live) /\ Covered(r, NoClaim)
    BY DEF Covered, OwnedBy, Types, Claim
  <2>4. \A c \in Copies(r) \cup {live, NoClaim} : c \in Claim \cup {NoClaim}
    BY <1>1 DEF Types
  <2> QED BY <1>2, <2>0, <2>1, <2>2, <2>3, <2>4, CoverKept
<1> DEFINE LiveKept(r) ==
             \/ live' = live
             \/ live # NoClaim /\ live.owner # r
             \/ live = NoClaim
             \/ Expired(live)
             \/ OwnedBy(r)' /\ live.expires <= live'.expires
           Others(q) == /\ now' = now
                        /\ \A s \in Run \ {q} : /\ pc'[s] = pc[s]
                                                /\ durable'[s] = durable[s]
                                                /\ buf'[s] = buf[s]
                                                /\ got'[s] = got[s]
                                                /\ LiveKept(s)
           Covers(r) == Holding(r) => \A c \in Copies(r) : Covered(r, c)
<1>3. ASSUME \A r \in Run : Covers(r)' PROVE Cover'
  BY <1>3 DEF Cover
<1>4. ASSUME NEW q \in Run, Others(q), Covers(q)' PROVE Cover'
  <2>1. ASSUME NEW s \in Run \ {q} PROVE Covers(s)'
    BY <1>2, <1>4, <2>1 DEF Holding
  <2> QED BY <1>3, <1>4, <2>1
<1> HIDE DEF LiveKept, Others, Covers
<1>5. CASE UNCHANGED vars
  BY <1>2, <1>3, <1>5 DEF vars, process, renewal, record, Covers, LiveKept, Holding
<1>6. ASSUME NEW q \in Run, Start(q) \/ Resume(q) PROVE Cover'
  <2>1. Others(q) /\ ~Holding(q)'
    BY <1>6 DEF Start, Resume, Goto, Types, Others, LiveKept, Holding, renewal
  <2> QED BY <1>4, <2>1 DEF Covers
<1>7. ASSUME NEW q \in Run, Acquire(q) PROVE Cover'
  <2>1. CASE AcquireLive(q)
    <3>1. Others(q)
      BY <2>1 DEF AcquireLive, Claimable, Goto, Types, Others, LiveKept, renewal
    <3>2. live'.expires = now + TTL /\ OwnedBy(q)' /\ Copies(q)' = Copies(q)
      BY <2>1, FreshIsClaim, ClaimsAssumption DEF AcquireLive, OwnedBy, renewal
    <3>3. \A c \in Copies(q) : c # NoClaim => c.expires <= now + TTL
      BY DEF Horizon, Within
    <3>4. Covers(q)'
      BY <3>2, <3>3 DEF Covers, Covered
    <3> QED BY <1>4, <3>1, <3>4
  <2>2. CASE AcquireRefused(q) \/ AcquireSaveFails(q)
    <3>1. Others(q) /\ ~Holding(q)'
      BY <2>2 DEF AcquireRefused, AcquireSaveFails, OwnedBy, Goto, Types, Others,
                  LiveKept, Holding, renewal
    <3> QED BY <1>4, <3>1 DEF Covers
  <2>3. CASE AcquireReadBack(q)
    <3>1. Others(q)
      BY <2>3 DEF AcquireReadBack, Goto, Types, Others, LiveKept, renewal
    <3>2. Copies(q)' \subseteq Copies(q) \cup {live, NoClaim}
      BY <2>3 DEF AcquireReadBack, Types, renewal
    <3>3. Holding(q) /\ live' = live /\ now' = now
      BY <2>3 DEF AcquireReadBack, Holding
    <3>4. Covers(q)'
      BY <1>2, <3>2, <3>3 DEF Covers
    <3> QED BY <1>4, <3>1, <3>4
  <2>4. CASE AcquireSave(q)
    <3>1. Others(q)
      BY <2>4 DEF AcquireSave, Goto, Types, Others, LiveKept, renewal
    <3>2. Copies(q)' \subseteq Copies(q) \cup {live, NoClaim}
      BY <2>4 DEF AcquireSave, Types, renewal
    <3>3. Holding(q) /\ live' = live /\ now' = now
      BY <2>4 DEF AcquireSave, Holding
    <3>4. Covers(q)'
      BY <1>2, <3>2, <3>3 DEF Covers
    <3> QED BY <1>4, <3>1, <3>4
  <2> QED BY <1>7, <2>1, <2>2, <2>3, <2>4 DEF Acquire
<1>8. ASSUME NEW q \in Run, Ticket(q) PROVE Cover'
  <2>1. UNCHANGED << now, live, durable, buf, got >>
    BY <1>8 DEF Ticket, BeginCall, EndCall, LeaseLost, Finish, Abort, Panic, renewal
  <2>2. Holding(q)
    BY <1>8 DEF Ticket, BeginCall, EndCall, LeaseLost, Finish, Abort, Panic, Holding
  <2>3. \A s \in Run \ {q} : pc'[s] = pc[s]
    BY <1>8 DEF Ticket, BeginCall, EndCall, LeaseLost, Finish, Abort, Panic, Goto, Types
  <2>4. Others(q)
    BY <2>1, <2>3 DEF Others, LiveKept
  <2>5. Covers(q)'
    BY <1>2, <2>1, <2>2 DEF Covers
  <2> QED BY <1>4, <2>4, <2>5
<1>9. ASSUME NEW q \in Run, Release(q) PROVE Cover'
  <2>1. now' = now /\ got' = got
    BY <1>9 DEF Release, ReleaseCheck, ReleaseRefused, ReleaseLive,
                ReleaseLiveRefused, ReleaseSave, ReleaseSaveFails, renewal
  <2>2. live' = live \/ live = NoClaim \/ live.owner = q
    BY <1>9 DEF Release, ReleaseCheck, ReleaseRefused, ReleaseLive, OwnedBy,
                ReleaseLiveRefused, ReleaseSave, ReleaseSaveFails
  <2>3. \A s \in Run \ {q} : durable'[s] = durable[s] /\ buf'[s] = buf[s]
    BY <1>9 DEF Release, ReleaseCheck, ReleaseRefused, ReleaseLive,
                ReleaseLiveRefused, ReleaseSave, ReleaseSaveFails, Types
  <2>4. \E l \in {"unclaim", "tombstone", "acquire", "done"} : Goto(q, l)
    BY <1>9 DEF Release, ReleaseCheck, ReleaseRefused, ReleaseLive,
                ReleaseLiveRefused, ReleaseSave, ReleaseSaveFails, Released,
                ReleaseFailed
  <2>5. Others(q) /\ ~Holding(q)'
    BY <2>1, <2>2, <2>3, <2>4 DEF Goto, Types, Others, LiveKept, Holding
  <2> QED BY <1>4, <2>5 DEF Covers
<1>10. ASSUME NEW q \in Run, Exit(q) \/ Crash(q) PROVE Cover'
  <2>1. StopProcess(q) /\ UNCHANGED << now, live, durable >>
    BY <1>10 DEF Exit, Crash
  <2>2. Others(q) /\ ~Holding(q)'
    BY <2>1 DEF StopProcess, Goto, Types, Others, LiveKept, Holding
  <2> QED BY <1>4, <2>2 DEF Covers
<1>11. ASSUME NEW q \in Run, NEW i \in Slot, Renew(q, i) PROVE Cover'
  <2>1. UNCHANGED << now, pc, buf >>
    BY <1>11 DEF Renew, RenewCheck, RenewLive, RenewRefused, RenewReadBack,
                 RenewSave, RenewSaveFails, process
  <2>2. CASE RenewLive(q, i)
    <3>1. UNCHANGED << durable, got >> /\ live' = Fresh(q)
      BY <2>2 DEF RenewLive
    <3>2. live = NoClaim \/ OwnedBy(q)
      BY <2>2 DEF RenewLive
    <3>3. OwnedBy(q)' /\ live'.expires = now + TTL
      BY <3>1, FreshIsClaim, ClaimsAssumption DEF OwnedBy
    <3>4. LiveKept(q)
      BY <3>2, <3>3 DEF LiveKept, Horizon, Within, OwnedBy
    <3>5. Others(q)
      BY <2>1, <3>1, <3>2 DEF Others, LiveKept, OwnedBy
    <3>6. Covers(q)'
      BY <1>2, <2>1, <3>1, <3>4 DEF Covers, LiveKept, Holding
    <3> QED BY <1>4, <3>5, <3>6
  <2>3. CASE ~RenewLive(q, i)
    <3>1. live' = live
      BY <1>11, <2>3 DEF Renew, RenewCheck, RenewRefused, RenewReadBack,
                         RenewSave, RenewSaveFails
    <3>2. \A s \in Run \ {q} : durable'[s] = durable[s] /\ got'[s] = got[s]
      BY <1>11, <2>3 DEF Renew, RenewCheck, RenewRefused, RenewReadBack,
                         RenewSave, RenewSaveFails, Types
    <3>3. Others(q)
      BY <2>1, <3>1, <3>2 DEF Others, LiveKept
    <3>4. durable'[q] \in {durable[q], got[q][i]}
      BY <1>11, <2>3 DEF Renew, RenewCheck, RenewRefused, RenewReadBack,
                         RenewSave, RenewSaveFails, Types
    <3>5. \A j \in Slot : got'[q][j] \in {got[q][j], live, NoClaim}
      BY <1>11, <2>3 DEF Renew, RenewCheck, RenewRefused, RenewReadBack,
                         RenewSave, RenewSaveFails, Types
    <3>6. Copies(q)' \subseteq Copies(q) \cup {live, NoClaim}
      BY <2>1, <3>4, <3>5
    <3>7. Covers(q)'
      BY <1>2, <2>1, <3>1, <3>6 DEF Covers, Holding
    <3> QED BY <1>4, <3>3, <3>7
  <2> QED BY <2>2, <2>3
<1>12. CASE Tick
  <2>1. now' = now + 1 /\ UNCHANGED << live, durable, pc, buf, got >>
    BY <1>12 DEF Tick, process, renewal
  <2>2. \A r \in Run : Covers(r)'
    BY <1>2, <2>1 DEF Covers, Holding
  <2> QED BY <1>3, <2>2
<1> QED BY <1>5, <1>6, <1>7, <1>8, <1>9, <1>10, <1>11, <1>12 DEF Next

-----------------------------------------------------------------------------
\* No step of any part of the system leaves the inductive invariant.
LEMMA InvInductive ==
    ASSUME IInv, [Next]_vars
    PROVE  IInv'
  BY TypeInductive, RetriedInductive, OwnersInductive, HorizonInductive,
     CoverInductive DEF IInv, Owners

\* Before any run is started nothing is claimed.
LEMMA InvInit == Init => IInv
<1> SUFFICES ASSUME Init PROVE IInv
  OBVIOUS
<1>1. Types
  BY ClaimsAssumption DEF Init, Types, Lease, Slot, NoRenewal, NoReads, PC, RenPC
<1>2. Retried
  <2>1. ~(0 > MaxRetries)
    BY ClaimsAssumption
  <2> QED BY <2>1 DEF Init, Retried
<1> QED
  BY <1>1, <1>2 DEF Init, IInv, LiveLease, Unstarted, Quiet, Resuming, Horizon,
                    Within, Cover, Holding, Covered, OwnedBy, NoRenewal, NoReads, Slot

\* The inductive invariant holds in every state of every run.
THEOREM InvCorrect == Spec => []IInv
  BY InvInit, InvInductive, PTL DEF Spec

\* Every variable keeps its type, and a ticket whose goroutine crashed for the
\* last time it may is not worked on again by that process.
THEOREM TypeCorrect == Spec => []TypeOK
<1>1. IInv => TypeOK
  BY DEF IInv, Retried, TypeOK, Working
<1> QED BY <1>1, InvCorrect, PTL

\* A run at work whose durable claim is its own, active and not over holds the
\* ticket in the store under the lease it works with, in every interleaving with
\* renewals, releases, other runs, crashes and leaked renewal goroutines.
THEOREM HolderOwnsLiveHolds == Spec => []HolderOwnsLive
<1>1. IInv => HolderOwnsLive
  BY DEF IInv, Cover, Covered, LiveLease, HolderOwnsLive, InForce, Working,
         Holding, OwnedBy, Is
<1> QED BY <1>1, InvCorrect, PTL

\* No two runs are at work on the ticket each with a claim of its own in force.
THEOREM ExclusiveWorkHolds == Spec => []ExclusiveWork
<1>1. HolderOwnsLive => ExclusiveWork
  BY DEF HolderOwnsLive, ExclusiveWork, Is
<1> QED BY <1>1, HolderOwnsLiveHolds, PTL

-----------------------------------------------------------------------------
(* A claim in force, and a claim that was let go *)

\* Who changes the live claim: a process of the run that owns it, or anybody once
\* it is over.
LEMMA TouchedByOwner ==
    ASSUME Types, Quiet, [Next]_vars, live # NoClaim, ~Expired(live), live' # live
    PROVE  pc[live.owner] # "down"
<1>1. ASSUME NEW r \in Run, Start(r) \/ Resume(r) \/ Ticket(r) \/ Exit(r) \/ Crash(r)
      PROVE  live' = live
  BY <1>1 DEF Start, Resume, Ticket, BeginCall, EndCall, LeaseLost, Finish, Abort,
              Panic, Exit, Crash
<1>2. ASSUME NEW r \in Run, Acquire(r) \/ Release(r), live' # live
      PROVE  pc[live.owner] # "down"
  BY <1>2 DEF Acquire, AcquireLive, AcquireRefused, AcquireReadBack, AcquireSave,
              AcquireSaveFails, Claimable, OwnedBy, Release, ReleaseCheck,
              ReleaseRefused, ReleaseLive, ReleaseLiveRefused, ReleaseSave,
              ReleaseSaveFails
<1>3. ASSUME NEW r \in Run, NEW i \in Slot, Renew(r, i), live' # live
      PROVE  pc[live.owner] # "down"
  <2>1. ren[r][i] # "off" /\ OwnedBy(r)
    BY <1>3 DEF Renew, RenewCheck, RenewLive, RenewRefused, RenewReadBack, RenewSave,
                RenewSaveFails
  <2> QED BY <2>1 DEF Quiet, OwnedBy
<1> QED BY <1>1, <1>2, <1>3 DEF Next, Tick, vars

\* A claim that is not over is changed only while its owner's process is up.
THEOREM UnexpiredClaimUntouchedHolds == Spec => UnexpiredClaimUntouched
<1>1. IInv /\ [Next]_vars => [live # NoClaim /\ ~Expired(live) /\ live' # live
                                => pc[live.owner] # "down"]_vars
  BY TouchedByOwner DEF IInv
<1> QED BY <1>1, InvCorrect, PTL DEF Spec, UnexpiredClaimUntouched

\* Without panics a renewal goroutine runs during a call only, and no crashed ticket
\* is tried again.
Silent ==
    \A r \in Run :
        /\ after[r] # "retry"
        /\ pc[r] # "agent" => \A i \in Slot : ren[r][i] = "off"

\* A copy of a run's own claim has a lease that the run has had.
Had(r, c) == c # NoClaim /\ c.owner = r => c.lease <= held[r]
Leases ==
    \A r \in Run :
        /\ Had(r, durable[r]) /\ Had(r, buf[r])
        /\ \A i \in Slot : Had(r, got[r][i])

\* Tombstones are made by release only, of claims of the run's own; and once that of
\* the last lease is recorded, or about to be, the run does not own the ticket until
\* it acquires it under another.
Dead(c) == c # NoClaim /\ c.released
Tombs ==
    /\ ~Dead(live)
    /\ \A r \in Run :
          /\ \A i \in Slot : ~Dead(got[r][i])
          /\ pc[r] = "save" => ~Dead(buf[r])
          /\ pc[r] = "tombstone" => ~OwnedBy(r)
          /\ pc[r] \in {"unclaim", "tombstone"} =>
                buf[r] # NoClaim /\ buf[r].owner = r
          /\ Dead(durable[r]) =>
                /\ durable[r].owner = r
                /\ durable[r].lease = held[r] =>
                      /\ ~OwnedBy(r)
                      /\ pc[r] \in {"release", "unclaim", "tombstone", "done", "down"}

\* Leases only grow.
LEMMA LeasesInductive ==
    ASSUME Types, LiveLease, Leases, [Next]_vars
    PROVE  Leases'
<1> USE DEF Leases, Had
<1>1. CASE UNCHANGED vars
  BY <1>1 DEF vars, process, renewal
<1>2. ASSUME NEW r \in Run, Start(r) \/ Resume(r) PROVE Leases'
  <2>1. CASE Start(r)
    BY <2>1 DEF Start, Types, renewal, Lease, Claim
  <2>2. CASE Resume(r)
    BY <2>2 DEF Resume, Types, renewal, Lease, Claim, LiveLease, OwnedBy
  <2> QED BY <1>2, <2>1, <2>2
<1>3. ASSUME NEW r \in Run, Acquire(r) PROVE Leases'
  BY <1>3 DEF Acquire, AcquireLive, AcquireRefused, AcquireReadBack, AcquireSave,
              AcquireSaveFails, Types, renewal, Lease, Claim, LiveLease, OwnedBy
<1>4. ASSUME NEW r \in Run, Ticket(r) PROVE Leases'
  BY <1>4 DEF Ticket, BeginCall, EndCall, LeaseLost, Finish, Abort, Panic, renewal
<1>5. ASSUME NEW r \in Run, Release(r) PROVE Leases'
  <2>1. CASE ReleaseCheck(r)
    BY <2>1 DEF ReleaseCheck, Types, renewal, Lease, Claim, LiveLease, OwnedBy,
                Releasable, Current, Tombstone
  <2>2. CASE ReleaseRefused(r) \/ ReleaseLiveRefused(r) \/ ReleaseSaveFails(r)
             \/ ReleaseSave(r) \/ ReleaseLive(r)
    <3>1. held' \in [Run -> Lease] /\ \A s \in Run : held[s] <= held'[s]
      <4>1. held' = held \/ held' = [held EXCEPT ![r] = @ + 1]
        BY <2>2 DEF ReleaseRefused, ReleaseLiveRefused, ReleaseSaveFails, ReleaseSave,
                    ReleaseLive, Released, ReleaseFailed
      <4>2. held \in [Run -> Nat]
        BY DEF Types, Lease
      <4>3. CASE held' = held
        BY <4>2, <4>3 DEF Lease
      <4>4. CASE held' = [held EXCEPT ![r] = @ + 1]
        <5>1. /\ held' \in [Run -> Nat] /\ held'[r] = held[r] + 1
              /\ \A s \in Run \ {r} : held'[s] = held[s]
          BY <4>2, <4>4
        <5> QED BY <4>2, <5>1 DEF Lease
      <4> QED BY <4>1, <4>3, <4>4
    <3>2. got' = got
          /\ \A s \in Run : /\ durable'[s] \in {durable[s], buf[s]}
                            /\ buf'[s] \in {buf[s], NoClaim}
      BY <2>2 DEF ReleaseRefused, ReleaseLiveRefused, ReleaseSaveFails, ReleaseSave,
                  ReleaseLive, renewal, Types
    <3>3. ASSUME NEW s \in Run, NEW c \in Claim \cup {NoClaim}, Had(s, c),
                 c # NoClaim, c.owner = s
          PROVE  c.lease <= held'[s]
      <4>1. c.lease <= held[s] /\ held[s] <= held'[s]
        BY <3>1, <3>3
      <4>2. c.lease \in Nat /\ held[s] \in Nat /\ held'[s] \in Nat
        BY <3>1, <3>3 DEF Types, Lease, Claim
      <4> QED BY <4>1, <4>2
    <3>4. ASSUME NEW s \in Run, NEW c \in {durable[s], buf[s], NoClaim},
                 c # NoClaim, c.owner = s
          PROVE  c.lease <= held'[s]
      BY <3>3, <3>4 DEF Types
    <3>5. ASSUME NEW s \in Run, NEW j \in Slot, got[s][j] # NoClaim,
                 got[s][j].owner = s
          PROVE  got[s][j].lease <= held'[s]
      BY <3>3, <3>5 DEF Types
    <3> QED BY <3>2, <3>4, <3>5
  <2> QED BY <1>5, <2>1, <2>2 DEF Release
<1>6. ASSUME NEW r \in Run, Exit(r) \/ Crash(r) PROVE Leases'
  <2>1. StopProcess(r) /\ UNCHANGED << durable, held >>
    BY <1>6 DEF Exit, Crash
  <2>2. \A s \in Run : /\ buf'[s] \in {buf[s], NoClaim}
                       /\ \A i \in Slot : got'[s][i] \in {got[s][i], NoClaim}
    BY <2>1 DEF StopProcess, NoReads, Types
  <2> QED BY <2>1, <2>2
<1>7. ASSUME NEW r \in Run, NEW i \in Slot, Renew(r, i) PROVE Leases'
  <2>1. UNCHANGED << held, buf >>
    BY <1>7 DEF Renew, RenewCheck, RenewLive, RenewRefused, RenewReadBack, RenewSave,
                RenewSaveFails, process
  <2>2. \A s \in Run : /\ durable'[s] \in {durable[s]} \cup {got[s][j] : j \in Slot}
                       /\ \A j \in Slot : got'[s][j] \in {got[s][j], NoClaim, live}
    BY <1>7 DEF Renew, RenewCheck, RenewLive, RenewRefused, RenewReadBack, RenewSave,
                RenewSaveFails, Types
  <2>3. \A s \in Run : Had(s, live)
    BY DEF LiveLease, OwnedBy, Types, Lease, Claim
  <2> QED BY <2>1, <2>2, <2>3
<1>8. CASE Tick
  BY <1>8 DEF Tick, process, renewal
<1> QED BY <1>1, <1>2, <1>3, <1>4, <1>5, <1>6, <1>7, <1>8 DEF Next

\* No panic, no leaked goroutine.
LEMMA SilentInductive ==
    ASSUME MaxPanics = 0, Types, Silent, [Next]_vars
    PROVE  Silent'
<1> USE DEF Silent
<1>1. CASE UNCHANGED vars
  BY <1>1 DEF vars, process, renewal
<1>2. ASSUME NEW r \in Run, Start(r) \/ Resume(r) PROVE Silent'
  BY <1>2 DEF Start, Resume, Goto, Types, renewal
<1>3. ASSUME NEW r \in Run, Acquire(r) PROVE Silent'
  <2>1. UNCHANGED << after, ren >> /\ pc[r] # "agent"
    BY <1>3 DEF Acquire, AcquireLive, AcquireRefused, AcquireReadBack, AcquireSave,
                AcquireSaveFails, renewal
  <2>2. \A s \in Run \ {r} : pc'[s] = pc[s]
    BY <1>3 DEF Acquire, AcquireLive, AcquireRefused, AcquireReadBack, AcquireSave,
                AcquireSaveFails, Goto, Types
  <2> QED BY <2>1, <2>2
<1>4. ASSUME NEW r \in Run, Ticket(r) PROVE Silent'
  <2>1. Slot = {0} /\ Renewer(r) = 0
    BY DEF Slot, Renewer, Types
  <2>2. CASE BeginCall(r)
    BY <2>1, <2>2 DEF BeginCall, Goto, Renewal, Types
  <2>3. CASE EndCall(r)
    BY <2>1, <2>3 DEF EndCall, Goto, Renewal, Types
  <2>4. CASE LeaseLost(r)
    BY <2>1, <2>4 DEF LeaseLost, Goto, Renewal, Types
  <2>5. CASE Finish(r) \/ Abort(r)
    BY <2>5 DEF Finish, Abort, Goto, Types, renewal
  <2>6. ~Panic(r)
    BY <2>1 DEF Panic, Renewer
  <2> QED BY <1>4, <2>2, <2>3, <2>4, <2>5, <2>6 DEF Ticket
<1>5. ASSUME NEW r \in Run, Release(r) PROVE Silent'
  <2>1. UNCHANGED << after, ren >> /\ pc[r] # "agent"
    BY <1>5 DEF Release, ReleaseCheck, ReleaseRefused, ReleaseLive,
                ReleaseLiveRefused, ReleaseSave, ReleaseSaveFails, renewal
  <2>2. \A s \in Run \ {r} : pc'[s] = pc[s]
    BY <1>5 DEF Release, ReleaseCheck, ReleaseRefused, ReleaseLive,
                ReleaseLiveRefused, ReleaseSave, ReleaseSaveFails, Released,
                ReleaseFailed, Goto, Types
  <2> QED BY <2>1, <2>2
<1>6. ASSUME NEW r \in Run, Exit(r) \/ Crash(r) PROVE Silent'
  <2>1. StopProcess(r) /\ after' = after
    BY <1>6 DEF Exit, Crash
  <2>2. \A i \in Slot : ren'[r][i] = "off"
    BY <2>1 DEF StopProcess, NoRenewal, Types
  <2>3. \A s \in Run \ {r} : pc'[s] = pc[s] /\ ren'[s] = ren[s]
    BY <2>1 DEF StopProcess, Goto, Types
  <2> QED BY <2>1, <2>2, <2>3
<1>7. ASSUME NEW r \in Run, NEW i \in Slot, Renew(r, i) PROVE Silent'
  <2>1. UNCHANGED << pc, after >> /\ ren[r][i] # "off"
    BY <1>7 DEF Renew, RenewCheck, RenewLive, RenewRefused, RenewReadBack, RenewSave,
                RenewSaveFails, process
  <2>2. \E l \in RenPC : Renewal(r, i, l)
    BY <1>7 DEF Renew, RenewCheck, RenewLive, RenewRefused, RenewReadBack, RenewSave,
                RenewSaveFails, RenPC
  <2>3. \A s \in Run, j \in Slot : ren[s][j] = "off" => ren'[s][j] = "off"
    BY <2>1, <2>2 DEF Renewal, Types
  <2> QED BY <2>1, <2>3
<1>8. CASE Tick
  BY <1>8 DEF Tick, process, renewal
<1> QED BY <1>1, <1>2, <1>3, <1>4, <1>5, <1>6, <1>7, <1>8 DEF Next

\* No step brings a claim back to life.
LEMMA TombsInductive ==
    ASSUME Types, LiveLease, Unstarted, Leases, Silent, Tombs, [Next]_vars
    PROVE  Tombs'
<1> USE DEF Tombs, Dead
<1>1. CASE UNCHANGED vars
  BY <1>1 DEF vars, process, renewal, OwnedBy
<1>2. ASSUME NEW r \in Run, Start(r) \/ Resume(r) PROVE Tombs'
  <2>1. CASE Start(r)
    BY <2>1 DEF Start, Goto, Types, renewal, OwnedBy, Leases, Had, Lease, Claim
  <2>2. CASE Resume(r)
    BY <2>2 DEF Resume, Goto, Types, renewal, OwnedBy
  <2> QED BY <1>2, <2>1, <2>2
<1>3. ASSUME NEW r \in Run, Acquire(r) PROVE Tombs'
  <2>1. CASE AcquireLive(r)
    BY <2>1, FreshIsClaim DEF AcquireLive, Goto, Types, renewal, OwnedBy
  <2>2. CASE AcquireRefused(r)
    BY <2>2 DEF AcquireRefused, Goto, Types, renewal, OwnedBy
  <2>3. CASE AcquireReadBack(r)
    BY <2>3 DEF AcquireReadBack, Goto, Types, renewal, OwnedBy
  <2>4. CASE AcquireSave(r)
    BY <2>4 DEF AcquireSave, Goto, Types, renewal, OwnedBy
  <2>5. CASE AcquireSaveFails(r)
    BY <2>5 DEF AcquireSaveFails, Goto, Types, renewal, OwnedBy
  <2> QED BY <1>3, <2>1, <2>2, <2>3, <2>4, <2>5 DEF Acquire
<1>4. ASSUME NEW r \in Run, Ticket(r) PROVE Tombs'
  <2>1. UNCHANGED << live, durable, held, buf, got >> /\ pc[r] \in {"engine", "agent"}
    BY <1>4 DEF Ticket, BeginCall, EndCall, LeaseLost, Finish, Abort, Panic, renewal
  <2>2. \E l \in {"engine", "agent", "release"} : pc' = [pc EXCEPT ![r] = l]
    BY <1>4 DEF Ticket, BeginCall, EndCall, LeaseLost, Finish, Abort, Panic, Goto
  <2> QED BY <2>1, <2>2 DEF Types, OwnedBy
<1>5. ASSUME NEW r \in Run, Release(r) PROVE Tombs'
  <2>1. CASE ReleaseCheck(r)
    <3>1. pc' = [pc EXCEPT ![r] = "unclaim"] /\ UNCHANGED << live, durable, held, got >>
      BY <2>1 DEF ReleaseCheck, Goto, renewal
    <3>2. PICK c \in Claim : c.owner = r /\ buf' = [buf EXCEPT ![r] = Tombstone(c)]
      <4>1. CASE durable[r] # NoClaim
        <5>1. durable[r] \in Claim /\ durable[r].owner = r
          BY <2>1, <4>1 DEF ReleaseCheck, Releasable, Is, Types
        <5>2. buf' = [buf EXCEPT ![r] = Tombstone(durable[r])]
          BY <2>1, <4>1 DEF ReleaseCheck
        <5> QED BY <5>1, <5>2
      <4>2. CASE durable[r] = NoClaim
        <5>1. live # NoClaim /\ live.owner = r
          BY <2>1, <4>2 DEF ReleaseCheck, Releasable, Current
        <5> QED BY <2>1, <4>2, <5>1 DEF ReleaseCheck, Types
      <4> QED BY <4>1, <4>2
    <3>3. Tombstone(c) \in Claim /\ Tombstone(c).owner = r
      BY <3>2 DEF Tombstone, Claim
    <3>4. Tombstone(c) # NoClaim
      BY <3>3, ClaimsAssumption
    <3> QED BY <2>1, <3>1, <3>2, <3>3, <3>4 DEF Types, OwnedBy, ReleaseCheck
  <2>2. CASE ReleaseRefused(r)
    <3>1. CASE after[r] = "resume" /\ Current(r) = NoClaim /\ Released(r)
      <4>1. durable[r] = NoClaim /\ live = NoClaim
        BY <3>1 DEF Current
      <4> QED
        BY <2>2, <3>1, <4>1
        DEF ReleaseRefused, Released, Goto, Types, renewal, OwnedBy
    <3>2. CASE ReleaseFailed(r)
      BY <2>2, <3>2
      DEF ReleaseRefused, ReleaseFailed, Retry, Silent, Goto, Types, renewal, OwnedBy
    <3> QED BY <2>2, <3>1, <3>2 DEF ReleaseRefused
  <2>3. CASE ReleaseLive(r)
    BY <2>3 DEF ReleaseLive, Goto, Types, renewal, OwnedBy
  <2>4. CASE ReleaseLiveRefused(r)
    BY <2>4 DEF ReleaseLiveRefused, ReleaseFailed, Retry, Silent, Goto, Types, renewal,
                OwnedBy
  <2>5. CASE ReleaseSave(r)
    <3>1. /\ pc[r] = "tombstone" /\ ~OwnedBy(r) /\ buf[r] # NoClaim /\ buf[r].owner = r
          /\ buf[r].lease <= held[r]
      BY <2>5 DEF ReleaseSave, Leases, Had
    <3>2. UNCHANGED << live, got >> /\ buf' = [buf EXCEPT ![r] = NoClaim]
          /\ durable' = [durable EXCEPT ![r] = buf[r]]
      BY <2>5 DEF ReleaseSave, renewal
    <3>3. \/ pc' = [pc EXCEPT ![r] = "done"] /\ held' = held
          \/ pc' = [pc EXCEPT ![r] = "acquire"] /\ held' = [held EXCEPT ![r] = @ + 1]
      BY <2>5 DEF ReleaseSave, Released, Goto, Retry, Silent
    <3>4. CASE pc' = [pc EXCEPT ![r] = "done"] /\ held' = held
      BY <3>1, <3>2, <3>4 DEF Types, OwnedBy
    <3>5. CASE pc' = [pc EXCEPT ![r] = "acquire"] /\ held' = [held EXCEPT ![r] = @ + 1]
      BY <3>1, <3>2, <3>5 DEF Types, OwnedBy, Lease, Claim
    <3> QED BY <3>3, <3>4, <3>5
  <2>6. CASE ReleaseSaveFails(r)
    BY <2>6 DEF ReleaseSaveFails, ReleaseFailed, Retry, Silent, Goto, Types, renewal,
                OwnedBy
  <2> QED BY <1>5, <2>1, <2>2, <2>3, <2>4, <2>5, <2>6 DEF Release
<1>6. ASSUME NEW r \in Run, Exit(r) \/ Crash(r) PROVE Tombs'
  <2>1. StopProcess(r) /\ UNCHANGED << live, durable, held >>
    BY <1>6 DEF Exit, Crash
  <2>2. pc' = [pc EXCEPT ![r] = "down"] /\ buf' = [buf EXCEPT ![r] = NoClaim]
        /\ got' = [got EXCEPT ![r] = NoReads]
    BY <2>1 DEF StopProcess, Goto
  <2>3. \A s \in Run, i \in Slot : got'[s][i] \in {got[s][i], NoClaim}
    BY <2>2 DEF NoReads, Types
  <2> QED BY <2>1, <2>2, <2>3 DEF Types, OwnedBy
<1>7. ASSUME NEW r \in Run, NEW i \in Slot, Renew(r, i) PROVE Tombs'
  <2>1. UNCHANGED << pc, held, buf >> /\ pc[r] = "agent"
    BY <1>7 DEF Renew, RenewCheck, RenewLive, RenewRefused, RenewReadBack, RenewSave,
                RenewSaveFails, process, Silent
  <2>2. CASE RenewLive(r, i)
    BY <2>1, <2>2, FreshIsClaim DEF RenewLive, Types, OwnedBy
  <2>3. CASE ~RenewLive(r, i)
    <3>1. live' = live
      BY <1>7, <2>3 DEF Renew, RenewCheck, RenewRefused, RenewReadBack, RenewSave,
                        RenewSaveFails
    <3>2. \A s \in Run : /\ durable'[s] = durable[s] \/ ~Dead(durable'[s])
                         /\ \A j \in Slot : ~Dead(got'[s][j])
      BY <1>7, <2>3 DEF Renew, RenewCheck, RenewRefused, RenewReadBack, RenewSave,
                        RenewSaveFails, Types
    <3> QED BY <2>1, <3>1, <3>2 DEF OwnedBy
  <2> QED BY <2>2, <2>3
<1>8. CASE Tick
  BY <1>8 DEF Tick, process, renewal, OwnedBy
<1> QED BY <1>1, <1>2, <1>3, <1>4, <1>5, <1>6, <1>7, <1>8 DEF Next

\* Where no ticket goroutine panics, a claim whose release a run has recorded is never
\* again in the store, however renewals, resumes and other runs come in between.
THEOREM TombstoneFinalHolds == MaxPanics = 0 => (Spec => []TombstoneFinal)
<1> SUFFICES ASSUME MaxPanics = 0 PROVE Spec => []TombstoneFinal OBVIOUS
<1> DEFINE TInv == IInv /\ Leases /\ Silent /\ Tombs
<1>1. Init => TInv
  <2>1. Init => Leases /\ Silent /\ Tombs
    BY DEF Init, Leases, Had, Silent, Tombs, Dead, NoReads, NoRenewal
  <2> QED BY <2>1, InvInit
<1>2. TInv /\ [Next]_vars => TInv'
  BY InvInductive, LeasesInductive, SilentInductive, TombsInductive DEF IInv
<1>3. TInv => TombstoneFinal
  BY DEF IInv, LiveLease, Tombs, Dead, TombstoneFinal, Is, OwnedBy
<1> QED BY <1>1, <1>2, <1>3, PTL DEF Spec
=============================================================================
