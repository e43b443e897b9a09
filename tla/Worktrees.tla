----------------------------- MODULE Worktrees -----------------------------
(***************************************************************************)
(* The processes of several epic runs in one repository: each takes the     *)
(* lock of its run, removes the worktrees of runs it takes to be over,      *)
(* schedules waves, makes their worktrees in the shared cache and removes   *)
(* them again, while processes crash, runs are resumed and tickets are      *)
(* reopened (internal/engine/epic_run.go, resume.go, worktree.go,           *)
(* runlock.go, reopen.go).                                                  *)
(*                                                                         *)
(* Of a ticket's work only the files it changes are kept; how a ticket is   *)
(* run is module TicketRun, and how accepted work reaches the main tree is   *)
(* module WaveIntegration: here its success or failure is one step.         *)
(***************************************************************************)
EXTENDS WaveScheduler

CONSTANTS
    Proc, Run, Ticket,
    Segment,         \* names of files and directories: a path is a sequence of them
    Children,        \* of each run: its epic's tickets, in the store's order
    Scope,           \* of each ticket: its owned_paths
    Edits,           \* of each ticket: the sets of files its worker may change
    Waiting,         \* tickets with a dependency outside the epic
    MaxConcurrency,  \* scheduler.max_concurrency
    None,
    MaxStarts,       \* bound: processes
    MaxMishaps,      \* bound: crashes and failing operations
    MaxReopens       \* bound: reopenings

ASSUME WorktreesAssumption ==
    /\ Children \in [Run -> Seq(Ticket)]
    /\ \A t \in Ticket : \E r \in Run : t \in ToSet(Children[r])
    /\ \A r, q \in Run : r # q => ToSet(Children[r]) \cap ToSet(Children[q]) = {}
    /\ Scope \in [Ticket -> SUBSET Seq(Segment)]
    /\ Edits \in [Ticket -> SUBSET SUBSET Seq(Segment)]
    /\ Waiting \subseteq Ticket
    /\ None \notin Run \cup Proc
    /\ MaxConcurrency \in Nat \ {0}
    /\ MaxStarts \in Nat /\ MaxMishaps \in Nat /\ MaxReopens \in Nat

VARIABLES
    lock,      \* who holds run.lock of each run
    json,      \* run.json of each run
    snap,      \* phase of each ticket's snapshot
    store,     \* status of each ticket in the ticket store
    waiting,   \* tickets whose outside dependency is still open
    claimed,   \* tickets with a durable claim in force
    dirs,      \* runs with a directory in the worktree cache
    trees,     \* tickets with a worktree
    joint,     \* runs with an integration worktree
    proc,      \* each process
    reopening, \* a reopening under way: its ticket and the run.json it writes
    reopened,  \* history: runs with a ticket that was reopened
    clashed,   \* history: runs with closed tickets that were in conflict
    starts, mishaps, reopens

files == << json, snap, store, waiting, claimed >>
cache == << dirs, trees, joint >>
history == << reopened, clashed >>
bounds == << starts, mishaps, reopens >>
vars == << lock, files, cache, proc, reopening, history, bounds >>

Tickets(r) == ToSet(Children[r])
RunOf(t) == CHOOSE r \in Run : t \in Tickets(r)

RunStatus == {"none", "running", "waiting_on_leases", "blocked", "completed"}
Json == [status : RunStatus, pending : BOOLEAN]   \* pending_wave_verification
PC == {"idle", "load", "save", "reconcile", "remove", "loop", "prepare",
       "work", "integrate", "settle", "derive"}

\* run: what it executes; mem: its run.json; done: tickets closed when it was loaded;
\* todo: cache entries to look at; stale: the one it removes; changed: the files each
\* ticket of the wave changed; failed: the wave blocks.
Idle == [pc |-> "idle", run |-> None, resumed |-> FALSE,
         mem |-> [status |-> "none", pending |-> FALSE], done |-> {},
         todo |-> {}, stale |-> None, wave |-> {}, going |-> {},
         changed |-> [t \in Ticket |-> {}], failed |-> FALSE]

Init ==
    /\ lock = [r \in Run |-> None]
    /\ json = [r \in Run |-> Idle.mem]
    /\ snap = [t \in Ticket |-> "none"] /\ store = [t \in Ticket |-> "open"]
    /\ waiting = Waiting
    /\ claimed = {}
    /\ dirs = {} /\ trees = {} /\ joint = {}
    /\ proc = [p \in Proc |-> Idle]
    /\ reopening = None /\ reopened = {} /\ clashed = {}
    /\ starts = 0 /\ mishaps = 0 /\ reopens = 0

At(p, pc) == proc[p].pc = pc
Goto(p, pc) == proc' = [proc EXCEPT ![p].pc = pc]
Mishap == mishaps < MaxMishaps /\ mishaps' = mishaps + 1 /\ UNCHANGED << starts, reopens >>

Save(p, record) == json' = [json EXCEPT ![proc[p].run] = record]

\* The process's run is over: the lock goes and what it had in memory.
Leave(p) ==
    /\ lock' = [r \in Run |-> IF lock[r] = p THEN None ELSE lock[r]]
    /\ proc' = [proc EXCEPT ![p] = Idle]

\* updateRunStatusFromTickets; a ticket without a snapshot counts as running.
StatusFrom(r) ==
    IF \E t \in Tickets(r) : snap[t] = "blocked" THEN "blocked"
    ELSE IF \E t \in Tickets(r) : snap[t] # "closed" THEN "running"
    ELSE "completed"

-----------------------------------------------------------------------------
(* The start of a process *)

\* Mutant: the lock is taken from whoever holds it.
StartForced(p) ==
    /\ At(p, "idle") /\ starts < MaxStarts
    /\ \E r \in Run :
          /\ lock' = [lock EXCEPT ![r] = p]
          /\ proc' = [proc EXCEPT ![p].run = r,
                                  ![p].resumed = json[r].status # "none",
                                  ![p].pc = IF json[r].status = "none" THEN "reconcile"
                                                                       ELSE "load",
                                  ![p].todo = IF json[r].status = "none" THEN dirs ELSE {}]
    /\ starts' = starts + 1
    /\ UNCHANGED << files, cache, reopening, history, mishaps, reopens >>

\* RunEpic makes the run, ResumeRun finds it.  A process that is refused the lock
\* returns at once.
Start(p) ==
    /\ At(p, "idle") /\ starts < MaxStarts
    /\ \E r \in Run :
          /\ lock[r] = None
          /\ lock' = [lock EXCEPT ![r] = p]
          /\ proc' = [proc EXCEPT ![p].run = r,
                                  ![p].resumed = json[r].status # "none",
                                  ![p].pc = IF json[r].status = "none" THEN "reconcile"
                                                                       ELSE "load",
                                  ![p].todo = IF json[r].status = "none" THEN dirs ELSE {}]
    /\ starts' = starts + 1
    /\ UNCHANGED << files, cache, reopening, history, mishaps, reopens >>

\* ResumeRun loads the artifacts and derives the status.
Load(p) ==
    /\ At(p, "load")
    /\ LET r == proc[p].run IN
          proc' = [proc EXCEPT ![p].mem = [json[r] EXCEPT !.status = StatusFrom(r)],
                               ![p].done = {t \in Tickets(r) : snap[t] = "closed"},
                               ![p].pc = "save"]
    /\ UNCHANGED << lock, files, cache, reopening, history, bounds >>

\* It saves run.json and goes on unless the run is over.
SaveResumed(p) ==
    /\ At(p, "save")
    /\ Save(p, proc[p].mem)
    /\ IF proc[p].mem.pending \/ proc[p].mem.status \in {"running", "blocked"}
       THEN /\ proc' = [proc EXCEPT ![p].pc = "reconcile", ![p].todo = dirs]
            /\ UNCHANGED lock
       ELSE Leave(p)
    /\ UNCHANGED << snap, store, waiting, claimed, cache, reopening, history,
                    bounds >>

\* RunEpic writes run.json, and its quality gate may block the run.  Resume releases
\* the claims and makes the tickets ready that it saw not closed.
Begin(p) ==
    /\ At(p, "reconcile") /\ proc[p].todo = {}
    /\ IF proc[p].resumed
       THEN LET open == Tickets(proc[p].run) \ proc[p].done IN
            /\ claimed' = claimed \ open
            /\ store' = [t \in Ticket |-> IF t \in open THEN "open" ELSE store[t]]
            /\ proc' = [proc EXCEPT ![p].done = {}, ![p].pc = "loop"]
            /\ UNCHANGED << json, lock >>
       ELSE /\ \/ /\ Save(p, [status |-> "running", pending |-> FALSE])
                  /\ proc' = [proc EXCEPT ![p].mem.status = "running", ![p].pc = "loop"]
                  /\ UNCHANGED lock
               \/ /\ Save(p, [status |-> "blocked", pending |-> FALSE])
                  /\ Leave(p)
            /\ UNCHANGED << claimed, store >>
    /\ UNCHANGED << snap, waiting, cache, reopening, history, bounds >>

-----------------------------------------------------------------------------
(* ReconcileWorktrees: entries of the cache, of any run, without its lock *)

\* Mutant: a blocked run is taken to be over.
RunIsActiveUnlessBlocked(r) ==
    \/ json[r].pending
    \/ json[r].status \in {"running", "waiting_on_leases"}
    \/ \E t \in Tickets(r) : t \in claimed

\* Its status, its pending wave or a claim of its in force says so.
RunIsActive(r) ==
    \/ json[r].pending
    \/ json[r].status \in {"running", "waiting_on_leases", "blocked"}
    \/ \E t \in Tickets(r) : t \in claimed

Look(p) ==
    /\ At(p, "reconcile")
    /\ \E r \in proc[p].todo :
          proc' = [proc EXCEPT ![p].todo = @ \ {r},
                               ![p].stale = IF RunIsActive(r) THEN None ELSE r,
                               ![p].pc = IF RunIsActive(r) THEN "reconcile" ELSE "remove"]
    /\ UNCHANGED << lock, files, cache, reopening, history, bounds >>

\* os.RemoveAll, whose failure is only logged.
RemoveStale(p) ==
    /\ At(p, "remove")
    /\ \/ /\ dirs' = dirs \ {proc[p].stale}
          /\ trees' = trees \ Tickets(proc[p].stale)
          /\ joint' = joint \ {proc[p].stale}
          /\ UNCHANGED bounds
       \/ Mishap /\ UNCHANGED cache
    /\ proc' = [proc EXCEPT ![p].stale = None, ![p].pc = "reconcile"]
    /\ UNCHANGED << lock, files, reopening, history >>

-----------------------------------------------------------------------------
(* The wave loop *)

\* Mutant: a blocked ticket is scheduled again.
ReadyThoughBlocked(r) ==
    {t \in Tickets(r) : store[t] # "closed" /\ t \notin waiting}

\* ListReadyChildren.
Ready(r) == {t \in Tickets(r) : store[t] = "open" /\ t \notin waiting}

\* epicCompletionStatus.
CompletionStatus(r) ==
    IF \E t \in Tickets(r) : store[t] = "blocked" THEN "blocked"
    ELSE IF \E t \in Tickets(r) : store[t] # "closed" THEN "waiting_on_leases"
    ELSE "completed"

\* A pending wave comes first; its integration worktree is made again if it is gone.
TakeUp(p) ==
    /\ At(p, "loop") /\ proc[p].mem.pending
    /\ joint' = joint \cup {proc[p].run} /\ dirs' = dirs \cup {proc[p].run}
    /\ Goto(p, "integrate")
    /\ UNCHANGED << lock, files, trees, reopening, history, bounds >>

\* No ticket is ready.
Finish(p) ==
    /\ At(p, "loop") /\ ~proc[p].mem.pending /\ Ready(proc[p].run) = {}
    /\ Save(p, [proc[p].mem EXCEPT !.status = CompletionStatus(proc[p].run)])
    /\ IF proc[p].resumed THEN Goto(p, "derive") /\ UNCHANGED lock ELSE Leave(p)
    /\ UNCHANGED << snap, store, waiting, claimed, cache, reopening, history,
                    bounds >>

\* The main tree is not the wave's base: the run is blocked.
DirtyMain(p) ==
    /\ At(p, "loop") /\ ~proc[p].mem.pending /\ Ready(proc[p].run) # {}
    /\ Mishap
    /\ Save(p, [proc[p].mem EXCEPT !.status = "blocked"])
    /\ Leave(p)
    /\ UNCHANGED << snap, store, waiting, claimed, cache, reopening, history >>

\* The wave is in run.json before its worktrees exist.
Schedule(p) ==
    /\ At(p, "loop") /\ ~proc[p].mem.pending /\ Ready(proc[p].run) # {}
    /\ LET r == proc[p].run
           wave == BuildWave(Children[r], Ready(r), Scope, MaxConcurrency)
       IN proc' = [proc EXCEPT ![p].wave = wave, ![p].going = wave, ![p].pc = "prepare"]
    /\ Save(p, proc[p].mem)
    /\ UNCHANGED << lock, snap, store, waiting, claimed, cache, reopening,
                    history, bounds >>

\* prepareWaveWorktrees, each made again if it exists; then all tickets start, each
\* with a claim.  If one worktree cannot be made, those made before it are removed.
Prepare(p) ==
    /\ At(p, "prepare")
    /\ dirs' = dirs \cup {proc[p].run}
    /\ \/ /\ trees' = trees \cup proc[p].wave
          /\ claimed' = claimed \cup proc[p].wave
          /\ snap' = [t \in Ticket |-> IF t \in proc[p].wave THEN "implement" ELSE snap[t]]
          /\ Goto(p, "work")
          /\ UNCHANGED << lock, bounds >>
       \/ /\ Mishap
          /\ \E made \in SUBSET proc[p].wave : trees' = trees \ made
          /\ Leave(p)
          /\ UNCHANGED << claimed, snap >>
    /\ UNCHANGED << json, store, waiting, joint, reopening, history >>

\* st.releaseClaim, which may fail.
ReleaseClaim(t) ==
    \/ claimed' = claimed \ {t} /\ UNCHANGED bounds
    \/ Mishap /\ UNCHANGED claimed

\* A ticket of the wave is no longer run; its worker has changed some files.
Ends(p, t) ==
    \E f \in Edits[t] :
        proc' = [proc EXCEPT ![p].going = @ \ {t}, ![p].changed[t] = f]

\* A ticket ends closed or blocked.
TicketEnds(p) ==
    /\ At(p, "work")
    /\ \E t \in proc[p].going :
          /\ Ends(p, t)
          /\ \E end \in {"closed", "blocked"} :
                /\ snap' = [snap EXCEPT ![t] = end]
                /\ store' = [store EXCEPT ![t] = end]
          /\ ReleaseClaim(t)
    /\ UNCHANGED << lock, json, waiting, cache, reopening, history >>

\* It ends in an error that leaves it open, or sets it back to that, however often it
\* has been scheduled again.
TicketErrs(p) ==
    /\ At(p, "work")
    /\ \E t \in proc[p].going :
          /\ Ends(p, t)
          /\ store' = [store EXCEPT ![t] = "open"]
          /\ ReleaseClaim(t)
    /\ UNCHANGED << lock, json, snap, waiting, cache, reopening, history >>

Ended(p) == At(p, "work") /\ proc[p].going = {}
Closed(p) == {t \in proc[p].wave : snap[t] = "closed"}
Clash(p) == Conflicts(Closed(p), proc[p].changed) # {}
InTheirScopes(p) == AcceptWave(proc[p].wave, proc[p].changed, Scope)

\* CleanupAll and the integration's Cleanup.
Cleanup(p) == trees' = trees \ proc[p].wave /\ joint' = joint \ {proc[p].run}

\* Nothing of the wave is accepted: nothing was closed, closed tickets changed the
\* same file, or AcceptWave failed, with which a resume returns.
NotAccepted(p) ==
    /\ Ended(p)
    /\ Closed(p) = {} \/ Clash(p) \/ ~InTheirScopes(p)
    /\ clashed' = IF Clash(p) THEN clashed \cup {proc[p].run} ELSE clashed
    /\ IF proc[p].resumed /\ ~InTheirScopes(p)
       THEN /\ Save(p, [proc[p].mem EXCEPT !.status = "blocked"])
            /\ Cleanup(p) /\ Leave(p)
       ELSE /\ proc' = [proc EXCEPT ![p].changed = Idle.changed,
                                    ![p].failed = TRUE, ![p].pc = "settle"]
            /\ UNCHANGED << lock, json, trees, joint >>
    /\ UNCHANGED << snap, store, waiting, claimed, dirs, reopening, reopened,
                    bounds >>

\* The closed tickets are applied in the integration worktree, then announced.
Announce(p) ==
    /\ Ended(p) /\ Closed(p) # {} /\ ~Clash(p) /\ InTheirScopes(p)
    /\ joint' = joint \cup {proc[p].run} /\ dirs' = dirs \cup {proc[p].run}
    /\ Save(p, [proc[p].mem EXCEPT !.pending = TRUE])
    /\ proc' = [proc EXCEPT ![p].mem.pending = TRUE, ![p].pc = "integrate",
                            ![p].changed = Idle.changed,
                            ![p].failed = Closed(p) # proc[p].wave]
    /\ UNCHANGED << lock, snap, store, waiting, claimed, trees, reopening,
                    history, bounds >>

\* The wave is verified and in the main tree.
Integrate(p) ==
    /\ At(p, "integrate")
    /\ Save(p, [proc[p].mem EXCEPT !.pending = FALSE])
    /\ proc' = [proc EXCEPT ![p].mem.pending = FALSE, ![p].pc = "settle"]
    /\ UNCHANGED << lock, snap, store, waiting, claimed, cache, reopening,
                    history, bounds >>

\* Its checks fail and the announcement is withdrawn, or the last writes fail and it
\* stays.  RunEpic leaves the status then as it is; resume blocks the run only for a
\* wave it took up.
IntegrationFails(p) ==
    /\ At(p, "integrate")
    /\ \/ Save(p, [status |-> "blocked", pending |-> FALSE]) /\ UNCHANGED bounds
       \/ /\ Mishap
          /\ Save(p, IF proc[p].wave = {} THEN [status |-> "blocked", pending |-> TRUE]
                                          ELSE proc[p].mem)
    /\ Cleanup(p) /\ Leave(p)
    /\ UNCHANGED << snap, store, waiting, claimed, dirs, reopening, history >>

\* The wave is over.  RunEpic returns if it blocks, resume goes on all the same.
Settle(p) ==
    /\ At(p, "settle")
    /\ Cleanup(p)
    /\ LET mem == [proc[p].mem EXCEPT !.status = IF proc[p].failed THEN "blocked" ELSE @]
       IN /\ Save(p, mem)
          /\ IF proc[p].failed /\ ~proc[p].resumed
             THEN Leave(p)
             ELSE /\ proc' = [proc EXCEPT ![p].mem = mem, ![p].wave = {},
                                          ![p].failed = FALSE, ![p].pc = "loop"]
                  /\ UNCHANGED lock
    /\ UNCHANGED << snap, store, waiting, claimed, dirs, reopening, history,
                    bounds >>

\* The end of ResumeRun: the status again, from the snapshots on disk.
Derive(p) ==
    /\ At(p, "derive")
    /\ Save(p, [proc[p].mem EXCEPT !.status = StatusFrom(proc[p].run)])
    /\ Leave(p)
    /\ UNCHANGED << snap, store, waiting, claimed, cache, reopening, history,
                    bounds >>

-----------------------------------------------------------------------------
(* Others *)

\* The system releases the lock; worktrees and claims stay.
Crash(p) ==
    /\ ~At(p, "idle")
    /\ Mishap
    /\ Leave(p)
    /\ UNCHANGED << files, cache, reopening, history >>

AtWork(t) == \E p \in Proc : At(p, "work") /\ t \in proc[p].going

\* A claim nobody renews expires.
Expire ==
    /\ \E t \in claimed : ~AtWork(t) /\ claimed' = claimed \ {t}
    /\ UNCHANGED << lock, json, snap, store, waiting, cache, proc, reopening,
                    history, bounds >>

DependencyCloses ==
    /\ \E t \in waiting : waiting' = waiting \ {t}
    /\ UNCHANGED << lock, json, snap, store, claimed, cache, proc, reopening,
                    history, bounds >>

\* ReopenTicket, without the run's lock: the snapshot of a blocked or closed ticket,
\* and run.json as it was read with the status derived from the snapshots.
Reopen ==
    /\ reopening = None /\ reopens < MaxReopens
    /\ \E t \in Ticket :
          LET r == RunOf(t)
              blocked == \E u \in Tickets(r) \ {t} : snap[u] = "blocked"
          IN /\ snap[t] \in {"blocked", "closed"}
             /\ snap' = [snap EXCEPT ![t] = "implement"]
             /\ reopening' = [ticket |-> t,
                              json |-> [json[r] EXCEPT !.status =
                                           IF blocked THEN "blocked" ELSE "running"]]
             /\ reopened' = reopened \cup {r}
             /\ clashed' = clashed \ {r}
    /\ reopens' = reopens + 1
    /\ UNCHANGED << lock, json, store, waiting, claimed, cache, proc, starts,
                    mishaps >>

\* ... then run.json and the ticket store.
ReopenWrites ==
    /\ reopening # None
    /\ json' = [json EXCEPT ![RunOf(reopening.ticket)] = reopening.json]
    /\ store' = [store EXCEPT ![reopening.ticket] = "open"]
    /\ reopening' = None
    /\ UNCHANGED << lock, snap, waiting, claimed, cache, proc, history, bounds >>

Step(p) ==
    \/ Load(p) \/ SaveResumed(p) \/ Begin(p) \/ Look(p) \/ RemoveStale(p)
    \/ TakeUp(p) \/ Finish(p) \/ DirtyMain(p) \/ Schedule(p) \/ Prepare(p)
    \/ TicketEnds(p) \/ TicketErrs(p) \/ NotAccepted(p) \/ Announce(p) \/ Integrate(p)
    \/ IntegrationFails(p) \/ Settle(p) \/ Derive(p)

Next ==
    \/ \E p \in Proc : Start(p) \/ Step(p) \/ Crash(p)
    \/ Expire \/ DependencyCloses \/ Reopen \/ ReopenWrites

Spec == Init /\ [][Next]_vars

\* A process that was started goes on; an agent's call ends (its timeout sees to it).
FairSpec == Spec /\ \A p \in Proc : WF_vars(Step(p))

-----------------------------------------------------------------------------
(* Properties *)

\* Every record keeps its shape, starts, mishaps and reopenings stay in bounds, and a
\* process that executes a run holds its lock (AcquireRunLock).
TypeOK ==
    /\ lock \in [Run -> Proc \cup {None}]
    /\ json \in [Run -> Json]
    /\ snap \in [Ticket -> {"none", "implement", "blocked", "closed"}]
    /\ store \in [Ticket -> {"open", "blocked", "closed"}]
    /\ waiting \subseteq Ticket /\ claimed \subseteq Ticket
    /\ dirs \subseteq Run /\ trees \subseteq Ticket /\ joint \subseteq Run
    /\ \A p \in Proc :
          /\ proc[p].pc \in PC /\ proc[p].mem \in Json
          /\ proc[p].run = None \/ lock[proc[p].run] = p
          /\ proc[p].run \in Run \cup {None} /\ proc[p].stale \in Run \cup {None}
          /\ proc[p].going \subseteq proc[p].wave
          /\ \A t \in Ticket : proc[p].changed[t] \in Edits[t] \cup {{}}
          /\ Cardinality(proc[p].wave) <= MaxConcurrency
    /\ starts <= MaxStarts /\ mishaps <= MaxMishaps /\ reopens <= MaxReopens

\* No worktree is taken from under the ticket that runs in it, nor the integration
\* worktree from under a wave being integrated, by the reconciliation of any process
\* (ReconcileWorktrees, runIsActive) -- unless the run was reopened: a process that
\* saw it completed may remove what a resume has made since.
WorktreeKept ==
    \A p \in Proc : proc[p].run \notin reopened =>
        /\ At(p, "work") => proc[p].wave \subseteq trees
        /\ At(p, "integrate") => proc[p].run \in joint

\* Tickets that all stayed in the scopes they declare never conflict: BuildWave does
\* not put two in one wave that could.
ScopesKeepApart ==
    \A p \in Proc : Ended(p) =>
        \/ ~Clash(p)
        \/ \E t \in Closed(p) : \E f \in proc[p].changed[t] :
              \A s \in Scope[t] : ~IsPrefix(s, f)

\* Unless tickets err again and again, every process comes to its end, whatever it finds
\* in the cache and the store: once no more are started, none is left.  (A resume runs an
\* erring ticket again each time, resume.go:660, 813: without the first disjunct this is
\* false.)
ProcessEnds ==
    \/ []<><<\E p \in Proc : TicketErrs(p)>>_vars
    \/ <>[](\A p \in Proc : At(p, "idle"))

\* A run whose tickets changed the same file is not completed without one of them
\* being reopened, since no work of theirs is in the main tree.
ConflictBlocks == \A r \in clashed : json[r].status # "completed"
=============================================================================
