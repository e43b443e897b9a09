-------------------------- MODULE WorktreesProofs ---------------------------
(***************************************************************************)
(* Proofs about Worktrees and WaveScheduler, for every number of processes, *)
(* runs and tickets, all scopes and all bounds.                             *)
(***************************************************************************)
EXTENDS Worktrees, FiniteSetTheorems, WellFoundedInduction, TLAPS

\* No two of the tickets may touch the same path, going by the scopes they declare.
Apart(wave) ==
    \A t, u \in wave : t # u => ~OverlapsAny(Scope[t], Scope[u])
-----------------------------------------------------------------------------
(* What the scheduler selects *)

\* Of numbers there is a least.
LEMMA Least ==
  ASSUME NEW S \in SUBSET Nat, S # {}
  PROVE  \E m \in S : \A k \in S : ~(k < m)
<1>1. PICK m \in S : \A k \in S : ~(<< k, m >> \in OpToRel(<, Nat))
  BY NatLessThanWellFounded, WFMin
<1> QED
  BY <1>1 DEF OpToRel

\* Paths that overlap do so whichever is looked at first.
LEMMA OverlapsSymmetric ==
  ASSUME NEW A, NEW B PROVE OverlapsAny(A, B) <=> OverlapsAny(B, A)
  BY DEF OverlapsAny, PathsOverlap

\* Of two directories above one file, one is above the other.
LEMMA PrefixesOverlap ==
  ASSUME NEW a \in Seq(Segment), NEW b \in Seq(Segment), NEW f \in Seq(Segment),
         IsPrefix(a, f), IsPrefix(b, f)
  PROVE  PathsOverlap(a, b)
<1>1. /\ Len(a) \in Nat /\ Len(b) \in Nat /\ Len(a) <= Len(f) /\ Len(b) <= Len(f)
      /\ \A i \in 1 .. Len(a) : a[i] = f[i]
      /\ \A i \in 1 .. Len(b) : b[i] = f[i]
  BY DEF IsPrefix
<1>2. ASSUME NEW x \in Seq(Segment), NEW y \in Seq(Segment), Len(x) <= Len(y),
             \A i \in 1 .. Len(x) : x[i] = y[i]
      PROVE  IsPrefix(x, y)
  BY <1>2 DEF IsPrefix
<1> QED
  BY <1>1, <1>2 DEF PathsOverlap

\* Why BuildWave passes over a ticket, given what it has selected before.
PassedOver(wave, t, ready, limit) ==
    \/ t \notin ready
    \/ Cardinality(wave) >= limit
    \/ OverlapsAny(Scope[t], UNION {Scope[u] : u \in wave})
Select(wave, t, ready, limit) ==
    IF PassedOver(wave, t, ready, limit) THEN wave ELSE wave \cup {t}

\* What BuildWave has selected after each of the children.
IsSelection(selected, children, ready, limit) ==
    /\ selected[0] = {}
    /\ \A n \in 1 .. Len(children) :
          selected[n] = Select(selected[n - 1], children[n], ready, limit)
    /\ BuildWave(children, ready, Scope, limit) = selected[Len(children)]

\* BuildWave goes through the children one after the other.
LEMMA OneByOne ==
  ASSUME NEW children \in Seq(Ticket), NEW ready, NEW limit
  PROVE  \E selected : IsSelection(selected, children, ready, limit)
<1> DEFINE Passed(wave, t) ==
              \/ t \notin ready
              \/ Cardinality(wave) >= limit
              \/ OverlapsAny(Scope[t], UNION {Scope[u] : u \in wave})
           Add(wave, t) == IF Passed(wave, t) THEN wave ELSE wave \cup {t}
           Fold(f, n) == f = [i \in 0 .. n |-> IF i = 0 THEN {}
                                               ELSE Add(f[i - 1], children[i])]
           L == Len(children)
           selected[n \in 0 .. L] ==
              IF n = 0 THEN {}
              ELSE IF Passed(selected[n - 1], children[n]) THEN selected[n - 1]
                   ELSE selected[n - 1] \cup {children[n]}
<1>1. L \in Nat
  OBVIOUS
<1>2. \E f : Fold(f, L)
  <2> DEFINE Bad == {n \in 0 .. L : ~ \E f : Fold(f, n)}
  <2> SUFFICES ASSUME Bad # {} PROVE FALSE
    BY <1>1
  <2>1. PICK m \in Bad : \A k \in Bad : ~(k < m)
    <3> HIDE DEF Bad
    <3>1. Bad \subseteq Nat
      BY DEF Bad
    <3> QED
      BY <3>1, Least
  <2> HIDE DEF Add, L
  <2>2. CASE m = 0
    <3>1. Fold([i \in 0 .. 0 |-> {}], 0)
      OBVIOUS
    <3> QED
      BY <2>2, <3>1
  <2>3. CASE m # 0
    <3>1. m \in Nat /\ m - 1 \in 0 .. L /\ m - 1 < m
      BY <2>3, <1>1
    <3>2. PICK g : Fold(g, m - 1)
      BY <2>1, <3>1
    <3> DEFINE h == [i \in 0 .. m |-> IF i = m THEN Add(g[m - 1], children[m])
                                      ELSE g[i]]
    <3>3. ASSUME NEW i \in 0 .. m
          PROVE  h[i] = IF i = 0 THEN {} ELSE Add(h[i - 1], children[i])
      <4>1. CASE i = m
        BY <2>3, <3>1, <4>1
      <4>2. CASE i # m
        <5>1. i \in 0 .. m - 1 /\ (i # 0 => i - 1 \in 0 .. m - 1 /\ i - 1 # m)
          BY <3>1, <4>2
        <5>2. h[i] = g[i] /\ (i # 0 => h[i - 1] = g[i - 1])
          BY <3>1, <4>2, <5>1
        <5>3. g[i] = IF i = 0 THEN {} ELSE Add(g[i - 1], children[i])
          BY <3>2, <5>1
        <5> QED
          BY <5>2, <5>3
      <4> QED
        BY <4>1, <4>2
    <3>4. Fold(h, m)
      BY <3>3
    <3> QED
      BY <3>4
  <2> QED
    BY <2>2, <2>3
<1>3. selected = [n \in 0 .. L |->
                     IF n = 0 THEN {}
                     ELSE IF Passed(selected[n - 1], children[n]) THEN selected[n - 1]
                          ELSE selected[n - 1] \cup {children[n]}]
  <2> HIDE DEF Passed, L
  <2> QED
    BY <1>2
<1>4. \A n \in 0 .. L : selected[n] = IF n = 0 THEN {}
                                      ELSE Add(selected[n - 1], children[n])
  <2> HIDE DEF Passed, L, selected
  <2> QED
    BY <1>3
<1>5. BuildWave(children, ready, Scope, limit) = selected[L]
  BY DEF BuildWave
<1> HIDE DEF selected, L
<1>6. \A wave, t : Add(wave, t) = Select(wave, t, ready, limit)
  BY DEF Select, PassedOver
<1> HIDE DEF Add
<1>7. selected[0] = {}
  BY <1>1, <1>4
<1>8. \A n \in 1 .. L : selected[n] = Select(selected[n - 1], children[n], ready, limit)
  BY <1>1, <1>4, <1>6
<1> QED
  BY <1>5, <1>7, <1>8 DEF L, IsSelection

\* BuildWave selects ready children, at most as many as the limit says and none that
\* may touch the paths of another.  It is greedy: a ready child that is left out is so
\* because the wave is full or because it may touch the paths of one in it.
THEOREM Selection ==
  ASSUME NEW children \in Seq(Ticket), NEW ready \in SUBSET ToSet(children),
         NEW limit \in Nat
  PROVE  LET wave == BuildWave(children, ready, Scope, limit)
         IN  /\ wave \subseteq ready
             /\ IsFiniteSet(wave) /\ Cardinality(wave) <= limit
             /\ Apart(wave)
             /\ \A t \in ready \ wave :
                   \/ Cardinality(wave) = limit
                   \/ \E u \in wave : OverlapsAny(Scope[t], Scope[u])
<1> DEFINE L == Len(children)
           Out(wave, t) == \/ t \notin ready
                           \/ Cardinality(wave) = limit
                           \/ \E u \in wave : OverlapsAny(Scope[t], Scope[u])
           Fine(wave, n) == /\ wave \subseteq ready
                            /\ IsFiniteSet(wave) /\ Cardinality(wave) <= limit
                            /\ Apart(wave)
                            /\ \A i \in 1 .. n :
                                  children[i] \in wave \/ Out(wave, children[i])
<1>1. L \in Nat
  OBVIOUS
<1>2. PICK selected : IsSelection(selected, children, ready, limit)
  BY OneByOne
<1>3. /\ selected[0] = {}
      /\ \A n \in 1 .. L :
            selected[n] = Select(selected[n - 1], children[n], ready, limit)
      /\ BuildWave(children, ready, Scope, limit) = selected[L]
  BY <1>2 DEF IsSelection
<1> HIDE DEF L
<1>4. ASSUME NEW wave, NEW n \in 1 .. L, Fine(wave, n - 1)
      PROVE  Fine(Select(wave, children[n], ready, limit), n)
  <2> DEFINE t == children[n]
  <2>1. Cardinality(wave) \in Nat /\ n \in Nat
        /\ \A i \in 1 .. n : i = n \/ i \in 1 .. n - 1
    BY <1>1, <1>4, FS_CardinalityType
  <2>2. PassedOver(wave, t, ready, limit) <=>
           t \notin ready \/ Cardinality(wave) = limit
              \/ \E u \in wave : OverlapsAny(Scope[t], Scope[u])
    <3>1. OverlapsAny(Scope[t], UNION {Scope[u] : u \in wave}) <=>
             \E u \in wave : OverlapsAny(Scope[t], Scope[u])
      BY DEF OverlapsAny
    <3>2. Cardinality(wave) >= limit <=> Cardinality(wave) = limit
      BY <1>4, <2>1
    <3> QED
      BY <3>1, <3>2 DEF PassedOver
  <2>3. CASE PassedOver(wave, t, ready, limit)
    <3>1. Select(wave, t, ready, limit) = wave
      BY <2>3 DEF Select
    <3>2. Out(wave, t)
      BY <2>2, <2>3
    <3> QED
      BY <1>4, <2>1, <3>1, <3>2
  <2>4. CASE ~PassedOver(wave, t, ready, limit)
    <3> DEFINE more == wave \cup {t}
    <3>1. Select(wave, t, ready, limit) = more
      BY <2>4 DEF Select
    <3>2. t \in ready /\ Cardinality(wave) < limit
          /\ \A u \in wave : ~OverlapsAny(Scope[t], Scope[u])
      BY <1>4, <2>1, <2>2, <2>4
    <3>3. /\ IsFiniteSet(more)
          /\ Cardinality(more) \in {Cardinality(wave), Cardinality(wave) + 1}
      BY <1>4, FS_AddElement
    <3>4. Cardinality(more) <= limit
      BY <2>1, <3>2, <3>3
    <3>5. Apart(more)
      BY <1>4, <3>2, OverlapsSymmetric DEF Apart
    <3>6. \A i \in 1 .. n : children[i] \in more \/ Out(more, children[i])
      <4>1. SUFFICES ASSUME NEW i \in 1 .. n - 1
                     PROVE  children[i] \in more \/ Out(more, children[i])
        BY <2>1
      <4>2. children[i] \in wave \/ Out(wave, children[i])
        BY <1>4
      <4> QED
        BY <3>2, <4>2
    <3> HIDE DEF more
    <3>7. more \subseteq ready
      BY <1>4, <3>2 DEF more
    <3> QED
      BY <3>1, <3>3, <3>4, <3>5, <3>6, <3>7
  <2> QED
    BY <2>3, <2>4
<1>5. Fine({}, 0)
  BY FS_EmptySet DEF Apart
<1>6. \A n \in 0 .. L : Fine(selected[n], n)
  <2> DEFINE Bad == {n \in 0 .. L : ~Fine(selected[n], n)}
  <2> HIDE DEF Fine
  <2> SUFFICES ASSUME Bad # {} PROVE FALSE
    OBVIOUS
  <2>1. PICK m \in Bad : \A k \in Bad : ~(k < m)
    <3> HIDE DEF Bad
    <3>1. Bad \subseteq Nat
      BY DEF Bad
    <3> QED
      BY <3>1, Least
  <2>2. CASE m = 0
    BY <1>3, <1>5, <2>1, <2>2
  <2>3. CASE m # 0
    <3>1. m \in 1 .. L /\ m - 1 \in 0 .. L /\ m - 1 < m
      BY <2>3, <1>1
    <3>2. Fine(selected[m - 1], m - 1)
      BY <2>1, <3>1
    <3> QED
      BY <1>3, <1>4, <2>1, <3>1, <3>2
  <2> QED
    BY <2>2, <2>3
<1>7. Fine(selected[L], L)
  BY <1>1, <1>6
<1>8. \A t \in ready : \E i \in 1 .. L : t = children[i]
  BY DEF ToSet, L
<1> QED
  BY <1>3, <1>7, <1>8

\* So BuildWave never fails for want of a ticket that fits: with a limit that is not
\* zero, its first ready ticket does.
THEOREM SomethingFits ==
  ASSUME NEW children \in Seq(Ticket), NEW ready \in SUBSET ToSet(children),
         NEW limit \in Nat \ {0}, ready # {}
  PROVE  BuildWave(children, ready, Scope, limit) # {}
<1> DEFINE wave == BuildWave(children, ready, Scope, limit)
<1> SUFFICES ASSUME wave = {} PROVE FALSE
  OBVIOUS
<1>1. \A t \in ready : Cardinality(wave) = limit
  BY Selection
<1>2. Cardinality(wave) = 0
  BY FS_EmptySet
<1> HIDE DEF wave
<1> QED
  BY <1>1, <1>2
-----------------------------------------------------------------------------
(* The invariant *)

\* The record of a process.
Process == [pc : PC, run : Run \cup {None}, resumed : BOOLEAN, mem : Json,
            done : SUBSET Ticket, todo : SUBSET Run, stale : Run \cup {None},
            wave : SUBSET Ticket, going : SUBSET Ticket,
            changed : [Ticket -> SUBSET Seq(Segment)], failed : BOOLEAN]

FileTypes ==
    /\ json \in [Run -> Json]
    /\ snap \in [Ticket -> {"none", "implement", "blocked", "closed"}]
    /\ store \in [Ticket -> {"open", "blocked", "closed"}]
    /\ waiting \subseteq Ticket /\ claimed \subseteq Ticket
    /\ dirs \subseteq Run /\ trees \subseteq Ticket /\ joint \subseteq Run
    /\ reopened \subseteq Run
Types ==
    /\ FileTypes
    /\ lock \in [Run -> Proc \cup {None}] /\ proc \in [Proc -> Process]
Bounded ==
    /\ starts \in 0 .. MaxStarts /\ mishaps \in 0 .. MaxMishaps
    /\ reopens \in 0 .. MaxReopens
\* A reopening under way is of a run that is known to be reopened.
Reopening ==
    reopening # None =>
        /\ reopening.ticket \in Ticket /\ RunOf(reopening.ticket) \in reopened
        /\ reopening.json \in Json /\ reopening.json.status # "none"

\* Every ticket of the run is closed, for its snapshot and for the ticket store.
AllClosed(r) == \A t \in Tickets(r) : snap[t] = "closed"
\* run.json says that the run is over.
Over(r) == json[r].status = "completed" /\ ~json[r].pending

\* What a process knows of itself, whoever reopens its tickets meanwhile.
Sane(p) ==
    LET s == proc[p] IN
    /\ s.pc = "idle" => s = Idle
    /\ s.pc # "idle" => s.run # None /\ lock[s.run] = p /\ s.wave \subseteq Tickets(s.run)
    /\ s.going \subseteq s.wave
    /\ s.pc = "remove" => s.stale # None
    /\ s.pc \notin {"prepare", "work"} => s.going = {}
    /\ IsFiniteSet(s.wave) /\ Cardinality(s.wave) <= MaxConcurrency /\ Apart(s.wave)
    /\ \A t \in Ticket : s.changed[t] \in Edits[t] \cup {{}}
Started(p) ==
    LET s == proc[p] IN
    /\ s.pc \notin {"idle", "reconcile", "remove"} => json[s.run].status # "none"
    /\ s.pc \notin {"idle", "load", "reconcile", "remove"} => s.mem.status # "none"
    /\ s.pc \in {"reconcile", "remove"} =>
          IF s.resumed THEN json[s.run].status # "none" /\ s.mem.status # "none"
          ELSE s.mem = Idle.mem
    /\ s.pc = "integrate" => s.mem.pending
    /\ s.pc \in {"prepare", "work", "derive"} => ~s.mem.pending
    /\ s.failed => s.pc \in {"integrate", "settle"}
    /\ s.pc \in {"load", "save"} => s.resumed

\* What it knows of its run as long as no ticket of it is reopened: what run.json
\* says, which tickets were closed when it was loaded, and which are open.
Knows(p) ==
    LET s == proc[p] IN
    \A r \in Run : r = s.run /\ r \notin reopened =>
        /\ s.pc \notin {"load", "save", "derive"} => json[r] = s.mem
        /\ s.pc = "save" => s.mem.pending = json[r].pending
        /\ s.pc = "save" /\ AllClosed(r) => s.mem.status = "completed"
        /\ s.pc # "load" /\ s.mem.status = "completed" => AllClosed(r)
        /\ s.pc \in {"reconcile", "remove"} =>
              s.mem.pending \/ s.mem.status # "completed"
        /\ s.pc \in {"prepare", "work"} => s.mem.status # "completed"
        /\ s.failed => s.mem.status # "completed"
        /\ s.pc = "save" \/ (s.pc \in {"reconcile", "remove"} /\ s.resumed) =>
              s.done = {t \in Tickets(r) : snap[t] = "closed"}
        /\ s.pc = "prepare" => \A t \in s.wave : store[t] = "open"
        /\ s.pc = "work" => \A t \in s.going : store[t] = "open"

\* What is so of a run no ticket of which is reopened.
Steady(r) ==
    r \notin reopened =>
        /\ \A t \in Tickets(r) : snap[t] = "closed" <=> store[t] = "closed"
        /\ json[r].status = "completed" => AllClosed(r)
        /\ json[r].status = "none" => ~json[r].pending

\* The cache has directories of runs that were begun, and a run whose directory is
\* removed is over for good, unless it is reopened.
Caches ==
    /\ \A r \in dirs : json[r].status # "none"
    /\ \A p \in Proc : \A r \in proc[p].todo : json[r].status # "none"
    /\ \A p \in Proc : \A r \in Run :
          r = proc[p].stale /\ r \notin reopened => Over(r)
Kept(p) ==
    proc[p].run \notin reopened =>
        /\ At(p, "work") => proc[p].wave \subseteq trees
        /\ At(p, "integrate") => proc[p].run \in joint

\* The inductive invariant.
IInv ==
    /\ Types /\ Bounded /\ Reopening /\ Caches
    /\ \A p \in Proc : Sane(p) /\ Started(p) /\ Knows(p) /\ Kept(p)
    /\ \A r \in Run : Steady(r)
-----------------------------------------------------------------------------
(* What the steps have in common *)

\* The assumption, in parts.
LEMMA Constants ==
    /\ Children \in [Run -> Seq(Ticket)]
    /\ Scope \in [Ticket -> SUBSET Seq(Segment)]
    /\ Edits \in [Ticket -> SUBSET SUBSET Seq(Segment)]
    /\ None \notin Run /\ None \notin Proc
    /\ MaxConcurrency \in Nat /\ MaxConcurrency # 0
    /\ MaxStarts \in Nat /\ MaxMishaps \in Nat /\ MaxReopens \in Nat
    /\ Waiting \subseteq Ticket
  BY WorktreesAssumption DEF WorktreesAssumption

\* Every ticket is one of exactly one run.
LEMMA Owners ==
    /\ \A r \in Run : Tickets(r) \subseteq Ticket
    /\ \A r, q \in Run : r # q => Tickets(r) \cap Tickets(q) = {}
    /\ \A t \in Ticket : RunOf(t) \in Run /\ t \in Tickets(RunOf(t))
    /\ \A r \in Run : \A t \in Tickets(r) : RunOf(t) = r
<1>1. \A r \in Run : Tickets(r) \subseteq Ticket
  BY Constants DEF Tickets, ToSet
<1>2. \A r, q \in Run : r # q => Tickets(r) \cap Tickets(q) = {}
  BY WorktreesAssumption DEF WorktreesAssumption, Tickets
<1>3. \A t \in Ticket : \E r \in Run : t \in Tickets(r)
  BY WorktreesAssumption DEF WorktreesAssumption, Tickets
<1>4. \A t \in Ticket : RunOf(t) \in Run /\ t \in Tickets(RunOf(t))
  BY <1>3 DEF RunOf
<1> QED
  BY <1>1, <1>2, <1>4

\* The record of a process that is not running.
LEMMA IdleFields ==
    /\ Idle \in Process
    /\ Idle.pc = "idle" /\ Idle.run = None /\ Idle.mem.status = "none"
    /\ ~Idle.mem.pending /\ Idle.mem \in Json /\ Idle.todo = {} /\ Idle.stale = None
    /\ Idle.wave = {} /\ Idle.going = {} /\ Idle.failed = FALSE
    /\ Idle.changed \in [Ticket -> SUBSET Seq(Segment)]
    /\ \A t \in Ticket : Idle.changed[t] = {}
  BY DEF Idle, Process, PC, Json, RunStatus

\* An idle process knows all it needs.
LEMMA IdleSane ==
  ASSUME NEW p \in Proc, proc[p] = Idle
  PROVE  Sane(p) /\ Started(p) /\ Knows(p) /\ Kept(p)
<1>1. Sane(p)
  BY IdleFields, Constants, FS_EmptySet DEF Sane, Apart
<1>2. Knows(p)
  BY IdleFields, Constants DEF Knows
<1> QED
  BY <1>1, <1>2, IdleFields DEF Started, Kept, At

\* So does one that has just ended.
LEMMA EndedSane ==
  ASSUME NEW p \in Proc, proc'[p] = Idle
  PROVE  Sane(p)' /\ Started(p)' /\ Knows(p)' /\ Kept(p)'
<1>1. Sane(p)'
  BY IdleFields, Constants, FS_EmptySet DEF Sane, Apart
<1>2. Knows(p)'
  BY IdleFields, Constants DEF Knows
<1> QED
  BY <1>1, <1>2, IdleFields DEF Started, Kept, At

\* A process that is up is the only one that executes its run.
LEMMA Busy ==
  ASSUME IInv, NEW p \in Proc, proc[p].pc # "idle"
  PROVE  /\ proc[p].run \in Run /\ proc[p].run # None /\ lock[proc[p].run] = p
         /\ \A q \in Proc \ {p} : proc[q].run # proc[p].run
<1>1. proc[p] \in Process /\ \A q \in Proc : proc[q] \in Process
  BY DEF IInv, Types
<1>2. proc[p].run \in Run /\ proc[p].run # None /\ lock[proc[p].run] = p
  BY <1>1 DEF IInv, Sane, Process
<1>3. ASSUME NEW q \in Proc \ {p}, proc[q].run = proc[p].run PROVE FALSE
  <2>1. proc[q].pc # "idle"
    BY <1>2, <1>3, IdleFields DEF IInv, Sane
  <2> QED
    BY <1>2, <1>3, <2>1 DEF IInv, Sane
<1> QED
  BY <1>2, <1>3

\* What a step of the process that executes r may touch: r's files and worktrees, with
\* which what is over stays over.
Frame(p, r) ==
    /\ \A s \in Run \ {r} : json'[s] = json[s]
    /\ \A t \in Ticket \ Tickets(r) : snap'[t] = snap[t] /\ store'[t] = store[t]
    /\ reopened' = reopened /\ reopening' = reopening
    /\ \/ trees \ Tickets(r) \subseteq trees' /\ joint \ {r} \subseteq joint'
       \/ \A q \in Proc \ {p} : Kept(q)'
    /\ json[r].status # "none" => json'[r].status # "none"
    /\ r \notin reopened /\ Over(r) => Over(r)'
    /\ dirs' \subseteq dirs \cup {r} /\ (r \in dirs' => json'[r].status # "none")
Alone(p, r) ==
    /\ Frame(p, r)
    /\ \A q \in Proc \ {p} : proc'[q] = proc[q] /\ proc[q].run # r
    /\ \A s \in Run \ {r} : lock[s] # p => lock'[s] = lock[s]
\* What the process itself must see to.
Own(p, r) ==
    /\ Sane(p)' /\ Started(p)' /\ Knows(p)' /\ Kept(p)' /\ Steady(r)'
    /\ proc'[p].todo \subseteq proc[p].todo \cup dirs
    /\ \A x \in Run : x = proc'[p].stale /\ x \notin reopened => Over(x)

\* The other processes know what they knew.
LEMMA OthersKnow ==
  ASSUME IInv, Types', NEW p \in Proc, NEW r \in Run, Alone(p, r),
         NEW q \in Proc \ {p}
  PROVE  Sane(q)' /\ Started(q)' /\ Knows(q)' /\ Kept(q)'
<1>1. CASE proc[q].pc = "idle"
  <2>1. proc'[q] = Idle
    BY <1>1 DEF IInv, Sane, Alone, Frame
  <2> QED
    BY <2>1, EndedSane
<1>2. CASE proc[q].pc # "idle"
  <2>1. PICK s \in Run : s = proc[q].run /\ s # r
    BY <1>2, Busy DEF Alone, Frame
  <2>2. /\ proc'[q] = proc[q] /\ json'[s] = json[s] /\ lock'[s] = lock[s]
        /\ reopened' = reopened
    BY <1>2, <2>1, Busy DEF Alone, Frame
  <2>3. Tickets(s) \subseteq Ticket \ Tickets(r)
    BY <2>1, Owners
  <2>4. \A t \in Tickets(s) : snap'[t] = snap[t] /\ store'[t] = store[t]
    BY <2>3 DEF Alone, Frame
  <2>5. AllClosed(s)' <=> AllClosed(s)
    BY <2>4 DEF AllClosed
  <2>6. Sane(q)'
    BY <2>1, <2>2 DEF IInv, Sane
  <2>7. Started(q)'
    BY <2>1, <2>2 DEF IInv, Started
  <2>8. proc[q].wave \subseteq Tickets(s) /\ proc[q].going \subseteq Tickets(s)
    BY <1>2, <2>1 DEF IInv, Sane
  <2>9. Knows(q)'
    <3>1. Knows(q)
      BY DEF IInv
    <3>2. s \notin reopened =>
             {t \in Tickets(s) : snap'[t] = "closed"} = {t \in Tickets(s) : snap[t] = "closed"}
      BY <2>4
    <3> QED
      BY <2>1, <2>2, <2>4, <2>5, <2>8, <3>1, <3>2 DEF Knows
  <2>10. CASE trees \ Tickets(r) \subseteq trees' /\ joint \ {r} \subseteq joint'
    <3>1. proc[q].wave \subseteq Ticket \ Tickets(r)
      BY <2>3, <2>8
    <3>2. proc[q].wave \subseteq trees => proc[q].wave \subseteq trees'
      BY <2>10, <3>1
    <3>3. s \in joint => s \in joint'
      BY <2>1, <2>10
    <3>4. Kept(q)'
      BY <2>1, <2>2, <3>2, <3>3 DEF IInv, Kept, At
    <3> QED
      BY <2>6, <2>7, <2>9, <3>4
  <2>11. CASE \A k \in Proc \ {p} : Kept(k)'
    BY <2>6, <2>7, <2>9, <2>11
  <2> QED
    BY <2>10, <2>11 DEF Alone, Frame
<1> QED
  BY <1>1, <1>2

\* A step of a process keeps the invariant if it does so for the process and its run.
LEMMA StepKeeps ==
  ASSUME IInv, Types', Bounded', NEW p \in Proc, NEW r \in Run, Alone(p, r), Own(p, r)
  PROVE  IInv'
<1>1. ASSUME NEW s \in Run \ {r} PROVE Steady(s)'
  <2>1. Tickets(s) \subseteq Ticket \ Tickets(r)
    BY Owners
  <2>2. \A t \in Tickets(s) : snap'[t] = snap[t] /\ store'[t] = store[t]
    BY <2>1 DEF Alone, Frame
  <2>3. json'[s] = json[s] /\ reopened' = reopened
    BY DEF Alone, Frame
  <2> QED
    BY <2>2, <2>3 DEF IInv, Steady, AllClosed
<1>2. \A s \in Run : json[s].status # "none" => json'[s].status # "none"
  BY DEF Alone, Frame
<1>3. \A s \in Run : s \notin reopened /\ Over(s) => Over(s)'
  <2>1. \A s \in Run \ {r} : Over(s)' <=> Over(s)
    BY DEF Alone, Frame, Over
  <2> QED
    BY <2>1 DEF Alone, Frame
<1>4. Caches'
  <2>1. \A q \in Proc : /\ proc[q].todo \subseteq Run /\ proc'[q].todo \subseteq Run
                        /\ proc[q].stale \in Run \cup {None}
    BY DEF IInv, Types, FileTypes, Process
  <2>2. \A s \in dirs' : json'[s].status # "none"
    <3>1. dirs \subseteq Run
      BY DEF IInv, Types, FileTypes
    <3> QED
      BY <1>2, <3>1 DEF IInv, Caches, Alone, Frame
  <2>3. \A q \in Proc : \A s \in proc'[q].todo : json'[s].status # "none"
    <3>1. ASSUME NEW q \in Proc, NEW s \in proc'[q].todo PROVE json[s].status # "none"
      <4>1. s \in proc[q].todo \/ s \in dirs
        BY DEF Alone, Frame, Own
      <4> QED
        BY <4>1 DEF IInv, Caches
    <3> QED
      BY <1>2, <2>1, <3>1
  <2>4. ASSUME NEW q \in Proc, NEW s \in Run, s = proc'[q].stale, s \notin reopened'
        PROVE  Over(s)'
    <3>1. s \notin reopened
      BY <2>4 DEF Alone, Frame
    <3>2. CASE q = p
      BY <1>3, <2>4, <3>1, <3>2 DEF Own
    <3>3. CASE q # p
      <4>1. s = proc[q].stale
        BY <2>4, <3>3 DEF Alone, Frame
      <4> QED
        BY <1>3, <3>1, <4>1 DEF IInv, Caches
    <3> QED
      BY <3>2, <3>3
  <2> QED
    BY <2>2, <2>3, <2>4 DEF Caches
<1>5. Reopening'
  BY DEF IInv, Reopening, Alone, Frame
<1>6. \A q \in Proc : Sane(q)' /\ Started(q)' /\ Knows(q)' /\ Kept(q)'
  BY OthersKnow DEF Own
<1>7. \A s \in Run : Steady(s)'
  BY <1>1 DEF Own
<1> QED
  BY <1>4, <1>5, <1>6, <1>7 DEF IInv

\* A step that touches no files that matter.
LEMMA Quiet ==
  ASSUME IInv, NEW p \in Proc, NEW r \in Run,
         UNCHANGED << json, snap, store, dirs, trees, joint, reopened, reopening >>
  PROVE  Frame(p, r) /\ Steady(r)'
<1>1. Frame(p, r)
  BY DEF Frame, Over, IInv, Caches
<1>2. Steady(r)'
  BY DEF IInv, Steady, AllClosed
<1> QED
  BY <1>1, <1>2

\* What a write of run.json does.
LEMMA Saved ==
  ASSUME IInv, NEW r \in Run, NEW m \in Json, json' = [json EXCEPT ![r] = m]
  PROVE  /\ json' \in [Run -> Json] /\ json'[r] = m
         /\ \A s \in Run \ {r} : json'[s] = json[s]
  BY DEF IInv, Types, FileTypes

\* A process that goes on with its run.
LEMMA GoesOn ==
  ASSUME IInv, FileTypes', Bounded', NEW p \in Proc, NEW r \in Run,
         r = proc[p].run, proc[p].pc # "idle", lock' = lock,
         proc' \in [Proc -> Process], \A q \in Proc \ {p} : proc'[q] = proc[q],
         Frame(p, r), Own(p, r)
  PROVE  IInv'
<1>1. Types'
  BY DEF IInv, Types
<1>2. Alone(p, r)
  BY Busy DEF Alone
<1> QED
  BY <1>1, <1>2, StepKeeps

\* One that leaves it.
LEMMA Leaves ==
  ASSUME IInv, FileTypes', Bounded', NEW p \in Proc, NEW r \in Run,
         r = proc[p].run, proc[p].pc # "idle", Leave(p), Frame(p, r), Steady(r)'
  PROVE  IInv'
<1>1. lock \in [Run -> Proc \cup {None}] /\ proc \in [Proc -> Process]
      /\ \A q \in Proc \ {p} : proc[q].run # r
  BY Busy DEF IInv, Types
<1>2. Types'
  BY <1>1, IdleFields DEF Leave, Types
<1>3. proc'[p] = Idle /\ \A q \in Proc \ {p} : proc'[q] = proc[q]
  BY <1>1 DEF Leave
<1>4. Alone(p, r)
  BY <1>1, <1>3 DEF Alone, Leave
<1>5. Own(p, r)
  BY <1>3, EndedSane, IdleFields, Constants DEF Own
<1> QED
  BY <1>2, <1>4, <1>5, StepKeeps

\* What it means that only one process changes.
LEMMA Moved ==
  ASSUME IInv, NEW p \in Proc, NEW s \in Process, proc' = [proc EXCEPT ![p] = s]
  PROVE  /\ proc' \in [Proc -> Process] /\ proc'[p] = s
         /\ \A q \in Proc \ {p} : proc'[q] = proc[q]
  BY DEF IInv, Types

\* A process that goes on with the wave it has.
LEMMA StillSane ==
  ASSUME NEW p \in Proc, Sane(p), proc[p].pc # "idle", UNCHANGED lock,
         proc'[p].pc # "idle", proc'[p].pc = "remove" => proc'[p].stale # None,
         proc[p].pc \in {"prepare", "work"} => proc'[p].pc \in {"prepare", "work"},
         proc'[p].run = proc[p].run,
         proc'[p].wave = proc[p].wave, proc'[p].going = proc[p].going,
         proc'[p].changed = proc[p].changed
  PROVE  Sane(p)'
  BY DEF Sane

-----------------------------------------------------------------------------
(* The start of a process *)

\* Who is started has the lock, and nobody else executes the run.
LEMMA StartKeeps ==
  ASSUME IInv, NEW p \in Proc, Start(p) PROVE IInv'
<1>1. PICK r \in Run :
        /\ lock[r] = None /\ lock' = [lock EXCEPT ![r] = p]
        /\ proc' = [proc EXCEPT ![p].run = r,
                                ![p].resumed = json[r].status # "none",
                                ![p].pc = IF json[r].status = "none" THEN "reconcile"
                                                                     ELSE "load",
                                ![p].todo = IF json[r].status = "none" THEN dirs ELSE {}]
  BY DEF Start
<1>2. proc[p] = Idle /\ proc \in [Proc -> Process] /\ lock \in [Run -> Proc \cup {None}]
      /\ dirs \subseteq Run
  BY DEF Start, At, IInv, Sane, Types, FileTypes
<1>3. /\ UNCHANGED << json, snap, store, waiting, claimed, dirs, trees, joint, reopening,
                      reopened, mishaps, reopens >>
      /\ starts < MaxStarts /\ starts' = starts + 1
  BY DEF Start, files, cache, history
<1>4. /\ proc'[p].run = r /\ proc'[p].resumed = (json[r].status # "none")
      /\ proc'[p].pc = (IF json[r].status = "none" THEN "reconcile" ELSE "load")
      /\ proc'[p].todo = (IF json[r].status = "none" THEN dirs ELSE {})
      /\ proc'[p].mem = Idle.mem /\ proc'[p].stale = None /\ proc'[p].wave = {}
      /\ proc'[p].going = {} /\ proc'[p].changed = Idle.changed /\ ~proc'[p].failed
      /\ \A q \in Proc \ {p} : proc'[q] = proc[q]
  BY <1>1, <1>2, IdleFields DEF Process
<1>5. proc' \in [Proc -> Process]
  <2> DEFINE x == json[r].status # "none"
             y == IF json[r].status = "none" THEN "reconcile" ELSE "load"
             z == IF json[r].status = "none" THEN dirs ELSE {}
  <2>1. x \in BOOLEAN /\ y \in PC /\ z \in SUBSET Run
    BY <1>2 DEF PC
  <2>2. proc' = [proc EXCEPT ![p].run = r, ![p].resumed = x, ![p].pc = y, ![p].todo = z]
    BY <1>1
  <2> HIDE DEF x, y, z
  <2>3. proc'[p] = [proc[p] EXCEPT !.run = r, !.resumed = x, !.pc = y, !.todo = z]
    BY <1>2, <2>2
  <2>4. proc[p] \in Process
    BY <1>2
  <2>5. proc'[p] \in Process
    BY <2>1, <2>3, <2>4 DEF Process
  <2> QED
    BY <1>2, <2>2, <2>5
<1>6. Types' /\ Bounded'
  <2>1. lock' \in [Run -> Proc \cup {None}]
    BY <1>1, <1>2
  <2>2. starts' \in 0 .. MaxStarts
    BY <1>3, Constants DEF IInv, Bounded
  <2> QED
    BY <1>3, <1>5, <2>1, <2>2 DEF IInv, Types, FileTypes, Bounded
<1>7. lock'[r] = p /\ \A s \in Run \ {r} : lock'[s] = lock[s]
  BY <1>1, <1>2
<1>8. \A q \in Proc \ {p} : proc[q].run # r
  <2>1. \A q \in Proc : proc[q].run = r => proc[q].pc # "idle" /\ lock[r] = q
    BY IdleFields, Constants DEF IInv, Sane
  <2> QED
    BY <1>1, <2>1, Constants
<1>9. Alone(p, r)
  BY <1>3, <1>4, <1>7, <1>8 DEF Alone, Frame, Over, IInv, Caches
<1>10. Sane(p)' /\ Started(p)' /\ Kept(p)'
  <2>1. Sane(p)'
    BY <1>4, <1>7, IdleFields, Constants, FS_EmptySet DEF Sane, Apart
  <2>2. Started(p)' /\ Kept(p)'
    BY <1>3, <1>4, IdleFields DEF Started, Kept, At
  <2> QED
    BY <2>1, <2>2
<1>11. Steady(r)'
  BY <1>3 DEF IInv, Steady, AllClosed
<1>12. Knows(p)'
  <2>1. r \notin reopened /\ json[r].status = "none" => json[r] = Idle.mem
    <3>1. json[r] \in Json
      BY DEF IInv, Types, FileTypes
    <3>2. r \notin reopened /\ json[r].status = "none" => ~json[r].pending
      BY DEF IInv, Steady
    <3> QED
      BY <3>1, <3>2, IdleFields DEF Json
  <2> QED
    BY <1>3, <1>4, <2>1, IdleFields DEF Knows
<1>13. Own(p, r)
  BY <1>4, <1>10, <1>11, <1>12, Constants DEF Own
<1> QED
  BY <1>6, <1>9, <1>13, StepKeeps

\* The status that the snapshots give: completed if all are closed.
LEMMA Statuses ==
  ASSUME FileTypes, NEW r \in Run
  PROVE  /\ StatusFrom(r) \in {"blocked", "running", "completed"}
         /\ StatusFrom(r) = "completed" <=> AllClosed(r)
  BY DEF StatusFrom, AllClosed

LEMMA LoadKeeps ==
  ASSUME IInv, NEW p \in Proc, Load(p) PROVE IInv'
<1>1. PICK r \in Run : r = proc[p].run /\ proc[p].pc = "load" /\ lock[r] = p
  BY Busy DEF Load, At
<1> DEFINE st == StatusFrom(r)
           d == {t \in Tickets(r) : snap[t] = "closed"}
           m == [json[r] EXCEPT !.status = st]
<1>2. /\ proc' = [proc EXCEPT ![p].mem = m, ![p].done = d, ![p].pc = "save"]
      /\ UNCHANGED << lock, json, snap, store, waiting, claimed, dirs, trees, joint,
                      reopening, reopened, starts, mishaps, reopens >>
  BY <1>1 DEF Load, files, cache, history, bounds
<1>3. m \in Json /\ m.status = st /\ m.pending = json[r].pending /\ m.status # "none"
      /\ (st = "completed" <=> AllClosed(r)) /\ d \in SUBSET Ticket
  <2>1. json[r] \in Json
    BY DEF IInv, Types, FileTypes
  <2> QED
    BY <2>1, Statuses, Owners DEF Json, RunStatus, IInv, Types
<1>4. d = {t \in Tickets(r) : snap[t] = "closed"}
  OBVIOUS
<1> HIDE DEF m, st, d
<1>5. /\ proc'[p].mem = m /\ proc'[p].done = d /\ proc'[p].pc = "save"
      /\ proc'[p].run = r /\ proc'[p].resumed = proc[p].resumed
      /\ proc'[p].todo = proc[p].todo /\ proc'[p].stale = proc[p].stale
      /\ proc'[p].wave = proc[p].wave /\ proc'[p].going = proc[p].going
      /\ proc'[p].changed = proc[p].changed /\ proc'[p].failed = proc[p].failed
      /\ \A q \in Proc \ {p} : proc'[q] = proc[q]
  BY <1>1, <1>2 DEF IInv, Types, Process
<1>6. proc' \in [Proc -> Process]
  <2>1. proc[p] \in Process /\ "save" \in PC
    BY DEF IInv, Types, PC
  <2>2. proc'[p] = [proc[p] EXCEPT !.mem = m, !.done = d, !.pc = "save"]
    BY <1>2 DEF IInv, Types
  <2>3. proc'[p] \in Process
    BY <1>3, <2>1, <2>2 DEF Process
  <2> QED
    BY <1>2, <2>3 DEF IInv, Types
<1>7. FileTypes' /\ Bounded'
  BY <1>2 DEF IInv, Types, FileTypes, Bounded
<1>8. Sane(p)' /\ Started(p)' /\ Kept(p)'
  <2>1. Sane(p)'
    <3>1. Sane(p)
      BY DEF IInv
    <3> QED
      BY <1>1, <1>2, <1>5, <3>1, StillSane
  <2>2. Started(p)'
    BY <1>1, <1>2, <1>3, <1>5 DEF IInv, Started
  <2> QED
    BY <1>5, <2>1, <2>2 DEF Kept, At
<1>9. Knows(p)'
  <2>1. AllClosed(r)' <=> AllClosed(r)
    BY <1>2 DEF AllClosed
  <2>2. ~proc[p].failed
    BY <1>1 DEF IInv, Started
  <2> QED
    BY <1>1, <1>2, <1>3, <1>4, <1>5, <2>1, <2>2 DEF Knows
<1>10. Frame(p, r) /\ Steady(r)'
  BY <1>2, Quiet
<1>11. Own(p, r)
  BY <1>5, <1>8, <1>9, <1>10 DEF Own, IInv, Caches
<1> QED
  BY <1>1, <1>2, <1>5, <1>6, <1>7, <1>10, <1>11, GoesOn

LEMMA SaveResumedKeeps ==
  ASSUME IInv, NEW p \in Proc, SaveResumed(p) PROVE IInv'
<1>1. PICK r \in Run : r = proc[p].run /\ proc[p].pc = "save" /\ lock[r] = p
  BY Busy DEF SaveResumed, At
<1> DEFINE m == proc[p].mem
<1>2. /\ json' = [json EXCEPT ![r] = m]
      /\ UNCHANGED << snap, store, waiting, claimed, dirs, trees, joint,
                      reopening, reopened, starts, mishaps, reopens >>
  BY <1>1 DEF SaveResumed, Save, cache, history, bounds
<1>3. m \in Json /\ m.status # "none" /\ proc[p].resumed /\ ~proc[p].failed
      /\ proc[p] \in Process
  BY <1>1 DEF IInv, Types, Process, Started
<1>4. json' \in [Run -> Json] /\ json'[r] = m /\ \A s \in Run \ {r} : json'[s] = json[s]
  BY <1>2, <1>3, Saved
<1>5. FileTypes' /\ Bounded'
  BY <1>2, <1>4 DEF IInv, Types, FileTypes, Bounded
<1>6. AllClosed(r)' <=> AllClosed(r)
  BY <1>2 DEF AllClosed
<1>7. r \notin reopened /\ Over(r) => Over(r)'
  <2>1. SUFFICES ASSUME r \notin reopened, Over(r) PROVE m.status = "completed" /\ ~m.pending
    BY <1>4 DEF Over
  <2>2. AllClosed(r)
    BY <2>1 DEF IInv, Steady, Over
  <2> QED
    BY <1>1, <2>1, <2>2 DEF IInv, Knows, Over
<1>8. Frame(p, r)
  BY <1>2, <1>3, <1>4, <1>7 DEF Frame, IInv, Caches
<1>9. Steady(r)'
  <2>1. r \notin reopened /\ m.status = "completed" => AllClosed(r)
    BY <1>1 DEF IInv, Knows
  <2> QED
    BY <1>2, <1>3, <1>4, <1>6, <2>1 DEF IInv, Steady
<1>10. CASE m.pending \/ m.status \in {"running", "blocked"}
  <2>1. proc' = [proc EXCEPT ![p].pc = "reconcile", ![p].todo = dirs] /\ lock' = lock
    BY <1>10 DEF SaveResumed
  <2>2. /\ proc'[p].mem = m /\ proc'[p].done = proc[p].done /\ proc'[p].pc = "reconcile"
        /\ proc'[p].run = r /\ proc'[p].resumed = proc[p].resumed
        /\ proc'[p].todo = dirs /\ proc'[p].stale = proc[p].stale
        /\ proc'[p].wave = proc[p].wave /\ proc'[p].going = proc[p].going
        /\ proc'[p].changed = proc[p].changed /\ proc'[p].failed = proc[p].failed
        /\ \A q \in Proc \ {p} : proc'[q] = proc[q]
    BY <1>1, <2>1 DEF IInv, Types, Process
  <2>3. proc' \in [Proc -> Process]
    <3>1. "reconcile" \in PC /\ dirs \in SUBSET Run
      BY DEF IInv, Types, FileTypes, PC
    <3>2. proc'[p] = [proc[p] EXCEPT !.pc = "reconcile", !.todo = dirs]
      BY <2>1 DEF IInv, Types
    <3>3. proc'[p] \in Process
      BY <1>3, <3>1, <3>2 DEF Process
    <3> QED
      BY <2>1, <3>3 DEF IInv, Types
  <2>4. Sane(p)' /\ Started(p)' /\ Kept(p)'
    <3>1. Sane(p)'
      <4>1. Sane(p)
        BY DEF IInv
      <4> QED
        BY <1>1, <2>1, <2>2, <4>1, StillSane
    <3>2. Started(p)'
      BY <1>3, <1>4, <2>2 DEF Started
    <3> QED
      BY <2>2, <3>1, <3>2 DEF Kept, At
  <2>5. Knows(p)'
    <3>1. Knows(p)
      BY DEF IInv
    <3>2. {t \in Tickets(r) : snap'[t] = "closed"} = {t \in Tickets(r) : snap[t] = "closed"}
      BY <1>2
    <3> QED
      BY <1>1, <1>2, <1>3, <1>4, <1>6, <1>10, <2>2, <3>1, <3>2 DEF Knows
  <2>6. Own(p, r)
    BY <1>9, <2>2, <2>4, <2>5 DEF Own, IInv, Caches
  <2> QED
    BY <1>1, <1>5, <1>8, <2>1, <2>2, <2>3, <2>6, GoesOn
<1>11. CASE ~(m.pending \/ m.status \in {"running", "blocked"})
  BY <1>1, <1>5, <1>8, <1>9, <1>11, Leaves DEF SaveResumed
<1> QED
  BY <1>10, <1>11

\* The tickets a resume makes ready are those that are not closed.
LEMMA BeginResumedKeeps ==
  ASSUME IInv, NEW p \in Proc, Begin(p), proc[p].resumed PROVE IInv'
<1>1. PICK r \in Run : r = proc[p].run /\ proc[p].pc = "reconcile" /\ lock[r] = p
  BY Busy DEF Begin, At
<1> DEFINE open == Tickets(r) \ proc[p].done
           s == [proc[p] EXCEPT !.done = {}, !.pc = "loop"]
<1>2. /\ claimed' = claimed \ open
      /\ store' = [t \in Ticket |-> IF t \in open THEN "open" ELSE store[t]]
      /\ UNCHANGED << json, lock, snap, waiting, dirs, trees, joint, reopening, reopened,
                      starts, mishaps, reopens >>
  BY <1>1 DEF Begin, cache, history, bounds
<1>3. proc[p] \in Process /\ s \in Process
  BY DEF IInv, Types, Process, PC
<1>4. proc' = [proc EXCEPT ![p] = s]
  BY <1>1 DEF Begin, IInv, Types
<1>5. /\ s.mem = proc[p].mem /\ s.done = {} /\ s.pc = "loop" /\ s.run = r
      /\ s.resumed = proc[p].resumed /\ s.todo = proc[p].todo /\ s.stale = proc[p].stale
      /\ s.wave = proc[p].wave /\ s.going = proc[p].going
      /\ s.changed = proc[p].changed /\ s.failed = proc[p].failed
  BY <1>1, <1>3 DEF Process
<1> HIDE DEF s
<1>6. proc' \in [Proc -> Process] /\ proc'[p] = s /\ \A q \in Proc \ {p} : proc'[q] = proc[q]
  BY <1>3, <1>4, Moved
<1>7. FileTypes' /\ Bounded'
  BY <1>2 DEF IInv, Types, FileTypes, Bounded
<1>8. Frame(p, r)
  <2>1. \A t \in Ticket \ Tickets(r) : store'[t] = store[t]
    BY <1>2
  <2> QED
    BY <1>2, <2>1 DEF Frame, Over, IInv, Caches
<1>9. Steady(r)'
  <2>1. r \notin reopened => proc[p].done = {t \in Tickets(r) : snap[t] = "closed"}
    BY <1>1 DEF IInv, Knows
  <2>2. \A t \in Tickets(r) : store'[t] = IF t \in open THEN "open" ELSE store[t]
    BY <1>2, Owners
  <2>3. r \notin reopened =>
           \A t \in Tickets(r) : snap[t] = "closed" <=> store'[t] = "closed"
    BY <2>1, <2>2 DEF IInv, Steady
  <2> QED
    BY <1>2, <2>3 DEF IInv, Steady, AllClosed
<1>10. Own(p, r)
  <2>1. Sane(p) /\ Started(p) /\ Knows(p)
    BY DEF IInv
  <2>2. Sane(p)'
    BY <1>1, <1>2, <1>5, <1>6, <2>1, StillSane
  <2>3. Started(p)' /\ Kept(p)'
    BY <1>1, <1>2, <1>5, <1>6, <2>1 DEF Started, Kept, At
  <2>4. Knows(p)'
    BY <1>1, <1>2, <1>5, <1>6, <2>1 DEF Knows, Started, AllClosed
  <2> QED
    BY <1>5, <1>6, <1>9, <2>2, <2>3, <2>4 DEF Own, IInv, Caches
<1> QED
  BY <1>1, <1>2, <1>6, <1>7, <1>8, <1>10, GoesOn

\* A run that is made is not over, also if its quality gate blocks it.
LEMMA BeginNewKeeps ==
  ASSUME IInv, NEW p \in Proc, Begin(p), ~proc[p].resumed PROVE IInv'
<1>1. PICK r \in Run : r = proc[p].run /\ proc[p].pc = "reconcile" /\ lock[r] = p
  BY Busy DEF Begin, At
<1> DEFINE m(st) == [status |-> st, pending |-> FALSE]
           x == [proc[p].mem EXCEPT !.status = "running"]
           s == [proc[p] EXCEPT !.mem = x, !.pc = "loop"]
<1>2. /\ UNCHANGED << claimed, store, snap, waiting, dirs, trees, joint, reopening, reopened,
                      starts, mishaps, reopens >>
      /\ \/ /\ json' = [json EXCEPT ![r] = m("running")]
            /\ proc' = [proc EXCEPT ![p].mem.status = "running", ![p].pc = "loop"]
            /\ lock' = lock
         \/ json' = [json EXCEPT ![r] = m("blocked")] /\ Leave(p)
  BY <1>1 DEF Begin, Save, cache, history, bounds
<1>3. proc[p] \in Process /\ proc[p].mem = Idle.mem /\ ~proc[p].failed
      /\ (r \notin reopened => json[r] = proc[p].mem)
  BY <1>1 DEF IInv, Types, Started, Knows
<1>4. ASSUME NEW st \in {"running", "blocked"}, json' = [json EXCEPT ![r] = m(st)]
      PROVE  /\ FileTypes' /\ Bounded' /\ Frame(p, r) /\ Steady(r)' /\ json'[r] = m(st)
  <2>1. m(st) \in Json
    BY DEF Json, RunStatus
  <2>2. m(st).status = st /\ m(st).pending = FALSE
    OBVIOUS
  <2> HIDE DEF m
  <2>3. json' \in [Run -> Json] /\ json'[r] = m(st) /\ \A q \in Run \ {r} : json'[q] = json[q]
    BY <1>4, <2>1, Saved
  <2>4. FileTypes' /\ Bounded'
    BY <1>2, <2>3 DEF IInv, Types, FileTypes, Bounded
  <2>5. r \notin reopened => ~Over(r)
    BY <1>3, IdleFields DEF Over
  <2>6. Frame(p, r)
    BY <1>2, <2>2, <2>3, <2>5 DEF Frame, IInv, Caches
  <2>7. Steady(r)'
    BY <1>2, <2>2, <2>3 DEF IInv, Steady
  <2> QED
    BY <2>3, <2>4, <2>6, <2>7
<1>5. CASE json' = [json EXCEPT ![r] = m("blocked")] /\ Leave(p)
  BY <1>1, <1>4, <1>5, Leaves
<1>6. CASE /\ json' = [json EXCEPT ![r] = m("running")]
           /\ proc' = [proc EXCEPT ![p].mem.status = "running", ![p].pc = "loop"]
           /\ lock' = lock
  <2>0. x = m("running") /\ x \in Json
    <3>1. proc[p].mem \in Json /\ proc[p].mem.pending = FALSE
      BY <1>3, IdleFields DEF Process, Json
    <3>2. x \in Json /\ x.status = "running" /\ x.pending = FALSE
      BY <3>1 DEF Json, RunStatus
    <3>3. m("running") \in Json
      BY DEF Json, RunStatus
    <3> HIDE DEF x
    <3> QED
      BY <3>2, <3>3 DEF Json
  <2> HIDE DEF x, m
  <2>1. s \in Process
    BY <1>3, <2>0 DEF Process, PC
  <2>2. proc' = [proc EXCEPT ![p] = s]
    <3>1. proc \in [Proc -> Process]
      BY DEF IInv, Types
    <3> QED
      BY <1>6, <3>1 DEF x
  <2>3. /\ s.mem = m("running") /\ s.done = proc[p].done /\ s.pc = "loop" /\ s.run = r
        /\ s.resumed = proc[p].resumed /\ s.todo = proc[p].todo /\ s.stale = proc[p].stale
        /\ s.wave = proc[p].wave /\ s.going = proc[p].going
        /\ s.changed = proc[p].changed /\ s.failed = proc[p].failed
    BY <1>1, <1>3, <2>0 DEF Process
  <2>4. m("running").status = "running" /\ m("running").pending = FALSE
    BY DEF m
  <2>6. FileTypes' /\ Bounded' /\ Frame(p, r) /\ Steady(r)' /\ json'[r] = m("running")
    <3>1. json' = [json EXCEPT ![r] = m("running")]
      BY <1>6
    <3> HIDE DEF m, s
    <3> QED
      BY <1>4, <3>1
  <2> HIDE DEF s, m
  <2>5. /\ proc' \in [Proc -> Process] /\ proc'[p] = s
        /\ \A q \in Proc \ {p} : proc'[q] = proc[q]
    BY <2>1, <2>2, Moved
  <2>7. Own(p, r)
    <3>1. Sane(p)
      BY DEF IInv
    <3>2. Sane(p)'
      BY <1>1, <1>6, <2>3, <2>5, <3>1, StillSane
    <3>3. Started(p)' /\ Kept(p)'
      BY <1>3, <2>3, <2>4, <2>5, <2>6 DEF Started, Kept, At
    <3>4. Knows(p)'
      BY <1>3, <2>3, <2>4, <2>5, <2>6 DEF Knows
    <3> QED
      BY <2>3, <2>5, <2>6, <3>2, <3>3, <3>4 DEF Own, IInv, Caches
  <2> QED
    BY <1>1, <1>6, <2>5, <2>6, <2>7, GoesOn
<1> QED
  BY <1>2, <1>5, <1>6

-----------------------------------------------------------------------------
(* The reconciliation of the worktrees *)

\* What a process means to remove is of a run that is over.
LEMMA LookKeeps ==
  ASSUME IInv, NEW p \in Proc, Look(p) PROVE IInv'
<1>1. PICK r \in Run : r = proc[p].run /\ proc[p].pc = "reconcile" /\ lock[r] = p
  BY Busy DEF Look, At
<1>2. PICK x \in proc[p].todo :
         proc' = [proc EXCEPT ![p].todo = @ \ {x},
                              ![p].stale = IF RunIsActive(x) THEN None ELSE x,
                              ![p].pc = IF RunIsActive(x) THEN "reconcile" ELSE "remove"]
  BY DEF Look
<1> DEFINE left == proc[p].todo \ {x}
           stale == IF RunIsActive(x) THEN None ELSE x
           next == IF RunIsActive(x) THEN "reconcile" ELSE "remove"
           s == [proc[p] EXCEPT !.todo = left, !.stale = stale, !.pc = next]
<1>3. UNCHANGED << lock, json, snap, store, waiting, claimed, dirs, trees, joint,
                   reopening, reopened, starts, mishaps, reopens >>
  BY DEF Look, files, cache, history, bounds
<1>4. proc[p] \in Process /\ proc \in [Proc -> Process] /\ x \in Run
      /\ json[x] \in Json /\ json[x].status # "none"
  <2>1. proc[p] \in Process /\ proc \in [Proc -> Process] /\ json \in [Run -> Json]
    BY DEF IInv, Types, FileTypes
  <2>2. x \in Run
    BY <2>1 DEF Process
  <2> QED
    BY <2>1, <2>2 DEF IInv, Caches
<1>5. /\ left \in SUBSET Run /\ left \subseteq proc[p].todo /\ stale \in Run \cup {None}
      /\ next \in {"reconcile", "remove"} /\ next \in PC /\ (next = "remove" => stale # None)
  BY <1>4, Constants DEF Process, PC
<1>6. ASSUME NEW z \in Run, z = stale PROVE Over(z)
  <2>1. z = x /\ ~RunIsActive(x)
    BY <1>6, Constants
  <2> QED
    BY <1>4, <2>1 DEF RunIsActive, Over, Json, RunStatus
<1>7. proc' = [proc EXCEPT ![p] = s]
  BY <1>2, <1>4
<1> HIDE DEF left, stale, next
<1>8. s \in Process
  BY <1>4, <1>5 DEF Process
<1>9. /\ s.mem = proc[p].mem /\ s.done = proc[p].done /\ s.pc = next /\ s.run = r
      /\ s.resumed = proc[p].resumed /\ s.todo = left /\ s.stale = stale
      /\ s.wave = proc[p].wave /\ s.going = proc[p].going
      /\ s.changed = proc[p].changed /\ s.failed = proc[p].failed
  BY <1>1, <1>4 DEF Process
<1> HIDE DEF s
<1>10. proc' \in [Proc -> Process] /\ proc'[p] = s /\ \A q \in Proc \ {p} : proc'[q] = proc[q]
  BY <1>7, <1>8, Moved
<1>11. FileTypes' /\ Bounded'
  BY <1>3 DEF IInv, Types, FileTypes, Bounded
<1>12. Frame(p, r) /\ Steady(r)'
  BY <1>3, Quiet
<1>13. Own(p, r)
  <2>1. Sane(p) /\ Started(p) /\ Knows(p)
    BY DEF IInv
  <2>2. Sane(p)'
    BY <1>1, <1>3, <1>5, <1>9, <1>10, <2>1, StillSane
  <2>3. Started(p)' /\ Kept(p)'
    BY <1>1, <1>3, <1>5, <1>9, <1>10, <2>1 DEF Started, Kept, At
  <2>4. Knows(p)'
    BY <1>1, <1>3, <1>5, <1>9, <1>10, <2>1 DEF Knows, AllClosed
  <2> QED
    BY <1>5, <1>6, <1>9, <1>10, <1>12, <2>2, <2>3, <2>4 DEF Own
<1> QED
  BY <1>1, <1>3, <1>10, <1>11, <1>12, <1>13, GoesOn

\* No other process that works in its worktrees executes that run, unless a ticket of
\* it was reopened.
LEMMA RemoveStaleKeeps ==
  ASSUME IInv, NEW p \in Proc, RemoveStale(p) PROVE IInv'
<1>1. PICK r \in Run : r = proc[p].run /\ proc[p].pc = "remove" /\ lock[r] = p
  BY Busy DEF RemoveStale, At
<1>2. proc[p] \in Process /\ proc \in [Proc -> Process]
  BY DEF IInv, Types
<1>3. PICK x \in Run : x = proc[p].stale
  BY <1>1, <1>2 DEF IInv, Sane, Process
<1> DEFINE s == [proc[p] EXCEPT !.stale = None, !.pc = "reconcile"]
<1>4. /\ UNCHANGED << lock, json, snap, store, waiting, claimed, reopening, reopened,
                      starts, reopens >>
      /\ \/ /\ dirs' = dirs \ {x} /\ trees' = trees \ Tickets(x) /\ joint' = joint \ {x}
            /\ mishaps' = mishaps
         \/ mishaps < MaxMishaps /\ mishaps' = mishaps + 1
            /\ UNCHANGED << dirs, trees, joint >>
  BY <1>3 DEF RemoveStale, files, cache, history, bounds, Mishap
<1>5. proc' = [proc EXCEPT ![p] = s]
  BY <1>2 DEF RemoveStale
<1>6. s \in Process
  BY <1>2 DEF Process, PC
<1>7. /\ s.mem = proc[p].mem /\ s.done = proc[p].done /\ s.pc = "reconcile" /\ s.run = r
      /\ s.resumed = proc[p].resumed /\ s.todo = proc[p].todo /\ s.stale = None
      /\ s.wave = proc[p].wave /\ s.going = proc[p].going
      /\ s.changed = proc[p].changed /\ s.failed = proc[p].failed
  BY <1>1, <1>2 DEF Process
<1> HIDE DEF s
<1>8. proc' \in [Proc -> Process] /\ proc'[p] = s /\ \A q \in Proc \ {p} : proc'[q] = proc[q]
  BY <1>5, <1>6, Moved
<1>9. FileTypes' /\ Bounded'
  <2>1. mishaps' \in 0 .. MaxMishaps
    BY <1>4, Constants DEF IInv, Bounded
  <2> QED
    BY <1>4, <2>1 DEF IInv, Types, FileTypes, Bounded
<1>10. ASSUME NEW q \in Proc \ {p} PROVE Kept(q)'
  <2>1. SUFFICES ASSUME proc[q].run \notin reopened, proc[q].pc \in {"work", "integrate"}
                 PROVE  Kept(q)'
    BY <1>4, <1>8 DEF Kept, At
  <2>2. PICK z \in Run : z = proc[q].run
    BY <2>1, Busy
  <2>3. z # x
    <3>1. SUFFICES ASSUME z = x PROVE FALSE
      OBVIOUS
    <3>2. Over(x)
      BY <1>3, <2>1, <2>2, <3>1 DEF IInv, Caches
    <3>3. Knows(q) /\ Started(q)
      BY DEF IInv
    <3> QED
      BY <2>1, <2>2, <3>1, <3>2, <3>3 DEF Knows, Started, Over
  <2>4. proc[q].wave \subseteq Tickets(z) /\ Tickets(z) \cap Tickets(x) = {}
    BY <2>1, <2>2, <2>3, Owners DEF IInv, Sane
  <2>5. Kept(q)
    BY DEF IInv
  <2> QED
    BY <1>4, <1>8, <2>1, <2>2, <2>3, <2>4, <2>5 DEF Kept, At
<1>11. Frame(p, r)
  BY <1>4, <1>10 DEF Frame, Over, IInv, Caches
<1>12. Own(p, r)
  <2>1. Sane(p) /\ Started(p) /\ Knows(p) /\ Steady(r)
    BY DEF IInv
  <2>2. Sane(p)'
    BY <1>1, <1>4, <1>7, <1>8, <2>1, StillSane
  <2>3. Started(p)' /\ Kept(p)'
    BY <1>1, <1>4, <1>7, <1>8, <2>1 DEF Started, Kept, At
  <2>4. Knows(p)' /\ Steady(r)'
    BY <1>1, <1>4, <1>7, <1>8, <2>1 DEF Knows, Steady, AllClosed
  <2> QED
    BY <1>7, <1>8, <2>2, <2>3, <2>4, Constants DEF Own
<1> QED
  BY <1>1, <1>4, <1>8, <1>9, <1>11, <1>12, GoesOn

-----------------------------------------------------------------------------
(* The wave loop *)

\* While a ticket is ready the run is not over.
LEMMA StillOpen ==
  ASSUME IInv, NEW r \in Run, r \notin reopened, Ready(r) # {}
  PROVE  ~AllClosed(r)
<1>1. PICK t \in Tickets(r) : store[t] = "open"
  BY DEF Ready
<1> QED
  BY <1>1 DEF IInv, Steady, AllClosed

\* A pending wave finds its integration worktree made again.
LEMMA TakeUpKeeps ==
  ASSUME IInv, NEW p \in Proc, TakeUp(p) PROVE IInv'
<1>1. PICK r \in Run : r = proc[p].run /\ proc[p].pc = "loop" /\ lock[r] = p
  BY Busy DEF TakeUp, At
<1> DEFINE s == [proc[p] EXCEPT !.pc = "integrate"]
<1>2. /\ UNCHANGED << lock, json, snap, store, waiting, claimed, trees, reopening, reopened,
                      starts, mishaps, reopens >>
      /\ joint' = joint \cup {r} /\ dirs' = dirs \cup {r} /\ proc[p].mem.pending
      /\ proc' = [proc EXCEPT ![p] = s]
  BY <1>1 DEF TakeUp, Goto, files, history, bounds
<1>3. proc[p] \in Process /\ s \in Process
  BY DEF IInv, Types, Process, PC
<1>4. /\ s.mem = proc[p].mem /\ s.done = proc[p].done /\ s.pc = "integrate" /\ s.run = r
      /\ s.resumed = proc[p].resumed /\ s.todo = proc[p].todo /\ s.stale = proc[p].stale
      /\ s.wave = proc[p].wave /\ s.going = proc[p].going
      /\ s.changed = proc[p].changed /\ s.failed = proc[p].failed
  BY <1>1, <1>3 DEF Process
<1> HIDE DEF s
<1>5. proc' \in [Proc -> Process] /\ proc'[p] = s /\ \A q \in Proc \ {p} : proc'[q] = proc[q]
  BY <1>2, <1>3, Moved
<1>6. FileTypes' /\ Bounded'
  BY <1>2 DEF IInv, Types, FileTypes, Bounded
<1>7. Sane(p) /\ Started(p) /\ Knows(p) /\ Steady(r)
  BY DEF IInv
<1>8. Frame(p, r)
  BY <1>1, <1>2, <1>7 DEF Frame, Over, IInv, Caches, Started
<1>9. Own(p, r)
  <2>1. Sane(p)'
    BY <1>1, <1>2, <1>4, <1>5, <1>7, StillSane
  <2>2. Started(p)' /\ Kept(p)'
    BY <1>1, <1>2, <1>4, <1>5, <1>7 DEF Started, Kept, At
  <2>3. Knows(p)' /\ Steady(r)'
    BY <1>1, <1>2, <1>4, <1>5, <1>7 DEF Knows, Steady, AllClosed
  <2> QED
    BY <1>4, <1>5, <2>1, <2>2, <2>3 DEF Own, IInv, Caches
<1> QED
  BY <1>1, <1>2, <1>5, <1>6, <1>8, <1>9, GoesOn

\* The status a run ends with says completed if all its tickets are closed.
LEMMA FinishKeeps ==
  ASSUME IInv, NEW p \in Proc, Finish(p) PROVE IInv'
<1>1. PICK r \in Run : r = proc[p].run /\ proc[p].pc = "loop" /\ lock[r] = p
  BY Busy DEF Finish, At
<1> DEFINE m == [proc[p].mem EXCEPT !.status = CompletionStatus(r)]
           s == [proc[p] EXCEPT !.pc = "derive"]
<1>2. proc[p] \in Process /\ s \in Process /\ proc[p].mem \in Json /\ ~proc[p].mem.pending
  BY DEF IInv, Types, Process, PC, Finish
<1>3. m \in Json /\ m.status = CompletionStatus(r) /\ m.pending = FALSE /\ m.status # "none"
  BY <1>2 DEF Json, RunStatus, CompletionStatus
<1>4. CompletionStatus(r) = "completed" <=> \A t \in Tickets(r) : store[t] = "closed"
  BY DEF CompletionStatus
<1>5. /\ json' = [json EXCEPT ![r] = m]
      /\ UNCHANGED << snap, store, waiting, claimed, dirs, trees, joint,
                      reopening, reopened, starts, mishaps, reopens >>
  BY <1>1 DEF Finish, Save, cache, history, bounds
<1>6. IF proc[p].resumed THEN proc' = [proc EXCEPT ![p] = s] /\ UNCHANGED lock ELSE Leave(p)
  BY DEF Finish, Goto
<1>7. /\ s.mem = proc[p].mem /\ s.done = proc[p].done /\ s.pc = "derive" /\ s.run = r
      /\ s.resumed = proc[p].resumed /\ s.todo = proc[p].todo /\ s.stale = proc[p].stale
      /\ s.wave = proc[p].wave /\ s.going = proc[p].going
      /\ s.changed = proc[p].changed /\ s.failed = proc[p].failed
  BY <1>1, <1>2 DEF Process
<1> HIDE DEF m, s
<1>8. json' \in [Run -> Json] /\ json'[r] = m /\ \A z \in Run \ {r} : json'[z] = json[z]
  BY <1>3, <1>5, Saved
<1>9. FileTypes' /\ Bounded'
  BY <1>5, <1>8 DEF IInv, Types, FileTypes, Bounded
<1>10. r \notin reopened => (m.status = "completed" <=> AllClosed(r))
  BY <1>3, <1>4 DEF IInv, Steady, AllClosed
<1>11. Frame(p, r)
  <2>1. r \notin reopened /\ Over(r) => Over(r)'
    BY <1>3, <1>8, <1>10 DEF IInv, Steady, Over
  <2> QED
    BY <1>3, <1>5, <1>8, <2>1 DEF Frame, IInv, Caches
<1>12. Steady(r)'
  BY <1>3, <1>5, <1>8, <1>10 DEF IInv, Steady, AllClosed
<1>13. CASE proc[p].resumed
  <2>1. /\ proc' \in [Proc -> Process] /\ proc'[p] = s
        /\ \A q \in Proc \ {p} : proc'[q] = proc[q]
    BY <1>2, <1>6, <1>13, Moved
  <2>2. Sane(p) /\ Started(p) /\ Knows(p)
    BY DEF IInv
  <2>3. Sane(p)'
    BY <1>1, <1>6, <1>7, <1>13, <2>1, <2>2, StillSane
  <2>4. Started(p)' /\ Kept(p)'
    BY <1>1, <1>2, <1>3, <1>7, <1>8, <2>1, <2>2 DEF Started, Kept, At
  <2>5. Knows(p)'
    BY <1>1, <1>5, <1>7, <2>1, <2>2 DEF Knows, Started, AllClosed
  <2>6. Own(p, r)
    BY <1>7, <1>12, <2>1, <2>3, <2>4, <2>5 DEF Own, IInv, Caches
  <2> QED
    BY <1>1, <1>6, <1>9, <1>11, <1>13, <2>1, <2>6, GoesOn
<1>14. CASE ~proc[p].resumed
  BY <1>1, <1>6, <1>9, <1>11, <1>12, <1>14, Leaves
<1> QED
  BY <1>13, <1>14

\* A run that is blocked before a wave was not over.
LEMMA DirtyMainKeeps ==
  ASSUME IInv, NEW p \in Proc, DirtyMain(p) PROVE IInv'
<1>1. PICK r \in Run : r = proc[p].run /\ proc[p].pc = "loop" /\ lock[r] = p
  BY Busy DEF DirtyMain, At
<1> DEFINE m == [proc[p].mem EXCEPT !.status = "blocked"]
<1>2. m \in Json /\ m.status = "blocked"
  BY DEF IInv, Types, Process, Json, RunStatus
<1>3. /\ json' = [json EXCEPT ![r] = m] /\ Leave(p) /\ Ready(r) # {}
      /\ UNCHANGED << snap, store, waiting, claimed, dirs, trees, joint,
                      reopening, reopened, starts, reopens >>
      /\ mishaps < MaxMishaps /\ mishaps' = mishaps + 1
  BY <1>1 DEF DirtyMain, Save, cache, history, Mishap
<1> HIDE DEF m
<1>4. json' \in [Run -> Json] /\ json'[r] = m /\ \A z \in Run \ {r} : json'[z] = json[z]
  BY <1>2, <1>3, Saved
<1>5. FileTypes' /\ Bounded'
  <2>1. mishaps' \in 0 .. MaxMishaps
    BY <1>3, Constants DEF IInv, Bounded
  <2> QED
    BY <1>3, <1>4, <2>1 DEF IInv, Types, FileTypes, Bounded
<1>6. r \notin reopened => ~Over(r)
  BY <1>3, StillOpen DEF IInv, Steady, Over
<1>7. Frame(p, r)
  BY <1>2, <1>3, <1>4, <1>6 DEF Frame, IInv, Caches
<1>8. Steady(r)'
  BY <1>2, <1>3, <1>4 DEF IInv, Steady
<1> QED
  BY <1>1, <1>3, <1>5, <1>7, <1>8, Leaves

\* A wave is of ready tickets whose scopes are apart.
LEMMA ScheduleKeeps ==
  ASSUME IInv, NEW p \in Proc, Schedule(p) PROVE IInv'
<1>1. PICK r \in Run : r = proc[p].run /\ proc[p].pc = "loop" /\ lock[r] = p
  BY Busy DEF Schedule, At
<1> DEFINE wave == BuildWave(Children[r], Ready(r), Scope, MaxConcurrency)
           m == proc[p].mem
           s == [proc[p] EXCEPT !.wave = wave, !.going = wave, !.pc = "prepare"]
<1>2. /\ UNCHANGED << lock, snap, store, waiting, claimed, dirs, trees, joint,
                      reopening, reopened, starts, mishaps, reopens >>
      /\ json' = [json EXCEPT ![r] = m] /\ Ready(r) # {} /\ ~m.pending
  BY <1>1 DEF Schedule, Save, cache, history, bounds
<1>3. proc[p] \in Process /\ proc \in [Proc -> Process] /\ m \in Json
  BY DEF IInv, Types, Process
<1>4. proc' = [proc EXCEPT ![p] = s]
  BY <1>1, <1>3 DEF Schedule
<1>5. /\ wave \subseteq Tickets(r) /\ IsFiniteSet(wave)
      /\ Cardinality(wave) <= MaxConcurrency /\ Apart(wave)
      /\ \A t \in wave : store[t] = "open"
  <2>1. Ready(r) \subseteq ToSet(Children[r]) /\ Children[r] \in Seq(Ticket)
    BY Constants DEF Ready, Tickets
  <2>2. wave \subseteq Ready(r) /\ IsFiniteSet(wave) /\ Cardinality(wave) <= MaxConcurrency
        /\ Apart(wave)
    BY <2>1, Constants, Selection
  <2> QED
    BY <2>2 DEF Ready
<1> HIDE DEF wave
<1>6. s \in Process
  BY <1>3, <1>5, Owners DEF Process, PC
<1>7. /\ s.mem = m /\ s.done = proc[p].done /\ s.pc = "prepare" /\ s.run = r
      /\ s.resumed = proc[p].resumed /\ s.todo = proc[p].todo /\ s.stale = proc[p].stale
      /\ s.wave = wave /\ s.going = wave
      /\ s.changed = proc[p].changed /\ s.failed = proc[p].failed
  BY <1>1, <1>3 DEF Process
<1> HIDE DEF s
<1>8. proc' \in [Proc -> Process] /\ proc'[p] = s /\ \A q \in Proc \ {p} : proc'[q] = proc[q]
  BY <1>4, <1>6, Moved
<1>9. json' \in [Run -> Json] /\ json'[r] = m /\ \A z \in Run \ {r} : json'[z] = json[z]
  BY <1>2, <1>3, Saved
<1>10. FileTypes' /\ Bounded'
  BY <1>2, <1>9 DEF IInv, Types, FileTypes, Bounded
<1>11. Sane(p) /\ Started(p) /\ Knows(p) /\ Steady(r)
  BY DEF IInv
<1>12. r \notin reopened => json[r] = m /\ m.status # "completed"
  BY <1>1, <1>2, <1>11, StillOpen DEF Knows
<1>13. m.status # "none"
  BY <1>1, <1>11 DEF Started
<1>14. Frame(p, r)
  BY <1>2, <1>9, <1>12, <1>13 DEF Frame, Over, IInv, Caches
<1>15. Own(p, r)
  <2>1. Sane(p)'
    BY <1>1, <1>2, <1>5, <1>7, <1>8, <1>11 DEF Sane
  <2>2. Started(p)' /\ Kept(p)'
    BY <1>1, <1>2, <1>7, <1>8, <1>9, <1>11, <1>13 DEF Started, Kept, At
  <2>3. Knows(p)'
    BY <1>2, <1>5, <1>7, <1>8, <1>9, <1>11, <1>12, <2>2 DEF Knows, Started
  <2>4. Steady(r)'
    BY <1>2, <1>9, <1>11, <1>12, <1>13 DEF Steady
  <2> QED
    BY <1>7, <1>8, <2>1, <2>2, <2>3, <2>4 DEF Own, IInv, Caches
<1> QED
  BY <1>1, <1>2, <1>8, <1>10, <1>14, <1>15, GoesOn

\* Every ticket of a wave that goes to work has its worktree.
LEMMA PrepareKeeps ==
  ASSUME IInv, NEW p \in Proc, Prepare(p) PROVE IInv'
<1>1. PICK r \in Run : r = proc[p].run /\ proc[p].pc = "prepare" /\ lock[r] = p
  BY Busy DEF Prepare, At
<1> DEFINE wave == proc[p].wave
           s == [proc[p] EXCEPT !.pc = "work"]
<1>2. /\ UNCHANGED << json, store, waiting, joint, reopening, reopened, starts, reopens >>
      /\ dirs' = dirs \cup {r}
      /\ \/ /\ trees' = trees \cup wave /\ claimed' = claimed \cup wave
            /\ snap' = [t \in Ticket |-> IF t \in wave THEN "implement" ELSE snap[t]]
            /\ proc' = [proc EXCEPT ![p] = s] /\ UNCHANGED << lock, mishaps >>
         \/ /\ mishaps < MaxMishaps /\ mishaps' = mishaps + 1
            /\ \E made \in SUBSET wave : trees' = trees \ made
            /\ Leave(p) /\ UNCHANGED << claimed, snap >>
  BY <1>1 DEF Prepare, Goto, Mishap, history, bounds
<1>3. proc[p] \in Process /\ s \in Process
  BY DEF IInv, Types, Process, PC
<1>4. /\ s.mem = proc[p].mem /\ s.done = proc[p].done /\ s.pc = "work" /\ s.run = r
      /\ s.resumed = proc[p].resumed /\ s.todo = proc[p].todo /\ s.stale = proc[p].stale
      /\ s.wave = wave /\ s.going = proc[p].going
      /\ s.changed = proc[p].changed /\ s.failed = proc[p].failed
  BY <1>1, <1>3 DEF Process
<1> HIDE DEF s
<1>5. Sane(p) /\ Started(p) /\ Knows(p) /\ Steady(r)
  BY DEF IInv
<1>6. wave \subseteq Tickets(r) /\ wave \subseteq Ticket
  BY <1>1, <1>5, Owners DEF Sane
<1>7. mishaps' \in 0 .. MaxMishaps
  BY <1>2, Constants DEF IInv, Bounded
<1>8. Bounded'
  BY <1>2, <1>7 DEF IInv, Bounded
<1>9. json[r].status # "none"
  BY <1>1, <1>5 DEF Started
<1>10. CASE /\ trees' = trees \cup wave /\ claimed' = claimed \cup wave
            /\ snap' = [t \in Ticket |-> IF t \in wave THEN "implement" ELSE snap[t]]
            /\ proc' = [proc EXCEPT ![p] = s] /\ UNCHANGED << lock, mishaps >>
  <2>1. /\ proc' \in [Proc -> Process] /\ proc'[p] = s
        /\ \A q \in Proc \ {p} : proc'[q] = proc[q]
    BY <1>3, <1>10, Moved
  <2>2. FileTypes'
    BY <1>2, <1>6, <1>10 DEF IInv, Types, FileTypes
  <2>3. \A t \in Ticket : snap'[t] = IF t \in wave THEN "implement" ELSE snap[t]
    BY <1>10
  <2>4. Frame(p, r)
    BY <1>2, <1>6, <1>9, <1>10, <2>3 DEF Frame, Over, IInv, Caches
  <2>5. Sane(p)'
    BY <1>1, <1>4, <1>5, <1>10, <2>1, StillSane
  <2>6. Started(p)' /\ Kept(p)'
    BY <1>1, <1>2, <1>4, <1>5, <1>10, <2>1 DEF Started, Kept, At
  <2>7. Knows(p)'
    BY <1>1, <1>2, <1>4, <1>5, <2>1 DEF Knows, Started, Sane
  <2>8. Steady(r)'
    <3>1. r \notin reopened => \A t \in wave : store[t] = "open"
      BY <1>1, <1>5 DEF Knows
    <3>2. r \notin reopened =>
             \A t \in Tickets(r) : snap'[t] = "closed" <=> store'[t] = "closed"
      BY <1>2, <1>5, <2>3, <3>1, Owners DEF Steady
    <3>3. r \notin reopened => json[r].status # "completed"
      BY <1>1, <1>5 DEF Knows
    <3> QED
      BY <1>2, <1>9, <3>2, <3>3 DEF Steady
  <2>9. Own(p, r)
    BY <1>4, <2>1, <2>5, <2>6, <2>7, <2>8 DEF Own, IInv, Caches
  <2> QED
    BY <1>1, <1>8, <1>10, <2>1, <2>2, <2>4, <2>9, GoesOn
<1>11. CASE /\ \E made \in SUBSET wave : trees' = trees \ made
            /\ Leave(p) /\ UNCHANGED << claimed, snap >>
  <2>1. trees \ Tickets(r) \subseteq trees' /\ trees' \subseteq trees
    BY <1>6, <1>11
  <2>2. FileTypes'
    BY <1>2, <1>11, <2>1 DEF IInv, Types, FileTypes
  <2>3. Frame(p, r)
    BY <1>2, <1>9, <1>11, <2>1 DEF Frame, Over, IInv, Caches
  <2>4. Steady(r)'
    BY <1>2, <1>5, <1>11 DEF Steady, AllClosed
  <2> QED
    BY <1>1, <1>8, <1>11, <2>2, <2>3, <2>4, Leaves
<1> QED
  BY <1>2, <1>10, <1>11

\* A ticket that ends is closed for its snapshot and for the store, or for neither; one
\* that errs keeps its snapshot and is open in the store.
LEMMA TicketEndsKeeps ==
  ASSUME IInv, NEW p \in Proc, TicketEnds(p) \/ TicketErrs(p) PROVE IInv'
<1>1. PICK r \in Run : r = proc[p].run /\ proc[p].pc = "work" /\ lock[r] = p
  BY Busy DEF TicketEnds, TicketErrs, At
<1>2. PICK t \in proc[p].going :
         /\ Ends(p, t)
         /\ \/ \E end \in {"closed", "blocked"} :
                  /\ snap' = [snap EXCEPT ![t] = end]
                  /\ store' = [store EXCEPT ![t] = end]
            \/ store' = [store EXCEPT ![t] = "open"] /\ UNCHANGED snap
         /\ \/ claimed' = claimed \ {t} /\ UNCHANGED bounds
            \/ Mishap /\ UNCHANGED claimed
  BY DEF TicketEnds, TicketErrs, ReleaseClaim
<1>3. PICK f \in Edits[t] :
         proc' = [proc EXCEPT ![p].going = @ \ {t}, ![p].changed[t] = f]
  BY <1>2 DEF Ends
<1>4. UNCHANGED << lock, json, waiting, dirs, trees, joint, reopening, reopened >>
  BY DEF TicketEnds, TicketErrs, cache, history
<1>5. proc[p] \in Process /\ proc \in [Proc -> Process]
      /\ snap \in [Ticket -> {"none", "implement", "blocked", "closed"}]
      /\ store \in [Ticket -> {"open", "blocked", "closed"}] /\ claimed \subseteq Ticket
  BY DEF IInv, Types, FileTypes
<1>6. Sane(p) /\ Started(p) /\ Knows(p) /\ Steady(r)
  BY DEF IInv
<1>7. proc[p].wave \subseteq Tickets(r) /\ proc[p].going \subseteq proc[p].wave
      /\ t \in Tickets(r) /\ t \in Ticket
  BY <1>1, <1>6, Owners DEF Sane
<1> DEFINE left == proc[p].going \ {t}
           edits == [proc[p].changed EXCEPT ![t] = f]
           s == [proc[p] EXCEPT !.going = left, !.changed = edits]
<1>8. left \in SUBSET Ticket /\ left \subseteq proc[p].going
      /\ edits \in [Ticket -> SUBSET Seq(Segment)]
      /\ edits[t] = f /\ \A u \in Ticket \ {t} : edits[u] = proc[p].changed[u]
  BY <1>5, <1>7, Constants DEF Process
<1>9. proc' = [proc EXCEPT ![p] = s]
  BY <1>3, <1>5
<1> HIDE DEF left, edits
<1>10. s \in Process
  BY <1>5, <1>8 DEF Process
<1>11. /\ s.mem = proc[p].mem /\ s.done = proc[p].done /\ s.pc = "work" /\ s.run = r
       /\ s.resumed = proc[p].resumed /\ s.todo = proc[p].todo /\ s.stale = proc[p].stale
       /\ s.wave = proc[p].wave /\ s.going = left
       /\ s.changed = edits /\ s.failed = proc[p].failed
  BY <1>1, <1>5 DEF Process
<1> HIDE DEF s
<1>12. proc' \in [Proc -> Process] /\ proc'[p] = s /\ \A q \in Proc \ {p} : proc'[q] = proc[q]
  BY <1>9, <1>10, Moved
<1>13. /\ snap' \in [Ticket -> {"none", "implement", "blocked", "closed"}]
       /\ store' \in [Ticket -> {"open", "blocked", "closed"}] /\ claimed' \subseteq Ticket
       /\ \A u \in Ticket \ {t} : snap'[u] = snap[u] /\ store'[u] = store[u]
       /\ \/ snap'[t] = "closed" <=> store'[t] = "closed"
          \/ snap'[t] = snap[t] /\ store'[t] = "open"
  BY <1>2, <1>5, <1>7
<1>14. FileTypes'
  BY <1>4, <1>13 DEF IInv, Types, FileTypes
<1>15. Bounded'
  BY <1>2, Constants DEF IInv, Bounded, bounds, Mishap
<1>16. json[r].status # "none"
  BY <1>1, <1>6 DEF Started
<1>17. Frame(p, r)
  BY <1>4, <1>7, <1>13, <1>16 DEF Frame, Over, IInv, Caches
<1>18. Own(p, r)
  <2>1. Sane(p)'
    <3>1. \A u \in Ticket : edits[u] \in Edits[u] \cup {{}}
      BY <1>6, <1>8 DEF Sane
    <3> QED
      BY <1>1, <1>4, <1>6, <1>8, <1>11, <1>12, <3>1 DEF Sane
  <2>2. Started(p)' /\ Kept(p)'
    <3>1. Kept(p)
      BY DEF IInv
    <3> QED
      BY <1>1, <1>4, <1>6, <1>11, <1>12, <3>1 DEF Started, Kept, At
  <2>3. r \notin reopened => store[t] = "open" /\ json[r].status # "completed"
    BY <1>1, <1>6 DEF Knows
  <2>4. Knows(p)'
    <3>1. t \notin left /\ \A u \in left : u \in Ticket \ {t}
      BY <1>7, <1>8 DEF left
    <3> QED
      BY <1>1, <1>4, <1>6, <1>8, <1>11, <1>12, <1>13, <2>2, <3>1 DEF Knows, Started
  <2>5. Steady(r)'
    <3>1. r \notin reopened =>
             \A u \in Tickets(r) : snap'[u] = "closed" <=> store'[u] = "closed"
      BY <1>6, <1>13, <2>3, Owners DEF Steady
    <3> QED
      BY <1>4, <1>16, <2>3, <3>1 DEF Steady
  <2> QED
    BY <1>11, <1>12, <2>1, <2>2, <2>4, <2>5 DEF Own, IInv, Caches
<1> QED
  BY <1>1, <1>4, <1>12, <1>14, <1>15, <1>17, <1>18, GoesOn

\* A wave of which nothing is accepted ends in a run that is not over.
LEMMA NotAcceptedKeeps ==
  ASSUME IInv, NEW p \in Proc, NotAccepted(p) PROVE IInv'
<1>1. PICK r \in Run : r = proc[p].run /\ proc[p].pc = "work" /\ lock[r] = p
  BY Busy DEF NotAccepted, Ended, At
<1> DEFINE m == [proc[p].mem EXCEPT !.status = "blocked"]
           none == Idle.changed
           s == [proc[p] EXCEPT !.changed = none, !.failed = TRUE, !.pc = "settle"]
<1>2. /\ UNCHANGED << snap, store, waiting, claimed, dirs, reopening, reopened, starts,
                      mishaps, reopens >>
      /\ proc[p].going = {}
      /\ \/ /\ json' = [json EXCEPT ![r] = m]
            /\ trees' = trees \ proc[p].wave /\ joint' = joint \ {r}
            /\ Leave(p)
         \/ /\ proc' = [proc EXCEPT ![p].changed = none, ![p].failed = TRUE,
                                    ![p].pc = "settle"]
            /\ UNCHANGED << lock, json, trees, joint >>
  BY <1>1 DEF NotAccepted, Ended, Save, Cleanup, bounds
<1>3. proc[p] \in Process /\ proc \in [Proc -> Process] /\ proc[p].mem \in Json
  BY DEF IInv, Types, Process
<1>4. Sane(p) /\ Started(p) /\ Knows(p) /\ Steady(r)
  BY DEF IInv
<1>5. proc[p].wave \subseteq Tickets(r) /\ json[r].status # "none"
      /\ (r \notin reopened => json[r].status # "completed")
  BY <1>1, <1>4 DEF Sane, Started, Knows
<1>6. Bounded'
  BY <1>2 DEF IInv, Bounded
<1>7. CASE /\ json' = [json EXCEPT ![r] = m]
           /\ trees' = trees \ proc[p].wave /\ joint' = joint \ {r}
           /\ Leave(p)
  <2>1. m \in Json /\ m.status = "blocked"
    BY <1>3 DEF Json, RunStatus
  <2> HIDE DEF m, s
  <2>2. json' \in [Run -> Json] /\ json'[r] = m /\ \A z \in Run \ {r} : json'[z] = json[z]
    BY <1>7, <2>1, Saved
  <2>3. FileTypes'
    BY <1>2, <1>7, <2>2 DEF IInv, Types, FileTypes
  <2>4. Frame(p, r)
    BY <1>2, <1>5, <1>7, <2>1, <2>2 DEF Frame, Over, IInv, Caches
  <2>5. Steady(r)'
    BY <1>2, <1>4, <2>1, <2>2 DEF Steady
  <2> QED
    BY <1>1, <1>6, <1>7, <2>3, <2>4, <2>5, Leaves
<1>8. CASE /\ proc' = [proc EXCEPT ![p].changed = none, ![p].failed = TRUE,
                                   ![p].pc = "settle"]
           /\ UNCHANGED << lock, json, trees, joint >>
  <2>1. proc' = [proc EXCEPT ![p] = s]
    BY <1>3, <1>8
  <2>2. none \in [Ticket -> SUBSET Seq(Segment)] /\ \A t \in Ticket : none[t] = {}
    BY IdleFields
  <2> HIDE DEF none
  <2>3. s \in Process
    BY <1>3, <2>2 DEF Process, PC
  <2>4. /\ s.mem = proc[p].mem /\ s.done = proc[p].done /\ s.pc = "settle" /\ s.run = r
        /\ s.resumed = proc[p].resumed /\ s.todo = proc[p].todo /\ s.stale = proc[p].stale
        /\ s.wave = proc[p].wave /\ s.going = proc[p].going
        /\ s.changed = none /\ s.failed = TRUE
    BY <1>1, <1>3 DEF Process
  <2> HIDE DEF s, m
  <2>5. /\ proc' \in [Proc -> Process] /\ proc'[p] = s
        /\ \A q \in Proc \ {p} : proc'[q] = proc[q]
    BY <2>1, <2>3, Moved
  <2>6. FileTypes'
    BY <1>2, <1>8 DEF IInv, Types, FileTypes
  <2>7. Frame(p, r) /\ Steady(r)'
    BY <1>2, <1>8, Quiet
  <2>8. Own(p, r)
    <3>1. Sane(p)'
      BY <1>1, <1>2, <1>4, <1>8, <2>2, <2>4, <2>5 DEF Sane
    <3>2. Started(p)' /\ Kept(p)'
      BY <1>1, <1>4, <1>8, <2>4, <2>5 DEF Started, Kept, At
    <3>3. Knows(p)'
      BY <1>1, <1>2, <1>4, <1>8, <2>4, <2>5 DEF Knows, Started, AllClosed
    <3> QED
      BY <2>4, <2>5, <2>7, <3>1, <3>2, <3>3 DEF Own, IInv, Caches
  <2> QED
    BY <1>1, <1>6, <1>8, <2>5, <2>6, <2>7, <2>8, GoesOn
<1> QED
  BY <1>2, <1>7, <1>8

\* A wave that is announced has its integration worktree.
LEMMA AnnounceKeeps ==
  ASSUME IInv, NEW p \in Proc, Announce(p) PROVE IInv'
<1>1. PICK r \in Run : r = proc[p].run /\ proc[p].pc = "work" /\ lock[r] = p
  BY Busy DEF Announce, Ended, At
<1> DEFINE m == [proc[p].mem EXCEPT !.pending = TRUE]
           none == Idle.changed
           some == Closed(p) # proc[p].wave
           s == [proc[p] EXCEPT !.mem = m, !.pc = "integrate", !.changed = none,
                                !.failed = some]
<1>2. /\ UNCHANGED << lock, snap, store, waiting, claimed, trees, reopening, reopened, starts,
                      mishaps, reopens >>
      /\ proc[p].going = {} /\ joint' = joint \cup {r} /\ dirs' = dirs \cup {r}
      /\ json' = [json EXCEPT ![r] = m]
  BY <1>1 DEF Announce, Ended, Save, bounds, history
<1>3. proc[p] \in Process /\ proc \in [Proc -> Process] /\ proc[p].mem \in Json
  BY DEF IInv, Types, Process
<1>4. Sane(p) /\ Started(p) /\ Knows(p) /\ Steady(r)
  BY DEF IInv
<1>5. json[r].status # "none" /\ proc[p].mem.status # "none"
      /\ (r \notin reopened => json[r].status # "completed" /\ proc[p].mem.status # "completed")
  BY <1>1, <1>4 DEF Started, Knows
<1>6. m \in Json /\ m.status = proc[p].mem.status /\ m.pending = TRUE
  BY <1>3 DEF Json
<1>7. none \in [Ticket -> SUBSET Seq(Segment)] /\ (\A t \in Ticket : none[t] = {})
      /\ some \in BOOLEAN
  BY IdleFields
<1> HIDE DEF none, some
<1>8. proc' = [proc EXCEPT ![p] = s]
  <2>1. proc' = [proc EXCEPT ![p].mem.pending = TRUE, ![p].pc = "integrate",
                             ![p].changed = none, ![p].failed = some]
    BY DEF Announce, none, some
  <2> QED
    BY <1>3, <2>1
<1> HIDE DEF m
<1>9. s \in Process
  BY <1>3, <1>6, <1>7 DEF Process, PC
<1>10. /\ s.mem = m /\ s.done = proc[p].done /\ s.pc = "integrate" /\ s.run = r
       /\ s.resumed = proc[p].resumed /\ s.todo = proc[p].todo /\ s.stale = proc[p].stale
       /\ s.wave = proc[p].wave /\ s.going = proc[p].going
       /\ s.changed = none /\ s.failed = some
  BY <1>1, <1>3 DEF Process
<1> HIDE DEF s
<1>11. /\ proc' \in [Proc -> Process] /\ proc'[p] = s
       /\ \A q \in Proc \ {p} : proc'[q] = proc[q]
  BY <1>8, <1>9, Moved
<1>12. json' \in [Run -> Json] /\ json'[r] = m /\ \A z \in Run \ {r} : json'[z] = json[z]
  BY <1>2, <1>6, Saved
<1>13. FileTypes' /\ Bounded'
  BY <1>2, <1>12 DEF IInv, Types, FileTypes, Bounded
<1>14. Frame(p, r)
  BY <1>2, <1>5, <1>6, <1>12 DEF Frame, Over, IInv, Caches
<1>15. Own(p, r)
  <2>1. Sane(p)'
    BY <1>1, <1>2, <1>4, <1>7, <1>10, <1>11 DEF Sane
  <2>2. Started(p)' /\ Kept(p)'
    BY <1>2, <1>5, <1>6, <1>10, <1>11, <1>12 DEF Started, Kept, At
  <2>3. Knows(p)' /\ Steady(r)'
    BY <1>2, <1>4, <1>5, <1>6, <1>10, <1>11, <1>12 DEF Knows, Steady
  <2> QED
    BY <1>10, <1>11, <2>1, <2>2, <2>3 DEF Own, IInv, Caches
<1> QED
  BY <1>1, <1>2, <1>11, <1>13, <1>14, <1>15, GoesOn

\* A run with a wave being integrated is not over before.
LEMMA IntegrateKeeps ==
  ASSUME IInv, NEW p \in Proc, Integrate(p) PROVE IInv'
<1>1. PICK r \in Run : r = proc[p].run /\ proc[p].pc = "integrate" /\ lock[r] = p
  BY Busy DEF Integrate, At
<1> DEFINE m == [proc[p].mem EXCEPT !.pending = FALSE]
           s == [proc[p] EXCEPT !.mem = m, !.pc = "settle"]
<1>2. /\ UNCHANGED << lock, snap, store, waiting, claimed, dirs, trees, joint, reopening,
                      reopened, starts, mishaps, reopens >>
      /\ json' = [json EXCEPT ![r] = m]
  BY <1>1 DEF Integrate, Save, cache, bounds, history
<1>3. proc[p] \in Process /\ proc \in [Proc -> Process] /\ proc[p].mem \in Json
  BY DEF IInv, Types, Process
<1>4. Sane(p) /\ Started(p) /\ Knows(p) /\ Steady(r)
  BY DEF IInv
<1>5. proc[p].mem.status # "none" /\ proc[p].mem.pending
      /\ (r \notin reopened => json[r] = proc[p].mem)
  BY <1>1, <1>4 DEF Started, Knows
<1>6. m \in Json /\ m.status = proc[p].mem.status /\ m.pending = FALSE
  BY <1>3 DEF Json
<1>7. proc' = [proc EXCEPT ![p] = s]
  BY <1>3 DEF Integrate
<1> HIDE DEF m
<1>8. s \in Process
  BY <1>3, <1>6 DEF Process, PC
<1>9. /\ s.mem = m /\ s.done = proc[p].done /\ s.pc = "settle" /\ s.run = r
      /\ s.resumed = proc[p].resumed /\ s.todo = proc[p].todo /\ s.stale = proc[p].stale
      /\ s.wave = proc[p].wave /\ s.going = proc[p].going
      /\ s.changed = proc[p].changed /\ s.failed = proc[p].failed
  BY <1>1, <1>3 DEF Process
<1> HIDE DEF s
<1>10. /\ proc' \in [Proc -> Process] /\ proc'[p] = s
       /\ \A q \in Proc \ {p} : proc'[q] = proc[q]
  BY <1>7, <1>8, Moved
<1>11. json' \in [Run -> Json] /\ json'[r] = m /\ \A z \in Run \ {r} : json'[z] = json[z]
  BY <1>2, <1>6, Saved
<1>12. FileTypes' /\ Bounded'
  BY <1>2, <1>11 DEF IInv, Types, FileTypes, Bounded
<1>13. Frame(p, r)
  BY <1>2, <1>5, <1>6, <1>11 DEF Frame, Over, IInv, Caches
<1>14. Own(p, r)
  <2>1. Sane(p)'
    BY <1>1, <1>2, <1>4, <1>9, <1>10, StillSane
  <2>2. Started(p)' /\ Kept(p)'
    BY <1>1, <1>4, <1>5, <1>6, <1>9, <1>10, <1>11 DEF Started, Kept, At
  <2>3. Knows(p)' /\ Steady(r)'
    BY <1>1, <1>2, <1>4, <1>5, <1>6, <1>9, <1>10, <1>11 DEF Knows, Steady, AllClosed
  <2> QED
    BY <1>9, <1>10, <2>1, <2>2, <2>3 DEF Own, IInv, Caches
<1> QED
  BY <1>1, <1>2, <1>10, <1>12, <1>13, <1>14, GoesOn

\* Nor is it when its integration fails.
LEMMA IntegrationFailsKeeps ==
  ASSUME IInv, NEW p \in Proc, IntegrationFails(p) PROVE IInv'
<1>1. PICK r \in Run : r = proc[p].run /\ proc[p].pc = "integrate" /\ lock[r] = p
  BY Busy DEF IntegrationFails, At
<1>2. /\ UNCHANGED << snap, store, waiting, claimed, dirs, reopening, reopened, starts,
                      reopens >>
      /\ trees' = trees \ proc[p].wave /\ joint' = joint \ {r} /\ Leave(p)
      /\ \/ mishaps' = mishaps
         \/ mishaps < MaxMishaps /\ mishaps' = mishaps + 1
  BY <1>1 DEF IntegrationFails, Cleanup, Mishap, bounds, history
<1>3. PICK m \in Json :
        /\ json' = [json EXCEPT ![r] = m]
        /\ m = proc[p].mem \/ m.status = "blocked"
  <2>1. proc[p].mem \in Json
    BY DEF IInv, Types, Process
  <2>2. \A b \in BOOLEAN : [status |-> "blocked", pending |-> b] \in Json
    BY DEF Json, RunStatus
  <2> QED
    BY <1>1, <2>1, <2>2 DEF IntegrationFails, Save
<1>4. Sane(p) /\ Started(p) /\ Knows(p) /\ Steady(r)
  BY DEF IInv
<1>5. proc[p].mem.status # "none" /\ proc[p].mem.pending
      /\ (r \notin reopened => json[r] = proc[p].mem)
  BY <1>1, <1>4 DEF Started, Knows
<1>6. json' \in [Run -> Json] /\ json'[r] = m /\ \A z \in Run \ {r} : json'[z] = json[z]
  BY <1>3, Saved
<1>7. FileTypes' /\ Bounded'
  <2>1. mishaps' \in 0 .. MaxMishaps
    BY <1>2, Constants DEF IInv, Bounded
  <2> QED
    BY <1>2, <1>6, <2>1 DEF IInv, Types, FileTypes, Bounded
<1>8. proc[p].wave \subseteq Tickets(r)
  BY <1>1, <1>4 DEF Sane
<1>9. Frame(p, r)
  BY <1>2, <1>3, <1>5, <1>6, <1>8 DEF Frame, Over, IInv, Caches
<1>10. Steady(r)'
  BY <1>2, <1>3, <1>4, <1>5, <1>6 DEF Steady, AllClosed
<1> QED
  BY <1>1, <1>2, <1>7, <1>9, <1>10, Leaves

\* After a wave the run is over if it was before.
LEMMA SettleKeeps ==
  ASSUME IInv, NEW p \in Proc, Settle(p) PROVE IInv'
<1>1. PICK r \in Run : r = proc[p].run /\ proc[p].pc = "settle" /\ lock[r] = p
  BY Busy DEF Settle, At
<1> DEFINE m == [proc[p].mem EXCEPT !.status = IF proc[p].failed THEN "blocked" ELSE @]
           s == [proc[p] EXCEPT !.mem = m, !.wave = {}, !.failed = FALSE, !.pc = "loop"]
<1>2. /\ UNCHANGED << snap, store, waiting, claimed, dirs, reopening, reopened, starts,
                      mishaps, reopens >>
      /\ trees' = trees \ proc[p].wave /\ joint' = joint \ {r}
      /\ json' = [json EXCEPT ![r] = m]
      /\ IF proc[p].failed /\ ~proc[p].resumed THEN Leave(p)
         ELSE /\ proc' = [proc EXCEPT ![p].mem = m, ![p].wave = {},
                                      ![p].failed = FALSE, ![p].pc = "loop"]
              /\ UNCHANGED lock
  BY <1>1 DEF Settle, Cleanup, Save, bounds, history
<1>3. proc[p] \in Process /\ proc \in [Proc -> Process] /\ proc[p].mem \in Json
  BY DEF IInv, Types, Process
<1>4. Sane(p) /\ Started(p) /\ Knows(p) /\ Steady(r)
  BY DEF IInv
<1>5. proc[p].mem.status # "none" /\ proc[p].wave \subseteq Tickets(r)
      /\ proc[p].going = {}
      /\ (r \notin reopened => /\ json[r] = proc[p].mem
                               /\ proc[p].mem.status = "completed" => AllClosed(r)
                               /\ proc[p].failed => proc[p].mem.status # "completed")
  BY <1>1, <1>4 DEF Started, Knows, Sane
<1>6. /\ m \in Json /\ m.pending = proc[p].mem.pending
      /\ m.status = IF proc[p].failed THEN "blocked" ELSE proc[p].mem.status
  BY <1>3 DEF Json, RunStatus
<1>7. /\ s.mem = m /\ s.done = proc[p].done /\ s.pc = "loop" /\ s.run = r
      /\ s.resumed = proc[p].resumed /\ s.todo = proc[p].todo /\ s.stale = proc[p].stale
      /\ s.wave = {} /\ s.going = proc[p].going
      /\ s.changed = proc[p].changed /\ s.failed = FALSE
  <2> HIDE DEF m
  <2> QED
    BY <1>1, <1>3 DEF Process
<1> HIDE DEF m
<1>8. s \in Process
  BY <1>3, <1>6 DEF Process, PC
<1>9. proc' = [proc EXCEPT ![p].mem = m, ![p].wave = {}, ![p].failed = FALSE, ![p].pc = "loop"]
         => proc' = [proc EXCEPT ![p] = s]
  BY <1>3
<1> HIDE DEF s
<1>10. json' \in [Run -> Json] /\ json'[r] = m /\ \A z \in Run \ {r} : json'[z] = json[z]
  BY <1>2, <1>6, Saved
<1>11. FileTypes' /\ Bounded'
  BY <1>2, <1>10 DEF IInv, Types, FileTypes, Bounded
<1>12. Frame(p, r)
  BY <1>2, <1>5, <1>6, <1>10 DEF Frame, Over, IInv, Caches
<1>13. AllClosed(r)' <=> AllClosed(r)
  BY <1>2 DEF AllClosed
<1>14. Steady(r)'
  BY <1>2, <1>4, <1>5, <1>6, <1>10, <1>13 DEF Steady
<1>15. CASE proc[p].failed /\ ~proc[p].resumed
  BY <1>1, <1>2, <1>11, <1>12, <1>14, <1>15, Leaves
<1>16. CASE ~(proc[p].failed /\ ~proc[p].resumed)
  <2>1. /\ proc' \in [Proc -> Process] /\ proc'[p] = s
        /\ \A q \in Proc \ {p} : proc'[q] = proc[q]
    BY <1>2, <1>8, <1>9, <1>16, Moved
  <2>2. Sane(p)'
    <3>1. lock' = lock
      BY <1>2, <1>16
    <3>2. IsFiniteSet({}) /\ Cardinality({}) <= MaxConcurrency /\ Apart({})
      BY Constants, FS_EmptySet DEF Apart
    <3>3. \A t \in Ticket : proc[p].changed[t] \in Edits[t] \cup {{}}
      BY <1>4 DEF Sane
    <3>4. r # None
      BY Constants
    <3> QED
      BY <1>1, <1>5, <1>7, <2>1, <3>1, <3>2, <3>3, <3>4 DEF Sane
  <2>3. Started(p)' /\ Kept(p)'
    BY <1>5, <1>6, <1>7, <1>10, <2>1 DEF Started, Kept, At
  <2>4. Knows(p)'
    BY <1>2, <1>5, <1>6, <1>7, <1>10, <1>13, <2>1 DEF Knows
  <2>5. Own(p, r)
    BY <1>7, <1>14, <2>1, <2>2, <2>3, <2>4 DEF Own, IInv, Caches
  <2> QED
    BY <1>1, <1>2, <1>11, <1>12, <1>16, <2>1, <2>5, GoesOn
<1> QED
  BY <1>15, <1>16

\* The status a resume ends with says completed if all tickets are closed.
LEMMA DeriveKeeps ==
  ASSUME IInv, NEW p \in Proc, Derive(p) PROVE IInv'
<1>1. PICK r \in Run : r = proc[p].run /\ proc[p].pc = "derive" /\ lock[r] = p
  BY Busy DEF Derive, At
<1> DEFINE m == [proc[p].mem EXCEPT !.status = StatusFrom(r)]
<1>2. /\ UNCHANGED << snap, store, waiting, claimed, dirs, trees, joint, reopening, reopened,
                      starts, mishaps, reopens >>
      /\ json' = [json EXCEPT ![r] = m] /\ Leave(p)
  BY <1>1 DEF Derive, Save, cache, bounds, history
<1>3. /\ m \in Json /\ m.pending = FALSE /\ m.status # "none"
      /\ m.status = "completed" <=> AllClosed(r)
  <2>1. proc[p].mem \in Json /\ ~proc[p].mem.pending
    BY <1>1 DEF IInv, Types, Process, Started
  <2>2. /\ StatusFrom(r) \in {"blocked", "running", "completed"}
        /\ StatusFrom(r) = "completed" <=> AllClosed(r)
    BY Statuses DEF IInv, Types
  <2> QED
    BY <2>1, <2>2 DEF Json, RunStatus
<1> HIDE DEF m
<1>4. json' \in [Run -> Json] /\ json'[r] = m /\ \A z \in Run \ {r} : json'[z] = json[z]
  BY <1>2, <1>3, Saved
<1>5. FileTypes' /\ Bounded'
  BY <1>2, <1>4 DEF IInv, Types, FileTypes, Bounded
<1>6. r \notin reopened /\ Over(r) => Over(r)'
  BY <1>3, <1>4 DEF IInv, Steady, Over
<1>7. Frame(p, r)
  BY <1>2, <1>3, <1>4, <1>6 DEF Frame, IInv, Caches
<1>8. Steady(r)'
  BY <1>2, <1>3, <1>4 DEF IInv, Steady, AllClosed
<1> QED
  BY <1>1, <1>2, <1>5, <1>7, <1>8, Leaves

\* A crash changes no file.
LEMMA CrashKeeps ==
  ASSUME IInv, NEW p \in Proc, Crash(p) PROVE IInv'
<1>1. PICK r \in Run : r = proc[p].run /\ proc[p].pc # "idle"
  BY Busy DEF Crash, At
<1>2. /\ UNCHANGED << json, snap, store, waiting, claimed, dirs, trees, joint, reopening,
                      reopened, starts, reopens >>
      /\ mishaps < MaxMishaps /\ mishaps' = mishaps + 1 /\ Leave(p)
  BY DEF Crash, files, cache, Mishap, history
<1>3. FileTypes' /\ Bounded'
  <2>1. mishaps' \in 0 .. MaxMishaps
    BY <1>2, Constants DEF IInv, Bounded
  <2> QED
    BY <1>2, <2>1 DEF IInv, Types, FileTypes, Bounded
<1>4. Frame(p, r) /\ Steady(r)'
  BY <1>2, Quiet
<1> QED
  BY <1>1, <1>2, <1>3, <1>4, Leaves

-----------------------------------------------------------------------------
(* Others *)

\* What expires or closes elsewhere touches nothing that matters.
LEMMA OthersKeep ==
  ASSUME IInv, waiting' \subseteq Ticket, claimed' \subseteq Ticket,
         UNCHANGED << lock, json, snap, store, cache, proc, reopening, reopened, bounds >>
  PROVE  IInv'
<1>1. UNCHANGED << lock, json, snap, store, dirs, trees, joint, proc, reopening, reopened,
                   starts, mishaps, reopens >>
  BY DEF cache, bounds
<1>2. Types' /\ Bounded' /\ Reopening'
  BY <1>1 DEF IInv, Types, FileTypes, Bounded, Reopening
<1>3. Caches'
  BY <1>1 DEF IInv, Caches, Over
<1>4. ASSUME NEW p \in Proc PROVE Sane(p)' /\ Started(p)' /\ Knows(p)' /\ Kept(p)'
  <2>1. Sane(p) /\ Started(p) /\ Knows(p) /\ Kept(p)
    BY DEF IInv
  <2>2. Sane(p)' /\ Started(p)'
    BY <1>1, <2>1 DEF Sane, Started
  <2>3. Knows(p)' /\ Kept(p)'
    BY <1>1, <2>1 DEF Knows, Kept, AllClosed, At
  <2> QED
    BY <2>2, <2>3
<1>5. \A r \in Run : Steady(r)'
  BY <1>1 DEF IInv, Steady, AllClosed
<1> QED
  BY <1>2, <1>3, <1>4, <1>5 DEF IInv

\* A reopening is of one run, and of no other does anything change.
LEMMA ReopenedKeeps ==
  ASSUME IInv, Types', Bounded', Reopening', NEW r \in Run, r \in reopened',
         reopened \subseteq reopened', UNCHANGED << lock, dirs, trees, joint, proc >>,
         \A s \in Run \ {r} : json'[s] = json[s],
         json[r].status # "none" => json'[r].status # "none",
         json'[r].status = "none" => json'[r] = json[r],
         \A t \in Ticket \ Tickets(r) : snap'[t] = snap[t] /\ store'[t] = store[t]
  PROVE  IInv'
<1>1. ASSUME NEW s \in Run \ {r}
      PROVE  /\ \A t \in Tickets(s) : snap'[t] = snap[t] /\ store'[t] = store[t]
             /\ AllClosed(s)' <=> AllClosed(s)
             /\ Over(s)' <=> Over(s)
  <2>1. \A t \in Tickets(s) : snap'[t] = snap[t] /\ store'[t] = store[t]
    BY Owners
  <2> QED
    BY <2>1 DEF AllClosed, Over
<1>2. \A s \in Run : s \notin reopened' => s \notin reopened /\ s \in Run \ {r}
  OBVIOUS
<1>3. \A s \in Run : json[s].status # "none" => json'[s].status # "none"
  OBVIOUS
<1>4. Caches'
  <2>1. dirs \subseteq Run /\ \A p \in Proc : proc[p].todo \subseteq Run
    BY DEF IInv, Types, FileTypes, Process
  <2> QED
    BY <1>1, <1>2, <1>3, <2>1 DEF IInv, Caches
<1>5. ASSUME NEW p \in Proc PROVE Sane(p)' /\ Started(p)' /\ Knows(p)' /\ Kept(p)'
  <2>1. Sane(p) /\ Started(p) /\ Knows(p) /\ Kept(p)
    BY DEF IInv
  <2>2. Sane(p)'
    BY <2>1 DEF Sane
  <2>3. Started(p)'
    <3>1. CASE proc[p].pc = "idle"
      BY <2>1, <2>2, <3>1, IdleFields DEF Started, Sane
    <3>2. CASE proc[p].pc # "idle"
      <4>1. proc[p].run \in Run
        BY <3>2, Busy
      <4> QED
        BY <1>3, <2>1, <4>1 DEF Started
    <3> QED
      BY <3>1, <3>2
  <2>4. Knows(p)'
    <3>1. SUFFICES ASSUME NEW s \in Run, s = proc[p].run, s \notin reopened'
                   PROVE  Knows(p)'
      BY DEF Knows
    <3>2. s \in Run \ {r} /\ s \notin reopened /\ json'[s] = json[s]
      BY <1>2, <3>1
    <3>3. proc[p].wave \subseteq Tickets(s) /\ proc[p].going \subseteq Tickets(s)
      <4>1. proc[p].pc # "idle"
        BY <2>1, <3>1, IdleFields, Constants DEF Sane
      <4> QED
        BY <2>1, <3>1, <4>1 DEF Sane
    <3>4. {t \in Tickets(s) : snap'[t] = "closed"} = {t \in Tickets(s) : snap[t] = "closed"}
      BY <1>1, <3>2
    <3> QED
      BY <1>1, <2>1, <3>1, <3>2, <3>3, <3>4 DEF Knows
  <2>5. Kept(p)'
    BY <2>1 DEF Kept, At
  <2> QED
    BY <2>2, <2>3, <2>4, <2>5
<1>6. ASSUME NEW s \in Run PROVE Steady(s)'
  <2>1. CASE s \in reopened'
    BY <2>1 DEF Steady
  <2>2. CASE s \notin reopened'
    <3>1. Steady(s) /\ s \in Run \ {r} /\ s \notin reopened /\ json'[s] = json[s]
      BY <1>2, <2>2 DEF IInv
    <3> QED
      BY <1>1, <3>1 DEF Steady
  <2> QED
    BY <2>1, <2>2
<1> QED
  BY <1>4, <1>5, <1>6 DEF IInv

LEMMA ReopenKeeps ==
  ASSUME IInv, Reopen PROVE IInv'
<1>1. PICK t \in Ticket :
        LET r == RunOf(t)
            blocked == \E u \in Tickets(r) \ {t} : snap[u] = "blocked"
        IN /\ snap' = [snap EXCEPT ![t] = "implement"]
           /\ reopening' = [ticket |-> t,
                            json |-> [json[r] EXCEPT !.status =
                                         IF blocked THEN "blocked" ELSE "running"]]
           /\ reopened' = reopened \cup {r}
  BY DEF Reopen
<1>2. PICK r \in Run : r = RunOf(t) /\ t \in Tickets(r)
  BY Owners
<1>3. /\ UNCHANGED << lock, json, store, waiting, claimed, dirs, trees, joint, proc, starts,
                      mishaps >>
      /\ reopens < MaxReopens /\ reopens' = reopens + 1
  BY DEF Reopen, cache
<1>4. json \in [Run -> Json] /\ snap \in [Ticket -> {"none", "implement", "blocked", "closed"}]
      /\ reopened \subseteq Run
  BY DEF IInv, Types, FileTypes
<1>5. /\ snap' \in [Ticket -> {"none", "implement", "blocked", "closed"}]
      /\ \A u \in Ticket \ {t} : snap'[u] = snap[u]
      /\ reopened' = reopened \cup {r}
  BY <1>1, <1>2, <1>4
<1>6. Types'
  BY <1>3, <1>4, <1>5 DEF IInv, Types, FileTypes
<1>7. Bounded'
  BY <1>3, Constants DEF IInv, Bounded
<1>8. Reopening'
  <2>1. PICK st \in {"blocked", "running"} :
          reopening' = [ticket |-> t, json |-> [json[r] EXCEPT !.status = st]]
    BY <1>1, <1>2
  <2>2. json[r] \in Json
    BY <1>4
  <2>3. [json[r] EXCEPT !.status = st] \in Json /\ [json[r] EXCEPT !.status = st].status = st
    BY <2>2 DEF Json, RunStatus
  <2>4. reopening'.ticket = t /\ reopening'.json = [json[r] EXCEPT !.status = st]
    BY <2>1
  <2> QED
    BY <1>2, <1>5, <2>3, <2>4 DEF Reopening
<1>9. \A u \in Ticket \ Tickets(r) : snap'[u] = snap[u] /\ store'[u] = store[u]
  BY <1>2, <1>3, <1>5
<1> QED
  BY <1>3, <1>5, <1>6, <1>7, <1>8, <1>9, ReopenedKeeps

LEMMA ReopenWritesKeeps ==
  ASSUME IInv, ReopenWrites PROVE IInv'
<1>1. reopening # None /\ reopening.ticket \in Ticket /\ reopening.json \in Json
      /\ reopening.json.status # "none" /\ RunOf(reopening.ticket) \in reopened
  BY DEF ReopenWrites, IInv, Reopening
<1>2. PICK r \in Run : r = RunOf(reopening.ticket) /\ reopening.ticket \in Tickets(r)
  BY <1>1, Owners
<1>3. /\ UNCHANGED << lock, snap, waiting, claimed, dirs, trees, joint, proc, reopened,
                      starts, mishaps, reopens >>
      /\ json' = [json EXCEPT ![r] = reopening.json]
      /\ store' = [store EXCEPT ![reopening.ticket] = "open"] /\ reopening' = None
  BY <1>2 DEF ReopenWrites, cache, bounds, history
<1>4. json' \in [Run -> Json] /\ json'[r] = reopening.json
      /\ \A z \in Run \ {r} : json'[z] = json[z]
  BY <1>1, <1>3, Saved
<1>5. Types' /\ Bounded' /\ Reopening'
  BY <1>3, <1>4 DEF IInv, Types, FileTypes, Bounded, Reopening
<1>6. \A u \in Ticket \ Tickets(r) : snap'[u] = snap[u] /\ store'[u] = store[u]
  BY <1>2, <1>3 DEF IInv, Types, FileTypes
<1> QED
  BY <1>1, <1>2, <1>3, <1>4, <1>5, <1>6, ReopenedKeeps

LEMMA InitOK == Init => IInv
<1> SUFFICES ASSUME Init PROVE IInv
  OBVIOUS
<1>1. /\ lock = [r \in Run |-> None] /\ json = [r \in Run |-> Idle.mem]
      /\ snap = [t \in Ticket |-> "none"] /\ store = [t \in Ticket |-> "open"]
      /\ waiting = Waiting /\ claimed = {} /\ dirs = {} /\ trees = {} /\ joint = {}
      /\ proc = [p \in Proc |-> Idle] /\ reopening = None /\ reopened = {}
      /\ starts = 0 /\ mishaps = 0 /\ reopens = 0
  BY DEF Init
<1>2. Types
  BY <1>1, IdleFields, Constants DEF Types, FileTypes
<1>3. Bounded /\ Reopening
  BY <1>1, Constants DEF Bounded, Reopening
<1>4. Caches
  BY <1>1, IdleFields, Constants DEF Caches
<1>5. \A p \in Proc : Sane(p) /\ Started(p) /\ Knows(p) /\ Kept(p)
  BY <1>1, IdleSane
<1>6. \A r \in Run : Steady(r)
  BY <1>1, IdleFields, Owners DEF Steady
<1> QED
  BY <1>2, <1>3, <1>4, <1>5, <1>6 DEF IInv

LEMMA Inductive == IInv /\ [Next]_vars => IInv'
<1> SUFFICES ASSUME IInv, [Next]_vars PROVE IInv'
  OBVIOUS
<1>1. ASSUME NEW p \in Proc, Step(p) PROVE IInv'
  BY <1>1, LoadKeeps, SaveResumedKeeps, BeginResumedKeeps, BeginNewKeeps, LookKeeps,
     RemoveStaleKeeps, TakeUpKeeps, FinishKeeps, DirtyMainKeeps, ScheduleKeeps, PrepareKeeps,
     TicketEndsKeeps, NotAcceptedKeeps, AnnounceKeeps, IntegrateKeeps, IntegrationFailsKeeps,
     SettleKeeps, DeriveKeeps DEF Step
<1>2. CASE Expire
  BY <1>2, OthersKeep DEF Expire, IInv, Types, FileTypes, history
<1>3. CASE DependencyCloses
  BY <1>3, OthersKeep DEF DependencyCloses, IInv, Types, FileTypes, history
<1>4. CASE UNCHANGED vars
  BY <1>4, OthersKeep DEF vars, files, history, IInv, Types, FileTypes
<1> QED
  BY <1>1, <1>2, <1>3, <1>4, StartKeeps, CrashKeeps, ReopenKeeps, ReopenWritesKeeps DEF Next

LEMMA Invariance == Spec => []IInv
<1> QED
  BY InitOK, Inductive, PTL DEF Spec

-----------------------------------------------------------------------------
(* The theorems *)

\* Every record keeps its shape, a process that executes a run holds its lock, and a
\* wave has no more tickets than scheduler.max_concurrency allows.
THEOREM TypeCorrect == Spec => []TypeOK
<1>1. ASSUME IInv PROVE TypeOK
  <2>1. Types /\ Bounded
    BY <1>1 DEF IInv
  <2>2. ASSUME NEW p \in Proc
        PROVE  /\ proc[p].pc \in PC /\ proc[p].mem \in Json
               /\ proc[p].run = None \/ lock[proc[p].run] = p
               /\ proc[p].run \in Run \cup {None} /\ proc[p].stale \in Run \cup {None}
               /\ proc[p].going \subseteq proc[p].wave
               /\ \A t \in Ticket : proc[p].changed[t] \in Edits[t] \cup {{}}
               /\ Cardinality(proc[p].wave) <= MaxConcurrency
    <3>1. proc[p] \in Process
      BY <2>1 DEF Types
    <3>2. Sane(p)
      BY <1>1 DEF IInv
    <3>3. proc[p].run = None \/ lock[proc[p].run] = p
      BY <3>2, IdleFields DEF Sane
    <3> QED
      BY <3>1, <3>2, <3>3 DEF Process, Sane
  <2>3. starts <= MaxStarts /\ mishaps <= MaxMishaps /\ reopens <= MaxReopens
    BY <2>1, Constants DEF Bounded
  <2> QED
    BY <2>1, <2>2, <2>3 DEF Types, FileTypes, TypeOK
<1> QED
  BY <1>1, Invariance, PTL

\* No reconciliation takes a worktree from under a ticket at work, or the integration
\* worktree from under a wave, of a run no ticket of which was reopened.
THEOREM WorktreeKeptHolds == Spec => []WorktreeKept
<1>1. IInv => WorktreeKept
  BY DEF IInv, Kept, WorktreeKept
<1> QED
  BY <1>1, Invariance, PTL

\* Tickets of a wave that stayed in the scopes they declare never change the same file.
THEOREM ScopesKeepApartHolds == Spec => []ScopesKeepApart
<1>1. ASSUME IInv PROVE ScopesKeepApart
  <2>1. SUFFICES ASSUME NEW p \in Proc, Clash(p),
                        \A t \in Closed(p) : \A f \in proc[p].changed[t] :
                           \E s \in Scope[t] : IsPrefix(s, f)
                 PROVE  FALSE
    BY DEF ScopesKeepApart
  <2>2. Sane(p) /\ proc[p] \in Process
    BY <1>1 DEF IInv, Types
  <2>3. PICK f \in UNION {proc[p].changed[t] : t \in Closed(p)} :
           Cardinality({t \in Closed(p) : f \in proc[p].changed[t]}) > 1
    BY <2>1 DEF Clash, Conflicts
  <2> DEFINE T == {t \in Closed(p) : f \in proc[p].changed[t]}
  <2>4. \E t, u \in T : t # u
    <3> SUFFICES ASSUME \A t, u \in T : t = u PROVE FALSE
      OBVIOUS
    <3>1. T = {} \/ \E t \in T : T = {t}
      OBVIOUS
    <3>2. Cardinality(T) = 0 \/ Cardinality(T) = 1
      BY <3>1, FS_EmptySet, FS_Singleton
    <3> QED
      BY <2>3, <3>2
  <2>5. PICK t \in T, u \in T : t # u
    BY <2>4
  <2>6. t \in Ticket /\ u \in Ticket /\ t \in proc[p].wave /\ u \in proc[p].wave
    BY <2>2, <2>5 DEF Closed, Process
  <2>7. f \in Seq(Segment)
    BY <2>2, <2>5, <2>6 DEF Process
  <2>8. PICK a \in Scope[t] : IsPrefix(a, f)
    BY <2>1, <2>5
  <2>9. PICK b \in Scope[u] : IsPrefix(b, f)
    BY <2>1, <2>5
  <2>10. a \in Seq(Segment) /\ b \in Seq(Segment)
    BY <2>6, <2>8, <2>9, Constants
  <2>11. OverlapsAny(Scope[t], Scope[u])
    BY <2>7, <2>8, <2>9, <2>10, PrefixesOverlap DEF OverlapsAny
  <2> QED
    BY <2>2, <2>5, <2>6, <2>11 DEF Sane, Apart
<1> QED
  BY <1>1, Invariance, PTL
=============================================================================
