------------------------ MODULE WaveAtomicityProofs -------------------------
(***************************************************************************)
(* More proofs about WaveIntegration, for every set of tickets and all      *)
(* bounds: a wave gets to the main tree whole, verified and once.           *)
(***************************************************************************)
EXTENDS WaveIntegrationProofs

\* The tree a wave started from, what its refs make of it, and all that repairs of
\* the wave and other commits of its tickets could make of it.
From == run.pending.base
Whole == From \cup Picked(Refs)
Room == From \cup (Refs \X (0 .. MaxCommits))

Commits(tree) == {c \in tree : c[2] > 0}
WholePassed == \E tree \in verified : Commits(tree) = Commits(Whole)

\* Between waves the base ref is the main tree, and run.json does not say otherwise.
Between ==
    run.pending = None =>
        /\ base # None => base = main
        /\ run.last \in {None, RefName, main}
        /\ ~run.waves => main = {}
        /\ run.state = "none" => ~run.waves

\* While a wave is announced: every tree lies between the one it started from and the
\* one it may make; what is done before the checks have passed is in the worktree only;
\* a main tree that has changed is what would be integrated if it were done again.
Announced ==
    run.pending # None =>
        run.waves /\ run.state # "none" /\ run.last \in {None, RefName, From}
InRoom ==
    run.pending # None =>
        /\ From \subseteq main /\ main \subseteq Room
        /\ base # None => /\ From \subseteq base /\ base \subseteq Room
                          /\ Commits(base) \subseteq Whole
        /\ wt # None => /\ Whole \subseteq wt.tree /\ wt.tree \subseteq Room
                        /\ Commits(wt.tree) \subseteq Whole
NoRepairs ==
    run.pending # None /\ ~HasChecks =>
        /\ base # None => base \subseteq Whole
        /\ wt # None => wt.tree \subseteq Whole
NotBefore ==
    run.pending # None =>
        /\ HasChecks /\ flag # "passed" => main = From /\ base \in {None, From}
        /\ base = None => main = From
        /\ flag = "passed" => WholePassed
Repeatable ==
    run.pending # None /\ main # From =>
        main = IF wt # None THEN wt.tree ELSE base \cup Whole
During == Announced /\ InRoom /\ NoRepairs /\ NotBefore /\ Repeatable

\* What a process has come to know on its way to where it stands.
Stages ==
    /\ pc # "down" => run.state # "none"
    /\ pc \in {"work", "settle"} => run.pending = None
    /\ pc = "work" => run.waves /\ flag = "none"
    /\ pc \in {"repair", "clear"} => HasChecks
    /\ pc \in {"verify", "repair", "clear"} /\ HasChecks => base = From /\ main = From
    /\ pc \in {"commit", "advance", "apply"} => WholePassed
    /\ pc \in {"commit", "advance", "apply"} /\ HasChecks => flag = "passed"
    /\ pc \in {"verify", "commit", "advance", "apply"} /\ origin # "passed"
          /\ (HasChecks \/ origin = "wave") => main = From
    /\ pc = "advance" => wt.head = wt.tree
    /\ pc = "apply" => wt # None /\ base = wt.tree
    /\ pc = "finish" => base = main

\* The inductive invariant.
AInv == TypeOK /\ Between /\ During /\ Stages /\ MainIsVerified
-----------------------------------------------------------------------------
(* What the steps have in common *)

\* What an edit of run.json leaves of its state and of whether there was a wave.
LEMMA RunRest ==
  ASSUME NEW r \in Run, NEW s, NEW p, NEW l
  PROVE  /\ [r EXCEPT !.state = s].waves = r.waves
         /\ [r EXCEPT !.state = s].state = s
         /\ [r EXCEPT !.waves = TRUE].waves
         /\ [r EXCEPT !.waves = TRUE].state = r.state
         /\ [r EXCEPT !.pending = p].waves = r.waves
         /\ [r EXCEPT !.pending = p].state = r.state
         /\ [r EXCEPT !.pending = p, !.state = s].waves = r.waves
         /\ [r EXCEPT !.pending = p, !.state = s].state = s
         /\ [r EXCEPT !.pending = p, !.last = l].waves = r.waves
         /\ [r EXCEPT !.pending = p, !.last = l].state = r.state
         /\ [r EXCEPT !.last = l, !.state = s].waves = r.waves
         /\ [r EXCEPT !.last = l, !.state = s].state = s
         /\ [r EXCEPT !.state = s, !.pending = p, !.last = l].waves = r.waves
         /\ [r EXCEPT !.state = s, !.pending = p, !.last = l].state = s
  BY DEF Run

\* As long as the same wave is announced, what it may make is the same.
LEMMA SameWave ==
  ASSUME run'.pending = run.pending, work' = work
  PROVE  From' = From /\ Whole' = Whole /\ Room' = Room /\ (HasChecks' <=> HasChecks)
  BY DEF From, Whole, Room, HasChecks, Refs, Picked, Changed

\* The trees of a wave, one in the other; a repair is no commit.
LEMMA WaveTrees ==
  ASSUME TicketTypes, FileTypes, run.pending # None
  PROVE  /\ From \subseteq Whole /\ Whole \subseteq Room
         /\ Integration(Refs).tree = base \cup Picked(Refs)
         /\ Repairs(Refs) \subseteq Room /\ Commits(Repairs(Refs)) = {}
<1>1. From \subseteq Whole
  BY DEF Whole
<1>2. Whole \subseteq Room
  <2>1. Picked(Refs) \subseteq Refs \X (0 .. MaxCommits)
    BY DEF Picked, Changed, Change
  <2> QED
    BY <2>1 DEF Whole, Room
<1>3. Integration(Refs).tree = base \cup Picked(Refs)
  BY DEF Integration
<1>4. Repairs(Refs) \subseteq Room
  BY Natural DEF Repairs, Room
<1>5. Commits(Repairs(Refs)) = {}
  BY DEF Commits, Repairs
<1> QED
  BY <1>1, <1>2, <1>3, <1>4, <1>5

\* The trees that have passed stay what they are.
LEMMA StaysPassed ==
  ASSUME verified \subseteq verified', run'.pending = run.pending, work' = work,
         WholePassed
  PROVE  WholePassed'
  BY SameWave DEF WholePassed, Commits

\* So does a main tree that is left alone.
LEMMA StaysVerified ==
  ASSUME verified \subseteq verified', main' = main, MainIsVerified
  PROVE  MainIsVerified'
  BY DEF MainIsVerified

\* A step that changes no tree and leaves the announcement alone.
LEMMA Untouched ==
  ASSUME Between, During, MainIsVerified,
         UNCHANGED << base, main, wt, flag, verified, work >>,
         run'.pending = run.pending, run'.last = run.last, run'.waves = run.waves,
         run'.state = "none" => run.state = "none"
  PROVE  Between' /\ During' /\ MainIsVerified'
<1>1. From' = From /\ Whole' = Whole /\ Room' = Room /\ (HasChecks' <=> HasChecks)
  BY SameWave
<1>2. Between'
  BY DEF Between
<1>3. Announced'
  BY <1>1 DEF During, Announced
<1>4. InRoom'
  BY <1>1 DEF During, InRoom, Commits
<1>5. NoRepairs'
  BY <1>1 DEF During, NoRepairs
<1>6. NotBefore'
  BY <1>1, StaysPassed DEF During, NotBefore
<1>7. Repeatable'
  BY <1>1 DEF During, Repeatable
<1> QED
  BY <1>2, <1>3, <1>4, <1>5, <1>6, <1>7, StaysVerified DEF During

\* A step that at most gives up the worktree, where what it held is in the main tree
\* or would be made again as it was.
LEMMA Dropped ==
  ASSUME Between, During, MainIsVerified,
         UNCHANGED << base, main, flag, verified, work >>,
         run'.pending = run.pending, run'.last = run.last, run'.waves = run.waves,
         run'.state = "none" => run.state = "none",
         wt' = None,
         run.pending # None /\ main # From => main = base \cup Whole
  PROVE  Between' /\ During' /\ MainIsVerified'
<1>1. From' = From /\ Whole' = Whole /\ Room' = Room /\ (HasChecks' <=> HasChecks)
  BY SameWave
<1>2. Between'
  BY DEF Between
<1>3. Announced'
  BY <1>1 DEF During, Announced
<1>4. InRoom'
  BY <1>1 DEF During, InRoom, Commits
<1>5. NoRepairs'
  BY <1>1 DEF During, NoRepairs
<1>6. NotBefore'
  BY <1>1, StaysPassed DEF During, NotBefore
<1>7. Repeatable'
  BY <1>1 DEF Repeatable
<1> QED
  BY <1>2, <1>3, <1>4, <1>5, <1>6, <1>7, StaysVerified DEF During

\* A step after which no wave is announced.
LEMMA Withdrawn == run'.pending = None => During'
  BY DEF During, Announced, InRoom, NoRepairs, NotBefore, Repeatable

\* A process that ends needs nothing.
LEMMA DownStages == Down => Stages'
  BY DEF Down, Stages

\* What is in the worktree of an unfinished wave when the process that has it leaves:
\* the wave as its refs make it, or what the main tree has.
LEMMA WorktreeToSpare ==
  ASSUME Types, During, Stages, run.pending # None, base # None, main # From,
         origin # "passed" \/ pc = "finish",
         pc \in {"verify", "clear", "commit", "advance", "apply", "finish"}
  PROVE  main = base \cup Whole
<1>1. /\ From \subseteq base
      /\ wt # None => Whole \subseteq wt.tree
      /\ main = IF wt # None THEN wt.tree ELSE base \cup Whole
  BY DEF During, InRoom, Repeatable
<1>2. CASE pc = "finish"
  BY <1>1, <1>2 DEF Stages
<1>3. CASE pc = "apply"
  BY <1>1, <1>3 DEF Stages
<1>4. CASE pc \in {"verify", "clear", "commit", "advance"}
  <2>1. ~HasChecks
    BY <1>4 DEF Stages
  <2>2. base \subseteq Whole /\ (wt # None => wt.tree \subseteq Whole)
    BY <2>1 DEF During, NoRepairs
  <2> QED
    BY <1>1, <2>2
<1> QED
  BY <1>2, <1>3, <1>4

\* What the save of a blocked run does to the announcement, in full.
LEMMA RescuedEffect ==
  ASSUME RepoTypes, FileTypes, Places
  PROVE  /\ Rescued.waves = run.waves /\ (run.state # "none" => Rescued.state # "none")
         /\ \/ Rescued.pending = run.pending /\ Rescued.last = run.last
            \/ /\ Rescued.pending = None /\ run.pending # None
               /\ pc \in {"clear", "finish"}
               /\ Rescued.last = IF pc = "finish" THEN base ELSE run.last
<1> DEFINE p == IF pc \in {"clear", "finish"} THEN None ELSE run.pending
           l == IF pc = "finish" THEN base ELSE run.last
           r == [run EXCEPT !.state = "blocked", !.pending = p, !.last = l]
<1>1. r.pending = p /\ r.last = l /\ r.waves = run.waves /\ r.state = "blocked"
  <2> HIDE DEF p, l
  <2> QED
    BY RunFields, RunRest DEF FileTypes
<1>2. Rescued = run \/ (Rescued = r /\ run.pending # None)
  BY DEF Rescued
<1>3. /\ pc \in {"clear", "finish"} => p = None
      /\ pc \notin {"clear", "finish"} => p = run.pending /\ l = run.last
  OBVIOUS
<1>4. l = IF pc = "finish" THEN base ELSE run.last
  OBVIOUS
<1> HIDE DEF p, l, r
<1> QED
  BY <1>1, <1>2, <1>3, <1>4

-----------------------------------------------------------------------------
(* Every step *)

\* A run starts with empty trees, and nothing is announced.
LEMMA AtomicInit == Init => Between /\ During /\ Stages /\ MainIsVerified
<1> SUFFICES ASSUME Init PROVE Between /\ During /\ Stages /\ MainIsVerified
  OBVIOUS
<1>1. run.pending = None /\ run.last = None /\ ~run.waves
  BY DEF Init, NewRun
<1>2. Between
  BY <1>1 DEF Init, Between
<1>3. During
  BY <1>1 DEF During, Announced, InRoom, NoRepairs, NotBefore, Repeatable
<1>4. Stages
  BY DEF Init, Stages
<1>5. MainIsVerified
  BY DEF Init, MainIsVerified
<1> QED
  BY <1>2, <1>3, <1>4, <1>5

\* Every step keeps the invariant, whichever error, crash or lost ref it is.
THEOREM AtomicNext ==
  AInv /\ TypeOK' /\ [Next]_vars => Between' /\ During' /\ Stages' /\ MainIsVerified'
<1> SUFFICES ASSUME Types, Types', Between, During, Stages, MainIsVerified, [Next]_vars
             PROVE  Between' /\ During' /\ Stages' /\ MainIsVerified'
  BY TypeOKIsTypes, PTL DEF AInv
<1> USE DEF Types
<1>1. CASE Start
  <2>1. run.pending = None /\ ~run.waves /\ main = {}
    BY <1>1 DEF Start, Between, During, Announced
  <2>2. /\ run'.pending = None /\ run'.last = None /\ ~run'.waves /\ run'.state # "none"
        /\ base' = main /\ main' = main /\ verified' = verified
    BY <1>1 DEF Start, NewRun
  <2>3. Between'
    BY <2>1, <2>2 DEF Between
  <2>4. During'
    BY <2>2 DEF During, Announced, InRoom, NoRepairs, NotBefore, Repeatable
  <2>5. Stages'
    BY <1>1, <2>2 DEF Start, GoTo, Stages
  <2> QED
    BY <2>2, <2>3, <2>4, <2>5, StaysVerified
<1>2. CASE Resume
  <2>1. /\ run'.pending = run.pending /\ run'.last = run.last /\ run'.waves = run.waves
        /\ run'.state # "none"
    BY <1>2, RunFields, RunRest DEF Resume, FileTypes, StatusFromTickets
  <2>2. UNCHANGED << main, wt, flag, verified, work >> /\ run.state # "none"
    BY <1>2 DEF Resume
  <2>3. CASE base' = base
    <3>1. Between' /\ During' /\ MainIsVerified'
      BY <2>1, <2>2, <2>3, Untouched
    <3>2. Stages'
      BY <1>2, <2>1 DEF Resume, Stages
    <3> QED
      BY <3>1, <3>2
  <2>4. CASE base' # base
    <3>1. base = None /\ base' = ResumeBase /\ ResumeBase # None /\ pc' = "loop"
      BY <1>2, <2>4 DEF Resume, ResumeBase
    <3>2. run.pending = None => base' = main
      BY <3>1, Markers DEF ResumeBase, Between, RepoTypes
    <3>3. run.pending # None => base' = From /\ main = From
      BY <3>1, Markers, PendingTypes
      DEF ResumeBase, During, Announced, NotBefore, From
    <3>4. From' = From /\ Whole' = Whole /\ Room' = Room /\ (HasChecks' <=> HasChecks)
      BY <2>1, <2>2, SameWave
    <3>5. Between'
      BY <2>1, <2>2, <3>2 DEF Between
    <3>6. run.pending # None => From \subseteq Whole /\ Whole \subseteq Room
      BY WaveTrees
    <3>7. Announced' /\ InRoom' /\ NoRepairs' /\ Repeatable'
      BY <2>1, <2>2, <3>3, <3>4, <3>6
      DEF During, Announced, InRoom, NoRepairs, Repeatable, Commits
    <3>8. NotBefore'
      BY <2>1, <2>2, <3>3, <3>4, StaysPassed DEF During, NotBefore
    <3>9. Stages'
      BY <2>1, <3>1 DEF Stages
    <3> QED
      BY <2>2, <3>5, <3>7, <3>8, <3>9, StaysVerified DEF During
  <2> QED
    BY <2>3, <2>4
<1>3. CASE Finished
  <2>1. /\ UNCHANGED << base, main, wt, flag, verified, work >>
        /\ run'.pending = run.pending /\ run'.last = run.last /\ run'.waves = run.waves
        /\ run'.state = "none" => run.state = "none"
    BY <1>3, RunFields, RunRest DEF Finished, repo, tickets, files, FileTypes
  <2>2. Stages'
    BY <1>3 DEF Finished, Down, Stages
  <2> QED
    BY <2>1, <2>2, Untouched
<1>4. CASE DirtyMain
  <2>1. /\ UNCHANGED << base, main, wt, flag, verified, work >>
        /\ run'.pending = run.pending /\ run'.last = run.last /\ run'.waves = run.waves
        /\ run'.state = "none" => run.state = "none"
    BY <1>4, RunFields, RunRest DEF DirtyMain, repo, tickets, files, FileTypes
  <2>2. Stages'
    BY <1>4 DEF DirtyMain, Down, Stages
  <2> QED
    BY <2>1, <2>2, Untouched
<1>5. CASE StartWave
  <2>1. run.pending = None /\ run'.pending = None
    BY <1>5, RunFields DEF StartWave, Idle, FileTypes
  <2>2. /\ UNCHANGED << base, main, verified >> /\ run'.last = run.last
        /\ run'.waves /\ run'.state = run.state
    BY <1>5, RunFields, RunRest DEF StartWave, repo, FileTypes
  <2>3. run.state # "none"
    BY <1>5 DEF StartWave, Idle, Stages
  <2>4. Between'
    BY <2>1, <2>2, <2>3 DEF Between
  <2>5. During'
    BY <2>1 DEF During, Announced, InRoom, NoRepairs, NotBefore, Repeatable
  <2>6. Stages'
    BY <1>5, <2>1, <2>2, <2>3 DEF StartWave, Stages
  <2> QED
    BY <2>2, <2>4, <2>5, <2>6, StaysVerified
<1>6. CASE TakeUp
  <2>1. UNCHANGED << base, main, flag, verified, work, run >> /\ run.pending # None
    BY <1>6 DEF TakeUp, tickets, files
  <2>2. From' = From /\ Whole' = Whole /\ Room' = Room /\ (HasChecks' <=> HasChecks)
    BY <2>1, SameWave
  <2>3. base # None /\ run.state # "none"
    BY <1>6 DEF TakeUp, Places, Stages
  <2>4. Between' /\ During' /\ MainIsVerified'
    <3>1. CASE wt' = wt
      BY <2>1, <3>1, Untouched
    <3>2. CASE wt = None /\ wt' = Integration(Refs)
      <4>1. wt' # None /\ wt'.tree = base \cup Picked(Refs)
        BY <2>1, <2>3, <3>2, Worktrees, WaveTrees, PendingTypes
      <4>2. From \subseteq base /\ base \subseteq Room /\ Commits(base) \subseteq Whole
        BY <2>1, <2>3 DEF During, InRoom
      <4>3. wt'.tree = base \cup Whole
        BY <4>1, <4>2 DEF Whole
      <4>4. Whole \subseteq Room
        BY <2>1, WaveTrees
      <4>5. InRoom'
        BY <2>1, <2>2, <4>2, <4>3, <4>4 DEF During, InRoom, Commits
      <4>6. NoRepairs'
        BY <2>1, <2>2, <2>3, <4>3 DEF During, NoRepairs
      <4>7. Repeatable'
        BY <2>1, <2>2, <3>2, <4>1, <4>3 DEF During, Repeatable
      <4>8. Between' /\ Announced'
        BY <2>1, <2>2 DEF Between, During, Announced
      <4>9. NotBefore'
        BY <2>1, <2>2, StaysPassed DEF During, NotBefore
      <4> QED
        BY <2>1, <4>5, <4>6, <4>7, <4>8, <4>9, StaysVerified DEF During
    <3> QED
      BY <1>6, <3>1, <3>2 DEF TakeUp, Reopened
  <2>5. WholePassed' <=> WholePassed
    BY <2>1, <2>2 DEF WholePassed
  <2>6. CASE flag = "passed"
    <3>1. WholePassed
      BY <2>1, <2>6 DEF During, NotBefore
    <3>2. pc' = "finish" => base = main
      BY <1>6, <2>6 DEF TakeUp, Applied, MainIsBase
    <3>3. pc' \in {"finish", "commit"} /\ origin' = "passed"
      BY <1>6, <2>6 DEF TakeUp
    <3> QED
      BY <2>1, <2>3, <2>4, <2>5, <2>6, <3>1, <3>2, <3>3 DEF Stages
  <2>7. CASE flag # "passed"
    <3>1. pc' = "verify" /\ origin' = "pending"
      BY <1>6, <2>7 DEF TakeUp
    <3>2. HasChecks => base = From /\ main = From
      BY <2>1, <2>3, <2>7 DEF During, NotBefore
    <3>3. Stages'
      BY <2>1, <2>2, <2>3, <3>1, <3>2 DEF Stages
    <3> QED
      BY <2>4, <3>3
  <2> QED
    BY <2>6, <2>7
<1>7. CASE TicketEnds
  <2>1. run.pending = None /\ run'.pending = None
    BY <1>7 DEF TicketEnds, Stages, files
  <2>2. UNCHANGED << base, main, verified, flag, run, pc >>
    BY <1>7 DEF TicketEnds, repo, files
  <2>3. Between'
    BY <2>2 DEF Between
  <2>4. Stages'
    BY <1>7, <2>1, <2>2 DEF TicketEnds, Stages
  <2> QED
    BY <2>1, <2>2, <2>3, <2>4, Withdrawn, StaysVerified
<1>8. CASE TicketErrs
  <2>1. UNCHANGED << base, main, wt, flag, verified, work, run, pc >> /\ pc = "work"
    BY <1>8 DEF TicketErrs, repo, tickets, files
  <2>2. Stages'
    BY <2>1 DEF Stages
  <2> QED
    BY <2>1, <2>2, Untouched
<1>9. CASE Integrate
  <2>1. /\ run.pending = None /\ run.waves /\ flag = "none" /\ run.state # "none"
        /\ base # None /\ base = main /\ run.last \in {None, RefName, main}
        /\ going = {}
    BY <1>9 DEF Integrate, Ended, Stages, Between, Places
  <2>2. /\ run'.pending = [refs |-> Accepted, base |-> base]
        /\ run'.last = run.last /\ run'.waves = run.waves /\ run'.state = run.state
    BY <1>9, RunFields, RunRest DEF Integrate, FileTypes
  <2>3. UNCHANGED << base, main, flag, verified, work >> /\ wt' = Integration(Accepted)
    BY <1>9 DEF Integrate, tickets
  <2>4. pc' = "verify"
    BY <1>9 DEF Integrate
  <2>5. run'.pending # None
    BY <2>4 DEF Places
  <2>6. From' = base /\ Refs' = Accepted
    BY <2>2 DEF From, Refs
  <2>7. Whole' = base \cup Picked(Accepted)
    BY <2>3, <2>6 DEF Whole, Picked, Changed
  <2>8. wt'.tree = Whole'
    BY <2>3, <2>7 DEF Integration
  <2>9. (From \subseteq Whole /\ Whole \subseteq Room)'
    <3>1. Picked(Accepted) \subseteq Accepted \X (0 .. MaxCommits)
      BY DEF Picked, Changed, Change
    <3> QED
      BY <2>6, <2>7, <3>1 DEF Room
  <2>10. Between' /\ Announced'
    BY <2>1, <2>2, <2>3, <2>5, <2>6 DEF Between, Announced
  <2>11. InRoom'
    BY <2>1, <2>3, <2>6, <2>8, <2>9 DEF InRoom, Commits
  <2>12. NoRepairs' /\ NotBefore' /\ Repeatable'
    BY <2>1, <2>3, <2>6, <2>8, <2>9 DEF NoRepairs, NotBefore, Repeatable
  <2>13. Stages'
    BY <2>1, <2>2, <2>3, <2>4, <2>6 DEF Stages
  <2> QED
    BY <2>3, <2>10, <2>11, <2>12, <2>13, StaysVerified DEF During
<1>10. CASE NotIntegrated
  <2>1. UNCHANGED << base, main, wt, flag, verified, work, run >>
    BY <1>10 DEF NotIntegrated, repo, tickets, files
  <2>2. Stages'
    BY <1>10, <2>1 DEF NotIntegrated, Ended, Stages
  <2> QED
    BY <2>1, <2>2, Untouched
<1>11. CASE OutOfScope
  <2>1. UNCHANGED << base, main, wt, flag, verified, work >> /\ pc = "work"
    BY <1>11 DEF OutOfScope, Ended, repo, tickets
  <2>2. /\ run'.pending = run.pending /\ run'.last = run.last /\ run'.waves = run.waves
        /\ run'.state = "none" => run.state = "none"
    <3>1. run' \in {run, [run EXCEPT !.state = "blocked"]}
      BY <1>11 DEF OutOfScope
    <3>2. LET r == [run EXCEPT !.state = "blocked"]
          IN  /\ r.pending = run.pending /\ r.last = run.last /\ r.waves = run.waves
              /\ r.state = "blocked"
      BY RunFields, RunRest DEF FileTypes
    <3> QED
      BY <3>1, <3>2
  <2>3. Stages'
    <3>1. CASE resumed
      BY <1>11, <3>1, DownStages DEF OutOfScope
    <3>2. CASE ~resumed
      BY <1>11, <2>1, <3>2 DEF OutOfScope, Stages
    <3> QED
      BY <3>1, <3>2
  <2> QED
    BY <2>1, <2>2, <2>3, Untouched
<1>12. CASE ChecksPass
  <2>1. UNCHANGED << base, main, wt, work, run, origin >> /\ run.pending # None
        /\ wt # None /\ pc = "verify" /\ pc' = "commit"
    BY <1>12 DEF ChecksPass, repo, tickets, GoTo, turn, Places
  <2>2. /\ From' = From /\ Whole' = Whole /\ Room' = Room /\ (HasChecks' <=> HasChecks)
        /\ verified \subseteq verified' /\ wt.tree \in verified'
    BY <1>12, <2>1, SameWave DEF ChecksPass
  <2>3. flag' = IF HasChecks THEN "passed" ELSE flag
    BY <1>12 DEF ChecksPass
  <2>4. WholePassed'
    <3>1. Commits(wt.tree) = Commits(Whole)
      BY <2>1 DEF During, InRoom, Commits
    <3> QED
      BY <2>2, <3>1 DEF WholePassed, Commits
  <2>5. Between' /\ Announced' /\ NoRepairs' /\ Repeatable'
    BY <2>1, <2>2 DEF Between, During, Announced, NoRepairs, Repeatable
  <2>6. InRoom'
    BY <2>1, <2>2 DEF During, InRoom, Commits
  <2>7. NotBefore'
    BY <2>1, <2>2, <2>3, <2>4 DEF During, NotBefore
  <2>8. Stages'
    BY <2>1, <2>2, <2>3, <2>4 DEF Stages
  <2> QED
    BY <2>1, <2>2, <2>5, <2>6, <2>7, <2>8, StaysVerified DEF During
<1>13. CASE ChecksFail
  <2>1. UNCHANGED << base, main, wt, flag, verified, work, run >>
    BY <1>13 DEF ChecksFail, repo, tickets, files
  <2>2. From' = From /\ (HasChecks' <=> HasChecks)
    BY <2>1, SameWave
  <2>3. Stages'
    BY <1>13, <2>1, <2>2 DEF ChecksFail, Stages
  <2> QED
    BY <2>1, <2>3, Untouched
<1>14. CASE Repaired
  <2>1. UNCHANGED << base, main, flag, verified, work, run, origin >>
        /\ run.pending # None /\ wt # None /\ pc = "repair" /\ pc' = "verify"
    BY <1>14 DEF Repaired, tickets, files, GoTo, turn, Places
  <2>2. From' = From /\ Whole' = Whole /\ Room' = Room /\ (HasChecks' <=> HasChecks)
    BY <2>1, SameWave
  <2>3. HasChecks /\ base = From /\ main = From
    BY <2>1 DEF Stages
  <2>4. wt'.tree = wt.tree \cup Repairs(Refs)
    BY <1>14, <2>1, WorktreeFields DEF Repaired, RepoTypes
  <2>5. Repairs(Refs) \subseteq Room /\ Commits(Repairs(Refs)) = {}
    BY <2>1, WaveTrees
  <2>6. Between' /\ Announced' /\ NoRepairs' /\ Repeatable'
    BY <2>1, <2>2, <2>3 DEF Between, During, Announced, NoRepairs, Repeatable
  <2>7. InRoom'
    BY <2>1, <2>2, <2>4, <2>5 DEF During, InRoom, Commits
  <2>8. NotBefore'
    BY <2>1, <2>2, StaysPassed DEF During, NotBefore
  <2>9. Stages'
    BY <2>1, <2>2, <2>3 DEF Stages
  <2> QED
    BY <2>1, <2>6, <2>7, <2>8, <2>9, StaysVerified DEF During
<1>15. CASE VerificationFails
  <2>1. UNCHANGED << base, main, wt, verified, work, run >> /\ flag' = "failed"
        /\ HasChecks /\ base = From /\ main = From /\ pc' = "clear"
        /\ run.state # "none"
    BY <1>15 DEF VerificationFails, repo, tickets, GoTo, Stages
  <2>2. From' = From /\ Whole' = Whole /\ Room' = Room /\ (HasChecks' <=> HasChecks)
    BY <2>1, SameWave
  <2>3. Between' /\ Announced' /\ NoRepairs' /\ NotBefore' /\ Repeatable'
    BY <2>1, <2>2
    DEF Between, During, Announced, NoRepairs, NotBefore, Repeatable
  <2>4. InRoom'
    BY <2>1, <2>2 DEF During, InRoom, Commits
  <2>5. Stages'
    BY <2>1, <2>2 DEF Stages
  <2> QED
    BY <2>1, <2>3, <2>4, <2>5, StaysVerified DEF During
<1>16. CASE ChecksUnrun
  <2>1. UNCHANGED << base, main, wt, flag, verified, work, run >>
    BY <1>16 DEF ChecksUnrun, repo, tickets, files
  <2>2. From' = From /\ (HasChecks' <=> HasChecks)
    BY <2>1, SameWave
  <2>3. Stages'
    BY <1>16, <2>1, <2>2 DEF ChecksUnrun, GoTo, Stages
  <2> QED
    BY <2>1, <2>3, Untouched
<1>17. CASE ClearPending
  <2>1. UNCHANGED << base, main, verified >> /\ Down
        /\ run.pending # None /\ main = From /\ base = From
    BY <1>17 DEF ClearPending, Places, Stages
  <2>2. /\ run'.pending = None /\ run'.last = run.last /\ run'.waves = run.waves
        /\ run'.state = "blocked"
    BY <1>17, RunFields, RunRest DEF ClearPending, FileTypes
  <2>3. Between'
    BY <2>1, <2>2 DEF Between, During, Announced
  <2> QED
    BY <2>1, <2>2, <2>3, Withdrawn, DownStages, StaysVerified
<1>18. CASE CommitWave
  <2>1. UNCHANGED << base, main, flag, verified, work, run, origin >>
        /\ run.pending # None /\ wt # None /\ pc = "commit"
    BY <1>18 DEF CommitWave, tickets, files, GoTo, turn, Places
  <2>2. From' = From /\ Whole' = Whole /\ Room' = Room /\ (HasChecks' <=> HasChecks)
    BY <2>1, SameWave
  <2>3. WholePassed' /\ WholePassed
    BY <2>1, StaysPassed DEF Stages
  <2>4. wt' # None /\ wt'.tree = wt.tree /\ (pc' = "advance" => wt'.head = wt'.tree)
    <3>1. wt \in Worktree
      BY <2>1 DEF RepoTypes
    <3>2. LET w == [wt EXCEPT !.head = wt.tree]
          IN  w.head = wt.tree /\ w.tree = wt.tree /\ w # None
      <4>1. wt.tree \in Tree
        BY <3>1, Trees, WorktreeEdits
      <4> QED
        BY <3>1, <4>1, WorktreeFields, WorktreeEdits
    <3>3. \/ wt' = wt /\ pc' = "finish"
          \/ wt'.head = wt.tree /\ wt'.tree = wt.tree /\ wt' # None
      BY <1>18, <3>2 DEF CommitWave, GoTo
    <3> QED
      BY <2>1, <3>3
  <2>5. Between' /\ Announced' /\ NoRepairs' /\ Repeatable'
    BY <2>1, <2>2, <2>4 DEF Between, During, Announced, NoRepairs, Repeatable
  <2>6. InRoom'
    BY <2>1, <2>2, <2>4 DEF During, InRoom, Commits
  <2>7. NotBefore'
    BY <2>1, <2>2, <2>3 DEF During, NotBefore
  <2>8. Stages'
    <3>1. \/ pc' = "finish" /\ base = main
          \/ pc' = "advance"
      BY <1>18 DEF CommitWave, GoTo, Applied, MainIsBase
    <3> QED
      BY <2>1, <2>2, <2>3, <2>4, <3>1 DEF Stages
  <2> QED
    BY <2>1, <2>5, <2>6, <2>7, <2>8, StaysVerified DEF During
<1>19. CASE AdvanceBase
  <2>1. UNCHANGED << main, wt, flag, verified, work, run, origin >>
        /\ run.pending # None /\ wt # None /\ pc = "advance" /\ pc' = "apply"
        /\ base' = wt.tree /\ base' # None
    BY <1>19 DEF AdvanceBase, tickets, files, GoTo, turn, Places, Stages
  <2>2. From' = From /\ Whole' = Whole /\ Room' = Room /\ (HasChecks' <=> HasChecks)
    BY <2>1, SameWave
  <2>3. WholePassed' /\ WholePassed /\ (HasChecks => flag = "passed")
    BY <2>1, StaysPassed DEF Stages
  <2>4. From \subseteq Whole
    BY <2>1, WaveTrees
  <2>5. Between' /\ Announced' /\ NoRepairs' /\ Repeatable'
    BY <2>1, <2>2 DEF Between, During, Announced, NoRepairs, Repeatable
  <2>6. InRoom'
    BY <2>1, <2>2, <2>4 DEF During, InRoom, Commits
  <2>7. NotBefore'
    BY <2>1, <2>2, <2>3 DEF During, NotBefore
  <2>8. Stages'
    BY <2>1, <2>2, <2>3 DEF Stages
  <2> QED
    BY <2>1, <2>5, <2>6, <2>7, <2>8, StaysVerified DEF During
<1>20. CASE ApplyToMain
  <2>1. UNCHANGED << base, wt, flag, verified, work, run >>
        /\ run.pending # None /\ wt # None /\ pc = "apply" /\ pc' = "finish"
        /\ base = wt.tree /\ base # None
    BY <1>20 DEF ApplyToMain, tickets, files, GoTo, Places, Stages
  <2>2. From' = From /\ Whole' = Whole /\ Room' = Room /\ (HasChecks' <=> HasChecks)
    BY <2>1, SameWave
  <2>3. WholePassed /\ WholePassed' /\ (HasChecks => flag = "passed")
    BY <2>1, StaysPassed DEF Stages
  <2>4. From \subseteq base /\ (main # From => main = base)
    BY <2>1 DEF During, InRoom, Repeatable
  <2>5. main' = base
    <3>1. (base \ From) \cap main = {} /\ main' = main \cup (base \ From)
      BY <1>20 DEF ApplyToMain, Delta, From
    <3> QED
      BY <2>4, <3>1
  <2>6. Between' /\ Announced' /\ NoRepairs' /\ NotBefore' /\ Repeatable'
    BY <2>1, <2>2, <2>3, <2>5
    DEF Between, During, Announced, NoRepairs, NotBefore, Repeatable
  <2>7. InRoom'
    BY <2>1, <2>2, <2>5 DEF During, InRoom, Commits
  <2>8. MainIsVerified'
    <3>1. Commits(main') = Commits(Whole)
      BY <2>1, <2>5 DEF During, InRoom, Commits
    <3> QED
      BY <2>1, <2>3, <3>1 DEF WholePassed, MainIsVerified, Commits
  <2>9. Stages'
    BY <2>1, <2>5 DEF Stages
  <2> QED
    BY <2>6, <2>7, <2>8, <2>9 DEF During
<1>21. CASE ApplyFails
  <2>1. UNCHANGED << main, flag, verified, work >> /\ Down
        /\ run.pending # None /\ wt # None /\ base # None /\ pc = "apply"
        /\ base' = From /\ wt' \in {wt, None} /\ (wt' # wt => origin # "passed")
    BY <1>21 DEF ApplyFails, tickets, From, Cleaned, Places, Stages
  <2>2. /\ run'.pending = run.pending /\ run'.last = run.last /\ run'.waves = run.waves
        /\ run'.state = "none" => run.state = "none"
    BY <1>21, RunFields, RunRest DEF ApplyFails, Blocked, FileTypes
  <2>3. From' = From /\ Whole' = Whole /\ Room' = Room /\ (HasChecks' <=> HasChecks)
    BY <2>1, <2>2, SameWave
  <2>4. From \subseteq Whole /\ Whole \subseteq Room /\ From \in Tree
    BY <2>1, WaveTrees, PendingTypes DEF From
  <2>5. Between' /\ Announced' /\ NoRepairs'
    BY <2>1, <2>2, <2>3, <2>4 DEF Between, During, Announced, NoRepairs
  <2>6. InRoom'
    BY <2>1, <2>2, <2>3, <2>4 DEF During, InRoom, Commits
  <2>7. NotBefore'
    <3>1. base' # None
      BY <2>1, <2>4, Markers
    <3> QED
      BY <2>1, <2>2, <2>3, <3>1, StaysPassed DEF During, NotBefore
  <2>8. Repeatable'
    <3>1. CASE wt' = wt
      BY <2>1, <2>2, <2>3, <3>1 DEF During, Repeatable
    <3>2. CASE wt' # wt /\ main # From
      <4>1. ~HasChecks
        BY <2>1, <3>2 DEF Stages
      <4>2. main = wt.tree /\ Whole \subseteq wt.tree /\ wt.tree \subseteq Whole
        BY <2>1, <3>2, <4>1 DEF During, Repeatable, InRoom, NoRepairs
      <4> QED
        BY <2>1, <2>3, <2>4, <3>2, <4>2 DEF Repeatable
    <3> QED
      BY <2>1, <2>3, <3>1, <3>2 DEF Repeatable
  <2> QED
    BY <2>1, <2>5, <2>6, <2>7, <2>8, DownStages, StaysVerified DEF During
<1>22. CASE RollbackFails
  <2>1. UNCHANGED << base, main, flag, verified, work >> /\ Down
        /\ run.pending # None /\ base # None /\ pc = "apply"
        /\ wt' \in {wt, None}
    BY <1>22 DEF RollbackFails, tickets, Cleaned, Places
  <2>2. /\ run'.pending = run.pending /\ run'.last = run.last /\ run'.waves = run.waves
        /\ run'.state = "none" => run.state = "none"
    BY <1>22, RunFields, RunRest DEF RollbackFails, Blocked, FileTypes
  <2>3. main # From => main = base \cup Whole
    BY <2>1 DEF During, InRoom, Repeatable, Stages
  <2> QED
    BY <2>1, <2>2, <2>3, Untouched, Dropped, DownStages
<1>23. CASE Finish
  <2>1. UNCHANGED << base, main, verified >> /\ base = main
        /\ run.pending # None /\ run.waves /\ run.state # "none"
    BY <1>23 DEF Finish, Places, Stages, During, Announced
  <2>2. /\ run'.pending = None /\ run'.last = base /\ run'.waves = run.waves
        /\ run'.state = run.state
    BY <1>23, RunFields, RunRest DEF Finish, FileTypes
  <2>3. Between'
    BY <2>1, <2>2 DEF Between
  <2>4. Stages'
    BY <1>23, <2>1, <2>2 DEF Finish, GoTo, Stages
  <2> QED
    BY <2>1, <2>2, <2>3, <2>4, Withdrawn, StaysVerified
<1>24. CASE SettleWave
  <2>1. UNCHANGED << base, main, verified >> /\ run.pending = None /\ base = main
        /\ run.state # "none" /\ base # None
    BY <1>24 DEF SettleWave, repo, Places, Stages, Between
  <2>2. /\ run'.pending = None /\ run'.last \in {run.last, RefName, base}
        /\ run'.waves = run.waves /\ run'.state \in {run.state, "blocked"}
    <3> DEFINE l == IF run.last # None THEN run.last ELSE IF resumed THEN RefName ELSE base
               q == IF failing THEN "blocked" ELSE run.state
    <3>1. run' = [run EXCEPT !.last = l, !.state = q]
      BY <1>24 DEF SettleWave
    <3>2. l \in {run.last, RefName, base} /\ q \in {run.state, "blocked"}
      OBVIOUS
    <3> HIDE DEF l, q
    <3> QED
      BY <2>1, <3>1, <3>2, RunFields, RunRest DEF FileTypes
  <2>3. Between'
    BY <2>1, <2>2 DEF Between
  <2>4. Stages'
    <3>1. Down \/ pc' = "loop"
      BY <1>24 DEF SettleWave, GoTo
    <3> QED
      BY <2>1, <2>2, <3>1, DownStages DEF Stages
  <2> QED
    BY <2>1, <2>2, <2>3, <2>4, Withdrawn, StaysVerified
<1>25. CASE Fails
  <2>1. UNCHANGED << base, main, flag, verified, work >> /\ Down /\ base # None
        /\ run.state # "none" /\ pc \notin {"down", "repair", "apply"}
        /\ wt' \in {wt, None} /\ run' \in {run, Rescued}
    BY <1>25 DEF Fails, tickets, Ended, Cleaned, Places, Stages
  <2>2. /\ run'.waves = run.waves /\ run'.state # "none"
        /\ \/ run'.pending = run.pending /\ run'.last = run.last
           \/ /\ run'.pending = None /\ run.pending # None
              /\ pc \in {"clear", "finish"}
              /\ run'.last = IF pc = "finish" THEN base ELSE run.last
    BY <2>1, RescuedEffect, Markers DEF Places
  <2>3. CASE run'.pending = run.pending /\ run'.last = run.last
    <3>1. run.pending # None /\ main # From /\ wt' # wt => main = base \cup Whole
      BY <1>25, <2>1, WorktreeToSpare DEF Fails, Cleaned, Ended
    <3>2. CASE wt' = wt
      BY <2>1, <2>2, <2>3, <3>2, Untouched, DownStages
    <3>3. CASE wt' # wt
      BY <2>1, <2>2, <2>3, <3>1, <3>3, Dropped, DownStages
    <3> QED
      BY <3>2, <3>3
  <2>4. CASE /\ run'.pending = None /\ run.pending # None
             /\ pc \in {"clear", "finish"}
             /\ run'.last = IF pc = "finish" THEN base ELSE run.last
    <3>1. base = main /\ run.waves
      BY <2>4 DEF Stages, During, Announced
    <3>2. pc = "clear" => run.last \in {None, RefName, main}
      BY <2>4 DEF Stages, During, Announced
    <3>3. Between'
      BY <2>1, <2>2, <2>4, <3>1, <3>2 DEF Between
    <3> QED
      BY <2>1, <2>4, <3>3, Withdrawn, DownStages, StaysVerified
  <2> QED
    BY <2>2, <2>3, <2>4
<1>26. CASE Crash
  <2>1. UNCHANGED << base, main, wt, flag, verified, work, run >> /\ Down
    BY <1>26 DEF Crash, tickets, repo, files
  <2> QED
    BY <2>1, Untouched, DownStages
<1>27. CASE EditMain
  <2>1. UNCHANGED << base, main, wt, flag, verified, work, run, pc, origin >>
    BY <1>27 DEF EditMain, tickets, files, turn
  <2>2. From' = From /\ (HasChecks' <=> HasChecks)
    BY <2>1, SameWave
  <2>3. WholePassed => WholePassed'
    BY <2>1, StaysPassed
  <2>4. Stages'
    BY <2>1, <2>2, <2>3 DEF Stages
  <2> QED
    BY <2>1, <2>4, Untouched
<1>28. CASE LoseRef
  <2>1. UNCHANGED << main, wt, flag, verified, work, run >> /\ base' = None
        /\ pc' = "down" /\ (run.pending # None => main = From)
    BY <1>28 DEF LoseRef, tickets, files, From
  <2>2. From' = From /\ Whole' = Whole /\ Room' = Room /\ (HasChecks' <=> HasChecks)
    BY <2>1, SameWave
  <2>3. Between' /\ Announced' /\ NoRepairs' /\ Repeatable'
    BY <2>1, <2>2 DEF Between, During, Announced, NoRepairs, Repeatable
  <2>4. InRoom'
    BY <2>1, <2>2 DEF During, InRoom, Commits
  <2>5. NotBefore'
    BY <2>1, <2>2, StaysPassed DEF During, NotBefore
  <2>6. Stages'
    BY <2>1 DEF Stages
  <2> QED
    BY <2>1, <2>3, <2>4, <2>5, <2>6, StaysVerified DEF During
<1>29. CASE UNCHANGED vars
  <2>1. UNCHANGED << base, main, wt, flag, verified, work, run, pc, origin >>
    BY <1>29 DEF vars, tickets, repo, files, turn
  <2>2. From' = From /\ (HasChecks' <=> HasChecks)
    BY <2>1, SameWave
  <2>3. WholePassed => WholePassed'
    BY <2>1, StaysPassed
  <2>4. Stages'
    BY <2>1, <2>2, <2>3 DEF Stages
  <2> QED
    BY <2>1, <2>4, Untouched
<1> QED
  BY <1>1, <1>2, <1>3, <1>4, <1>5, <1>6, <1>7, <1>8, <1>9, <1>10, <1>11, <1>12,
     <1>13, <1>14, <1>15, <1>16, <1>17, <1>18, <1>19, <1>20, <1>21, <1>22, <1>23,
     <1>24, <1>25, <1>26, <1>27, <1>28, <1>29
  DEF Next, Process, Loop, WaveEnds, Verification, Completion

\* So it holds of every state.
LEMMA Atomic == Spec => []AInv
<1>1. Init => AInv
  BY TypeInit, AtomicInit DEF AInv
<1>2. AInv /\ [Next]_vars => AInv'
  BY TypeNext, AtomicNext DEF AInv
<1> QED
  BY <1>1, <1>2, PTL DEF Spec

\* The base ref and the main tree differ at most by the wave that is announced, at
\* every point at which a process may crash, fail, roll back or lose the ref.
THEOREM DifferenceIsPendingHolds == Spec => []DifferenceIsPending
<1>1. AInv => DifferenceIsPending
  <2> SUFFICES ASSUME Between, During, base # None
               PROVE  (base \ main) \cup (main \ base)
                        \subseteq IF run.pending = None THEN {}
                                  ELSE Refs \X (0 .. MaxCommits)
    BY DEF AInv, DifferenceIsPending
  <2>1. CASE run.pending = None
    BY <2>1 DEF Between
  <2>2. CASE run.pending # None
    BY <2>2 DEF During, InRoom, Room
  <2> QED
    BY <2>1, <2>2
<1> QED
  BY <1>1, Atomic, PTL

\* The base commit that run.json gives a resume is the one the ref had, whenever no
\* wave is announced.
THEOREM CursorIsBaseHolds == Spec => []CursorIsBase
<1>1. AInv => CursorIsBase
  BY DEF AInv, Between, CursorIsBase
<1> QED
  BY <1>1, Atomic, PTL

\* What tickets' commits are together in the main tree were together in a tree that
\* passed the checks that apply to it.
THEOREM MainIsVerifiedHolds == Spec => []MainIsVerified
<1>1. AInv => MainIsVerified
  BY DEF AInv
<1> QED
  BY <1>1, Atomic, PTL

-----------------------------------------------------------------------------
(* Waves are integrated one at a time, whole and once *)

\* The variables of AtomicWaves, as WaveIntegration's state gives them.
ClosedWork == {t \in InPhase("closed") : work[t] > 0}
AcceptedWork == IF run.pending = None THEN {} ELSE {t \in Refs : work[t] > 0}
IntegratedWork == {t \in Ticket : << t, work[t] >> \in main /\ work[t] > 0}

\* Nothing of the tickets that are being run is in the main tree.
Fresh == pc = "work" => \A c \in main : c[1] \notin wave

RInv == IInv /\ AInv /\ Fresh

\* What the actions of AtomicWaves say of them.
LEMMA Mapping ==
    /\ UNCHANGED Abstract!vars <=> UNCHANGED << ClosedWork, AcceptedWork, IntegratedWork >>
    /\ (Abstract!Settle <=> AcceptedWork' = {} /\ ClosedWork' = ClosedWork
                            /\ IntegratedWork' = IntegratedWork)
    /\ (Abstract!Integrate <=> IntegratedWork' = IntegratedWork \cup AcceptedWork
                               /\ ClosedWork' = ClosedWork
                               /\ AcceptedWork' = AcceptedWork)
    /\ \A ts : Abstract!Accept(ts) <=> /\ AcceptedWork = {}
                                       /\ ts \subseteq ClosedWork \ IntegratedWork
                                       /\ AcceptedWork' = ts
                                       /\ ClosedWork' = ClosedWork
                                       /\ IntegratedWork' = IntegratedWork
    /\ \A t : Abstract!Close(t) <=> /\ t \notin ClosedWork
                                    /\ ClosedWork' = ClosedWork \cup {t}
                                    /\ AcceptedWork' = AcceptedWork
                                    /\ IntegratedWork' = IntegratedWork
  BY DEF Abstract!vars, Abstract!Settle, Abstract!Integrate, Abstract!Accept,
         Abstract!Close, ClosedWork, AcceptedWork, IntegratedWork

\* A step that changes neither tickets nor the main tree nor the announcement.
LEMMA Stutters ==
  ASSUME UNCHANGED << phase, work, main >>, run'.pending = run.pending
  PROVE  UNCHANGED Abstract!vars
<1>1. ClosedWork' = ClosedWork /\ IntegratedWork' = IntegratedWork
  BY DEF ClosedWork, IntegratedWork, InPhase
<1>2. AcceptedWork' = AcceptedWork
  BY DEF AcceptedWork, Refs
<1> QED
  BY <1>1, <1>2, Mapping

\* One that withdraws the announcement settles the wave.
LEMMA Settles ==
  ASSUME UNCHANGED << phase, work, main >>, run'.pending = None
  PROVE  Abstract!Settle
<1>1. ClosedWork' = ClosedWork /\ IntegratedWork' = IntegratedWork
  BY DEF ClosedWork, IntegratedWork, InPhase
<1>2. AcceptedWork' = {}
  BY DEF AcceptedWork
<1> QED
  BY <1>1, <1>2, Mapping

\* No wave has been started in the initial state.
LEMMA FreshInit == Init => Fresh
  BY DEF Init, Fresh

\* A wave is made of open tickets, and what is in the main tree is of closed ones.
LEMMA FreshNext ==
  IInv /\ Fresh /\ [Next]_vars => Fresh'
<1> SUFFICES ASSUME ClosedTrees, Fresh, [Next]_vars, pc' = "work" PROVE Fresh'
  BY DEF IInv, Fresh
<1>1. CASE StartWave
  <2>1. main' = main /\ wave' \subseteq InPhase("open")
    BY <1>1 DEF StartWave, repo
  <2>2. main \subseteq ClosedChanges
    BY DEF ClosedTrees
  <2> QED
    BY <2>1, <2>2 DEF Fresh, ClosedChanges, InPhase
<1>2. CASE pc = "work" /\ main' = main /\ wave' = wave
  BY <1>2 DEF Fresh
<1>3. StartWave \/ (pc = "work" /\ main' = main /\ wave' = wave)
  BY DEF Next, Process, Loop, WaveEnds, Verification, Completion, vars, Start, Resume,
         Finished, DirtyMain, TakeUp, TicketEnds, TicketErrs, Integrate, NotIntegrated,
         OutOfScope, ChecksPass, ChecksFail, Repaired, VerificationFails, ChecksUnrun,
         ClearPending, CommitWave, AdvanceBase, ApplyToMain, ApplyFails,
         RollbackFails, Finish, SettleWave, Fails, Crash, EditMain, LoseRef, GoTo, Down,
         Ended, turn, repo
<1> QED
  BY <1>1, <1>2, <1>3

\* Each step is one of AtomicWaves, or none.
THEOREM WavesNext == RInv /\ [Next]_vars => [Abstract!Next]_(Abstract!vars)
<1> SUFFICES ASSUME Types, Between, During, Stages, ClosedTrees, ClosedRefs,
                    GoingIsOpen, Fresh, [Next]_vars
             PROVE  \/ UNCHANGED Abstract!vars
                    \/ \E t \in Ticket : Abstract!Close(t)
                    \/ \E ts \in SUBSET Ticket : Abstract!Accept(ts)
                    \/ Abstract!Integrate
                    \/ Abstract!Settle
  BY TypeOKIsTypes DEF RInv, IInv, AInv, Abstract!Next
<1> USE DEF Types
<1>1. CASE Start
  <2>1. run.pending = None
    BY <1>1 DEF Start, During, Announced
  <2>2. UNCHANGED << phase, work, main >> /\ run'.pending = None
    BY <1>1 DEF Start, tickets, NewRun
  <2> QED
    BY <2>1, <2>2, Stutters
<1>2. CASE Resume
  <2>1. UNCHANGED << work, main >> /\ run'.pending = run.pending
    BY <1>2, RunFields DEF Resume, FileTypes
  <2>2. ClosedWork' = ClosedWork
    <3>1. \A t \in Ticket : phase'[t] = "closed" <=> phase[t] = "closed"
      BY <1>2 DEF Resume, ReadyAgain, TicketTypes
    <3> QED
      BY <2>1, <3>1 DEF ClosedWork, InPhase
  <2>3. IntegratedWork' = IntegratedWork /\ AcceptedWork' = AcceptedWork
    BY <2>1 DEF IntegratedWork, AcceptedWork, Refs
  <2> QED
    BY <2>2, <2>3, Mapping
<1>3. CASE TicketEnds
  <2>1. PICK t \in going, p \in {"closed", "blocked"}, n \in 0 .. MaxCommits :
           /\ phase' = [phase EXCEPT ![t] = p]
           /\ work' = [work EXCEPT ![t] = n]
    BY <1>3 DEF TicketEnds
  <2>2. t \in Ticket /\ phase[t] = "open" /\ t \in wave
    BY DEF GoingIsOpen, TurnTypes
  <2>3. /\ phase'[t] = p /\ work'[t] = n
        /\ \A u \in Ticket \ {t} : phase'[u] = phase[u] /\ work'[u] = work[u]
    BY <2>1, <2>2 DEF TicketTypes
  <2>4. UNCHANGED << main, run >> /\ pc = "work"
    BY <1>3 DEF TicketEnds, repo, files
  <2>5. AcceptedWork' = {} /\ AcceptedWork = {}
    BY <2>4 DEF AcceptedWork, Stages
  <2>6. IntegratedWork' = IntegratedWork
    <3>1. \A k : << t, k >> \notin main
      BY <2>2, <2>4 DEF Fresh
    <3> QED
      BY <2>2, <2>3, <2>4, <3>1 DEF IntegratedWork
  <2>7. CASE p = "closed" /\ n > 0
    <3>1. t \notin ClosedWork /\ ClosedWork' = ClosedWork \cup {t}
      BY <2>2, <2>3, <2>7 DEF ClosedWork, InPhase
    <3> QED
      BY <2>2, <2>5, <2>6, <3>1, Mapping
  <2>8. CASE ~(p = "closed" /\ n > 0)
    <3>1. ClosedWork' = ClosedWork
      BY <2>2, <2>3, <2>8 DEF ClosedWork, InPhase
    <3> QED
      BY <2>5, <2>6, <3>1, Mapping
  <2> QED
    BY <2>7, <2>8
<1>4. CASE Integrate
  <2>1. run.pending = None /\ Accepted \subseteq wave \cap InPhase("closed")
        /\ pc = "work"
    BY <1>4 DEF Integrate, Ended, Stages, Accepted, InPhase, TurnTypes
  <2>2. UNCHANGED << phase, work, main >> /\ pc' = "verify"
    BY <1>4 DEF Integrate, tickets
  <2>3. run'.pending = [refs |-> Accepted, base |-> base]
    BY <1>4, RunFields DEF Integrate, FileTypes
  <2>4. run'.pending # None
    <3>1. Accepted \in SUBSET Ticket /\ base \in Tree
      BY <1>4, <2>1 DEF RepoTypes, TurnTypes, Places
    <3> QED
      BY <2>3, <3>1, Markers DEF Transaction
  <2>5. PICK ts : ts = {t \in Accepted : work[t] > 0}
    OBVIOUS
  <2>6. AcceptedWork = {} /\ AcceptedWork' = ts
    BY <2>1, <2>2, <2>3, <2>4, <2>5 DEF AcceptedWork, Refs
  <2>7. ClosedWork' = ClosedWork /\ IntegratedWork' = IntegratedWork
    BY <2>2 DEF ClosedWork, IntegratedWork, InPhase
  <2>8. ts \subseteq ClosedWork \ IntegratedWork
    BY <2>1, <2>5 DEF ClosedWork, IntegratedWork, Fresh
  <2>9. ts \in SUBSET Ticket
    BY <2>1, <2>5 DEF TurnTypes
  <2>10. Abstract!Accept(ts)
    BY <2>6, <2>7, <2>8, Mapping
  <2> QED
    BY <2>9, <2>10
<1>5. CASE ClearPending
  <2>1. UNCHANGED << phase, work, main >> /\ run'.pending = None
    BY <1>5, RunFields DEF ClearPending, tickets, FileTypes
  <2> QED
    BY <2>1, Settles
<1>6. CASE ApplyToMain
  <2>1. UNCHANGED << base, phase, work, run >> /\ run.pending # None /\ wt # None
        /\ base = wt.tree /\ base # None
    BY <1>6 DEF ApplyToMain, tickets, files, Places, Stages
  <2>2. main' = main \cup (base \ From)
    BY <1>6 DEF ApplyToMain, Delta, From
  <2>3. Whole \subseteq base /\ Commits(base) \subseteq Whole /\ From \subseteq main
    BY <2>1 DEF During, InRoom
  <2>4. ClosedWork' = ClosedWork /\ AcceptedWork' = AcceptedWork
    BY <2>1 DEF ClosedWork, AcceptedWork, InPhase, Refs
  <2>5. ASSUME NEW t \in Ticket, work[t] > 0
        PROVE  << t, work[t] >> \in main' <=> << t, work[t] >> \in main \/ t \in Refs
    <3>1. << t, work[t] >> \in Picked(Refs) <=> t \in Refs
      BY <2>5 DEF Picked, Changed, Change, TicketTypes
    <3>2. << t, work[t] >> \in Whole <=> << t, work[t] >> \in From \/ t \in Refs
      BY <3>1 DEF Whole
    <3>3. << t, work[t] >> \in base <=> << t, work[t] >> \in Whole
      BY <2>3, <2>5 DEF Commits
    <3>4. main' = main \cup base
      BY <2>2, <2>3
    <3> QED
      BY <2>3, <3>2, <3>3, <3>4
  <2>6. Refs \subseteq Ticket
    BY <2>1, PendingTypes
  <2>7. IntegratedWork' = IntegratedWork \cup AcceptedWork
    BY <2>1, <2>5, <2>6 DEF IntegratedWork, AcceptedWork
  <2> QED
    BY <2>4, <2>7, Mapping
<1>7. CASE Finish
  <2>1. UNCHANGED << phase, work, main >> /\ run'.pending = None
    BY <1>7, RunFields DEF Finish, tickets, FileTypes
  <2> QED
    BY <2>1, Settles
<1>8. CASE Fails
  <2>1. UNCHANGED << phase, work, main >>
    BY <1>8 DEF Fails, tickets
  <2>2. run'.pending \in {run.pending, None}
    BY <1>8, RescuedEffect DEF Fails
  <2> QED
    BY <2>1, <2>2, Stutters, Settles
<1>9. CASE \/ Finished \/ DirtyMain \/ StartWave \/ ApplyFails \/ RollbackFails
           \/ SettleWave \/ OutOfScope
  <2>1. UNCHANGED << phase, work, main >>
    BY <1>9 DEF Finished, DirtyMain, StartWave, ApplyFails, RollbackFails, SettleWave,
                OutOfScope, tickets, repo
  <2>2. run'.pending = run.pending
    <3>1. CASE Finished \/ DirtyMain \/ StartWave \/ SettleWave
      <4>1. CASE Finished
        BY <4>1, RunFields DEF Finished, FileTypes
      <4>2. CASE DirtyMain
        BY <4>2, RunFields DEF DirtyMain, FileTypes
      <4>3. CASE StartWave
        BY <4>3, RunFields DEF StartWave, FileTypes
      <4>4. CASE SettleWave
        BY <4>4, RunFields DEF SettleWave, FileTypes
      <4> QED
        BY <3>1, <4>1, <4>2, <4>3, <4>4
    <3>2. CASE ApplyFails \/ RollbackFails \/ OutOfScope
      <4>1. run' \in {run, [run EXCEPT !.state = "blocked"]}
        BY <3>2 DEF ApplyFails, RollbackFails, OutOfScope, Blocked
      <4>2. [run EXCEPT !.state = "blocked"].pending = run.pending
        BY RunFields DEF FileTypes
      <4> QED
        BY <4>1, <4>2
    <3> QED
      BY <1>9, <3>1, <3>2
  <2> QED
    BY <2>1, <2>2, Stutters
<1>10. CASE UNCHANGED << phase, work, main, run >>
  BY <1>10, Stutters
<1>11. \/ Start \/ Resume \/ TicketEnds \/ Integrate \/ ClearPending \/ ApplyToMain
       \/ Finish \/ Fails
       \/ Finished \/ DirtyMain \/ StartWave \/ ApplyFails \/ RollbackFails
       \/ SettleWave \/ OutOfScope
       \/ UNCHANGED << phase, work, main, run >>
  BY DEF Next, Process, Loop, WaveEnds, Verification, Completion, vars, TakeUp,
         TicketErrs, NotIntegrated, ChecksPass, ChecksFail, Repaired,
         VerificationFails, ChecksUnrun, CommitWave, AdvanceBase, Crash, EditMain,
         LoseRef, GoTo, tickets, repo, files
<1> QED
  BY <1>1, <1>2, <1>3, <1>4, <1>5, <1>6, <1>7, <1>8, <1>9, <1>10, <1>11

\* WaveIntegration implements AtomicWaves: a wave's work reaches the main tree in one
\* step, once, or not at all, and the wave is settled before the next is accepted.
THEOREM ImplementsAtomicWavesHolds == Spec => ImplementsAtomicWaves
<1>1. Init => Abstract!Init
  BY DEF Init, NewRun, Abstract!Init, InPhase
<1>2. RInv /\ [Next]_vars => [Abstract!Next]_(Abstract!vars)
  BY WavesNext
<1>3. Spec => []RInv
  <2>1. Init => RInv
    BY TypeInit, ClosedInit, AtomicInit, FreshInit DEF RInv, IInv, AInv
  <2>2. RInv /\ [Next]_vars => RInv'
    BY TypeNext, ClosedNext, AtomicNext, FreshNext DEF RInv, IInv, AInv
  <2> QED
    BY <2>1, <2>2, PTL DEF Spec
<1> QED
  BY <1>1, <1>2, <1>3, PTL DEF Spec, ImplementsAtomicWaves, Abstract!Spec
-----------------------------------------------------------------------------
(* A wave is withdrawn with all of its work integrated, or with none *)

\* Where a transaction ends: checks that are being run have not passed; what is
\* finished has the commit of every ref; and it started from a tree that had nothing
\* of its tickets.
Settling ==
    /\ pc \in {"verify", "repair", "clear"} /\ HasChecks => flag # "passed"
    /\ pc = "finish" => Picked(Refs) \subseteq base
    /\ run.pending # None => From \cap (Refs \X (0 .. MaxCommits)) = {}

\* Nothing is being settled at first.
LEMMA SettlingInit == Init => Settling
  BY DEF Init, NewRun, Settling

\* A step that leaves the transaction alone and does not get to where it ends.
LEMMA StillSettling ==
  ASSUME Settling, UNCHANGED << base, flag, work >>, run'.pending = run.pending,
         pc' = "finish" => pc = "finish",
         pc' \in {"verify", "repair", "clear"} => pc \in {"verify", "repair", "clear"}
  PROVE  Settling'
<1>1. From' = From /\ (HasChecks' <=> HasChecks)
  BY SameWave
<1>2. Refs' = Refs /\ Picked(Refs)' = Picked(Refs)
  BY DEF Refs, Picked, Changed
<1> QED
  BY <1>1, <1>2 DEF Settling

\* One after which no wave is announced and the process is not at one.
LEMMA NothingToSettle ==
  ASSUME run'.pending = None, pc' \notin {"verify", "repair", "clear", "finish"}
  PROVE  Settling'
  BY DEF Settling

\* A wave that is found applied, or is applied, has the commit of every ref in the
\* base ref; every way to the end of a transaction leads through one of the two.
LEMMA SettlingNext == RInv /\ Settling /\ [Next]_vars => Settling'
<1> SUFFICES ASSUME Types, Between, During, Stages, ClosedTrees, Fresh, Settling,
                    [Next]_vars
             PROVE  Settling'
  BY TypeOKIsTypes DEF RInv, IInv, AInv
<1> USE DEF Types
<1>1. CASE Start
  BY <1>1, NothingToSettle DEF Start, NewRun, GoTo
<1>2. CASE Resume
  <2>1. run'.pending = run.pending /\ UNCHANGED << flag, work >>
        /\ pc' \in {"loop", "down"}
    BY <1>2, RunFields DEF Resume, FileTypes
  <2>2. From' = From /\ Refs' = Refs
    BY <2>1 DEF From, Refs
  <2> QED
    BY <2>1, <2>2 DEF Settling
<1>3. CASE StartWave
  <2>1. run'.pending = None /\ pc' = "work"
    BY <1>3, RunFields DEF StartWave, Idle, FileTypes
  <2> QED
    BY <2>1, NothingToSettle
<1>4. CASE TakeUp
  <2>1. UNCHANGED << base, main, flag, work, run >>
    BY <1>4 DEF TakeUp, tickets, files
  <2>2. From' = From /\ Refs' = Refs /\ Picked(Refs)' = Picked(Refs)
    BY <2>1 DEF From, Refs, Picked, Changed
  <2>3. pc' = "finish" => Applied
    BY <1>4 DEF TakeUp
  <2>4. pc' \in {"verify", "repair", "clear"} => flag # "passed"
    BY <1>4 DEF TakeUp
  <2>5. Applied => Picked(Refs) \subseteq base
    BY DEF Applied, Advanced, Picked
  <2> QED
    BY <2>1, <2>2, <2>3, <2>4, <2>5 DEF Settling
<1>5. CASE Integrate
  <2>1. /\ pc = "work" /\ pc' = "verify" /\ UNCHANGED << main, flag >>
        /\ base # None /\ run.pending = None /\ flag = "none"
    BY <1>5 DEF Integrate, Ended, Stages, Places
  <2>2. run'.pending = [refs |-> Accepted, base |-> base] /\ base = main
    BY <1>5, <2>1, RunFields DEF Integrate, FileTypes, Between
  <2>3. From' = main /\ Refs' = Accepted
    BY <2>2 DEF From, Refs
  <2>4. main \cap (Accepted \X (0 .. MaxCommits)) = {}
    <3>1. \A c \in main : c[1] \notin Accepted
      BY <2>1 DEF Fresh, Accepted
    <3> QED
      BY <3>1
  <2> QED
    BY <2>1, <2>3, <2>4 DEF Settling
<1>6. CASE ChecksPass
  <2>1. run' = run /\ pc' = "commit"
    BY <1>6 DEF ChecksPass, GoTo
  <2>2. From' = From /\ Refs' = Refs
    BY <2>1 DEF From, Refs
  <2> QED
    BY <2>1, <2>2 DEF Settling
<1>7. CASE VerificationFails
  <2>1. run' = run /\ pc' = "clear" /\ flag' = "failed"
    BY <1>7 DEF VerificationFails, GoTo
  <2>2. From' = From /\ Refs' = Refs
    BY <2>1 DEF From, Refs
  <2> QED
    BY <2>1, <2>2 DEF Settling
<1>8. CASE CommitWave
  <2>1. UNCHANGED << base, work, run >> /\ pc' \in {"finish", "advance"}
        /\ (pc' = "finish" => Applied)
    BY <1>8 DEF CommitWave, tickets, files, GoTo
  <2>2. From' = From /\ Refs' = Refs /\ Picked(Refs)' = Picked(Refs)
    BY <2>1 DEF From, Refs, Picked, Changed
  <2>3. Applied => Picked(Refs) \subseteq base
    BY DEF Applied, Advanced, Picked
  <2> QED
    BY <2>1, <2>2, <2>3 DEF Settling
<1>9. CASE ApplyToMain
  <2>1. UNCHANGED << base, work, run >> /\ run.pending # None /\ wt # None
        /\ base = wt.tree /\ pc' = "finish"
    BY <1>9 DEF ApplyToMain, tickets, files, GoTo, Places, Stages
  <2>2. From' = From /\ Refs' = Refs /\ Picked(Refs)' = Picked(Refs)
    BY <2>1 DEF From, Refs, Picked, Changed
  <2>3. Picked(Refs) \subseteq base
    BY <2>1 DEF During, InRoom, Whole
  <2> QED
    BY <2>1, <2>2, <2>3 DEF Settling
<1>10. CASE AdvanceBase \/ ApplyFails \/ RollbackFails
  <2>1. run'.pending = run.pending
    <3>1. run' \in {run, [run EXCEPT !.state = "blocked"]}
      BY <1>10 DEF AdvanceBase, ApplyFails, RollbackFails, Blocked, files
    <3>2. [run EXCEPT !.state = "blocked"].pending = run.pending
      BY RunFields DEF FileTypes
    <3> QED
      BY <3>1, <3>2
  <2>2. pc' \in {"apply", "down"}
    BY <1>10 DEF AdvanceBase, ApplyFails, RollbackFails, GoTo, Down
  <2>3. From' = From /\ Refs' = Refs
    BY <2>1 DEF From, Refs
  <2> QED
    BY <2>1, <2>2, <2>3 DEF Settling
<1>11. CASE ClearPending \/ Finish
  <2>1. run'.pending = None
    <3>1. CASE ClearPending
      BY <3>1, RunFields DEF ClearPending, FileTypes
    <3>2. CASE Finish
      BY <3>2, RunFields DEF Finish, FileTypes
    <3> QED
      BY <1>11, <3>1, <3>2
  <2>2. pc' \in {"down", "settle", "loop"}
    BY <1>11 DEF ClearPending, Finish, GoTo, Down
  <2> QED
    BY <2>1, <2>2, NothingToSettle
<1>12. CASE Finished \/ DirtyMain \/ OutOfScope \/ SettleWave
  <2>1. UNCHANGED << base, flag, work >>
    BY <1>12 DEF Finished, DirtyMain, OutOfScope, SettleWave, tickets, repo
  <2>2. run'.pending = run.pending
    <3>1. CASE Finished
      BY <3>1, RunFields DEF Finished, FileTypes
    <3>2. CASE DirtyMain
      BY <3>2, RunFields DEF DirtyMain, FileTypes
    <3>3. CASE OutOfScope
      <4>1. run' \in {run, [run EXCEPT !.state = "blocked"]}
        BY <3>3 DEF OutOfScope
      <4>2. [run EXCEPT !.state = "blocked"].pending = run.pending
        BY RunFields DEF FileTypes
      <4> QED
        BY <4>1, <4>2
    <3>4. CASE SettleWave
      BY <3>4, RunFields DEF SettleWave, FileTypes
    <3> QED
      BY <1>12, <3>1, <3>2, <3>3, <3>4
  <2>3. pc' \in {"down", "settle", "loop"}
    BY <1>12 DEF Finished, DirtyMain, OutOfScope, SettleWave, Down, GoTo
  <2> QED
    BY <2>1, <2>2, <2>3, StillSettling
<1>13. CASE Fails
  <2>1. UNCHANGED << base, flag, work >> /\ pc' = "down"
    BY <1>13 DEF Fails, Down, tickets
  <2>2. run'.pending \in {run.pending, None}
    BY <1>13, RescuedEffect DEF Fails
  <2> QED
    BY <2>1, <2>2, StillSettling, NothingToSettle
<1>14. CASE LoseRef
  <2>1. UNCHANGED << run, pc >> /\ pc = "down"
    BY <1>14 DEF LoseRef, files
  <2>2. From' = From /\ Refs' = Refs
    BY <2>1 DEF From, Refs
  <2> QED
    BY <2>1, <2>2 DEF Settling
<1>15. CASE TicketEnds
  <2>1. UNCHANGED << run, pc >> /\ pc = "work" /\ run.pending = None
    BY <1>15 DEF TicketEnds, files, Stages
  <2> QED
    BY <2>1, NothingToSettle
<1>16. CASE \/ TicketErrs \/ NotIntegrated \/ ChecksFail \/ Repaired \/ ChecksUnrun
            \/ Crash \/ EditMain \/ UNCHANGED vars
  <2>1. UNCHANGED << base, flag, work, run >>
    BY <1>16 DEF TicketErrs, NotIntegrated, ChecksFail, Repaired, ChecksUnrun, Crash,
                 EditMain, vars, tickets, repo, files
  <2>2. \/ pc' \in {"down", "settle"} \/ pc' = pc
        \/ pc' \in {"verify", "repair", "clear"} /\ pc \in {"verify", "repair"}
    BY <1>16 DEF TicketErrs, NotIntegrated, ChecksFail, Repaired, ChecksUnrun, Crash,
                 EditMain, vars, GoTo, Down
  <2> QED
    BY <2>1, <2>2, StillSettling
<1> QED
  BY <1>1, <1>2, <1>3, <1>4, <1>5, <1>6, <1>7, <1>8, <1>9, <1>10, <1>11, <1>12,
     <1>13, <1>14, <1>15, <1>16
  DEF Next, Process, Loop, WaveEnds, Verification, Completion

\* A step that withdraws the announcement is one of a process that has the commits of
\* all refs in the main tree, or has cleared a wave whose checks did not pass.
LEMMA WholeOrNothing ==
  ASSUME RInv, Settling, Next, run.pending # None, run'.pending = None
  PROVE  \/ Picked(Refs) \subseteq main'
         \/ flag' # "passed" /\ main' \cap (Refs \X (0 .. MaxCommits)) = {}
<1> USE TypeOKIsTypes DEF RInv, IInv, AInv, Types
<1>1. main' = main /\ flag' = flag /\ pc \in {"clear", "finish"}
  <2>1. CASE ClearPending
    BY <2>1 DEF ClearPending
  <2>2. CASE Finish
    BY <2>2 DEF Finish
  <2>3. CASE Fails
    <3>1. run' = Rescued
      BY <2>3 DEF Fails
    <3> QED
      BY <2>3, <3>1, RescuedEffect DEF Fails
  <2>4. CASE Start \/ TicketEnds
    <3>1. run.pending = None
      BY <2>4 DEF Start, TicketEnds, During, Announced, Stages
    <3> QED
      BY <3>1
  <2>5. CASE Resume
    <3>1. run'.pending = run.pending
      BY <2>5, RunFields DEF Resume, FileTypes
    <3> QED
      BY <3>1
  <2>6. CASE Finished \/ DirtyMain \/ StartWave \/ Integrate \/ NotIntegrated
             \/ SettleWave
    <3>1. run.pending = None
      BY <2>6 DEF Finished, DirtyMain, StartWave, Integrate, NotIntegrated, SettleWave,
                  Idle, Ended, Stages
    <3> QED
      BY <3>1
  <2>7. CASE OutOfScope \/ ApplyFails \/ RollbackFails
    <3>1. run' \in {run, [run EXCEPT !.state = "blocked"]}
      BY <2>7 DEF OutOfScope, ApplyFails, RollbackFails, Blocked
    <3>2. [run EXCEPT !.state = "blocked"].pending = run.pending
      BY RunFields DEF FileTypes
    <3> QED
      BY <3>1, <3>2
  <2>8. CASE \/ TakeUp \/ TicketErrs \/ ChecksPass \/ ChecksFail \/ Repaired
             \/ VerificationFails \/ ChecksUnrun \/ CommitWave \/ AdvanceBase
             \/ ApplyToMain \/ Crash \/ EditMain \/ LoseRef
    <3>1. run' = run
      BY <2>8 DEF TakeUp, TicketErrs, ChecksPass, ChecksFail, Repaired,
                  VerificationFails, ChecksUnrun, CommitWave, AdvanceBase, ApplyToMain,
                  Crash, EditMain, LoseRef, files
    <3> QED
      BY <3>1
  <2> QED
    BY <2>1, <2>2, <2>3, <2>4, <2>5, <2>6, <2>7, <2>8
    DEF Next, Process, Loop, WaveEnds, Verification, Completion
<1>2. CASE pc = "finish"
  BY <1>1, <1>2 DEF Settling, Stages
<1>3. CASE pc = "clear"
  BY <1>1, <1>3 DEF Settling, Stages
<1> QED
  BY <1>1, <1>2, <1>3

\* So in every behaviour: the announcement of a wave is withdrawn only when the commit
\* of each of its refs is in the main tree or, if its checks have not passed, nothing
\* of it is, however often its workers commit.
THEOREM LastCommitsOrNothing ==
  Spec => [][run.pending # None /\ run'.pending = None =>
                \/ Picked(Refs) \subseteq main'
                \/ flag' # "passed" /\ main' \cap (Refs \X (0 .. MaxCommits)) = {}]_vars
<1>1. Init => RInv /\ Settling
  BY TypeInit, ClosedInit, AtomicInit, FreshInit, SettlingInit DEF RInv, IInv, AInv
<1>2. RInv /\ Settling /\ [Next]_vars => RInv' /\ Settling'
  BY TypeNext, ClosedNext, AtomicNext, FreshNext, SettlingNext DEF RInv, IInv, AInv
<1>3. RInv /\ Settling /\ [Next]_vars =>
        [run.pending # None /\ run'.pending = None =>
            \/ Picked(Refs) \subseteq main'
            \/ flag' # "passed" /\ main' \cap (Refs \X (0 .. MaxCommits)) = {}]_vars
  BY WholeOrNothing DEF vars, files
<1> QED
  BY <1>1, <1>2, <1>3, PTL DEF Spec

\* A ticket's only commit is the one its ref names.
LEMMA OneCommit ==
  ASSUME MaxCommits = 1, TypeOK PROVE Changed(Refs) = Picked(Refs)
<1>1. \A c \in Changed(Refs) : c[2] = work[c[1]]
  <2> SUFFICES ASSUME NEW c \in Changed(Refs) PROVE c[2] = work[c[1]]
    OBVIOUS
  <2>1. c[1] \in Ticket /\ c[2] \in 1 .. work[c[1]]
    BY DEF Changed, Change
  <2>2. work[c[1]] \in 0 .. 1
    BY <2>1 DEF TypeOK
  <2> QED
    BY <2>1, <2>2
<1> QED
  BY <1>1 DEF Picked

\* The announcement of a wave is withdrawn only when all that its tickets changed is in
\* the main tree or, if its checks have not passed, nothing of it: for workers that
\* commit once.  (Of those that commit more often only the last commit is integrated:
\* LastCommitsOrNothing is what holds of them.)
THEOREM AllOrNothingHolds == MaxCommits = 1 => (Spec => AllOrNothing)
<1> SUFFICES ASSUME MaxCommits = 1 PROVE Spec => AllOrNothing
  OBVIOUS
<1> DEFINE Withdrawal ==
      run.pending # None /\ run'.pending = None =>
          \/ Changed(Refs) \subseteq main'
          \/ flag' # "passed" /\ main' \cap (Refs \X (0 .. MaxCommits)) = {}
<1>1. Init => RInv /\ Settling
  BY TypeInit, ClosedInit, AtomicInit, FreshInit, SettlingInit DEF RInv, IInv, AInv
<1>2. RInv /\ Settling /\ [Next]_vars => RInv' /\ Settling'
  BY TypeNext, ClosedNext, AtomicNext, FreshNext, SettlingNext DEF RInv, IInv, AInv
<1>3. RInv /\ Settling /\ [Next]_vars => [Withdrawal]_vars
  <2> SUFFICES ASSUME RInv, Settling, Next, run.pending # None, run'.pending = None
               PROVE  Withdrawal
    BY DEF vars, files
  <2>1. Changed(Refs) = Picked(Refs)
    BY OneCommit DEF RInv, IInv
  <2> QED
    BY <2>1, WholeOrNothing
<1> QED
  BY <1>1, <1>2, <1>3, PTL DEF Spec, AllOrNothing
=============================================================================
