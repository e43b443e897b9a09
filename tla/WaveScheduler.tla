--------------------------- MODULE WaveScheduler ---------------------------
(***************************************************************************)
(* Which tickets run together and what of their work is accepted            *)
(* (internal/engine/wave_scheduler.go, DetectConflictsFor in worktree.go,   *)
(* PathsOverlap in internal/adapters/repo/git/repo.go).                     *)
(*                                                                         *)
(* A path is the sequence of its segments; the root of the repository, ".", *)
(* is the empty sequence.  Scopes are sets of paths, by ticket; a ticket     *)
(* that declares no owned_paths has the empty scope.                        *)
(***************************************************************************)
EXTENDS Naturals, Sequences, SequencesExt, FiniteSets

\* Mutant: directories are compared as files are.
PathsOverlapAsFiles(a, b) == a = b

\* One path is the other or a directory above it, segment by segment.
PathsOverlap(a, b) == IsPrefix(a, b) \/ IsPrefix(b, a)

OverlapsAny(candidates, selected) ==
    \E a \in candidates, b \in selected : PathsOverlap(a, b)

\* The ready ones of the children in their order, up to the limit; one that overlaps
\* those selected before it is passed over.  The first always fits, so that
\* BuildWave's two errors are for a limit of zero alone.
BuildWave(children, ready, scope, limit) ==
    LET Passed(wave, t) ==
            \/ t \notin ready
            \/ Cardinality(wave) >= limit
            \/ OverlapsAny(scope[t], UNION {scope[u] : u \in wave})
        selected[n \in 0 .. Len(children)] ==
            IF n = 0 THEN {}
            ELSE IF Passed(selected[n - 1], children[n]) THEN selected[n - 1]
                 ELSE selected[n - 1] \cup {children[n]}
    IN selected[Len(children)]

\* validatePerTicketScope: the files of the wave against the scopes of all its
\* tickets together, unless one of them declares none.
InScope(wave, files, scope) ==
    \/ \E t \in wave : scope[t] = {}
    \/ \A f \in files : OverlapsAny({f}, UNION {scope[t] : t \in wave})

\* AcceptWave's hard failure.  The engine passes a phase for each ticket and says
\* that persisting succeeded; blocked tickets and unreleased claims are warnings.
AcceptWave(wave, changed, scope) == InScope(wave, UNION {changed[t] : t \in wave}, scope)

\* The files more than one of the tickets changed.
Conflicts(closed, changed) ==
    {f \in UNION {changed[t] : t \in closed} :
        Cardinality({t \in closed : f \in changed[t]}) > 1}
=============================================================================
