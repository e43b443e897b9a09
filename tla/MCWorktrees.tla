---------------------------- MODULE MCWorktrees ----------------------------
(* Two runs.  The first has a ticket that owns a directory, one that owns a   *)
(* file in it and may edit one that nobody owns, and one without a scope; the *)
(* second is an epic without tickets.                                        *)
EXTENDS Worktrees

CONSTANTS r1, r2, t1, t2, t3

pkg == << "pkg" >>
src == << "pkg", "src" >>
other == << "ci" >>

ChildrenOf == (r1 :> << t1, t2, t3 >>) @@ (r2 :> << >>)
ScopeOf == (t1 :> {pkg}) @@ (t2 :> {src}) @@ (t3 :> {})
Segments == {"pkg", "src", "ci"}
EditsOf == (t1 :> {{src}}) @@ (t2 :> {{src}, {other}}) @@ (t3 :> {{src}})
=============================================================================
