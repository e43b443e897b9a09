---------------------------- MODULE MCTicketChecks ----------------------------
(* TicketChecks over a Go package and a document.                            *)
EXTENDS TicketChecks

MCFile == {"internal/a/a.go", "README.md"}
MCLang == [f \in MCFile |-> IF f = "README.md" THEN "md" ELSE "go"]
MCPackage == [f \in {"internal/a/a.go"} |-> "internal/a"]

Unit == Command("go test", {"internal/a"})
Lint == Command("lint", {})

\* Tickets that ask for nothing, that are about documents, that declare the
\* check that would be derived, and that validate with it.
MCPlan ==
    { Asks({}, {}, {}, FALSE), Asks({Lint}, {}, {}, TRUE),
      Asks({Lint}, {}, {Unit}, FALSE), Asks({Lint}, {Unit}, {}, FALSE) }
MCConstraint == { Command("no debug print", {}) }
MCKind == [c \in MCConstraint |-> "grep"]

\* A ticket with a quality command, for the runs that ask one question.
PlainPlan == { Asks({Lint}, {}, {}, FALSE) }
=============================================================================
