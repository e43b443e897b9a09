---------------------------- MODULE DerivedChecks ----------------------------
(***************************************************************************)
(* The checks the engine derives from the files a ticket or a wave changed  *)
(* (internal/engine/derived_checks.go), as operators.                       *)
(*                                                                         *)
(* A command is what is run on what: its text is the join of the two, and   *)
(* the ID of a check is a digest of the ticket (or wave) and the text, so   *)
(* that two checks of one scope are the same check exactly when they are    *)
(* the same command.                                                        *)
(***************************************************************************)
EXTENDS FiniteSets

CONSTANTS
    File,        \* paths in the repository
    Lang,        \* of each file, by its suffix
    Package,     \* of each Go file: its directory under internal, cmd or pkg
    PyTest,      \* the Python files that pytest would collect
    Ruff         \* the repository has a Ruff configuration or a pyproject.toml

NoPackage == "no package"
Linter == {"ruff", "markdownlint", "yamllint", "shellcheck"}

ASSUME DerivedChecksAssumption ==
    /\ Lang \in [File -> {"go", "py", "md", "yaml", "sh", "other"}]
    /\ DOMAIN Package = {f \in File : Lang[f] = "go"}
    /\ PyTest \subseteq {f \in File : Lang[f] = "py"}
    /\ Ruff \in BOOLEAN

Command(tool, on) == [tool |-> tool, on |-> on]

\* Executables found on the PATH, of those the derivation asks for.
ToolSignals == SUBSET Linter

Of(lang, files) == {f \in files : Lang[f] = lang}

\* `go test` of each changed package.  Files outside the usual roots are
\* tested only when no changed file is inside one, and never for a wave.
GoChecks(files, skipFallback) ==
    LET packages == {Package[f] : f \in Of("go", files)} \ {NoPackage}
    IN  IF packages # {} THEN {Command("go test", {p}) : p \in packages}
        ELSE IF Of("go", files) = {} \/ skipFallback THEN {}
        ELSE {Command("go test", {"internal/..."})}

\* One run of a linter over all the files of its language.
Linted(lang, linter, files, tools) ==
    IF Of(lang, files) # {} /\ linter \in tools
    THEN {Command(linter, Of(lang, files))} ELSE {}

PythonChecks(files, tools) ==
    (IF files \cap PyTest # {} THEN {Command("pytest", files \cap PyTest)} ELSE {})
    \cup (IF Ruff THEN Linted("py", "ruff", files, tools) ELSE {})

\* The sweep for stale wording asks for work on documents and for terms to
\* look for: a ticket has those of the closure gate, a wave has none.
StaleWording == Command("stale wording", {"docs"})

MarkdownChecks(files, tools, docs, terms) ==
    Linted("md", "markdownlint", files, tools)
    \cup (IF Of("md", files) # {} /\ docs /\ terms THEN {StaleWording} ELSE {})

\* The sweep succeeds when it finds something; the closure gate's is inverted.
SweepFails(found, invert) == found = invert

YAMLChecks(files, tools) == Linted("yaml", "yamllint", files, tools)

ShellChecks(files, tools) == Linted("sh", "shellcheck", files, tools)

\* What a ticket asks for itself is not derived once more.
DeriveChecks(files, tools, docs, terms, declared, skipFallback) ==
    (GoChecks(files, skipFallback) \cup PythonChecks(files, tools)
     \cup MarkdownChecks(files, tools, docs, terms) \cup YAMLChecks(files, tools)
     \cup ShellChecks(files, tools)) \ declared

\* The linter the repository would have a file checked with.
Lints(linter, file) ==
    \/ linter = "ruff" /\ Lang[file] = "py" /\ Ruff
    \/ linter = "markdownlint" /\ Lang[file] = "md"
    \/ linter = "yamllint" /\ Lang[file] = "yaml"
    \/ linter = "shellcheck" /\ Lang[file] = "sh"

\* What could not be derived and is noted: linters that are missing, a sweep
\* with nothing to look for.
Skipped(files, tools, docs, terms) ==
    IF files = {} THEN {"no changed files"}
    ELSE ({l \in Linter : \E f \in files : Lints(l, f)} \ tools)
         \cup (IF Of("md", files) # {} /\ docs /\ ~terms THEN {"stale wording"} ELSE {})
=============================================================================
