---------------------------- MODULE MCWaveChecks ----------------------------
(* WaveChecks over a Go package, a Python test and a shell script.           *)
EXTENDS WaveChecks

MCFile == {"internal/a/a.go", "tests/a.py", "run.sh"}
MCLang == [f \in MCFile |-> CASE f = "internal/a/a.go" -> "go"
                              [] f = "tests/a.py" -> "py"
                              [] f = "run.sh" -> "sh"]
MCPyTest == {"tests/a.py"}
MCPackage == [f \in {"internal/a/a.go"} |-> "internal/a"]

\* A quality command of its own and one that is derived for the package too.
MCGate == << Job(Command("lint", {}), "."), Job(Command("go test", {"internal/a"}), ".") >>
NoGate == << >>
=============================================================================
