\* Every run of the binary: each step of action succeeding, failing or
\* panicking, every kind of command error, DEBUG set or not.
SPECIFICATION Spec
INVARIANT ExitStatusMatchesRun
INVARIANT LogsFlushedOnEveryExit
INVARIANT BannerOnlyOnPanic
