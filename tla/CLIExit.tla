------------------------------- MODULE CLIExit -------------------------------
(***************************************************************************)
(* One run of the sous binary: main (src/main.go) defers handlePanic and   *)
(* exits with the code action returns; action injects the log set, defers  *)
(* its AtExit, builds the CLI and returns the exit code of the Result      *)
(* Invoke produced.  A command's error becomes a Result through            *)
(* ErrorResult (src/cli/errors.go), whose type switch keeps the five       *)
(* Result error types and wraps anything else in an UnknownError.          *)
(*                                                                         *)
(* The environment of the run -- whether injection and the CLI's           *)
(* construction fail, what the command returns or whether it panics, and   *)
(* DEBUG -- is chosen in Init; the run then takes its steps.  Messages and *)
(* tips are formatting and left out.                                       *)
(***************************************************************************)
EXTENDS Integers

\* The dynamic types a command's error may have: the five Result types,
\* the generic cli.Error (an error but not a Result), any other error.
ResultTypes == {"InternalError", "UsageError", "OSError", "IOError", "UnknownError"}
ErrTypes == ResultTypes \cup {"Error", "other"}
\* What the invoked command does.
Outcomes == {"success", "panic"} \cup ErrTypes

\* sysexits.h codes, as the cli package names them.
EX_USAGE == 64
EX_SOFTWARE == 70
EX_OSERR == 71
EX_IOERR == 74
\* The Go runtime's exit status after an unrecovered panic.
PanicStatus == 2

\* What a step of action that may fail does: return, fail with an error,
\* or panic.
StepOutcomes == {"ok", "error", "panic"}

VARIABLES
  env,       \* [inject, newcli, invoke, debug]: what the run meets
  pc,        \* "inject", "newcli", "invoke", "exit", "panicking", "done"
  status,    \* the int action returned, passed to os.Exit
  deferred,  \* action has deferred lss.LogSet.AtExit
  flushed,   \* AtExit has run
  banner,    \* handlePanic printed the panic message
  code       \* the process exit status, once pc = "done"

vars == <<env, pc, status, deferred, flushed, banner, code>>

-----------------------------------------------------------------------------
(* src/cli/errors.go                                                       *)

\* ErrorResult: a Result type is returned as it is; anything else is
\* wrapped, default: UnknownError{Err: err}.
ErrorResult(errType) == IF errType \in ResultTypes THEN errType ELSE "UnknownError"

\* Mutant: a usage error reported as a software error.
ExitCodeUsageAsSoftware(r) ==
  CASE r = "InternalError" -> EX_SOFTWARE
    [] r = "UsageError"    -> EX_SOFTWARE
    [] r = "OSError"       -> EX_OSERR
    [] r = "IOError"       -> EX_IOERR
    [] r = "UnknownError"  -> 255

\* The ExitCode methods of the five Result error types.
ExitCode(r) ==
  CASE r = "InternalError" -> EX_SOFTWARE
    [] r = "UsageError"    -> EX_USAGE
    [] r = "OSError"       -> EX_OSERR
    [] r = "IOError"       -> EX_IOERR
    [] r = "UnknownError"  -> 255

\* c.Invoke(os.Args).ExitCode(): 0 for a success, the error Result's code
\* otherwise.
InvokeExitCode(outcome) == IF outcome = "success" THEN 0 ELSE ExitCode(ErrorResult(outcome))

-----------------------------------------------------------------------------
(* src/main.go                                                             *)

Init ==
  /\ env \in [inject : StepOutcomes, newcli : StepOutcomes,
              invoke : Outcomes, debug : BOOLEAN]
  /\ pc = "inject" /\ status = 0 /\ deferred = FALSE /\ flushed = FALSE
  /\ banner = FALSE /\ code = 0

\* action returns: its deferred functions (the AtExit, once registered)
\* run, and main gets the status.
Return(s) ==
  /\ pc' = "exit" /\ status' = s
  /\ flushed' = deferred
  /\ UNCHANGED <<deferred, banner, code>>

\* A panic leaves action: its deferred AtExit runs as the stack unwinds.
PanicOut ==
  /\ pc' = "panicking"
  /\ flushed' = deferred
  /\ UNCHANGED <<status, deferred, banner, code>>

\* Mutant: the AtExit of the log set is never deferred.
InjectNoDefer ==
  /\ pc = "inject"
  /\ CASE env.inject = "ok"    -> pc' = "newcli" /\ UNCHANGED <<status, deferred, flushed, banner, code>>
       [] env.inject = "error" -> Return(70)
       [] env.inject = "panic" -> PanicOut
  /\ UNCHANGED env

\* BuildGraph and di.Inject(lss): on an error print it and return 70 (no
\* AtExit deferred yet); otherwise defer lss.LogSet.AtExit().
Inject ==
  /\ pc = "inject"
  /\ CASE env.inject = "ok"    -> /\ pc' = "newcli" /\ deferred' = TRUE
                                  /\ UNCHANGED <<status, flushed, banner, code>>
       [] env.inject = "error" -> Return(70)
       [] env.inject = "panic" -> PanicOut
  /\ UNCHANGED env

\* cli.NewSousCLI: on an error print it and return 70.
NewSousCLI ==
  /\ pc = "newcli"
  /\ CASE env.newcli = "ok"    -> pc' = "invoke" /\ UNCHANGED <<status, deferred, flushed, banner, code>>
       [] env.newcli = "error" -> Return(70)
       [] env.newcli = "panic" -> PanicOut
  /\ UNCHANGED env

\* return c.Invoke(os.Args).ExitCode(), or the command panics.
Invoke ==
  /\ pc = "invoke"
  /\ IF env.invoke = "panic" THEN PanicOut ELSE Return(InvokeExitCode(env.invoke))
  /\ UNCHANGED env

\* Mutant: main returns normally, so its deferred handlePanic runs on
\* every exit.
MainExitRunsDefers ==
  /\ pc = "exit"
  /\ pc' = "done" /\ code' = status
  /\ banner' = ~env.debug
  /\ UNCHANGED <<env, status, deferred, flushed>>

\* os.Exit(action()): the process ends with action's status; os.Exit runs
\* no deferred function, so handlePanic does not run.
MainExit ==
  /\ pc = "exit"
  /\ pc' = "done" /\ code' = status
  /\ UNCHANGED <<env, status, deferred, flushed, banner>>

\* The panic reaches main: its deferred handlePanic prints the message
\* unless DEBUG=YES, does not recover, and the runtime exits with status 2.
HandlePanic ==
  /\ pc = "panicking"
  /\ banner' = ~env.debug
  /\ pc' = "done" /\ code' = PanicStatus
  /\ UNCHANGED <<env, status, deferred, flushed>>

\* The process has exited.
Exited == pc = "done" /\ UNCHANGED vars

Next == Inject \/ NewSousCLI \/ Invoke \/ MainExit \/ HandlePanic \/ Exited

Spec == Init /\ [][Next]_vars

-----------------------------------------------------------------------------
(* Properties.                                                             *)

Panicked == \/ env.inject = "panic"
            \/ env.inject = "ok" /\ env.newcli = "panic"
            \/ env.inject = "ok" /\ env.newcli = "ok" /\ env.invoke = "panic"

\* The status each kind of command error is documented to exit with
\* (sysexits for the four named kinds; 255 for anything unclassified,
\* including a bare cli.Error and an error of another package).
Documented == [InternalError |-> 70, UsageError |-> 64, OSError |-> 71,
               IOError |-> 74, UnknownError |-> 255, Error |-> 255, other |-> 255]

\* The process exits with the status its run calls for: 70 when the
\* dependency graph or the CLI cannot be built, 2 after a panic, 0 after a
\* successful command, and the documented status of the command's error.
ExitStatusMatchesRun ==
  pc = "done" =>
    code = CASE Panicked -> PanicStatus
             [] env.inject = "error" \/ env.newcli = "error" -> 70
             [] env.invoke = "success" -> 0
             [] OTHER -> Documented[env.invoke]

\* Once the log set exists, every way out of the process -- an error
\* building the CLI, a command's result, a panic anywhere below -- runs its
\* AtExit before the process ends.
LogsFlushedOnEveryExit ==
  (pc = "done" /\ env.inject = "ok") => flushed

\* The panic message (the "OOPS" banner and the version) is printed exactly
\* when the process dies of a panic and DEBUG is not YES -- never on an
\* ordinary exit, however it fails.
BannerOnlyOnPanic ==
  pc = "done" => (banner <=> (Panicked /\ ~env.debug))

=============================================================================
