-------------------------------- MODULE Cli --------------------------------
(***************************************************************************)
(* What the commands share: the exit codes, how an error becomes one, and  *)
(* the dispatch to a command.                                              *)
(***************************************************************************)
EXTENDS Naturals

ExitOK == 0
ExitInternal == 1
ExitUsage == 2
ExitNotFound == 3
ExitNamedPipe == 5
ExitTransfer == 6
ExitTimeout == 8
ExitDiagnostic == 9

\* No error, an Error with a code of its own, any other error.
Nil         == [kind |-> "nil", code |-> ExitOK]
Error(code) == [kind |-> "Error", code |-> code]
Plain       == [kind |-> "plain", code |-> ExitInternal]

exitCode(err) ==
    CASE err.kind = "nil"   -> ExitOK
      [] err.kind = "Error" -> err.code
      [] OTHER              -> ExitInternal

Systems == {"linux", "windows", "darwin"}

LinuxCommands == {"unix-listen", "service", "status"}

\* Which command a system has: the error of run before the command's own code.
dispatch(goos, command) ==
    IF \/ command \in LinuxCommands /\ goos = "linux"
       \/ command = "npipe-connect" /\ goos = "windows"
       \/ command \in {"doctor", "version", "help"}
    THEN Nil ELSE Error(ExitUsage)
=============================================================================
