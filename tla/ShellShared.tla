---------------------------- MODULE ShellShared -----------------------------
(***************************************************************************)
(* What the shell shares with programs: its message queue (Ipc) and the    *)
(* terminal (Terminal).  The shell is in one call at a time; programs come *)
(* in between any two of its accesses, and a BLOCKED shell may be taken    *)
(* off the CPU in the middle of a line it prints.                          *)
(***************************************************************************)
EXTENDS Ipc, Terminal

SharedInit == Init /\ TerminalInit

SharedNext ==
    \/ at = "idle" /\ ShellNext /\ UNCHANGED terminalVars
    \/ ShellAt("idle") /\ (putchar \/ clear) /\ UNCHANGED vars
    \/ (ProgramNext \/ TickParks) /\ UNCHANGED terminalVars
    \/ (\E c \in Characters : SysWrite(c)) /\ UNCHANGED vars

SharedSpec == SharedInit /\ [][SharedNext]_<<vars, terminalVars>>
=============================================================================
