------------------------------ MODULE Terminal ------------------------------
(***************************************************************************)
(* The cursor of terminal.cpp.  The shell prints with interrupts enabled,  *)
(* so a tick may come inside its putchar and let a program print; the      *)
(* write system call runs with interrupts off, and each of its characters  *)
(* is one step here.  The kernel is compiled without optimisation: row++,  *)
(* col++ and col-- are a load and a store each, and a condition reads its  *)
(* variable again.                                                         *)
(*                                                                         *)
(* buffer, the serial line and the cursor registers are output: of a       *)
(* character only where it goes matters.  A register the shell has used is *)
(* forgotten.                                                              *)
(***************************************************************************)
EXTENDS Integers

CONSTANTS WIDTH, HEIGHT    \* 80 and 25 in the code

ASSUME TerminalAssumption == WIDTH \in Nat \ {0} /\ HEIGHT \in Nat \ {0}

VARIABLES row, col,
          at, loaded,      \* the shell's putchar: position and register
          writers          \* is there a program that prints?

terminalVars == <<row, col, at, loaded, writers>>

Characters == {"newline", "backspace", "printable"}

TerminalInit ==
    /\ row = 0 /\ col = 0 /\ at = "idle" /\ loaded = 0
    /\ writers \in BOOLEAN

-----------------------------------------------------------------------------
(* putchar as one step, called by a program *)

Moved(r, k, c) ==
    IF c = "newline" THEN <<r + 1, 0>>
    ELSE IF c = "backspace" THEN <<r, IF k > 0 THEN k - 1 ELSE k>>
    ELSE <<r, k + 1>>

Wrapped(p) == IF p[2] >= WIDTH THEN <<p[1] + 1, 0>> ELSE p

Scrolled(p) == IF p[1] >= HEIGHT THEN <<HEIGHT - 1, p[2]>> ELSE p

SysWrite(c) ==
    LET p == Scrolled(Wrapped(Moved(row, col, c)))
    IN  /\ writers
        /\ row' = p[1] /\ col' = p[2]
        /\ UNCHANGED <<at, loaded, writers>>

-----------------------------------------------------------------------------
(* putchar step by step, called by the shell *)

Go(from, to) == at = from /\ at' = to

PutStarts(c) ==
    /\ Go("idle", CASE c = "newline" -> "newline"
                    [] c = "backspace" -> "back_test"
                    [] OTHER -> "put_row")
    /\ UNCHANGED <<row, col, loaded, writers>>

(* The first assignment of col = 0, row++ after a newline or a full line.   *)
ToFirstColumn ==
    /\ Go("newline", "newline_load") \/ Go("wrap", "wrap_load")
    /\ col' = 0
    /\ UNCHANGED <<row, loaded, writers>>

LoadRow ==
    /\ \/ Go("newline_load", "newline_store") \/ Go("wrap_load", "wrap_store")
       \/ Go("put_row", "put_cell") \/ Go("clear_row", "clear_cell")
    /\ loaded' = row
    /\ UNCHANGED <<row, col, writers>>

NextRow ==
    /\ Go("newline_store", "wrap_test") \/ Go("wrap_store", "scroll_test")
    /\ row' = loaded + 1 /\ loaded' = 0
    /\ UNCHANGED <<col, writers>>

BackTest ==
    /\ Go("back_test", IF col > 0 THEN "back_load" ELSE "clear_row")
    /\ UNCHANGED <<row, col, loaded, writers>>

LoadColumn ==
    /\ Go("back_load", "back_store") \/ Go("put_load", "put_store")
    /\ loaded' = col
    /\ UNCHANGED <<row, col, writers>>

BackStore ==
    /\ Go("back_store", "clear_row")
    /\ col' = loaded - 1 /\ loaded' = 0
    /\ UNCHANGED <<row, writers>>

(* buffer[row * WIDTH + col], with the row loaded before.                   *)
Store ==
    /\ Go("put_cell", "put_load") \/ Go("clear_cell", "wrap_test")
    /\ loaded' = 0
    /\ UNCHANGED <<row, col, writers>>

PutStore ==
    /\ Go("put_store", "wrap_test")
    /\ col' = loaded + 1 /\ loaded' = 0
    /\ UNCHANGED <<row, writers>>

WrapTest ==
    /\ Go("wrap_test", IF col >= WIDTH THEN "wrap" ELSE "scroll_test")
    /\ UNCHANGED <<row, col, loaded, writers>>

ScrollTest_Never ==
    /\ Go("scroll_test", "idle")
    /\ UNCHANGED <<row, col, loaded, writers>>

ScrollTest ==
    /\ Go("scroll_test", IF row >= HEIGHT THEN "scroll" ELSE "idle")
    /\ UNCHANGED <<row, col, loaded, writers>>

scroll ==
    /\ Go("scroll", "idle")
    /\ row' = HEIGHT - 1
    /\ UNCHANGED <<col, loaded, writers>>

(* The command clear: row = 0 and col = 0 after the screen is blank.        *)
clear ==
    /\ \/ Go("idle", "home") /\ row' = 0 /\ UNCHANGED col
       \/ Go("home", "idle") /\ col' = 0 /\ UNCHANGED row
    /\ UNCHANGED <<loaded, writers>>

putchar ==
    \/ \E c \in Characters : PutStarts(c)
    \/ ToFirstColumn \/ LoadRow \/ NextRow \/ BackTest \/ LoadColumn \/ BackStore
    \/ Store \/ PutStore \/ WrapTest \/ ScrollTest \/ scroll

TerminalNext == putchar \/ clear \/ \E c \in Characters : SysWrite(c)

TerminalSpec == TerminalInit /\ [][TerminalNext]_terminalVars

-----------------------------------------------------------------------------
Positions ==
    {"idle", "newline", "newline_load", "newline_store", "back_test", "back_load",
     "back_store", "clear_row", "clear_cell", "put_row", "put_cell", "put_load",
     "put_store", "wrap_test", "wrap", "wrap_load", "wrap_store", "scroll_test", "scroll",
     "home"}

(* Types.  Wherever a program prints, row and col, and with them whatever   *)
(* is written to buffer, leave the screen by one column before it and one   *)
(* row below it at most.                                                    *)
TerminalTypeOK ==
    /\ row \in 0..HEIGHT /\ col \in -1..WIDTH
    /\ at \in Positions /\ loaded \in Int
    /\ at \in {"put_cell", "clear_cell"} => loaded \in 0..HEIGHT
    /\ writers \in BOOLEAN

(* When the shell's putchar or clear returns, the cursor is on the screen,  *)
(* whatever a program printed in between.  One column is not safe: a        *)
(* program's newline between the shell's test of col and its decrement      *)
(* takes col to -1, where only the next character that is no backspace      *)
(* moves it on.                                                             *)
CursorReturns ==
    at = "idle" => row < HEIGHT /\ col < WIDTH /\ (~writers => col >= 0)
=============================================================================
