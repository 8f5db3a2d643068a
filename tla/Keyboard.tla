------------------------------ MODULE Keyboard ------------------------------
(***************************************************************************)
(* The way of a key from the controller to the command line: irq1 turns a  *)
(* scancode into a character (interrupts/keyboard_irq.cpp,                 *)
(* drivers/keyboard.cpp) and pushes it into the ring                       *)
(* (drivers/keyboard_buffer.cpp); the shell pops it and edits its line     *)
(* (shell/shell.cpp), and a program may pop it with the read system call.  *)
(*                                                                         *)
(* irq1 and the system call run with interrupts off.  The shell does not,  *)
(* so its pop is protected by cli; the model takes that pop in two steps.  *)
(* Nor need it be scheduled: a command, or a program's system call, may    *)
(* leave the shell's process BLOCKED or DEAD.                              *)
(***************************************************************************)
EXTENDS Integers, Sequences

CONSTANTS BUFFER_SIZE,   \* slots of the ring (256 in the code)
          LINE_MAX,      \* last index of cmd (255 in the code)
          READ_MAX,      \* bound: largest count a program passes to read
          Keys,          \* printable keys
          Modifiers      \* modifier keys of this keyboard

ASSUME KeyboardAssumption ==
    /\ BUFFER_SIZE \in Nat /\ BUFFER_SIZE >= 2
    /\ LINE_MAX \in Nat \ {0} /\ READ_MAX \in Nat \ {0}
    /\ Modifiers \subseteq {"shift_l", "shift_r", "ctrl_l", "alt_l"}
    /\ Keys \cap {"enter", "backspace", "nul"} = {}

VARIABLES shift_pressed, ctrl_pressed, alt_pressed, caps_lock,
          held,                 \* the modifier keys that are physically down
          buffer, head, tail,   \* the ring
          IF_flag,              \* EFLAGS.IF
          c, pc,                \* the shell: popped character, position
          state,                \* of its process; READY stands for RUNNING, too
          cmd, idx,             \* the shell's line
          in_read,              \* pops the running read call may still do
          got                   \* the character the last pop returned

modVars  == <<shift_pressed, ctrl_pressed, alt_pressed, caps_lock, held>>
ringVars == <<buffer, head, tail>>
lineVars == <<cmd, idx>>
shellVars == <<c, pc, state, cmd, idx>>
vars == <<shift_pressed, ctrl_pressed, alt_pressed, caps_lock, held, buffer,
          head, tail, IF_flag, c, pc, state, cmd, idx, in_read, got>>

NUL == <<"nul", FALSE>>
Newline == <<"enter", FALSE>>
Backspace == <<"backspace", FALSE>>
Printable == Keys \X BOOLEAN       \* a key and whether it is shifted
Chars == Printable \cup {Newline, Backspace}
Shifts == {"shift_l", "shift_r"}
Slots == 0..(BUFFER_SIZE - 1)

Init ==
    /\ shift_pressed = FALSE /\ ctrl_pressed = FALSE
    /\ alt_pressed = FALSE /\ caps_lock = FALSE
    /\ held = {}
    /\ buffer = [i \in Slots |-> NUL] /\ head = 0 /\ tail = 0
    /\ IF_flag = TRUE
    /\ c = NUL /\ pc = "pop" /\ state = "READY"
    /\ cmd = [i \in 0..LINE_MAX |-> NUL] /\ idx = 0
    /\ in_read = 0
    /\ got = NUL

-----------------------------------------------------------------------------
(* irq1 *)

(* upper[] and lower[] agree on Enter and Backspace. *)
Ascii(key) ==
    IF key \in {"enter", "backspace"} THEN <<key, FALSE>>
    ELSE <<key, shift_pressed \/ caps_lock>>

keyboard_buffer_push(ch) ==
    /\ LET next == (head + 1) % BUFFER_SIZE
       IN  IF next = tail THEN UNCHANGED <<buffer, head>>
           ELSE buffer' = [buffer EXCEPT ![head] = ch] /\ head' = next
    /\ UNCHANGED tail

ModifierMake(key) ==
    /\ IF_flag /\ key \in Modifiers \ held
    /\ held' = held \cup {key}
    /\ shift_pressed' = (shift_pressed \/ key \in Shifts)
    /\ ctrl_pressed' = (ctrl_pressed \/ key = "ctrl_l")
    /\ alt_pressed' = (alt_pressed \/ key = "alt_l")
    /\ UNCHANGED <<caps_lock, ringVars, IF_flag, shellVars, in_read, got>>

ModifierBreak_OnlyLeft(key) ==
    /\ IF_flag /\ key \in held
    /\ held' = held \ {key}
    /\ shift_pressed' = (shift_pressed /\ key # "shift_l")
    /\ ctrl_pressed' = (ctrl_pressed /\ key # "ctrl_l")
    /\ alt_pressed' = (alt_pressed /\ key # "alt_l")
    /\ UNCHANGED <<caps_lock, ringVars, IF_flag, shellVars, in_read, got>>

ModifierBreak(key) ==
    /\ IF_flag /\ key \in held
    /\ held' = held \ {key}
    /\ shift_pressed' = (shift_pressed /\ key \notin Shifts)
    /\ ctrl_pressed' = (ctrl_pressed /\ key # "ctrl_l")
    /\ alt_pressed' = (alt_pressed /\ key # "alt_l")
    /\ UNCHANGED <<caps_lock, ringVars, IF_flag, shellVars, in_read, got>>

CapsMake ==
    /\ IF_flag
    /\ caps_lock' = ~caps_lock
    /\ UNCHANGED <<shift_pressed, ctrl_pressed, alt_pressed, held, ringVars,
                   IF_flag, shellVars, in_read, got>>

KeyMake(key) ==
    /\ IF_flag
    /\ keyboard_buffer_push(Ascii(key))
    /\ UNCHANGED <<modVars, IF_flag, shellVars, in_read, got>>

Irq1 ==
    \/ \E key \in Modifiers : ModifierMake(key) \/ ModifierBreak(key)
    \/ CapsMake
    \/ \E key \in Keys \cup {"enter", "backspace"} : KeyMake(key)

-----------------------------------------------------------------------------
(* shell_tick: keyboard_buffer_pop, then shell_on_key *)

ShellPopRead_NoCli ==
    /\ pc = "pop" /\ IF_flag
    /\ tail # head
    /\ c' = buffer[tail]
    /\ pc' = "advance"
    /\ UNCHANGED <<modVars, ringVars, IF_flag, state, lineVars, in_read, got>>

ShellPopRead_IgnoresWrap ==
    /\ pc = "pop" /\ IF_flag
    /\ tail < head
    /\ IF_flag' = FALSE
    /\ c' = buffer[tail]
    /\ pc' = "advance"
    /\ UNCHANGED <<modVars, ringVars, state, lineVars, in_read, got>>

ShellPopRead ==
    /\ pc = "pop" /\ IF_flag
    /\ tail # head
    /\ IF_flag' = FALSE
    /\ c' = buffer[tail]
    /\ pc' = "advance"
    /\ UNCHANGED <<modVars, ringVars, state, lineVars, in_read, got>>

ShellPopAdvance ==
    /\ pc = "advance"
    /\ tail' = (tail + 1) % BUFFER_SIZE
    /\ IF_flag' = TRUE
    /\ got' = c
    /\ pc' = "key"
    /\ UNCHANGED <<modVars, buffer, head, c, state, lineVars, in_read>>

LineAfter_OffByOne(ch) ==
    IF ch = Newline THEN [cmd |-> [cmd EXCEPT ![idx] = NUL], idx |-> idx]
    ELSE IF ch = Backspace THEN [cmd |-> cmd, idx |-> IF idx > 0 THEN idx - 1 ELSE idx]
    ELSE [cmd |-> [cmd EXCEPT ![idx] = ch], idx |-> idx + 1]

LineAfter(ch) ==
    IF ch = Newline THEN [cmd |-> [cmd EXCEPT ![idx] = NUL], idx |-> idx]
    ELSE IF ch = Backspace THEN [cmd |-> cmd, idx |-> IF idx > 0 THEN idx - 1 ELSE idx]
    ELSE IF idx < LINE_MAX THEN [cmd |-> [cmd EXCEPT ![idx] = ch], idx |-> idx + 1]
    ELSE [cmd |-> cmd, idx |-> idx]

(* Enter calls execute(cmd).  c is dead once the key is handled; the model  *)
(* forgets it.                                                              *)
shell_on_key ==
    /\ pc = "key" /\ IF_flag
    /\ cmd' = LineAfter(c).cmd
    /\ idx' = LineAfter(c).idx
    /\ c' = NUL
    /\ pc' = IF c = Newline THEN "execute" ELSE "pop"
    /\ UNCHANGED <<modVars, ringVars, IF_flag, state, in_read, got>>

(* What a command can do to the shell itself: recv on an empty queue blocks *)
(* it, kill 1 marks it DEAD, and sending to itself before the next tick     *)
(* makes it READY again.  The shell goes on until a tick takes the CPU      *)
(* away.  The rest of execute is the business of the other modules.         *)
Execute ==
    /\ pc = "execute" /\ IF_flag
    /\ \/ state' \in {"BLOCKED", "DEAD"}
       \/ state = "BLOCKED" /\ state' = "READY"
    /\ UNCHANGED <<modVars, ringVars, IF_flag, c, pc, lineVars, in_read, got>>

(* halt, for one, does not return.                                          *)
ExecuteReturns ==
    /\ pc = "execute" /\ IF_flag
    /\ idx' = 0
    /\ pc' = "pop"
    /\ UNCHANGED <<modVars, ringVars, IF_flag, c, state, cmd, in_read, got>>

-----------------------------------------------------------------------------
(* int 0x80, eax = 3: pop until max characters are read or the ring is      *)
(* empty, with interrupts off throughout.                                   *)

SysRead(max) ==
    /\ IF_flag /\ in_read = 0
    /\ in_read' = max
    /\ IF_flag' = FALSE
    /\ UNCHANGED <<modVars, ringVars, shellVars, got>>

SysReadPop ==
    /\ in_read > 0 /\ tail # head
    /\ got' = buffer[tail]
    /\ tail' = (tail + 1) % BUFFER_SIZE
    /\ in_read' = in_read - 1
    /\ IF_flag' = (in_read = 1)
    /\ UNCHANGED <<modVars, buffer, head, shellVars>>

SysReadEmpty ==
    /\ in_read > 0 /\ tail = head
    /\ in_read' = 0
    /\ IF_flag' = TRUE
    /\ UNCHANGED <<modVars, ringVars, shellVars, got>>

(* A program's send wakes the shell, a program's kill ends it.              *)
SysSend ==
    /\ IF_flag /\ state = "BLOCKED"
    /\ state' = "READY"
    /\ UNCHANGED <<modVars, ringVars, IF_flag, c, pc, lineVars, in_read, got>>

SysKill ==
    /\ IF_flag
    /\ state' = "DEAD"
    /\ UNCHANGED <<modVars, ringVars, IF_flag, c, pc, lineVars, in_read, got>>

ShellNext ==
    ShellPopRead \/ ShellPopAdvance \/ shell_on_key \/ Execute \/ ExecuteReturns

ReadNext == SysReadPop \/ SysReadEmpty \/ \E max \in 1..READ_MAX : SysRead(max)

Next == Irq1 \/ ShellNext \/ ReadNext \/ SysSend \/ SysKill

Spec == Init /\ [][Next]_vars

(* A shell that is READY stays so until it runs or is killed, and gets the  *)
(* CPU (Scheduler, NoStarvation); a BLOCKED or DEAD one is promised         *)
(* nothing, nor that a command returns.  Inside the pop interrupts are off, *)
(* and a system call that has begun runs to its end.                        *)
FairSpec ==
    /\ Spec
    /\ SF_vars(state = "READY" /\ ShellPopRead)
    /\ WF_vars(ShellPopAdvance)
    /\ SF_vars(state = "READY" /\ shell_on_key)
    /\ WF_vars(SysReadPop \/ SysReadEmpty)

-----------------------------------------------------------------------------
(* Types; in particular the line never runs past cmd[LINE_MAX].             *)
TypeOK ==
    /\ shift_pressed \in BOOLEAN /\ ctrl_pressed \in BOOLEAN
    /\ alt_pressed \in BOOLEAN /\ caps_lock \in BOOLEAN
    /\ held \subseteq Modifiers
    /\ buffer \in [Slots -> Chars \cup {NUL}] /\ head \in Slots /\ tail \in Slots
    /\ IF_flag \in BOOLEAN
    /\ c \in Chars \cup {NUL} /\ pc \in {"pop", "advance", "key", "execute"}
    /\ state \in {"READY", "BLOCKED", "DEAD"}
    /\ cmd \in [0..LINE_MAX -> Chars \cup {NUL}] /\ idx \in 0..LINE_MAX
    /\ in_read \in 0..READ_MAX
    /\ got \in Chars \cup {NUL}

(* Interrupts stay off from cli to popfl and during a read call.            *)
PopInv ==
    /\ pc = "advance" => ~IF_flag /\ in_read = 0 /\ tail # head /\ c = buffer[tail]
    /\ in_read > 0 => ~IF_flag

(* The characters waiting in the ring, oldest first.                        *)
Fill == IF head >= tail THEN head - tail ELSE head - tail + BUFFER_SIZE
Wrap(i) == IF i >= BUFFER_SIZE THEN i - BUFFER_SIZE ELSE i
Queue == [i \in 1..Fill |-> buffer[Wrap(tail + i - 1)]]

F == INSTANCE Fifo WITH Capacity <- BUFFER_SIZE - 1, Msg <- Chars, NoMsg <- NUL,
                        queue <- Queue, got <- got

(* The ring is a FIFO of BUFFER_SIZE - 1 characters: whichever of the shell *)
(* and the programs pops, and whenever irq1 comes, every accepted character *)
(* is returned once and in order.                                           *)
RingIsFifo == F!Spec

(* No modifier sticks: once every modifier key is up, no flag is set.       *)
NoStuckModifier == held = {} => ~shift_pressed /\ ~ctrl_pressed /\ ~alt_pressed

(* Waiting characters are popped in the end: while some wait for ever, tail *)
(* keeps moving, as long as the shell is again and again schedulable and    *)
(* not inside a command.                                                    *)
KeysGetRead ==
    <>[](tail # head) /\ []<>(state = "READY" /\ pc # "execute")
        => []<><<tail' # tail>>_vars
=============================================================================
