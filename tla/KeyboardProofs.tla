--------------------------- MODULE KeyboardProofs ---------------------------
(***************************************************************************)
(* The keyboard ring implements Fifo for every size of the ring: the       *)
(* refinement mapping is Queue, the characters from tail to head.  The     *)
(* step of a pop is only a Take because cli keeps everyone else away       *)
(* between reading the character and advancing tail (PopInv).              *)
(***************************************************************************)
EXTENDS Keyboard, Lemmas

Inv == TypeOK /\ PopInv

(* keyboard_buffer.cpp's (i + 1) % 256 walks round the ring.                *)
LEMMA ModNext ==
    ASSUME NEW i \in Slots
    PROVE  (i + 1) % BUFFER_SIZE = Wrap(i + 1) /\ Wrap(i + 1) \in Slots
BY RingNext, KeyboardAssumption DEF Wrap, Slots

(* keyboard_init and the empty ring satisfy the invariant.                  *)
LEMMA InitInv == Init => Inv
<1> SUFFICES ASSUME Init PROVE Inv
  OBVIOUS
<1>1. buffer \in [Slots -> Chars \cup {NUL}] /\ head \in Slots /\ tail \in Slots
  BY KeyboardAssumption DEF Init, Slots
<1>2. cmd \in [0..LINE_MAX -> Chars \cup {NUL}] /\ idx \in 0..LINE_MAX
      /\ in_read \in 0..READ_MAX
  BY KeyboardAssumption DEF Init
<1>3. TypeOK
  BY <1>1, <1>2 DEF Init, TypeOK
<1>4. PopInv
  BY DEF Init, PopInv
<1> QED BY <1>3, <1>4 DEF Inv

(* keyboard_scancode_to_ascii yields a character of the ring.               *)
LEMMA AsciiIsChar ==
    ASSUME TypeOK, NEW key \in Keys \cup {"enter", "backspace"}
    PROVE  Ascii(key) \in Chars
BY DEF TypeOK, Ascii, Chars, Printable, Newline, Backspace

(* irq1, the shell's pop and line editing, and read keep the invariant.     *)
LEMMA NextInv == Inv /\ [Next]_vars => Inv'
<1> SUFFICES ASSUME Inv, [Next]_vars PROVE Inv'
  OBVIOUS
<1> USE DEF Inv
<1>1. ASSUME NEW key \in Modifiers, ModifierMake(key) \/ ModifierBreak(key) PROVE Inv'
  <2>1. shift_pressed' \in BOOLEAN /\ ctrl_pressed' \in BOOLEAN /\ alt_pressed' \in BOOLEAN
        /\ held' \subseteq Modifiers
    BY <1>1, Zenon DEF ModifierMake, ModifierBreak, TypeOK
  <2> QED BY <1>1, <2>1 DEF ModifierMake, ModifierBreak, TypeOK, PopInv, ringVars, shellVars
<1>2. CASE CapsMake
  BY <1>2 DEF CapsMake, TypeOK, PopInv, ringVars, shellVars
<1>3. ASSUME NEW key \in Keys \cup {"enter", "backspace"}, KeyMake(key) PROVE Inv'
  <2>1. buffer' \in [Slots -> Chars \cup {NUL}] /\ head' \in Slots /\ tail' = tail
    BY <1>3, AsciiIsChar, ModNext DEF KeyMake, keyboard_buffer_push, TypeOK
  <2> QED BY <1>3, <2>1 DEF KeyMake, TypeOK, PopInv, modVars, shellVars
<1>4. CASE ShellPopRead
  <2>1. in_read = 0 /\ c' \in Chars \cup {NUL}
    BY <1>4, KeyboardAssumption DEF ShellPopRead, TypeOK, PopInv
  <2>2. TypeOK'
    BY <1>4, <2>1 DEF ShellPopRead, TypeOK, modVars, ringVars, lineVars
  <2> QED BY <1>4, <2>1, <2>2 DEF ShellPopRead, PopInv, ringVars
<1>5. CASE ShellPopAdvance
  <2>1. tail' \in Slots
    BY <1>5, ModNext DEF ShellPopAdvance, TypeOK
  <2> QED BY <1>5, <2>1 DEF ShellPopAdvance, TypeOK, PopInv, modVars, lineVars
<1>6. CASE shell_on_key
  <2>1. cmd' \in [0..LINE_MAX -> Chars \cup {NUL}] /\ idx' \in 0..LINE_MAX
    BY <1>6, KeyboardAssumption DEF shell_on_key, LineAfter, TypeOK
  <2> QED BY <1>6, <2>1 DEF shell_on_key, TypeOK, PopInv, modVars, ringVars
<1>7. CASE SysReadPop
  <2>1. tail' \in Slots
    BY <1>7, ModNext DEF SysReadPop, TypeOK
  <2>2. in_read' \in 0..READ_MAX /\ (in_read' > 0 => ~IF_flag') /\ pc # "advance"
    BY <1>7, KeyboardAssumption DEF SysReadPop, TypeOK, PopInv
  <2>3. IF_flag' \in BOOLEAN
    BY <1>7, Zenon DEF SysReadPop
  <2> QED BY <1>7, <2>1, <2>2, <2>3 DEF SysReadPop, TypeOK, PopInv, modVars, shellVars
<1>8. CASE SysReadEmpty
  BY <1>8, KeyboardAssumption DEF SysReadEmpty, TypeOK, PopInv, modVars, ringVars, shellVars
<1>9. ASSUME NEW max \in 1..READ_MAX, SysRead(max) PROVE Inv'
  <2>1. in_read' \in 0..READ_MAX /\ pc # "advance"
    BY <1>9, KeyboardAssumption DEF SysRead, PopInv
  <2>2. TypeOK'
    BY <1>9, <2>1 DEF SysRead, TypeOK, modVars, ringVars, shellVars
  <2> QED BY <1>9, <2>1, <2>2 DEF SysRead, PopInv, shellVars
<1>10. CASE Execute \/ SysSend \/ SysKill
  BY <1>10 DEF Execute, SysSend, SysKill, TypeOK, PopInv, modVars, ringVars, lineVars
<1>11. CASE ExecuteReturns
  BY <1>11, KeyboardAssumption DEF ExecuteReturns, TypeOK, PopInv, modVars, ringVars
<1>12. CASE UNCHANGED vars
  BY <1>12 DEF TypeOK, PopInv, vars
<1> QED BY <1>1, <1>2, <1>3, <1>4, <1>5, <1>6, <1>7, <1>8, <1>9, <1>10, <1>11, <1>12
        DEF Next, Irq1, ShellNext, ReadNext

(* No index leaves the ring or the command line, whatever is typed.         *)
THEOREM TypesCorrect == Spec => []TypeOK
<1>1. Spec => []Inv
  BY InitInv, NextInv, PTL DEF Spec
<1> QED BY <1>1, PTL DEF Inv

-----------------------------------------------------------------------------
(* The refinement. *)

(* head - tail, taken round the ring, counts the waiting characters.        *)
LEMMA FillFacts ==
    ASSUME TypeOK
    PROVE  /\ Fill \in 0..(BUFFER_SIZE - 1)
           /\ Fill = 0 <=> head = tail
           /\ Fill = BUFFER_SIZE - 1 <=> Wrap(head + 1) = tail
           /\ Fill \in Nat /\ BUFFER_SIZE \in Nat
BY KeyboardAssumption DEF TypeOK, Fill, Wrap, Slots

(* The characters between tail and head form a sequence.                    *)
LEMMA QueueIsSeq ==
    ASSUME TypeOK
    PROVE  Queue \in Seq(Chars \cup {NUL}) /\ Len(Queue) = Fill
<1>1. ASSUME NEW i \in 1..Fill PROVE buffer[Wrap(tail + i - 1)] \in Chars \cup {NUL}
  <2>1. Wrap(tail + i - 1) \in Slots
    BY <1>1, FillFacts, KeyboardAssumption DEF TypeOK, Wrap, Slots
  <2> QED BY <2>1 DEF TypeOK
<1>2. Fill \in Nat
  BY FillFacts
<1> QED BY <1>1, <1>2 DEF Queue

(* keyboard_buffer_push appends, unless the ring holds BUFFER_SIZE - 1.     *)
LEMMA PushAppends ==
    ASSUME TypeOK, NEW ch \in Chars, keyboard_buffer_push(ch)
    PROVE  \/ UNCHANGED Queue
           \/ Len(Queue) < BUFFER_SIZE - 1 /\ Queue' = Append(Queue, ch)
<1>1. (head + 1) % BUFFER_SIZE = Wrap(head + 1) /\ Wrap(head + 1) \in Slots
  BY ModNext DEF TypeOK
<1>2. CASE Wrap(head + 1) = tail
  BY <1>1, <1>2 DEF keyboard_buffer_push, Queue, Fill, Wrap
<1>3. CASE Wrap(head + 1) # tail
  <2>1. buffer' = [buffer EXCEPT ![head] = ch] /\ head' = Wrap(head + 1) /\ tail' = tail
    BY <1>1, <1>3 DEF keyboard_buffer_push
  <2>2. Fill < BUFFER_SIZE - 1
    BY <1>3, FillFacts
  <2>3. Fill' = Fill + 1
    BY <1>3, <2>1, KeyboardAssumption DEF Fill, Wrap, TypeOK, Slots
  <2>4. Wrap(tail + (Fill + 1) - 1) = head
    BY KeyboardAssumption DEF Fill, Wrap, TypeOK, Slots
  <2>5. ASSUME NEW i \in 1..Fill
        PROVE  Wrap(tail + i - 1) \in Slots /\ Wrap(tail + i - 1) # head
    BY <2>5, KeyboardAssumption DEF Fill, Wrap, TypeOK, Slots
  <2>6. Queue' = [i \in 1..(Fill + 1) |-> buffer'[Wrap(tail + i - 1)]]
    BY <2>1, <2>3 DEF Queue, Wrap
  <2>7. Append(Queue, ch) = [i \in 1..(Fill + 1) |-> IF i = Fill + 1 THEN ch ELSE Queue[i]]
    BY QueueIsSeq, AppendAsFunction
  <2>8. ASSUME NEW i \in 1..(Fill + 1)
        PROVE  buffer'[Wrap(tail + i - 1)] = IF i = Fill + 1 THEN ch ELSE Queue[i]
    <3>1. CASE i = Fill + 1
      BY <2>1, <2>4, <3>1 DEF TypeOK
    <3>2. CASE i \in 1..Fill
      <4>1. buffer'[Wrap(tail + i - 1)] = buffer[Wrap(tail + i - 1)]
        BY <2>1, <2>5, <3>2 DEF TypeOK
      <4>2. Queue[i] = buffer[Wrap(tail + i - 1)]
        BY <3>2 DEF Queue
      <4> QED BY <4>1, <4>2, <3>2, FillFacts
    <3> QED BY <3>1, <3>2, FillFacts
  <2>9. Queue' = Append(Queue, ch)
    BY <2>6, <2>7, <2>8
  <2> QED BY <2>2, <2>9, QueueIsSeq
<1> QED BY <1>2, <1>3

(* Advancing tail removes the character that was read from buffer[tail].    *)
LEMMA AdvanceTakes ==
    ASSUME TypeOK, tail # head, tail' = (tail + 1) % BUFFER_SIZE,
           UNCHANGED <<buffer, head>>, got' = buffer[tail]
    PROVE  F!Take
<1>1. tail' = Wrap(tail + 1)
  BY ModNext DEF TypeOK
<1>2. Fill > 0 /\ Fill' = Fill - 1 /\ Fill \in Nat
  BY <1>1, FillFacts, KeyboardAssumption DEF Fill, Wrap, TypeOK, Slots
<1>3. Queue # <<>> /\ Head(Queue) = Queue[1]
  BY <1>2, QueueIsSeq
<1>4. Queue[1] = buffer[tail]
  <2>1. Wrap(tail + 1 - 1) = tail
    BY KeyboardAssumption DEF Wrap, TypeOK, Slots
  <2> QED BY <2>1, <1>2 DEF Queue
<1>5. Tail(Queue) = [i \in 1..(Fill - 1) |-> Queue[i + 1]]
  BY <1>3, QueueIsSeq, TailAsFunction
<1>6. Queue' = [i \in 1..(Fill - 1) |-> buffer[Wrap(Wrap(tail + 1) + i - 1)]]
  BY <1>1, <1>2 DEF Queue, Wrap
<1>7. ASSUME NEW i \in 1..(Fill - 1)
      PROVE  Queue[i + 1] = buffer[Wrap(Wrap(tail + 1) + i - 1)]
  <2>1. i + 1 \in 1..Fill
    BY <1>2
  <2>2. Wrap(tail + (i + 1) - 1) = Wrap(Wrap(tail + 1) + i - 1)
    BY <1>2, FillFacts, KeyboardAssumption DEF Fill, Wrap, TypeOK, Slots
  <2> QED BY <2>1, <2>2 DEF Queue
<1> QED BY <1>3, <1>4, <1>5, <1>6, <1>7 DEF F!Take

(* The empty ring is the empty queue.                                       *)
LEMMA InitFifo == Init => F!Init
<1> SUFFICES ASSUME Init PROVE F!Init
  OBVIOUS
<1>1. Fill = 0
  BY DEF Init, Fill
<1> QED BY <1>1 DEF Init, F!Init, Queue

(* A push is a Put, a pop is a Take, everything else is a stutter.          *)
LEMMA NextFifo == Inv /\ [Next]_vars => [F!Next]_<<Queue, got>>
<1> SUFFICES ASSUME Inv, [Next]_vars PROVE [F!Next]_<<Queue, got>>
  OBVIOUS
<1> USE DEF Inv
<1>1. ASSUME NEW key \in Keys \cup {"enter", "backspace"}, KeyMake(key)
      PROVE  [F!Next]_<<Queue, got>>
  BY <1>1, AsciiIsChar, PushAppends DEF KeyMake, F!Next, F!Put
<1>2. CASE ShellPopAdvance
  BY <1>2, AdvanceTakes DEF ShellPopAdvance, PopInv, F!Next
<1>3. CASE SysReadPop
  BY <1>3, AdvanceTakes DEF SysReadPop, F!Next
<1>4. ASSUME UNCHANGED <<ringVars, got>> PROVE [F!Next]_<<Queue, got>>
  BY <1>4 DEF ringVars, Queue, Fill, Wrap
<1>5. CASE \/ CapsMake \/ ShellPopRead \/ shell_on_key \/ SysReadEmpty
           \/ \E key \in Modifiers : ModifierMake(key) \/ ModifierBreak(key)
           \/ \E max \in 1..READ_MAX : SysRead(max)
           \/ Execute \/ ExecuteReturns \/ SysSend \/ SysKill
           \/ UNCHANGED vars
  <2>1. UNCHANGED <<ringVars, got>>
    BY <1>5 DEF CapsMake, ShellPopRead, shell_on_key, SysReadEmpty, ModifierMake,
                ModifierBreak, SysRead, Execute, ExecuteReturns, SysSend, SysKill, vars, ringVars
  <2> QED BY <1>4, <2>1
<1> QED BY <1>1, <1>2, <1>3, <1>5 DEF Next, Irq1, ShellNext, ReadNext

(* The ring of drivers/keyboard_buffer.cpp implements a FIFO queue with     *)
(* room for one character less than it has slots.                           *)
THEOREM RingImplementsFifo == Spec => RingIsFifo
<1>1. Spec => []Inv
  BY InitInv, NextInv, PTL DEF Spec
<1> QED BY <1>1, InitFifo, NextFifo, PTL DEF Spec, RingIsFifo, F!Spec

-----------------------------------------------------------------------------
(* The modifiers. *)

(* The strengthening of NoStuckModifier that irq1 keeps: a flag that is set *)
(* has its key down.  The converse is false: letting go of one shift key    *)
(* clears shift_pressed although the other is held.                         *)
FlagMeansHeld ==
    /\ shift_pressed => held \cap Shifts # {}
    /\ ctrl_pressed => "ctrl_l" \in held
    /\ alt_pressed => "alt_l" \in held

(* Every branch of irq1 keeps it; nobody else touches the modifiers.        *)
LEMMA NextFlags == FlagMeansHeld /\ [Next]_vars => FlagMeansHeld'
<1> SUFFICES ASSUME FlagMeansHeld, [Next]_vars PROVE FlagMeansHeld'
  OBVIOUS
<1>1. ASSUME NEW key \in Modifiers, ModifierMake(key) PROVE FlagMeansHeld'
  BY <1>1, Zenon DEF ModifierMake, FlagMeansHeld, Shifts
<1>2. ASSUME NEW key \in Modifiers, ModifierBreak(key) PROVE FlagMeansHeld'
  <2>1. held' = held \ {key} /\ (shift_pressed' => shift_pressed /\ key \notin Shifts)
        /\ (ctrl_pressed' => ctrl_pressed /\ key # "ctrl_l")
        /\ (alt_pressed' => alt_pressed /\ key # "alt_l")
    BY <1>2, Zenon DEF ModifierBreak
  <2> QED BY <2>1 DEF FlagMeansHeld
<1>3. CASE CapsMake
  BY <1>3 DEF CapsMake, FlagMeansHeld
<1>4. ASSUME UNCHANGED modVars PROVE FlagMeansHeld'
  BY <1>4 DEF modVars, FlagMeansHeld
<1>5. CASE \/ \E key \in Keys \cup {"enter", "backspace"} : KeyMake(key)
           \/ ShellNext \/ ReadNext \/ SysSend \/ SysKill \/ UNCHANGED vars
  <2>1. UNCHANGED modVars
    BY <1>5 DEF KeyMake, ShellNext, ReadNext, ShellPopRead, ShellPopAdvance, shell_on_key,
                Execute, ExecuteReturns, SysReadPop, SysReadEmpty, SysRead, SysSend, SysKill,
                vars, modVars
  <2> QED BY <2>1, <1>4
<1> QED BY <1>1, <1>2, <1>3, <1>5 DEF Next, Irq1

(* After any sequence of presses and releases, interleaved with the pops of *)
(* the shell and of programs, no modifier is left set once all keys are up. *)
THEOREM ModifiersRelease == Spec => []NoStuckModifier
<1>1. Init => FlagMeansHeld
  BY DEF Init, FlagMeansHeld
<1>2. FlagMeansHeld => NoStuckModifier
  BY DEF FlagMeansHeld, NoStuckModifier
<1> QED BY <1>1, <1>2, NextFlags, PTL DEF Spec
=============================================================================
