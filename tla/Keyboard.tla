------------------------------ MODULE Keyboard ------------------------------
(***************************************************************************)
(* The keyboard driver (src/keyboard.c) under the interrupts that drive it *)
(* (src/idt.c, src/pic.c, the 8259 and the 8042 around them): keys are     *)
(* pressed and released, the controller hands their scan codes over one at *)
(* a time, IRQ 1 decodes each into the ring buffer, and the one kernel     *)
(* thread takes keys out in keyboard_get, halting while there are none.    *)
(*                                                                         *)
(* An interrupt comes between any two steps of the thread.  The gates of   *)
(* idt.c are interrupt gates: a handler runs with interrupts off, so it is *)
(* two steps, its body and the end-of-interrupt with the iretq, between    *)
(* which only the devices move.                                            *)
(***************************************************************************)
EXTENDS Naturals, Sequences

CONSTANTS
  BUFSZ,                \* 128
  keymap, keymap_shift, \* character of a code without and with shift, 0: none
  Plain, Extended,      \* keys that send one byte, and a 0xE0 before it
  MaxEvents             \* bound on presses and releases

ASSUME KeyboardAssumption ==
  /\ BUFSZ \in Nat \ {0, 1}
  /\ keymap \in [0..127 -> 0..255] /\ keymap_shift \in [0..127 -> 0..255]
  /\ Plain \subseteq 1..127 /\ Extended \subseteq 1..127
  /\ MaxEvents \in Nat

VARIABLES
  held, events, \* keys down, and how many times one went up or down
  wire, port,   \* bytes the keyboard has to send; the 8042's, 0 when read
  irr, isr,     \* the 8259: requests, and interrupts in service
  cpu,          \* "main", or the handler running and how far it is
  buf, buf_head, buf_tail, shift_down, ctrl_down,
  pc, c,        \* the thread in keyboard_get, and its local
  pushed, taken \* history: what buf_push stored, what keyboard_get returned

device == <<held, events, wire, port>>
pic    == <<irr, isr>>
ring   == <<buf, buf_head, buf_tail>>
mods   == <<shift_down, ctrl_down>>
thread == <<pc, c>>
vars == <<device, pic, cpu, ring, mods, thread, pushed, taken>>

-----------------------------------------------------------------------------
(* The keyboard and its controller.                                        *)

LSHIFT == 42
RSHIFT == 54
CTRL == 29
D == 32
C == 46

KB_CTRL_D == 264
KB_CTRL_C == 265

\* KB_KEY_UP, DOWN, LEFT, RIGHT, HOME, END, PGUP and PGDN by their codes.
Cursor == [k \in {72, 80, 75, 77, 71, 79, 73, 81} |->
             CASE k = 72 -> 256 [] k = 80 -> 257 [] k = 75 -> 258 [] k = 77 -> 259
               [] k = 71 -> 260 [] k = 79 -> 261 [] k = 73 -> 262 [] k = 81 -> 263]

\* A key that goes down sends its code, one that goes up the code plus 128.
Send(k, up) ==
  /\ events < MaxEvents
  /\ events' = events + 1
  /\ wire' = (IF k \in Extended THEN Append(wire, 224) ELSE wire)
               \o <<IF up THEN k + 128 ELSE k>>
  /\ UNCHANGED <<port, pic, cpu, ring, mods, thread, pushed, taken>>

Press(k)   == k \notin held /\ held' = held \union {k} /\ Send(k, FALSE)
Release(k) == k \in held    /\ held' = held \ {k}      /\ Send(k, TRUE)

\* The next byte goes to port 0x60 once the last one was read, and asks for
\* IRQ 1.
Fill ==
  /\ wire # <<>> /\ port = 0
  /\ port' = Head(wire)
  /\ wire' = Tail(wire)
  /\ irr' = irr \union {1}
  /\ UNCHANGED <<held, events, isr, cpu, ring, mods, thread, pushed, taken>>

\* The PIT, a hundred times a second: never twice during one timer_irq.
Tick ==
  /\ 0 \notin irr \union isr
  /\ irr' = irr \union {0}
  /\ UNCHANGED <<device, isr, cpu, ring, mods, thread, pushed, taken>>

-----------------------------------------------------------------------------
(* Interrupts.                                                             *)

\* A mistaken Unmasked, which nothing uses: the timer stays masked.
Unmasked_keyboard == {1}

\* kmain unmasks the timer and the keyboard.
Unmasked == {0, 1}

\* Delivered when interrupts are on, that is outside of the handlers, and no
\* interrupt as urgent is in service or requested.  It ends a hlt.
Deliver(irq) ==
  /\ cpu = "main"
  /\ irq \in irr \cap Unmasked
  /\ \A i \in isr \union (irr \cap Unmasked) : irq <= i
  /\ irq \notin isr
  /\ irr' = irr \ {irq}
  /\ isr' = isr \union {irq}
  /\ cpu' = IF irq = 0 THEN "timer" ELSE "keyboard"
  /\ pc' = IF pc = "halted" THEN "check" ELSE pc
  /\ UNCHANGED <<device, ring, mods, c, pushed, taken>>

timer_irq ==
  /\ cpu = "timer"
  /\ cpu' = "eoi"
  /\ UNCHANGED <<device, pic, ring, mods, thread, pushed, taken>>

\* What a code that is not a modifier and not a release means, 0: nothing.
KeyOf(code) ==
  IF ctrl_down /\ code = D           THEN KB_CTRL_D
  ELSE IF ctrl_down /\ code = C      THEN KB_CTRL_C
  ELSE IF code \in DOMAIN Cursor     THEN Cursor[code]
  ELSE IF shift_down                 THEN keymap_shift[code]
  ELSE keymap[code]

\* A mistaken Succ, which nothing uses: the index does not wrap in time.
Succ_late(i) == (i + 1) % (BUFSZ + 1)

Succ(i) == (i + 1) % BUFSZ

\* Mistaken forms of buf_push, which nothing uses: it does not see that the
\* ring is full; it makes room by dropping the oldest key.
buf_push_unchecked(k) ==
  /\ buf' = [buf EXCEPT ![buf_head] = k]
  /\ buf_head' = Succ(buf_head)
  /\ pushed' = Append(pushed, k)
  /\ UNCHANGED buf_tail
buf_push_oldest(k) ==
  /\ buf' = [buf EXCEPT ![buf_head] = k]
  /\ buf_head' = Succ(buf_head)
  /\ buf_tail' = IF Succ(buf_head) = buf_tail THEN Succ(buf_tail) ELSE buf_tail
  /\ pushed' = Append(pushed, k)

\* Drops the key when the ring is full.
buf_push(k) ==
  IF Succ(buf_head) = buf_tail
  THEN UNCHANGED <<ring, pushed>>
  ELSE /\ buf' = [buf EXCEPT ![buf_head] = k]
       /\ buf_head' = Succ(buf_head)
       /\ pushed' = Append(pushed, k)
       /\ UNCHANGED buf_tail

\* Mistaken forms of keyboard_irq, which nothing uses: the port is not read
\* when the ring is full; a release is ignored before modifiers are looked at.
keyboard_irq_full ==
  LET code     == port % 128
      released == port >= 128
      full     == Succ(buf_head) = buf_tail
  IN  /\ cpu = "keyboard"
      /\ cpu' = "eoi"
      /\ port' = IF full THEN port ELSE 0
      /\ shift_down' = IF code \in {LSHIFT, RSHIFT} THEN ~released ELSE shift_down
      /\ ctrl_down' = IF code = CTRL THEN ~released ELSE ctrl_down
      /\ IF full \/ code \in {LSHIFT, RSHIFT, CTRL} \/ released \/ KeyOf(code) = 0
         THEN UNCHANGED <<ring, pushed>>
         ELSE buf_push(KeyOf(code))
      /\ UNCHANGED <<held, events, wire, pic, thread, taken>>
keyboard_irq_sticky ==
  LET code     == port % 128
      released == port >= 128
  IN  /\ cpu = "keyboard"
      /\ cpu' = "eoi"
      /\ port' = 0
      /\ shift_down' = (shift_down \/ (code \in {LSHIFT, RSHIFT} /\ ~released))
      /\ ctrl_down' = (ctrl_down \/ (code = CTRL /\ ~released))
      /\ IF code \in {LSHIFT, RSHIFT, CTRL} \/ released \/ KeyOf(code) = 0
         THEN UNCHANGED <<ring, pushed>>
         ELSE buf_push(KeyOf(code))
      /\ UNCHANGED <<held, events, wire, pic, thread, taken>>

keyboard_irq ==
  LET code     == port % 128
      released == port >= 128
  IN  /\ cpu = "keyboard"
      /\ cpu' = "eoi"
      /\ port' = 0
      /\ shift_down' = IF code \in {LSHIFT, RSHIFT} THEN ~released ELSE shift_down
      /\ ctrl_down' = IF code = CTRL THEN ~released ELSE ctrl_down
      /\ IF code \in {LSHIFT, RSHIFT, CTRL} \/ released \/ KeyOf(code) = 0
         THEN UNCHANGED <<ring, pushed>>
         ELSE buf_push(KeyOf(code))
      /\ UNCHANGED <<held, events, wire, pic, thread, taken>>

\* A mistaken eoi, which nothing uses: the 8259 is not told.
eoi_missing ==
  /\ cpu = "eoi"
  /\ cpu' = "main"
  /\ UNCHANGED <<device, pic, ring, mods, thread, pushed, taken>>

\* pic_eoi clears the one interrupt in service, and iretq turns interrupts on again.
eoi ==
  /\ cpu = "eoi"
  /\ cpu' = "main"
  /\ isr' = {}
  /\ UNCHANGED <<device, irr, ring, mods, thread, pushed, taken>>

-----------------------------------------------------------------------------
(* keyboard_get, in the steps an interrupt can come between.               *)

Step(from, to) ==
  /\ cpu = "main"
  /\ pc = from
  /\ pc' = to
  /\ UNCHANGED <<device, pic, cpu, mods>>

Call    == Step("away", "check") /\ UNCHANGED <<ring, c, pushed, taken>>
IsEmpty == buf_head = buf_tail
Check   == /\ IF IsEmpty THEN Step("check", "hlt") ELSE Step("check", "read")
           /\ UNCHANGED <<ring, c, pushed, taken>>
Hlt     == Step("hlt", "halted") /\ UNCHANGED <<ring, c, pushed, taken>>
Read    == /\ Step("read", "advance")
           /\ c' = buf[buf_tail]
           /\ UNCHANGED <<ring, pushed, taken>>
Advance == /\ Step("advance", "away")
           /\ buf_tail' = Succ(buf_tail)
           /\ taken' = Append(taken, c)
           /\ UNCHANGED <<buf, buf_head, c, pushed>>

\* Once called it goes on; when it is called again is up to the shell.
InCall == Check \/ Hlt \/ Read \/ Advance
keyboard_get == Call \/ InCall

-----------------------------------------------------------------------------
\* kmain after keyboard_init, the two pic_unmask and sti.
Init ==
  /\ held = {} /\ events = 0 /\ wire = <<>> /\ port = 0
  /\ irr = {} /\ isr = {} /\ cpu = "main"
  /\ buf = [i \in 0..BUFSZ-1 |-> 0] /\ buf_head = 0 /\ buf_tail = 0
  /\ shift_down = FALSE /\ ctrl_down = FALSE
  /\ pc = "away" /\ c = 0
  /\ pushed = <<>> /\ taken = <<>>

Handlers == timer_irq \/ keyboard_irq \/ eoi

Next ==
  \/ \E k \in Plain \union Extended : Press(k) \/ Release(k)
  \/ Fill \/ Tick
  \/ \E irq \in 0..1 : Deliver(irq)
  \/ Handlers
  \/ keyboard_get

Spec == Init /\ [][Next]_vars

\* The devices and the processor go on.  A tick is 10 ms and a handler a few
\* microseconds, so ticks keep neither IRQ 1 nor the thread waiting for ever:
\* those two are strongly fair.
Fairness ==
  /\ WF_vars(Fill) /\ WF_vars(Tick) /\ WF_vars(Handlers)
  /\ WF_vars(Deliver(0)) /\ SF_vars(Deliver(1))
  /\ SF_vars(InCall)

FairSpec == Spec /\ Fairness

-----------------------------------------------------------------------------
(* Properties.                                                             *)

KeyValues == 1..265

TypeOK ==
  /\ held \subseteq 1..127 /\ events \in 0..MaxEvents
  /\ wire \in Seq(1..255) /\ port \in 0..255
  /\ irr \subseteq {0, 1} /\ isr \subseteq {0, 1}
  /\ cpu \in {"main", "timer", "keyboard", "eoi"}
  /\ buf \in [0..BUFSZ-1 -> 0..265]
  /\ buf_head \in 0..BUFSZ-1 /\ buf_tail \in 0..BUFSZ-1
  /\ shift_down \in BOOLEAN /\ ctrl_down \in BOOLEAN
  /\ pc \in {"away", "check", "hlt", "halted", "read", "advance"}
  /\ c \in 0..265
  /\ pushed \in Seq(KeyValues) /\ taken \in Seq(KeyValues)

\* The keys in the ring, from buf_tail up to buf_head.
Count == IF buf_head >= buf_tail THEN buf_head - buf_tail
                                 ELSE buf_head - buf_tail + BUFSZ
Slot(i) == IF buf_tail + i < BUFSZ THEN buf_tail + i ELSE buf_tail + i - BUFSZ
Ring == [i \in 1..Count |-> buf[Slot(i - 1)]]

\* Every key buf_push accepts is returned by keyboard_get once and in order,
\* however the interrupts fall among its steps: what was accepted is what was
\* returned followed by what waits, and the key read ahead of moving buf_tail
\* is still the first of those.
NothingLostOrRepeated ==
  /\ pushed = taken \o Ring
  /\ pc \in {"read", "advance"} => Count > 0
  /\ pc = "advance" => c = buf[buf_tail]

\* The ring buffer is a queue of BUFSZ - 1 keys.
Queue == INSTANCE BoundedQueue
           WITH Keys <- KeyValues, Capacity <- BUFSZ - 1, queue <- Ring
ImplementsQueue == Queue!Spec

\* A scan code in the controller always has its interrupt on the way: the
\* handler reads the port before it ends the interrupt, so no code is left
\* there with IRQ 1 neither requested nor running.
NoStrandedCode == port # 0 <=> (1 \in irr \/ cpu = "keyboard")

\* With every scan code handled, shift_down and ctrl_down say what is held,
\* whatever was dropped or interrupted; of two shift keys held the release of
\* one is enough, but with none held shift_down is never stuck.
NoStuckModifier ==
  wire = <<>> /\ port = 0 =>
    /\ ctrl_down <=> CTRL \in held
    /\ shift_down => {LSHIFT, RSHIFT} \cap held # {}

\* The keyboard is never left waiting: every byte it has is read.
DevicesDrain == []<>(wire = <<>> /\ port = 0)

\* A caller of keyboard_get gets a key that waits.  When the key comes between
\* its test of the ring and its hlt, the next tick of the timer wakes it.
WaitingCallReturns == pc # "away" /\ Count > 0 ~> pc = "away"
=============================================================================
