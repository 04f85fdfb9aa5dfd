------------------------------- MODULE Clock -------------------------------
(***************************************************************************)
(* Time, as the kernel's one thread sees it: the tick counter of           *)
(* src/timer.c and sleep_ms, which halts between looks at it, and          *)
(* rtc_read of src/rtc.c, which reads the registers of the CMOS clock one  *)
(* by one while that goes on.  "sleep" and "date" of src/cmds.c call them. *)
(*                                                                         *)
(* Interrupts are as in Keyboard; what matters of a handler here is that   *)
(* it ends a hlt, and that the timer's adds a tick.                        *)
(***************************************************************************)
EXTENDS Integers, Sequences

CONSTANTS
  PERIOD,     \* 10: milliseconds between ticks
  SECOND,     \* 1000 milliseconds
  WORD,       \* 2^64, where the uint64_t wraps
  Operands,   \* what sleep is asked for, an int
  MaxTicks,   \* bound on the ticks told apart, far below 2^64 ms
  StartTimes, \* the CMOS clock when the kernel starts
  Modes,      \* register B of the CMOS: whether binary, whether 24 hours
  MaxUpdates  \* bound on the seconds that pass

ASSUME ClockAssumption ==
  /\ PERIOD \in Nat \ {0} /\ SECOND \in Nat /\ WORD \in Nat
  /\ Operands \subseteq Int /\ MaxTicks \in Nat /\ MaxTicks * PERIOD < WORD
  /\ \A secs \in Operands : MaxTicks * PERIOD + secs * SECOND < WORD  \* an int
  /\ Modes \subseteq [binary : BOOLEAN, h24 : BOOLEAN]
  /\ MaxUpdates \in 0..59     \* so that a call of rtc_read takes less than a minute

VARIABLES
  ticks,
  now, uip, updates, \* the CMOS clock, its update-in-progress bit
  statusB,           \* register B
  pc,                \* where the thread is
  asked, begun, target,   \* operand of the sleep, when it began, sleep_ms
  regs,              \* rtc_read: the registers read so far
  read,              \* *t, as rtc_read fills it
  shown              \* history: the times of the clock in this round of reads

cmos  == <<now, uip, updates, statusB>>
sleeper == <<asked, begun, target>>
reader == <<regs, read>>
vars == <<ticks, cmos, pc, sleeper, reader, shown>>

-----------------------------------------------------------------------------
(* The CMOS clock.  Register 0x0A says when an update is near; then all    *)
(* registers take the next second.                                         *)

LastDay(y, m) == IF m = 2 THEN IF y % 4 = 0 THEN 29 ELSE 28
                 ELSE IF m \in {4, 6, 9, 11} THEN 30 ELSE 31

\* The clock holds a time when the kernel starts, before the last year.
ASSUME StartAssumption ==
  /\ StartTimes \subseteq [second : 0..59, minute : 0..59, hour : 0..23,
                           day : 1..31, month : 1..12, year : 0..98]
  /\ \A t \in StartTimes : t.day <= LastDay(t.year, t.month)

\* Carry goes from second to minute, hour, day, month and year.
NextSecond(t) ==
  LET s == t.second = 59
      m == s /\ t.minute = 59
      h == m /\ t.hour = 23
      d == h /\ t.day = LastDay(t.year, t.month)
      o == d /\ t.month = 12
  IN  [second |-> IF s THEN 0 ELSE t.second + 1,
       minute |-> IF m THEN 0 ELSE IF s THEN t.minute + 1 ELSE t.minute,
       hour   |-> IF h THEN 0 ELSE IF m THEN t.hour + 1 ELSE t.hour,
       day    |-> IF d THEN 1 ELSE IF h THEN t.day + 1 ELSE t.day,
       month  |-> IF o THEN 1 ELSE IF d THEN t.month + 1 ELSE t.month,
       year   |-> IF o THEN t.year + 1 ELSE t.year]

Announce == ~uip /\ updates < MaxUpdates /\ uip' = TRUE
            /\ UNCHANGED <<ticks, now, updates, statusB, pc, sleeper, reader, shown>>

Update ==
  /\ uip /\ uip' = FALSE
  /\ now' = NextSecond(now)
  /\ updates' = updates + 1
  /\ shown' = IF shown = {} THEN {} ELSE shown \union {now'}
  /\ UNCHANGED <<ticks, statusB, pc, sleeper, reader>>

BCD(n) == IF statusB.binary THEN n ELSE 16 * (n \div 10) + (n % 10)

\* Twelve-hour registers count 12, 1, ..., 11 and add 0x80 in the afternoon.
HourRegister(h) ==
  IF statusB.h24 THEN BCD(h)
  ELSE BCD(IF h % 12 = 0 THEN 12 ELSE h % 12) + (IF h >= 12 THEN 128 ELSE 0)

Fields == <<"second", "minute", "hour", "day", "month", "year">>
Register(f) == IF f = "hour" THEN HourRegister(now.hour) ELSE BCD(now[f])

-----------------------------------------------------------------------------
(* The timer.                                                              *)

timer_uptime_ms == (ticks * PERIOD) % WORD

\* At its bound the count stays: interrupts go on.
Another(n) == IF n < MaxTicks THEN n + 1 ELSE n

\* A mistaken Tick, which nothing uses: it does not end the hlt.
Tick_silent ==
  /\ ticks' = Another(ticks)
  /\ UNCHANGED <<cmos, pc, sleeper, reader, shown>>

\* timer_tick, in the handler of the timer's interrupt.
Tick ==
  /\ ticks' = Another(ticks)
  /\ pc' = IF pc = "halted" THEN "check" ELSE pc
  /\ UNCHANGED <<cmos, sleeper, reader, shown>>

\* Any other interrupt ends a hlt too.
OtherInterrupt ==
  /\ pc = "halted" /\ pc' = "check"
  /\ UNCHANGED <<ticks, cmos, sleeper, reader, shown>>

Step(from, to) == pc = from /\ pc' = to /\ UNCHANGED <<ticks, cmos, shown>>

\* cmd_sleep, and sleep_ms up to its loop.
cmd_sleep(secs) ==
  /\ Step("idle", "check")
  /\ asked' = secs
  /\ begun' = timer_uptime_ms
  /\ target' = (timer_uptime_ms + ((secs * SECOND) % WORD)) % WORD
  /\ UNCHANGED reader

\* A mistaken SleepCheck, which nothing uses: any interrupt ends the sleep.
SleepCheck_once ==
  /\ IF timer_uptime_ms < target /\ timer_uptime_ms = begun
     THEN Step("check", "hlt") ELSE Step("check", "woke")
  /\ UNCHANGED <<sleeper, reader>>

\* The test, the hlt, and the end of the loop, with interrupts on.
SleepCheck ==
  /\ IF timer_uptime_ms < target THEN Step("check", "hlt") ELSE Step("check", "woke")
  /\ UNCHANGED <<sleeper, reader>>
Hlt  == Step("hlt", "halted") /\ UNCHANGED <<sleeper, reader>>
Woke == /\ Step("woke", "idle")
        /\ asked' = 0 /\ begun' = 0 /\ target' = 0
        /\ UNCHANGED reader

-----------------------------------------------------------------------------
(* rtc_read.                                                               *)

Blank == [second |-> 0, minute |-> 0, hour |-> 0, day |-> 0, month |-> 0, year |-> 0]

rtc_read ==
  /\ Step("idle", "wait")
  /\ UNCHANGED <<sleeper, reader>>

\* The inner loop is left when no update is near; the round begins.
NoUpdate ==
  /\ pc = "wait" /\ ~uip
  /\ pc' = "read" /\ regs' = <<>> /\ shown' = {now}
  /\ UNCHANGED <<ticks, cmos, sleeper, read>>

\* One register after the other; register B, the last, never changes.
ReadRegister ==
  /\ Len(regs) < Len(Fields)
  /\ Step("read", "read")
  /\ regs' = Append(regs, Register(Fields[Len(regs) + 1]))
  /\ UNCHANGED <<sleeper, read>>

\* A field as rtc_read decodes it: the low digit and the tens that fit it.
UnBCD(r, tens) == (r % 16) + ((r \div 16) % tens) * 10

\* The hour is converted in twelve-hour mode only, and keeps its 0x80 there.
DecodeHour(r) ==
  IF statusB.binary \/ statusB.h24 THEN r
  ELSE UnBCD(r % 128, 8) + (IF r >= 128 THEN 128 ELSE 0)

Decode(r) ==
  LET field(i, tens) == IF statusB.binary THEN r[i] ELSE UnBCD(r[i], tens)
  IN  [second |-> field(1, 8), minute |-> field(2, 8), hour |-> DecodeHour(r[3]),
       day |-> field(4, 4), month |-> field(5, 2), year |-> 2000 + field(6, 16)]

\* A mistaken SecondsAgain, which nothing uses: the seconds are not compared.
SecondsAgain_unread ==
  /\ Len(regs) = Len(Fields)
  /\ Step("read", "got") /\ read' = Decode(regs)
  /\ UNCHANGED <<sleeper, regs>>

\* The seconds are read again; when they differ, everything is.
SecondsAgain ==
  /\ Len(regs) = Len(Fields)
  /\ IF Register("second") = regs[1]
     THEN Step("read", "got") /\ read' = Decode(regs)
     ELSE Step("read", "wait") /\ UNCHANGED read
  /\ UNCHANGED <<sleeper, regs>>

\* date has printed it.
Printed ==
  /\ pc = "got" /\ pc' = "idle"
  /\ regs' = <<>> /\ read' = Blank /\ shown' = {}
  /\ UNCHANGED <<ticks, cmos, sleeper>>

-----------------------------------------------------------------------------
\* timer_init sets ticks to 0; the CMOS clock has run since before.
Init ==
  /\ ticks = 0
  /\ now \in StartTimes /\ uip = FALSE /\ updates = 0 /\ statusB \in Modes
  /\ pc = "idle"
  /\ asked = 0 /\ begun = 0 /\ target = 0
  /\ regs = <<>> /\ read = Blank /\ shown = {}

sleep_ms == SleepCheck \/ Hlt \/ Woke
Read     == NoUpdate \/ ReadRegister \/ SecondsAgain \/ Printed

Next ==
  \/ Announce \/ Update
  \/ Tick \/ OtherInterrupt
  \/ \E secs \in Operands : cmd_sleep(secs)
  \/ sleep_ms
  \/ rtc_read \/ Read

\* The PIT ticks and the thread goes on; nothing is assumed of other
\* interrupts, of the CMOS clock, or of what the user asks for.
Spec == Init /\ [][Next]_vars /\ WF_vars(Tick) /\ WF_vars(sleep_ms)

-----------------------------------------------------------------------------
(* Properties.                                                             *)

\* sleep n never returns before n seconds have passed, whatever interrupts
\* end its hlt; for a negative n there is nothing to wait for.
SleepLongEnough ==
  pc = "woke" => timer_uptime_ms >= begun + asked * SECOND

\* A sleep ends, although a tick between its test and its hlt wakes nobody:
\* then a later one does.  Stated for targets within the bound on ticks; a
\* negative operand in the first seconds gives one some 2^64 ms away.
SleepEnds ==
  (pc = "check" /\ target <= MaxTicks * PERIOD) ~> (pc = "idle")

\* What date prints of hours: those below ten, and all in binary; those of
\* the morning in twelve-hour mode.
HourReadable(h) == \/ statusB.h24 /\ (statusB.binary \/ h < 10)
                   \/ ~statusB.h24 /\ h \in 1..11

\* The time rtc_read returns is one the clock had in the last round of reads,
\* not the seconds of one time with the minutes of the next, and every field
\* is decoded as register B says, but for the hours that cannot be.
ReadIsATime ==
  pc = "got" =>
    \E t \in shown :
      /\ \A f \in {"second", "minute", "day", "month"} : read[f] = t[f]
      /\ read.year = 2000 + t.year
      /\ HourReadable(t.hour) <=> read.hour = t.hour
=============================================================================
