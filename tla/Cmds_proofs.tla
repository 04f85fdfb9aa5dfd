----------------------------- MODULE Cmds_proofs ----------------------------
(***************************************************************************)
(* Commands that do without the file system's tree.  Sleeps last long      *)
(* enough, for every period, operand and number of ticks; rtc_read returns *)
(* a time the clock had, for every clock and mode; head and tail cut a     *)
(* text, sort and uniq keep and order its lines, and diff gives both of    *)
(* its files back, for every text.                                         *)
(***************************************************************************)
EXTENDS Clock, TextCmds, NatInduct, SequenceTheorems

\* The time since boot.
Up == ticks * PERIOD

\* The places in sleep_ms.
Asleep == {"check", "hlt", "halted", "woke"}

\* What sleep_ms knows: when it began, and the target that follows from it.
SleepInv ==
  /\ ticks \in 0..MaxTicks
  /\ asked \in Operands \union {0}
  /\ begun \in Nat /\ target \in Nat
  /\ pc \in Asleep =>
       /\ begun <= Up
       /\ asked >= 0 => target = begun + asked * SECOND
  /\ pc = "woke" => target <= Up

\* timer_uptime_ms does not wrap, and grows with the ticks.
LEMMA UptimeExact ==
  ASSUME ticks \in 0..MaxTicks
  PROVE  /\ timer_uptime_ms = Up /\ Up \in Nat /\ Up <= MaxTicks * PERIOD
         /\ MaxTicks * PERIOD \in Nat
<1>1. ticks \in Nat /\ PERIOD \in Nat /\ MaxTicks \in Nat /\ ticks <= MaxTicks
  BY ClockAssumption
<1>2. Up \in Nat /\ MaxTicks * PERIOD \in Nat /\ Up <= MaxTicks * PERIOD
  BY <1>1 DEF Up
<1>3. Up < WORD /\ WORD \in Nat
  BY <1>2, ClockAssumption
<1>4. \A a, w \in Nat : a < w => a % w = a
  OBVIOUS
<1> QED BY <1>2, <1>3, <1>4 DEF timer_uptime_ms, Up

\* One more tick, or none at the bound, and never less time.
LEMMA TickGrows ==
  ASSUME ticks \in 0..MaxTicks, ticks' = Another(ticks)
  PROVE  ticks' \in 0..MaxTicks /\ Up' \in Nat /\ Up <= Up'
<1>1. ticks \in Nat /\ PERIOD \in Nat /\ MaxTicks \in Nat /\ ticks' \in 0..MaxTicks
      /\ ticks <= ticks'
  BY ClockAssumption DEF Another
<1>2. ticks' * PERIOD = ticks * PERIOD + (ticks' - ticks) * PERIOD
      /\ (ticks' - ticks) * PERIOD \in Nat /\ ticks * PERIOD \in Nat
  BY <1>1
<1> QED BY <1>1, <1>2 DEF Up

\* Nobody sleeps at boot.
LEMMA SleepInvInit == Init => SleepInv
BY ClockAssumption DEF Init, SleepInv, Asleep

\* cmd_sleep sets a target that is exact for operands that are not negative.
LEMMA CallExact ==
  ASSUME SleepInv, NEW secs \in Operands, cmd_sleep(secs)
  PROVE  SleepInv'
<1> DEFINE d == secs * SECOND
<1>1. /\ timer_uptime_ms = Up /\ Up \in Nat /\ Up <= MaxTicks * PERIOD
      /\ MaxTicks * PERIOD \in Nat
  BY UptimeExact DEF SleepInv
<1>2. secs \in Int /\ SECOND \in Nat /\ WORD \in Nat /\ WORD > 0 /\ d \in Int
      /\ MaxTicks * PERIOD + d < WORD
  BY <1>1, ClockAssumption
<1>3. ticks' = ticks /\ pc' = "check" /\ asked' = secs /\ begun' = Up
      /\ target' = (Up + (d % WORD)) % WORD
  BY <1>1 DEF cmd_sleep, Step
<1>4. target' \in Nat
  <2>1. d % WORD \in Nat
    BY <1>2
  <2> HIDE DEF d
  <2> QED BY <1>1, <1>2, <1>3, <2>1
<1>5. ASSUME secs >= 0 PROVE target' = Up + d
  <2>1. d \in Nat
    BY <1>2, <1>5
  <2> HIDE DEF d
  <2>2. d < WORD /\ Up + d < WORD
    BY <1>1, <1>2, <2>1
  <2>3. \A a, w \in Nat : a < w => a % w = a
    OBVIOUS
  <2>4. d % WORD = d /\ (Up + d) % WORD = Up + d
    BY <1>1, <1>2, <2>1, <2>2, <2>3
  <2> QED BY <1>3, <2>4
<1>6. Up' = Up
  BY <1>3 DEF Up
<1> HIDE DEF d
<1> QED BY <1>1, <1>3, <1>4, <1>5, <1>6 DEF SleepInv, d, Asleep

\* Every step of the thread, the timer and the CMOS clock.
LEMMA SleepInvStep == SleepInv /\ [Next]_vars => SleepInv'
<1> SUFFICES ASSUME SleepInv, [Next]_vars PROVE SleepInv'
  OBVIOUS
<1>1. /\ timer_uptime_ms = Up /\ Up \in Nat
  BY UptimeExact DEF SleepInv
<1> USE DEF SleepInv, Asleep
<1>2. CASE \E secs \in Operands : cmd_sleep(secs)
  BY <1>2, CallExact
<1>3. CASE Tick
  <2>1. ticks' \in 0..MaxTicks /\ Up' \in Nat /\ Up <= Up'
    BY <1>3, TickGrows DEF Tick
  <2> QED BY <1>1, <1>3, <2>1 DEF Tick, sleeper
<1>4. CASE SleepCheck
  BY <1>1, <1>4 DEF SleepCheck, Step, sleeper, Up
<1>5. CASE Hlt
  BY <1>5 DEF Hlt, Step, sleeper, Up
<1>6. CASE Woke
  BY <1>6 DEF Woke, Step, Up
<1>7. CASE OtherInterrupt
  BY <1>7 DEF OtherInterrupt, sleeper, Up
<1>8. CASE Announce \/ Update \/ UNCHANGED vars
  BY <1>8 DEF Announce, Update, vars, sleeper, Up
<1>9. CASE rtc_read \/ Read
  BY <1>9 DEF rtc_read, Read, NoUpdate, ReadRegister, SecondsAgain, Printed,
              Step, sleeper, Up
<1> QED BY <1>2, <1>3, <1>4, <1>5, <1>6, <1>7, <1>8, <1>9 DEF Next, sleep_ms

\* sleep never returns before its seconds are over, whatever interrupts end the
\* hlt of sleep_ms (src/timer.c), for every operand that does not wrap the clock.
THEOREM SleepsLongEnough == Spec => []SleepLongEnough
<1>1. SleepInv => SleepLongEnough
  <2> SUFFICES ASSUME SleepInv, pc = "woke"
               PROVE  timer_uptime_ms >= begun + asked * SECOND
    BY DEF SleepLongEnough
  <2>1. timer_uptime_ms = Up /\ Up \in Nat
    BY UptimeExact DEF SleepInv
  <2>2. asked \in Int /\ SECOND \in Nat /\ asked * SECOND \in Int
        /\ begun \in Nat /\ begun <= Up /\ target <= Up
    BY ClockAssumption DEF SleepInv, Asleep
  <2>3. CASE asked >= 0
    <3>1. target = begun + asked * SECOND
      BY <2>3 DEF SleepInv, Asleep
    <3> QED BY <2>1, <2>2, <3>1
  <2>4. CASE asked < 0
    <3>1. asked * SECOND <= 0
      BY <2>2, <2>4
    <3> QED BY <2>1, <2>2, <3>1
  <2> QED BY <2>2, <2>3, <2>4
<1> QED BY <1>1, SleepInvInit, SleepInvStep, PTL DEF Spec

-----------------------------------------------------------------------------
(* rtc_read.                                                               *)

\* A time of the clock; its two digits of a year go on after 99, as BCD does.
Moment == {t \in [second : 0..59, minute : 0..59, hour : 0..23,
                  day : 1..31, month : 1..12, year : 0..157] :
             t.day <= LastDay(t.year, t.month)}

\* t is what rtc_read has returned, but for the hours that cannot be read.
Returned(t) ==
  /\ \A f \in {"second", "minute", "day", "month"} : read[f] = t[f]
  /\ read.year = 2000 + t.year
  /\ HourReadable(t.hour) <=> read.hour = t.hour

\* The seconds were read s, d updates ago; without an update since, all
\* registers are of the present time.
Since(s, d) ==
  /\ regs[1] = BCD(s) /\ now.second = (s + d) % 60
  /\ d = 0 => \A i \in 1..Len(regs) : regs[i] = Register(Fields[i])

\* What a round of reads knows.
ReadInv ==
  /\ now \in Moment /\ now.year <= 98 + updates
  /\ updates \in 0..MaxUpdates /\ (uip => updates < MaxUpdates)
  /\ statusB \in [binary : BOOLEAN, h24 : BOOLEAN]
  /\ pc = "read" => now \in shown /\ regs \in Seq(Nat) /\ Len(regs) <= 6
  /\ pc = "read" /\ Len(regs) > 0 => \E s \in 0..59, d \in 0..updates : Since(s, d)
  /\ pc = "got" => \E t \in shown : Returned(t)

\* The bounds that the arithmetic below needs.
LEMMA Updates == MaxUpdates \in Nat /\ MaxUpdates <= 59
BY ClockAssumption

\* The fields of a time.
LEMMA MomentParts ==
  ASSUME NEW t \in Moment
  PROVE  /\ t.second \in 0..59 /\ t.minute \in 0..59 /\ t.hour \in 0..23
         /\ t.day \in 1..31 /\ t.month \in 1..12 /\ t.year \in 0..157
BY DEF Moment

\* The clock goes from a time to a time.
LEMMA NextMoment ==
  ASSUME NEW t \in Moment, t.year <= 156
  PROVE  /\ NextSecond(t) \in Moment /\ NextSecond(t).year <= t.year + 1
         /\ NextSecond(t).second = (t.second + 1) % 60
<1>1. /\ t.second \in 0..59 /\ t.minute \in 0..59 /\ t.hour \in 0..23
      /\ t.day \in 1..31 /\ t.month \in 1..12 /\ t.year \in 0..157
      /\ t.day <= LastDay(t.year, t.month)
  BY DEF Moment
<1> DEFINE l == LastDay(t.year, t.month)
           s == t.second = 59
           m == s /\ t.minute = 59
           h == m /\ t.hour = 23
           d == h /\ t.day = l
           o == d /\ t.month = 12
           fs == IF s THEN 0 ELSE t.second + 1
           fm == IF m THEN 0 ELSE IF s THEN t.minute + 1 ELSE t.minute
           fh == IF h THEN 0 ELSE IF m THEN t.hour + 1 ELSE t.hour
           fd == IF d THEN 1 ELSE IF h THEN t.day + 1 ELSE t.day
           fo == IF o THEN 1 ELSE IF d THEN t.month + 1 ELSE t.month
           fy == IF o THEN t.year + 1 ELSE t.year
<1>2. \A y \in Nat, n \in 1..12 : LastDay(y, n) \in 28..31
  BY DEF LastDay
<1>3. NextSecond(t) = [second |-> fs, minute |-> fm, hour |-> fh, day |-> fd,
                       month |-> fo, year |-> fy]
  BY DEF NextSecond
<1>4. l \in 28..31
  BY <1>1, <1>2
<1>5. fs \in 0..59 /\ fs = (t.second + 1) % 60
  BY <1>1
<1>6. fm \in 0..59 /\ fh \in 0..23
  BY <1>1
<1>7. fo \in 1..12 /\ fy \in 0..157 /\ fy <= t.year + 1
  BY <1>1
<1>8. fd \in 1..31 /\ fd <= LastDay(fy, fo)
  <2>1. CASE d
    <3>1. fd = 1
      BY <2>1
    <3>2. fy \in Nat /\ fo \in 1..12
      BY <1>7
    <3> HIDE DEF fd, fy, fo
    <3>3. LastDay(fy, fo) \in 28..31
      BY <1>2, <3>2
    <3> QED BY <3>1, <3>3
  <2>2. CASE ~d
    <3>1. fo = t.month /\ fy = t.year
      BY <2>2, Zenon
    <3>2. fd \in 1..31 /\ fd <= l
      <4> HIDE DEF l
      <4> QED BY <1>1, <1>4, <2>2 DEF l
    <3> QED BY <3>1, <3>2
  <2> QED BY <2>1, <2>2
<1> DEFINE r == NextSecond(t)
<1>9. /\ r = [second |-> fs, minute |-> fm, hour |-> fh, day |-> fd,
              month |-> fo, year |-> fy]
  BY <1>3
<1> HIDE DEF r, fs, fm, fh, fd, fo, fy
<1>10. r \in Moment /\ r.year = fy /\ r.second = fs
  BY <1>5, <1>6, <1>7, <1>8, <1>9 DEF Moment
<1> QED BY <1>5, <1>7, <1>10 DEF r

\* No two seconds have the same register.
LEMMA SecondsDiffer ==
  ASSUME ReadInv, NEW a \in 0..59, NEW b \in 0..59, BCD(a) = BCD(b)
  PROVE  a = b
<1>1. CASE statusB.binary
  BY <1>1 DEF BCD
<1>2. CASE ~statusB.binary
  BY <1>2 DEF BCD
<1> QED BY <1>1, <1>2

\* The digits of a field are read back, when the tens that it has fit.
LEMMA Digits ==
  /\ \A n \in 0..59 : UnBCD(16 * (n \div 10) + (n % 10), 8) = n
  /\ \A n \in 1..31 : UnBCD(16 * (n \div 10) + (n % 10), 4) = n
  /\ \A n \in 1..12 : UnBCD(16 * (n \div 10) + (n % 10), 2) = n
  /\ \A n \in 0..157 : UnBCD(16 * (n \div 10) + (n % 10), 16) = n
BY DEF UnBCD

\* Every hour in every mode: those that are read back, and the others.
LEMMA Hours ==
  ASSUME ReadInv, NEW h \in 0..23
  PROVE  HourReadable(h) <=> DecodeHour(HourRegister(h)) = h
<1> DEFINE k == IF h % 12 = 0 THEN 12 ELSE h % 12
           up == IF h >= 12 THEN 128 ELSE 0
<1>1. k \in 1..12 /\ up \in {0, 128} /\ (up = 0 <=> h < 12)
      /\ (h \in 1..11 => k = h) /\ (h = 0 => k = 12)
  OBVIOUS
<1>2. CASE statusB.h24 /\ statusB.binary
  BY <1>2, Zenon DEF HourReadable, DecodeHour, HourRegister, BCD
<1>3. CASE statusB.h24 /\ ~statusB.binary
  <2>1. HourReadable(h) <=> h < 10
    BY <1>3, Zenon DEF HourReadable
  <2>2. DecodeHour(HourRegister(h)) = 16 * (h \div 10) + (h % 10)
    BY <1>3, Zenon DEF DecodeHour, HourRegister, BCD
  <2>3. 16 * (h \div 10) + (h % 10) = h <=> h < 10
    OBVIOUS
  <2> QED BY <2>1, <2>2, <2>3
<1>4. CASE ~statusB.h24
  <2>1. HourReadable(h) <=> h \in 1..11
    BY <1>4, Zenon DEF HourReadable
  <2>2. HourRegister(h) = BCD(k) + up
    BY <1>4, Zenon DEF HourRegister
  <2>3. DecodeHour(BCD(k) + up) = k + up
    <3>1. CASE statusB.binary
      <4>1. DecodeHour(BCD(k) + up) = k + up
        BY <3>1, Zenon DEF DecodeHour, BCD
      <4> QED BY <4>1
    <3>2. CASE ~statusB.binary
      <4> DEFINE g == 16 * (k \div 10) + (k % 10)
                 r == g + up
      <4>1. BCD(k) = g
        BY <3>2, Zenon DEF BCD
      <4>2. DecodeHour(r) = UnBCD(r % 128, 8) + (IF r >= 128 THEN 128 ELSE 0)
        BY <1>4, <3>2, Zenon DEF DecodeHour
      <4>3. g \in 1..18 /\ UnBCD(g, 8) = k
        <5> HIDE DEF k
        <5>1. k \in 0..59
          BY <1>1
        <5> QED BY <1>1, <5>1, Digits
      <4> HIDE DEF g, k, up
      <4>4. r % 128 = g /\ (IF r >= 128 THEN 128 ELSE 0) = up
        BY <1>1, <4>3
      <4> QED BY <4>1, <4>2, <4>3, <4>4
    <3> QED BY <3>1, <3>2
  <2>4. k + up = h <=> h \in 1..11
    <3> HIDE DEF k, up
    <3> QED BY <1>1
  <2> QED BY <2>1, <2>2, <2>3, <2>4
<1> QED BY <1>2, <1>3, <1>4

\* Registers that are all of the present time give that time.
LEMMA DecodedIsNow ==
  ASSUME ReadInv, \A i \in 1..6 : regs[i] = Register(Fields[i]), read' = Decode(regs),
         UNCHANGED <<now, statusB>>
  PROVE  Returned(now)'
<1>1. /\ now.second \in 0..59 /\ now.minute \in 0..59 /\ now.hour \in 0..23
      /\ now.day \in 1..31 /\ now.month \in 1..12 /\ now.year \in 0..157
  <2>1. now \in Moment
    BY DEF ReadInv
  <2> QED BY <2>1, MomentParts
<1>2. /\ regs[1] = BCD(now.second) /\ regs[2] = BCD(now.minute)
      /\ regs[3] = HourRegister(now.hour) /\ regs[4] = BCD(now.day)
      /\ regs[5] = BCD(now.month) /\ regs[6] = BCD(now.year)
  BY DEF Fields, Register
<1> DEFINE field(i, tens) == IF statusB.binary THEN regs[i] ELSE UnBCD(regs[i], tens)
<1>3. read' = [second |-> field(1, 8), minute |-> field(2, 8), hour |-> DecodeHour(regs[3]),
               day |-> field(4, 4), month |-> field(5, 2), year |-> 2000 + field(6, 16)]
  BY DEF Decode
<1>4. /\ field(1, 8) = now.second /\ field(2, 8) = now.minute /\ field(4, 4) = now.day
      /\ field(5, 2) = now.month /\ field(6, 16) = now.year
  <2>1. CASE statusB.binary
    BY <1>2, <2>1, Zenon DEF BCD
  <2>2. CASE ~statusB.binary
    <3> DEFINE g(n) == 16 * (n \div 10) + (n % 10)
    <3>1. /\ regs[1] = g(now.second) /\ regs[2] = g(now.minute) /\ regs[4] = g(now.day)
          /\ regs[5] = g(now.month) /\ regs[6] = g(now.year)
      BY <1>2, <2>2, Zenon DEF BCD
    <3>2. /\ UnBCD(g(now.second), 8) = now.second /\ UnBCD(g(now.minute), 8) = now.minute
          /\ UnBCD(g(now.day), 4) = now.day /\ UnBCD(g(now.month), 2) = now.month
          /\ UnBCD(g(now.year), 16) = now.year
      BY <1>1, Digits
    <3> HIDE DEF g
    <3> QED BY <2>2, <3>1, <3>2, Zenon
  <2> QED BY <2>1, <2>2
<1>5. HourReadable(now.hour) <=> DecodeHour(regs[3]) = now.hour
  BY <1>1, <1>2, Hours
<1> HIDE DEF field
<1>6. /\ read'.second = now.second /\ read'.minute = now.minute /\ read'.day = now.day
      /\ read'.month = now.month /\ read'.year = 2000 + now.year
      /\ read'.hour = DecodeHour(regs[3])
  BY <1>3, <1>4
<1>7. now' = now /\ statusB' = statusB /\ (HourReadable(now.hour)' <=> HourReadable(now.hour))
  BY DEF HourReadable
<1>8. \A f \in {"second", "minute", "day", "month"} : read'[f] = now'[f]
  BY <1>6, <1>7
<1>9. HourReadable(now.hour)' <=> read'.hour = now'.hour
  <2>1. read'.hour = now'.hour <=> DecodeHour(regs[3]) = now.hour
    BY <1>6, <1>7
  <2> QED BY <1>5, <1>7, <2>1, Zenon
<1>10. read'.year = 2000 + now'.year
  BY <1>6, <1>7
<1> QED BY <1>8, <1>9, <1>10 DEF Returned

\* A second more since the seconds were read.
LEMMA UpdateLater ==
  ASSUME ReadInv, Update
  PROVE  ReadInv'
<1>1. /\ now' = NextSecond(now) /\ updates' = updates + 1
      /\ UNCHANGED <<statusB, pc, regs, read>>
      /\ shown' = IF shown = {} THEN {} ELSE shown \union {now'}
  BY DEF Update, reader
<1>2. updates < MaxUpdates /\ ~uip'
  BY DEF Update, ReadInv
<1>3. updates' \in 0..MaxUpdates /\ now.year <= 156 /\ now.year \in Nat /\ updates \in Nat
  <2>1. now \in Moment /\ updates \in 0..MaxUpdates /\ now.year <= 98 + updates
    BY DEF ReadInv
  <2>2. now.year \in 0..157
    BY <2>1, MomentParts
  <2> DEFINE y == now.year
  <2> HIDE DEF y
  <2>3. y \in 0..157 /\ y <= 98 + updates
    BY <2>1, <2>2 DEF y
  <2>4. updates + 1 \in 0..MaxUpdates /\ y <= 156 /\ y \in Nat /\ updates \in Nat
    BY <1>2, <2>1, <2>3, Updates
  <2> QED BY <1>1, <2>4 DEF y
<1>4. /\ now' \in Moment /\ now'.year <= 98 + updates'
      /\ now'.second = (now.second + 1) % 60
  <2>1. now \in Moment
    BY DEF ReadInv
  <2>2. NextSecond(now) \in Moment /\ NextSecond(now).year <= now.year + 1
        /\ NextSecond(now).second = (now.second + 1) % 60
    BY <1>3, <2>1, NextMoment
  <2>3. now.year <= 98 + updates
    BY DEF ReadInv
  <2> DEFINE y == NextSecond(now).year
             z == now.year
  <2>4. y \in 0..157 /\ y <= z + 1 /\ z <= 98 + updates /\ z \in Nat
    BY <1>3, <2>2, <2>3, MomentParts
  <2>5. y <= 98 + (updates + 1)
    <3> HIDE DEF y, z
    <3> QED BY <1>3, <2>4
  <2> QED BY <1>1, <2>2, <2>5
<1>5. ASSUME pc = "read" PROVE now' \in shown' /\ regs' \in Seq(Nat) /\ Len(regs') <= 6
  BY <1>1, <1>5 DEF ReadInv
<1>6. ASSUME pc = "read", Len(regs) > 0
      PROVE  \E s \in 0..59, d \in 0..updates' : Since(s, d)'
  <2>1. PICK s \in 0..59, d \in 0..updates : Since(s, d)
    BY <1>6 DEF ReadInv
  <2>2. d + 1 \in 0..updates' /\ d + 1 # 0
    BY <1>1, <1>3
  <2>3. regs'[1] = BCD(s)'
    BY <1>1, <2>1 DEF Since, BCD
  <2>4. now'.second = (s + (d + 1)) % 60
    BY <1>4, <2>1 DEF Since
  <2>5. Since(s, d + 1)'
    BY <2>2, <2>3, <2>4 DEF Since
  <2> QED BY <2>2, <2>5
<1>7. ASSUME pc = "got" PROVE \E t \in shown' : Returned(t)'
  <2>1. PICK t \in shown : Returned(t)
    BY <1>7 DEF ReadInv
  <2>2. t \in shown'
    BY <1>1
  <2>3. Returned(t)'
    BY <1>1, <2>1 DEF Returned, HourReadable
  <2> QED BY <2>2, <2>3
<1> QED BY <1>1, <1>2, <1>3, <1>4, <1>5, <1>6, <1>7 DEF ReadInv

\* One register more, of the present time.
LEMMA RegisterReadKeeps ==
  ASSUME ReadInv, ReadRegister
  PROVE  ReadInv'
<1>1. /\ pc = "read" /\ pc' = "read" /\ UNCHANGED <<now, uip, updates, statusB, shown, read>>
      /\ regs' = Append(regs, Register(Fields[Len(regs) + 1])) /\ Len(regs) < 6
  BY DEF ReadRegister, Step, cmos, sleeper, Fields
<1>2. now \in shown /\ regs \in Seq(Nat) /\ Len(regs) \in Nat
  BY <1>1 DEF ReadInv
<1>3. Fields[Len(regs) + 1] \in {"second", "minute", "hour", "day", "month", "year"}
  BY <1>1, <1>2 DEF Fields
<1>4. Register(Fields[Len(regs) + 1]) \in Nat
  <2> DEFINE f == Fields[Len(regs) + 1]
  <2>1. \A n \in Nat : BCD(n) \in Nat
    <3>1. \A n \in Nat : n \div 10 \in Nat /\ n % 10 \in Nat
      OBVIOUS
    <3>2. \A n \in Nat : 16 * (n \div 10) + (n % 10) \in Nat
      BY <3>1
    <3> QED BY <3>2 DEF BCD
  <2>2. /\ now.second \in Nat /\ now.minute \in Nat /\ now.hour \in Nat
        /\ now.day \in Nat /\ now.month \in Nat /\ now.year \in Nat
    <3>1. now \in Moment
      BY DEF ReadInv
    <3> QED BY <3>1, MomentParts
  <2>3. HourRegister(now.hour) \in Nat
    <3> DEFINE k == IF now.hour % 12 = 0 THEN 12 ELSE now.hour % 12
               up == IF now.hour >= 12 THEN 128 ELSE 0
    <3>1. k \in Nat /\ up \in Nat
      BY <2>2
    <3>2. HourRegister(now.hour) = IF statusB.h24 THEN BCD(now.hour) ELSE BCD(k) + up
      BY Zenon DEF HourRegister
    <3>3. BCD(now.hour) \in Nat /\ BCD(k) + up \in Nat
      <4> HIDE DEF k, up
      <4>1. BCD(k) \in Nat
        BY <2>1, <3>1
      <4> QED BY <2>1, <2>2, <3>1, <4>1
    <3> QED BY <3>2, <3>3, Zenon
  <2> HIDE DEF f
  <2>4. Register(f) \in Nat
    <3>1. f = "hour" => Register(f) = HourRegister(now.hour)
      BY DEF Register
    <3>2. f # "hour" => Register(f) = BCD(now[f])
      BY DEF Register
    <3>3. f # "hour" => now[f] \in Nat
      BY <1>3, <2>2 DEF f
    <3> QED BY <2>1, <2>3, <3>1, <3>2, <3>3
  <2> QED BY <2>4 DEF f
<1> DEFINE n == Len(regs) + 1
           v == Register(Fields[n])
<1>5. /\ regs' = Append(regs, v) /\ v \in Nat /\ n \in 1..6
  BY <1>1, <1>2, <1>4
<1>7. /\ regs' \in Seq(Nat) /\ Len(regs') = n /\ regs'[n] = v
      /\ \A i \in 1..Len(regs) : regs'[i] = regs[i]
  <2> HIDE DEF v
  <2> QED BY <1>2, <1>5
<1>8. \A f : Register(f)' = Register(f)
  BY <1>1, Zenon DEF Register, HourRegister, BCD
<1> HIDE DEF v
<1>9. \E s \in 0..59, d \in 0..updates' : Since(s, d)'
  <2>1. CASE Len(regs) = 0
    <3>1. n = 1
      BY <2>1
    <3>2. v = BCD(now.second)
      BY <3>1 DEF v, Register, Fields
    <3>3. regs'[1] = BCD(now.second)'
      BY <1>1, <1>7, <3>1, <3>2 DEF BCD
    <3>4. now.second \in 0..59 /\ (now.second + 0) % 60 = now.second /\ 0 \in 0..updates
      <4>1. now \in Moment /\ updates \in 0..MaxUpdates
        BY DEF ReadInv
      <4>2. now.second \in 0..59
        BY <4>1, MomentParts
      <4> QED BY <4>1, <4>2, Updates
    <3>5. \A i \in 1..Len(regs') : regs'[i] = Register(Fields[i])'
      <4> SUFFICES ASSUME NEW i \in 1..Len(regs') PROVE regs'[i] = Register(Fields[i])'
        OBVIOUS
      <4>1. i = n
        BY <1>7, <3>1
      <4> QED BY <1>7, <1>8, <4>1 DEF v
    <3> DEFINE s == now.second
    <3>6. BCD(s)' = BCD(now.second)' /\ s' = s
      BY <1>1
    <3>7. PICK a \in 0..59 : a = s
      BY <3>4
    <3>8. regs'[1] = BCD(a)' /\ now'.second = (a + 0) % 60
      BY <1>1, <3>3, <3>4, <3>7 DEF BCD
    <3>9. Since(a, 0)'
      BY <3>5, <3>8 DEF Since
    <3> QED BY <1>1, <3>4, <3>9
  <2>2. CASE Len(regs) # 0
    <3>1. PICK s \in 0..59, d \in 0..updates : Since(s, d)
      BY <1>1, <1>2, <2>2 DEF ReadInv
    <3>2. regs'[1] = BCD(s)'
      <4>1. 1 \in 1..Len(regs)
        BY <1>2, <2>2
      <4>2. BCD(s)' = BCD(s)
        BY <1>1 DEF BCD
      <4> QED BY <1>7, <3>1, <4>1, <4>2 DEF Since
    <3>3. ASSUME d = 0, NEW i \in 1..Len(regs') PROVE regs'[i] = Register(Fields[i])'
      <4>1. CASE i = n
        BY <1>7, <1>8, <4>1 DEF v
      <4>2. CASE i # n
        <5>1. i \in 1..Len(regs)
          BY <1>2, <1>7, <4>2
        <5>2. regs[i] = Register(Fields[i])
          BY <3>1, <3>3, <5>1 DEF Since
        <5>3. Register(Fields[i])' = Register(Fields[i])
          BY <1>8 DEF Fields
        <5> QED BY <1>7, <5>1, <5>2, <5>3
      <4> QED BY <4>1, <4>2
    <3>4. now'.second = (s + d) % 60
      BY <1>1, <3>1 DEF Since
    <3>5. Since(s, d)'
      BY <3>2, <3>3, <3>4 DEF Since
    <3> QED BY <1>1, <3>5
  <2> QED BY <2>1, <2>2
<1>10. Len(regs') <= 6
  BY <1>5, <1>7
<1> QED BY <1>1, <1>2, <1>7, <1>9, <1>10 DEF ReadInv

\* The seconds read again are the same only without an update.
LEMMA SecondsAgainKeeps ==
  ASSUME ReadInv, SecondsAgain
  PROVE  ReadInv'
<1>1. /\ pc = "read" /\ UNCHANGED <<now, uip, updates, statusB, shown>> /\ Len(regs) = 6
  BY DEF SecondsAgain, Step, cmos, Fields
<1>2. CASE Register("second") = regs[1]
  <2>1. pc' = "got" /\ read' = Decode(regs)
    BY <1>2 DEF SecondsAgain, Step
  <2>2. PICK s \in 0..59, d \in 0..updates : Since(s, d)
    BY <1>1 DEF ReadInv
  <2>3. now.second \in 0..59
    BY MomentParts DEF ReadInv
  <2>4. now.second = s
    <3>1. BCD(now.second) = BCD(s)
      BY <1>2, <2>2 DEF Since, Register
    <3> QED BY <2>3, <3>1, SecondsDiffer
  <2>5. d = 0
    <3>1. updates \in Nat /\ d \in Nat /\ d <= 59
      BY Updates DEF ReadInv
    <3>2. s = (s + d) % 60
      BY <2>2, <2>4 DEF Since
    <3> QED BY <3>1, <3>2
  <2>6. \A i \in 1..6 : regs[i] = Register(Fields[i])
    BY <1>1, <2>2, <2>5 DEF Since
  <2>7. Returned(now)'
    BY <1>1, <2>1, <2>6, DecodedIsNow
  <2>8. now' \in shown'
    BY <1>1 DEF ReadInv
  <2> QED BY <1>1, <2>1, <2>7, <2>8 DEF ReadInv
<1>3. CASE Register("second") # regs[1]
  <2>1. pc' = "wait"
    BY <1>3 DEF SecondsAgain, Step
  <2> QED BY <1>1, <2>1 DEF ReadInv
<1> QED BY <1>2, <1>3

\* Nothing has been read at boot.
LEMMA ReadInvInit == Init => ReadInv
<1> SUFFICES ASSUME Init PROVE ReadInv
  OBVIOUS
<1>1. /\ now \in StartTimes /\ ~uip /\ updates = 0 /\ statusB \in Modes /\ pc = "idle"
  BY DEF Init
<1>2. now \in Moment /\ now.year <= 98
  BY <1>1, StartAssumption DEF Moment
<1>3. statusB \in [binary : BOOLEAN, h24 : BOOLEAN]
  BY <1>1, ClockAssumption
<1> QED BY <1>1, <1>2, <1>3, Updates DEF ReadInv

\* Every step of the thread, the timer and the CMOS clock.
LEMMA ReadInvStep == ReadInv /\ [Next]_vars => ReadInv'
<1> SUFFICES ASSUME ReadInv, [Next]_vars PROVE ReadInv'
  OBVIOUS
<1>1. CASE Update
  BY <1>1, UpdateLater
<1>2. CASE ReadRegister
  BY <1>2, RegisterReadKeeps
<1>3. CASE SecondsAgain
  BY <1>3, SecondsAgainKeeps
<1>4. ASSUME UNCHANGED <<now, updates, statusB>>, uip' => updates < MaxUpdates,
             pc' \notin {"read", "got"}
      PROVE  ReadInv'
  BY <1>4 DEF ReadInv
<1>5. ASSUME UNCHANGED <<now, updates, statusB, pc, regs, read, shown>>,
             uip' => updates < MaxUpdates
      PROVE  ReadInv'
  <2>1. /\ \A s, d : Since(s, d)' = Since(s, d)
        /\ \A t : Returned(t)' = Returned(t)
    BY <1>5 DEF Since, Returned, Register, HourRegister, BCD, HourReadable
  <2> QED BY <1>5, <2>1 DEF ReadInv
<1>6. CASE Announce
  BY <1>5, <1>6 DEF Announce, reader
<1>7. CASE UNCHANGED vars
  BY <1>5, <1>7 DEF vars, cmos, reader, ReadInv
<1>8. CASE Tick
  <2>1. UNCHANGED <<now, uip, updates, statusB, regs, read, shown>>
    BY <1>8 DEF Tick, cmos, reader
  <2>2. CASE pc = "halted"
    BY <1>4, <1>8, <2>1, <2>2 DEF Tick, ReadInv
  <2>3. CASE pc # "halted"
    BY <1>5, <1>8, <2>1, <2>3 DEF Tick, ReadInv
  <2> QED BY <2>2, <2>3
<1>9. CASE OtherInterrupt \/ (\E secs \in Operands : cmd_sleep(secs)) \/ sleep_ms \/ rtc_read
           \/ Printed
  <2>1. UNCHANGED <<now, uip, updates, statusB>> /\ pc' \notin {"read", "got"}
    BY <1>9 DEF OtherInterrupt, cmd_sleep, sleep_ms, SleepCheck, Hlt, Woke, rtc_read,
                Printed, Step, cmos
  <2> QED BY <1>4, <2>1 DEF ReadInv
<1>10. CASE NoUpdate
  <2>1. /\ UNCHANGED <<now, uip, updates, statusB>>
        /\ pc' = "read" /\ regs' = <<>> /\ shown' = {now}
    BY <1>10 DEF NoUpdate, cmos
  <2> QED BY <2>1 DEF ReadInv
<1> QED BY <1>1, <1>2, <1>3, <1>6, <1>7, <1>8, <1>9, <1>10 DEF Next, Read

\* What date prints is one time of the clock, although an update may come
\* between any two registers: the seconds read again are the same only when none
\* has (src/rtc.c, rtc_read), for every clock, mode and second it starts at.
THEOREM ReadsATime == Spec => []ReadIsATime
<1>1. ReadInv => ReadIsATime
  BY DEF ReadInv, Returned, ReadIsATime
<1> QED BY <1>1, ReadInvInit, ReadInvStep, PTL DEF Spec

-----------------------------------------------------------------------------
(* Lines.                                                                  *)

\* The characters of a text.
Codes == 1..255

\* What the loop of split_lines keeps, and what it makes of character i.
CutState == [lines : Seq(Seq(Codes)), start : Nat \ {0}]

AfterChar(text, b, i) ==
  IF text[i] # NL THEN b
  ELSE [lines |-> Append(b.lines, SubSeq(text, b.start, i - 1)), start |-> i + 1]

\* A set of naturals has its least member as Min.
LEMMA MinIs ==
  ASSUME NEW S, S \subseteq Nat, S # {}
  PROVE  Min(S) \in S /\ \A y \in S : Min(S) <= y
<1>1. PICK x \in S : \A y \in S : x <= y
  BY LeastNatural
<1> QED BY <1>1 DEF Min

\* A set of naturals up to a bound has its greatest member as Max.
LEMMA MaxIs ==
  ASSUME NEW m \in Nat, NEW S, S \subseteq 0..m, S # {}
  PROVE  Max(S) \in S /\ \A y \in S : Max(S) >= y
<1> DEFINE T == {m - x : x \in S}
<1>1. T \subseteq Nat /\ T # {}
  <2>1. PICK x \in S : TRUE
    OBVIOUS
  <2>2. m - x \in T
    BY <2>1
  <2>3. \A y \in S : m - y \in Nat
    OBVIOUS
  <2> QED BY <2>2, <2>3
<1>2. PICK t \in T : \A y \in T : t <= y
  <2> HIDE DEF T
  <2> QED BY <1>1, LeastNatural
<1>3. PICK x \in S : t = m - x
  BY <1>2
<1>4. \A y \in S : x >= y
  <2> TAKE y \in S
  <2>1. m - y \in T /\ x \in 0..m /\ y \in 0..m
    OBVIOUS
  <2>2. m - x <= m - y
    BY <1>2, <1>3, <2>1
  <2> QED BY <2>1, <2>2
<1> QED BY <1>4 DEF Max

\* A part of a part of a text is a part of the text.
LEMMA PartOfPart ==
  ASSUME NEW A, NEW t \in Seq(A), NEW m \in Nat \ {0}, NEW e \in Nat, e <= Len(t), m <= e + 1,
         NEW a \in Nat \ {0}, NEW b \in Int, b <= e - m + 1
  PROVE  SubSeq(SubSeq(t, m, e), a, b) = SubSeq(t, a + m - 1, b + m - 1)
<1> DEFINE p == SubSeq(t, m, e)
<1>1. p = [i \in 1..(e - m + 1) |-> t[i + m - 1]]
  OBVIOUS
<1>2. SubSeq(p, a, b) = [i \in 1..(b - a + 1) |-> p[i + a - 1]]
  OBVIOUS
<1>3. SubSeq(t, a + m - 1, b + m - 1) = [i \in 1..(b - a + 1) |-> t[i + (a + m - 1) - 1]]
  <2>1. (b + m - 1) - (a + m - 1) + 1 = b - a + 1
    OBVIOUS
  <2> QED BY <2>1
<1>4. \A i \in 1..(b - a + 1) : p[i + a - 1] = t[i + (a + m - 1) - 1]
  <2> TAKE i \in 1..(b - a + 1)
  <2>1. i + a - 1 \in 1..(e - m + 1) /\ (i + a - 1) + m - 1 = i + (a + m - 1) - 1
    OBVIOUS
  <2> HIDE DEF p
  <2> QED BY <1>1, <2>1
<1> DEFINE q == [i \in 1..(b - a + 1) |-> p[i + a - 1]]
<1>5. q = [i \in 1..(b - a + 1) |-> t[i + (a + m - 1) - 1]]
  <2> HIDE DEF p
  <2> QED BY <1>4
<1> HIDE DEF q
<1>6. SubSeq(p, a, b) = q
  <2> HIDE DEF p
  <2> QED BY <1>2 DEF q
<1>7. SubSeq(t, a + m - 1, b + m - 1) = q
  BY <1>3, <1>5
<1> HIDE DEF p
<1>8. SubSeq(p, a, b) = SubSeq(t, a + m - 1, b + m - 1)
  BY <1>6, <1>7
<1> QED BY <1>8 DEF p

-----------------------------------------------------------------------------
(* Counting newlines.                                                      *)

\* Newlines counts one more where a newline stands.
LEMMA NewlinesIs ==
  ASSUME NEW text, NEW a \in Int, NEW b \in Int
  PROVE  /\ Newlines(text, a, b) \in Nat
         /\ b < a => Newlines(text, a, b) = 0
         /\ a <= b => /\ Newlines(text, a, b) = Newlines(text, a, b - 1) + (IF text[b] = NL THEN 1 ELSE 0)
                      /\ Newlines(text, a, b) = Newlines(text, a + 1, b) + (IF text[a] = NL THEN 1 ELSE 0)
<1> DEFINE N(x, y) == {i \in x..y : text[i] = NL}
<1>1. ASSUME NEW x \in Int, NEW y \in Int
      PROVE  IsFiniteSet(N(x, y)) /\ Cardinality(N(x, y)) \in Nat
  <2>1. IsFiniteSet(x..y)
    BY FS_Interval
  <2>2. N(x, y) \subseteq x..y
    OBVIOUS
  <2> HIDE DEF N
  <2> QED BY <2>1, <2>2, FS_Subset, FS_CardinalityType
<1>2. b < a => Newlines(text, a, b) = 0
  <2>1. b < a => {i \in a..b : text[i] = NL} = {}
    OBVIOUS
  <2> QED BY <2>1, FS_EmptySet DEF Newlines
<1>3. ASSUME a <= b
      PROVE  Newlines(text, a, b) = Newlines(text, a, b - 1) + (IF text[b] = NL THEN 1 ELSE 0)
  <2>1. N(a, b) = IF text[b] = NL THEN N(a, b-1) \union {b} ELSE N(a, b-1)
    <3>1. \A i : i \in a..b <=> (i \in a..(b-1) \/ i = b)
      BY <1>3
    <3> QED BY <3>1
  <2>2. b \notin N(a, b-1) /\ b - 1 \in Int
    OBVIOUS
  <2>3. IsFiniteSet(N(a, b-1)) /\ Cardinality(N(a, b-1)) \in Nat
    BY <1>1, <2>2
  <2>4. Newlines(text, a, b) = Cardinality(N(a, b)) /\ Newlines(text, a, b-1) = Cardinality(N(a, b-1))
    BY DEF Newlines
  <2> HIDE DEF N
  <2>5. Cardinality(N(a, b-1) \union {b}) = Cardinality(N(a, b-1)) + 1
    BY <2>2, <2>3, FS_AddElement
  <2> QED BY <2>1, <2>3, <2>4, <2>5
<1>4. ASSUME a <= b
      PROVE  Newlines(text, a, b) = Newlines(text, a + 1, b) + (IF text[a] = NL THEN 1 ELSE 0)
  <2>1. N(a, b) = IF text[a] = NL THEN N(a+1, b) \union {a} ELSE N(a+1, b)
    <3>1. \A i : i \in a..b <=> (i \in (a+1)..b \/ i = a)
      BY <1>4
    <3> QED BY <3>1
  <2>2. a \notin N(a+1, b) /\ a + 1 \in Int
    OBVIOUS
  <2>3. IsFiniteSet(N(a+1, b)) /\ Cardinality(N(a+1, b)) \in Nat
    BY <1>1, <2>2
  <2>4. Newlines(text, a, b) = Cardinality(N(a, b)) /\ Newlines(text, a+1, b) = Cardinality(N(a+1, b))
    BY DEF Newlines
  <2> HIDE DEF N
  <2>5. Cardinality(N(a+1, b) \union {a}) = Cardinality(N(a+1, b)) + 1
    BY <2>2, <2>3, FS_AddElement
  <2> QED BY <2>1, <2>3, <2>4, <2>5
<1>5. Newlines(text, a, b) \in Nat
  BY <1>1 DEF Newlines
<1> QED BY <1>2, <1>3, <1>4, <1>5

\* A text has the newlines before a place and those behind it.
LEMMA NewlinesSplit ==
  ASSUME NEW text, NEW m \in Nat, NEW s \in 0..m
  PROVE  Newlines(text, 1, m) = Newlines(text, 1, s) + Newlines(text, s + 1, m)
<1> DEFINE S == {i \in 0..m : i <= m - s =>
                   Newlines(text, 1, s + i) = Newlines(text, 1, s) + Newlines(text, s + 1, s + i)}
<1>1. 0 \in S
  <2>1. Newlines(text, s + 1, s) = 0 /\ Newlines(text, 1, s) \in Nat /\ s + 0 = s
    BY NewlinesIs
  <2> QED BY <2>1
<1>2. ASSUME NEW i \in 1..m, i - 1 \in S PROVE i \in S
  <2> SUFFICES ASSUME i <= m - s
      PROVE Newlines(text, 1, s + i) = Newlines(text, 1, s) + Newlines(text, s + 1, s + i)
    OBVIOUS
  <2> DEFINE j == s + i
             one == IF text[j] = NL THEN 1 ELSE 0
  <2>1. /\ j \in Int /\ s + 1 \in Int /\ 1 <= j /\ s + 1 <= j /\ s + (i - 1) = j - 1
        /\ j - 1 \in Int /\ i - 1 <= m - s
    OBVIOUS
  <2>2. Newlines(text, 1, j - 1) = Newlines(text, 1, s) + Newlines(text, s + 1, j - 1)
    BY <1>2, <2>1
  <2> HIDE DEF j
  <2>3. /\ Newlines(text, 1, j) = Newlines(text, 1, j - 1) + one
        /\ Newlines(text, s + 1, j) = Newlines(text, s + 1, j - 1) + one
    BY <2>1, NewlinesIs
  <2>4. /\ Newlines(text, 1, j - 1) \in Nat /\ Newlines(text, s + 1, j - 1) \in Nat
        /\ Newlines(text, 1, s) \in Nat
    BY <2>1, NewlinesIs
  <2>5. Newlines(text, 1, j) = Newlines(text, 1, s) + Newlines(text, s + 1, j)
    <3> HIDE DEF one
    <3>1. one \in Nat
      BY DEF one
    <3> QED BY <2>2, <2>3, <2>4, <3>1
  <2> QED BY <2>5 DEF j
<1>3. m - s \in S
  <2> HIDE DEF S
  <2>1. 0..m \subseteq S
    BY <1>1, <1>2, InductTo
  <2> QED BY <2>1
<1> QED BY <1>3

-----------------------------------------------------------------------------
(* The loop of split_lines.                                                *)

\* What split_lines keeps behind a newline, field by field.
LEMMA AfterFields ==
  ASSUME NEW text, NEW b, NEW i
  PROVE  /\ text[i] # NL => AfterChar(text, b, i) = b
         /\ text[i] = NL =>
              /\ AfterChar(text, b, i).lines = Append(b.lines, SubSeq(text, b.start, i - 1))
              /\ AfterChar(text, b, i).start = i + 1
<1> DEFINE x == Append(b.lines, SubSeq(text, b.start, i - 1))
           y == i + 1
<1>1. text[i] = NL => AfterChar(text, b, i) = [lines |-> x, start |-> y]
  BY DEF AfterChar
<1>2. [lines |-> x, start |-> y].lines = x /\ [lines |-> x, start |-> y].start = y
  <2> HIDE DEF x, y
  <2> QED OBVIOUS
<1>3. text[i] # NL => AfterChar(text, b, i) = b
  BY DEF AfterChar
<1> HIDE DEF x, y
<1>4. text[i] = NL => AfterChar(text, b, i).lines = x /\ AfterChar(text, b, i).start = y
  BY <1>1, <1>2
<1> QED BY <1>3, <1>4 DEF x, y

\* Cut has a value at every character, and each follows from the one before.
LEMMA CutIs ==
  ASSUME NEW text \in Seq(Codes)
  PROVE  LET c == Cut(text)
         IN  /\ c \in [0..Len(text) -> CutState]
             /\ c[0] = [lines |-> <<>>, start |-> 1]
             /\ \A i \in 1..Len(text) : c[i] = AfterChar(text, c[i-1], i)
<1> DEFINE n == Len(text)
           none == [lines |-> <<>>, start |-> 1]
           st == [x \in CutState \X (1..n) |-> AfterChar(text, x[1], x[2])]
           c == Cut(text)
<1>1. n \in Nat
  OBVIOUS
<1>2. ASSUME NEW b \in CutState, NEW i \in 1..n PROVE AfterChar(text, b, i) \in CutState
  <2>1. b.lines \in Seq(Seq(Codes)) /\ b.start \in Nat \ {0}
    BY DEF CutState
  <2>2. SubSeq(text, b.start, i - 1) \in Seq(Codes)
    <3>1. \A j \in b.start..(i-1) : text[j] \in Codes
      BY <2>1
    <3> QED BY <2>1, <3>1, SubSeqProperties
  <2>3. Append(b.lines, SubSeq(text, b.start, i - 1)) \in Seq(Seq(Codes))
    BY <2>1, <2>2, AppendProperties
  <2>4. i + 1 \in Nat \ {0}
    BY <1>1
  <2> QED BY <2>3, <2>4 DEF AfterChar, CutState
<1>3. st \in [CutState \X (1..n) -> CutState] /\ none \in CutState
  <2>1. \A x \in CutState \X (1..n) : AfterChar(text, x[1], x[2]) \in CutState
    <3> TAKE x \in CutState \X (1..n)
    <3>1. x[1] \in CutState /\ x[2] \in 1..n
      OBVIOUS
    <3> HIDE DEF n
    <3> QED BY <1>2, <3>1
  <2>2. <<>> \in Seq(Seq(Codes)) /\ 1 \in Nat \ {0}
    OBVIOUS
  <2>3. none \in CutState
    BY <2>2 DEF CutState
  <2> QED BY <2>1, <2>3
<1>4. PICK g \in [0..n -> CutState] : g[0] = none /\ \A i \in 1..n : g[i] = st[<<g[i-1], i>>]
  <2> HIDE DEF st, none, n
  <2>1. Walks(CutState, none, n, st) # {}
    BY <1>1, <1>3, Iterate
  <2> QED BY <2>1 DEF Walks
<1>5. ASSUME NEW i \in 1..n PROVE g[i] = AfterChar(text, g[i-1], i)
  <2>1. g[i-1] \in CutState
    BY <1>1
  <2> QED BY <1>4, <2>1
<1> DEFINE Then(h, i) == IF i = 0 THEN none ELSE IF text[i] # NL THEN h[i-1]
                         ELSE LET before == h[i-1]
                              IN  [lines |-> Append(before.lines, SubSeq(text, before.start, i - 1)),
                                   start |-> i + 1]
<1>6. ASSUME NEW h, NEW i PROVE Then(h, i) = IF i = 0 THEN none ELSE AfterChar(text, h[i-1], i)
  BY DEF AfterChar
<1>7. g = [i \in 0..n |-> Then(g, i)]
  <2>1. \A i \in 0..n : i = 0 \/ i \in 1..n
    BY <1>1
  <2>2. \A i \in 0..n : g[i] = Then(g, i)
    <3> HIDE DEF Then, none
    <3> QED BY <1>4, <1>5, <1>6, <2>1
  <2> HIDE DEF Then
  <2> QED BY <2>2
<1>8. c = CHOOSE h : h = [i \in 0..n |-> Then(h, i)]
  BY DEF Cut
<1>9. c = [i \in 0..n |-> Then(c, i)]
  <2> HIDE DEF Then, c
  <2> QED BY <1>7, <1>8
<1> HIDE DEF c
<1>10. \A i \in 0..n : c[i] = IF i = 0 THEN none ELSE AfterChar(text, c[i-1], i)
  <2> HIDE DEF Then, none
  <2>1. \A i \in 0..n : c[i] = Then(c, i)
    BY <1>9
  <2> QED BY <1>6, <2>1
<1>11. DOMAIN c = 0..n
  BY <1>9
<1>12. c[0] = none /\ \A i \in 1..n : c[i] = AfterChar(text, c[i-1], i)
  <2>1. 0 \in 0..n /\ \A i \in 1..n : i \in 0..n /\ i # 0
    BY <1>1
  <2> HIDE DEF none
  <2> QED BY <1>10, <2>1
<1>13. \A i \in 0..n : c[i] \in CutState
  <2> DEFINE S == {i \in 0..n : c[i] \in CutState}
  <2>1. 0 \in S
    BY <1>1, <1>3, <1>12
  <2>2. ASSUME NEW i \in 1..n, i - 1 \in S PROVE i \in S
    <3> HIDE DEF n
    <3> QED BY <1>1, <1>2, <1>12, <2>2
  <2>3. 0..n \subseteq S
    <3> HIDE DEF S, n
    <3> QED BY <1>1, <2>1, <2>2, InductTo
  <2> QED BY <2>3
<1>14. c \in [0..n -> CutState]
  <2> HIDE DEF Then
  <2>1. c = [i \in 0..n |-> c[i]]
    BY <1>9, <1>11
  <2> QED BY <1>13, <2>1
<1> QED BY <1>12, <1>14 DEF c

\* The line that has not ended begins at most behind the characters read, and
\* there only when nothing or a newline was read last; one line has ended for
\* every newline.
LEMMA CutCounts ==
  ASSUME NEW text \in Seq(Codes), NEW i \in 0..Len(text)
  PROVE  LET c == Cut(text)
         IN  /\ c[i].lines \in Seq(Seq(Codes)) /\ c[i].start \in 1..(i + 1)
             /\ c[i].start = i + 1 <=> (i = 0 \/ text[i] = NL)
             /\ Len(c[i].lines) = Newlines(text, 1, i)
<1> DEFINE n == Len(text)
           c == Cut(text)
           Good(k) == /\ c[k].start \in 1..(k + 1)
                      /\ c[k].start = k + 1 <=> (k = 0 \/ text[k] = NL)
                      /\ Len(c[k].lines) = Newlines(text, 1, k)
           S == {k \in 0..n : Good(k)}
<1>1. n \in Nat
  OBVIOUS
<1>2. /\ c \in [0..n -> CutState] /\ c[0] = [lines |-> <<>>, start |-> 1]
      /\ \A k \in 1..n : c[k] = AfterChar(text, c[k-1], k)
  BY CutIs
<1> HIDE DEF c
<1>3. 0 \in S
  <2>1. Newlines(text, 1, 0) = 0 /\ Len(<<>>) = 0
    BY NewlinesIs
  <2> QED BY <1>1, <1>2, <2>1
<1>4. ASSUME NEW k \in 1..n, k - 1 \in S PROVE k \in S
  <2>1. k - 1 \in 0..n /\ Good(k - 1) /\ k \in Nat /\ k \in 0..n
    BY <1>1, <1>4
  <2>2. c[k-1].lines \in Seq(Seq(Codes)) /\ c[k] = AfterChar(text, c[k-1], k)
    <3> HIDE DEF n
    <3> QED BY <1>2, <2>1 DEF CutState
  <2>3. Newlines(text, 1, k) = Newlines(text, 1, k - 1) + (IF text[k] = NL THEN 1 ELSE 0)
    BY <2>1, NewlinesIs
  <2>4. CASE text[k] = NL
    <3>1. c[k].start = k + 1 /\ c[k].lines = Append(c[k-1].lines, SubSeq(text, c[k-1].start, k - 1))
      <4> DEFINE b == c[k-1]
      <4>1. /\ AfterChar(text, b, k).lines = Append(b.lines, SubSeq(text, b.start, k - 1))
            /\ AfterChar(text, b, k).start = k + 1
        <5> HIDE DEF b
        <5> QED BY <2>4, AfterFields, SMTT(30)
      <4>2. c[k] = AfterChar(text, b, k)
        BY <2>2
      <4> QED BY <4>1, <4>2
    <3>2. Len(c[k].lines) = Len(c[k-1].lines) + 1
      BY <2>2, <3>1, AppendProperties
    <3>3. c[k].start \in 1..(k + 1) /\ (c[k].start = k + 1 <=> (k = 0 \/ text[k] = NL))
      BY <2>1, <2>4, <3>1
    <3>4. Len(c[k].lines) = Newlines(text, 1, k)
      BY <2>1, <2>3, <2>4, <3>2
    <3> QED BY <2>1, <3>3, <3>4
  <2>5. CASE text[k] # NL
    <3>1. c[k] = c[k-1]
      BY <2>2, <2>5 DEF AfterChar
    <3>2. c[k].start <= k /\ c[k].start \in 1..(k + 1) /\ k # 0
      BY <2>1, <3>1
    <3>3. Newlines(text, 1, k - 1) \in Nat
      BY <2>1, NewlinesIs
    <3> QED BY <2>1, <2>3, <2>5, <3>1, <3>2, <3>3
  <2> QED BY <2>4, <2>5
<1>5. 0..n \subseteq S
  <2> HIDE DEF S, n
  <2> QED BY <1>1, <1>3, <1>4, InductTo
<1>6. Good(i) /\ c[i].lines \in Seq(Seq(Codes))
  <2> HIDE DEF Good
  <2>1. i \in S
    <3> HIDE DEF S
    <3> QED BY <1>5
  <2> QED BY <1>2, <2>1 DEF CutState
<1> QED BY <1>6 DEF c

-----------------------------------------------------------------------------
(* Cutting a text in two.                                                  *)

\* The beginning of a text is cut as in the text.
LEMMA CutOfPrefix ==
  ASSUME NEW text \in Seq(Codes), NEW e \in 0..Len(text), NEW i \in 0..e
  PROVE  Cut(SubSeq(text, 1, e))[i] = Cut(text)[i]
<1> DEFINE p == SubSeq(text, 1, e)
           c == Cut(text)
           d == Cut(p)
           S == {k \in 0..e : d[k] = c[k]}
<1>1. p \in Seq(Codes) /\ Len(p) = e /\ \A k \in 1..e : p[k] = text[k]
  <2>1. \A k \in 1..e : text[k] \in Codes
    OBVIOUS
  <2> QED BY <2>1, SubSeqProperties
<1>2. /\ c[0] = [lines |-> <<>>, start |-> 1]
      /\ \A k \in 1..Len(text) : c[k] = AfterChar(text, c[k-1], k)
  BY CutIs
<1>3. /\ d[0] = [lines |-> <<>>, start |-> 1]
      /\ \A k \in 1..e : d[k] = AfterChar(p, d[k-1], k)
  <2> HIDE DEF p
  <2> QED BY <1>1, CutIs
<1>4. ASSUME NEW k \in 1..e, k - 1 \in S PROVE k \in S
  <2>1. k \in 1..Len(text) /\ k - 1 \in 0..Len(text) /\ d[k-1] = c[k-1] /\ p[k] = text[k]
    <3> HIDE DEF p, c, d
    <3> QED BY <1>1, <1>4
  <2>2. c[k-1].start \in Nat \ {0}
    BY <2>1, CutCounts
  <2>3. SubSeq(p, c[k-1].start, k - 1) = SubSeq(text, c[k-1].start, k - 1)
    <3> DEFINE a == c[k-1].start
    <3>1. a \in Nat \ {0}
      BY <2>2
    <3> HIDE DEF a
    <3>2. SubSeq(SubSeq(text, 1, e), a, k - 1) = SubSeq(text, a + 1 - 1, (k - 1) + 1 - 1)
      <4>1. 1 \in Nat \ {0} /\ e \in Nat /\ e <= Len(text) /\ 1 <= e + 1 /\ k - 1 \in Int
            /\ k - 1 <= e - 1 + 1
        OBVIOUS
      <4> QED BY <3>1, <4>1, PartOfPart
    <3>3. a + 1 - 1 = a /\ (k - 1) + 1 - 1 = k - 1
      BY <3>1
    <3> QED BY <3>2, <3>3 DEF a
  <2>4. c[k] = AfterChar(text, c[k-1], k) /\ d[k] = AfterChar(p, d[k-1], k)
    BY <1>2, <1>3, <2>1
  <2>5. AfterChar(p, c[k-1], k) = AfterChar(text, c[k-1], k)
    <3> HIDE DEF p, c
    <3> QED BY <2>1, <2>3 DEF AfterChar
  <2> QED BY <2>1, <2>4, <2>5
<1>5. 0..e \subseteq S
  <2>1. 0 \in S
    BY <1>2, <1>3
  <2>2. e \in Nat
    OBVIOUS
  <2> HIDE DEF S
  <2> QED BY <1>4, <2>1, <2>2, InductTo
<1> HIDE DEF S
<1>6. i \in S
  BY <1>5
<1> QED BY <1>6 DEF S

\* Behind a newline a text is cut as if it began there, the lines before it put
\* in front.
LEMMA CutOfSuffix ==
  ASSUME NEW text \in Seq(Codes), NEW s \in 0..Len(text), s = 0 \/ text[s] = NL,
         NEW i \in 0..(Len(text) - s)
  PROVE  LET c == Cut(text)
             d == Cut(SubSeq(text, s + 1, Len(text)))
         IN  /\ c[s + i].lines = c[s].lines \o d[i].lines
             /\ c[s + i].start = s + d[i].start
<1> DEFINE n == Len(text)
           m == n - s
           q == SubSeq(text, s + 1, n)
           c == Cut(text)
           d == Cut(q)
           Good(k) == /\ c[s + k].lines = c[s].lines \o d[k].lines
                      /\ c[s + k].start = s + d[k].start
           S == {k \in 0..m : Good(k)}
<1>1. n \in Nat /\ m \in Nat /\ s \in Nat /\ s + m = n
  OBVIOUS
<1>2. q \in Seq(Codes) /\ Len(q) = m /\ \A k \in 1..m : q[k] = text[s + k]
  <2>1. \A k \in (s+1)..n : text[k] \in Codes
    OBVIOUS
  <2>2. q = [k \in 1..(n - (s + 1) + 1) |-> text[k + (s + 1) - 1]]
    OBVIOUS
  <2>3. n - (s + 1) + 1 = m /\ \A k \in 1..m : k + (s + 1) - 1 = s + k /\ s + k \in (s+1)..n
    BY <1>1
  <2>4. q = [k \in 1..m |-> text[s + k]]
    <3> HIDE DEF q, m, n
    <3> QED BY <2>2, <2>3
  <2> HIDE DEF q, m, n
  <2> QED BY <1>1, <2>1, <2>3, <2>4
<1>3. /\ \A k \in 0..n : c[k] \in CutState
      /\ \A k \in 1..n : c[k] = AfterChar(text, c[k-1], k)
  <2>1. c \in [0..n -> CutState]
    BY CutIs
  <2> HIDE DEF CutState
  <2> QED BY <2>1, CutIs
<1>4. /\ \A k \in 0..m : d[k] \in CutState
      /\ d[0] = [lines |-> <<>>, start |-> 1]
      /\ \A k \in 1..m : d[k] = AfterChar(q, d[k-1], k)
  <2> HIDE DEF q, m
  <2>1. d \in [0..m -> CutState]
    BY <1>2, CutIs
  <2> HIDE DEF CutState
  <2> QED BY <1>2, <2>1, CutIs
<1>5. c[s].start = s + 1
  BY CutCounts
<1>6. \A k \in 0..m : d[k].start \in 1..(k + 1)
  <2> HIDE DEF q, m
  <2> QED BY <1>2, CutCounts
<1> HIDE DEF c, d
<1>7. 0 \in S
  <2>1. c[s].lines \in Seq(Seq(Codes))
    BY <1>3 DEF CutState
  <2>2. s + 0 = s /\ d[0].lines = <<>> /\ d[0].start = 1 /\ 0 \in 0..m
    BY <1>1, <1>4
  <2>3. c[s].lines \o <<>> = c[s].lines
    BY <2>1, ConcatEmptySeq
  <2> HIDE DEF m
  <2> QED BY <1>5, <2>2, <2>3
<1>8. ASSUME NEW k \in 1..m, k - 1 \in S PROVE k \in S
  <2> DEFINE j == s + k
  <2>1. /\ j \in 1..n /\ j - 1 \in 0..n /\ s + (k - 1) = j - 1 /\ k - 1 \in 0..m /\ k \in 0..m
        /\ k \in Nat /\ j \in Nat
    BY <1>1
  <2>2. Good(k - 1)
    BY <1>8
  <2>3. /\ c[j-1].lines = c[s].lines \o d[k-1].lines /\ c[j-1].start = s + d[k-1].start
        /\ q[k] = text[j]
    <3> HIDE DEF m, n, q
    <3> QED BY <1>2, <2>1, <2>2
  <2>4. c[j] = AfterChar(text, c[j-1], j) /\ d[k] = AfterChar(q, d[k-1], k)
    <3> HIDE DEF m, n, q, j
    <3> QED BY <1>3, <1>4, <2>1
  <2> DEFINE a == d[k-1].start
             old == SubSeq(text, s + a, j - 1)
             new == SubSeq(q, a, k - 1)
  <2>5. a \in Nat \ {0} /\ c[s].lines \in Seq(Seq(Codes)) /\ d[k-1].lines \in Seq(Seq(Codes))
    <3> HIDE DEF m, n
    <3> QED BY <1>1, <1>3, <1>4, <2>1 DEF CutState
  <2> HIDE DEF a
  <2>6. old = new
    <3>1. SubSeq(SubSeq(text, s + 1, n), a, k - 1) = SubSeq(text, a + (s + 1) - 1, (k - 1) + (s + 1) - 1)
      <4>1. /\ s + 1 \in Nat \ {0} /\ n \in Nat /\ n <= Len(text) /\ s + 1 <= n + 1 /\ k - 1 \in Int
            /\ k - 1 <= n - (s + 1) + 1
        BY <1>1, <2>1
      <4> HIDE DEF n
      <4> QED BY <2>5, <4>1, PartOfPart
    <3>2. a + (s + 1) - 1 = s + a /\ (k - 1) + (s + 1) - 1 = j - 1
      BY <1>1, <2>1, <2>5
    <3> QED BY <3>1, <3>2
  <2>7. CASE text[j] = NL
    <3>1. /\ c[j].lines = Append(c[j-1].lines, SubSeq(text, c[j-1].start, j - 1))
          /\ c[j].start = j + 1
          /\ d[k].lines = Append(d[k-1].lines, SubSeq(q, d[k-1].start, k - 1))
          /\ d[k].start = k + 1
      <4> DEFINE b == c[j-1]
                 e == d[k-1]
      <4>1. q[k] = NL
        <5> HIDE DEF q
        <5> QED BY <2>3, <2>7
      <4>2. /\ AfterChar(text, b, j).lines = Append(b.lines, SubSeq(text, b.start, j - 1))
            /\ AfterChar(text, b, j).start = j + 1
        <5> HIDE DEF b, j
        <5> QED BY <2>7, AfterFields
      <4>3. /\ AfterChar(q, e, k).lines = Append(e.lines, SubSeq(q, e.start, k - 1))
            /\ AfterChar(q, e, k).start = k + 1
        <5> HIDE DEF e, q
        <5> QED BY <4>1, AfterFields
      <4>4. c[j] = AfterChar(text, b, j) /\ d[k] = AfterChar(q, e, k)
        BY <2>4
      <4> HIDE DEF q, j
      <4> QED BY <4>2, <4>3, <4>4
    <3>2. /\ c[j].lines = Append(c[s].lines \o d[k-1].lines, new)
          /\ d[k].lines = Append(d[k-1].lines, new)
      <4>1. SubSeq(text, c[j-1].start, j - 1) = old
        BY <2>3 DEF a
      <4> HIDE DEF q, j, old
      <4> QED BY <2>3, <2>6, <3>1, <4>1 DEF a
    <3>3. new \in Seq(Codes)
      <4>1. k - 1 < Len(q) + 1 /\ \A x \in a..(k-1) : q[x] \in Codes
        <5> HIDE DEF q
        <5> QED BY <1>2, <2>1, <2>5
      <4> HIDE DEF q
      <4> QED BY <1>2, <2>1, <2>5, <4>1, SubSeqProperties
    <3>4. Append(c[s].lines \o d[k-1].lines, new) = c[s].lines \o Append(d[k-1].lines, new)
      <4> DEFINE u == c[s].lines
                 v == d[k-1].lines
                 Line == Seq(Codes)
      <4>1. u \in Seq(Line) /\ v \in Seq(Line) /\ new \in Line
        BY <2>5, <3>3
      <4> HIDE DEF new, u, v, Line
      <4>2. Append(u \o v, new) = u \o Append(v, new)
        <5> DEFINE one == <<new>>
        <5>1. u \o v \in Seq(Line) /\ one \in Seq(Line)
          BY <4>1, ConcatProperties
        <5>2. Append(u \o v, new) = (u \o v) \o one /\ Append(v, new) = v \o one
          BY <4>1, <5>1, AppendIsConcat
        <5> HIDE DEF one
        <5>3. (u \o v) \o one = u \o (v \o one)
          BY <4>1, <5>1, ConcatAssociative, SMTT(30)
        <5> QED BY <5>2, <5>3
      <4> QED BY <4>2 DEF u, v
    <3>5. j + 1 = s + (k + 1)
      BY <2>1
    <3> HIDE DEF new, m
    <3> QED BY <2>1, <3>1, <3>2, <3>4, <3>5
  <2>8. CASE text[j] # NL
    <3>1. c[j] = c[j-1] /\ d[k] = d[k-1]
      <4> HIDE DEF q, j
      <4> QED BY <2>3, <2>4, <2>8 DEF AfterChar
    <3> HIDE DEF m
    <3> QED BY <2>1, <2>3, <3>1
  <2> QED BY <2>7, <2>8
<1>9. 0..m \subseteq S
  <2> HIDE DEF S, m
  <2> QED BY <1>1, <1>7, <1>8, InductTo
<1>10. Good(i)
  <2> HIDE DEF Good
  <2>1. i \in S
    <3> HIDE DEF S
    <3> QED BY <1>9
  <2> QED BY <2>1
<1> QED BY <1>10 DEF c, d

\* Behind its first part, a sequence is its second, and up to there its first.
LEMMA PartsOfConcat ==
  ASSUME NEW A, NEW u \in Seq(A), NEW v \in Seq(A)
  PROVE  /\ SubSeq(u \o v, 1, Len(u)) = u
         /\ SubSeq(u \o v, Len(u) + 1, Len(u \o v)) = v
<1> DEFINE w == u \o v
<1>1. /\ w \in Seq(A) /\ Len(w) = Len(u) + Len(v) /\ Len(u) \in Nat /\ Len(v) \in Nat
      /\ \A i \in 1..Len(w) : w[i] = IF i <= Len(u) THEN u[i] ELSE v[i - Len(u)]
  BY ConcatProperties
<1> HIDE DEF w
<1>2. SubSeq(w, 1, Len(u)) = [i \in 1..Len(u) |-> w[i]]
  BY <1>1
<1>3. \A i \in 1..Len(u) : w[i] = u[i]
  BY <1>1
<1>4. u = [i \in 1..Len(u) |-> u[i]] /\ v = [i \in 1..Len(v) |-> v[i]]
  OBVIOUS
<1>5. SubSeq(w, Len(u) + 1, Len(w)) = [i \in 1..(Len(w) - (Len(u) + 1) + 1) |-> w[i + (Len(u) + 1) - 1]]
  BY <1>1
<1>6. Len(w) - (Len(u) + 1) + 1 = Len(v)
  BY <1>1
<1>7. \A i \in 1..Len(v) : w[i + (Len(u) + 1) - 1] = v[i]
  <2> TAKE i \in 1..Len(v)
  <2>1. i + (Len(u) + 1) - 1 \in 1..Len(w) /\ ~(i + (Len(u) + 1) - 1 <= Len(u))
        /\ (i + (Len(u) + 1) - 1) - Len(u) = i
    BY <1>1
  <2> QED BY <1>1, <2>1
<1>8. SubSeq(w, 1, Len(u)) = u
  BY <1>2, <1>3, <1>4
<1>9. SubSeq(w, Len(u) + 1, Len(w)) = v
  BY <1>4, <1>5, <1>6, <1>7
<1> QED BY <1>8, <1>9 DEF w

\* How many lines a text has: one for every newline, and one more when something
\* stands behind the last.
LEMMA SplitCounts ==
  ASSUME NEW text \in Seq(Codes)
  PROVE  /\ split_lines(text) \in Seq(Seq(Codes))
         /\ Len(split_lines(text)) = Newlines(text, 1, Len(text))
              + (IF text = <<>> \/ text[Len(text)] = NL THEN 0 ELSE 1)
<1> DEFINE n == Len(text)
           end == Cut(text)[n]
           rest == SubSeq(text, end.start, n)
           Line == Seq(Codes)
<1>1. n \in Nat /\ n \in 0..n /\ (text = <<>> <=> n = 0)
  OBVIOUS
<1>2. /\ end.lines \in Seq(Line) /\ end.start \in 1..(n + 1)
      /\ end.start = n + 1 <=> (n = 0 \/ text[n] = NL)
      /\ Len(end.lines) = Newlines(text, 1, n)
  BY <1>1, CutCounts
<1>3. split_lines(text) = IF end.start > n THEN end.lines ELSE Append(end.lines, rest)
  BY DEF split_lines
<1> HIDE DEF end
<1>4. end.start <= n => rest \in Line
  <2> SUFFICES ASSUME end.start <= n PROVE rest \in Line
    OBVIOUS
  <2>1. \A j \in end.start..n : text[j] \in Codes
    BY <1>2
  <2>2. end.start \in 1..(n + 1)
    BY <1>2
  <2> QED BY <1>1, <2>1, <2>2, SubSeqProperties
<1> HIDE DEF rest, Line
<1>5. CASE end.start > n
  <2>1. end.start = n + 1
    BY <1>1, <1>2, <1>5
  <2>2. Newlines(text, 1, n) \in Nat
    BY <1>1, NewlinesIs
  <2> QED BY <1>1, <1>2, <1>3, <1>5, <2>1, <2>2 DEF Line
<1>6. CASE ~(end.start > n)
  <2>1. end.start # n + 1 /\ end.start <= n
    BY <1>1, <1>2, <1>6
  <2>2. split_lines(text) \in Seq(Line) /\ Len(split_lines(text)) = Len(end.lines) + 1
    BY <1>2, <1>3, <1>4, <1>6, <2>1, AppendProperties
  <2> QED BY <1>1, <1>2, <2>1, <2>2 DEF Line
<1> QED BY <1>5, <1>6

\* Where a newline, or nothing, was read last, a text falls into the lines that
\* have ended and those of the rest.
LEMMA SplitInTwo ==
  ASSUME NEW text \in Seq(Codes), NEW s \in 0..Len(text), s = 0 \/ text[s] = NL
  PROVE  LET first == Cut(text)[s].lines
         IN  /\ first \in Seq(Seq(Codes)) /\ Len(first) = Newlines(text, 1, s)
             /\ split_lines(SubSeq(text, 1, s)) = first
             /\ split_lines(text) = first \o split_lines(SubSeq(text, s + 1, Len(text)))
<1> DEFINE n == Len(text)
           m == n - s
           p == SubSeq(text, 1, s)
           q == SubSeq(text, s + 1, n)
           c == Cut(text)
           d == Cut(q)
           Line == Seq(Codes)
           first == c[s].lines
           rest == SubSeq(q, d[m].start, m)
<1>1. n \in Nat /\ m \in Nat /\ s \in Nat /\ s + m = n /\ m \in 0..m
  OBVIOUS
<1>2. first \in Seq(Line) /\ Len(first) = Newlines(text, 1, s) /\ c[s].start = s + 1
  BY CutCounts
<1>3. split_lines(p) = first
  <2>1. p \in Seq(Codes) /\ Len(p) = s
    <3>1. \A j \in 1..s : text[j] \in Codes
      OBVIOUS
    <3> QED BY <3>1, SubSeqProperties
  <2>2. Cut(p)[s] = c[s]
    <3>1. s \in 0..s
      OBVIOUS
    <3> QED BY <3>1, CutOfPrefix
  <2>3. split_lines(p) = IF Cut(p)[s].start > s THEN Cut(p)[s].lines
                         ELSE Append(Cut(p)[s].lines, SubSeq(p, Cut(p)[s].start, s))
    <3> HIDE DEF p
    <3> QED BY <2>1 DEF split_lines
  <2> HIDE DEF p, c
  <2> QED BY <1>1, <1>2, <2>2, <2>3
<1>4. q \in Seq(Codes) /\ Len(q) = m
  <2>1. s + 1 \in 1..(n + 1) /\ n \in ((s + 1) - 1)..n /\ n - (s + 1) + 1 = m
    OBVIOUS
  <2>2. q \in Seq(Codes) /\ Len(q) = IF s + 1 <= n THEN n - (s + 1) + 1 ELSE 0
    <3> DEFINE a == s + 1
    <3>1. a \in Int /\ n \in Int /\ \A j \in a..n : text[j] \in Codes
      OBVIOUS
    <3> HIDE DEF a, n
    <3>2. SubSeq(text, a, n) \in Seq(Codes) /\ Len(SubSeq(text, a, n)) = IF a <= n THEN n - a + 1 ELSE 0
      BY <3>1, SubSeqProperties
    <3> QED BY <3>2 DEF a
  <2> HIDE DEF q, m, n
  <2> QED BY <1>1, <2>1, <2>2
<1>5. c[n].lines = first \o d[m].lines /\ c[n].start = s + d[m].start
  <2>1. c[s + m].lines = c[s].lines \o d[m].lines /\ c[s + m].start = s + d[m].start
    BY <1>1, CutOfSuffix
  <2> HIDE DEF c, d, m, n
  <2> QED BY <1>1, <2>1
<1>6. d[m].lines \in Seq(Line) /\ d[m].start \in 1..(m + 1)
  <2> HIDE DEF q, m
  <2> QED BY <1>1, <1>4, CutCounts
<1>7. split_lines(q) = IF d[m].start > m THEN d[m].lines ELSE Append(d[m].lines, rest)
  <2> HIDE DEF q, m
  <2> QED BY <1>4 DEF split_lines
<1>8. split_lines(text) = IF c[n].start > n THEN c[n].lines
                          ELSE Append(c[n].lines, SubSeq(text, c[n].start, n))
  BY DEF split_lines
<1>9. SubSeq(text, s + d[m].start, n) = rest
  <2> DEFINE a == d[m].start
  <2>1. SubSeq(SubSeq(text, s + 1, n), a, m) = SubSeq(text, a + (s + 1) - 1, m + (s + 1) - 1)
    <3>1. /\ s + 1 \in Nat \ {0} /\ n <= Len(text) /\ s + 1 <= n + 1 /\ m \in Int
          /\ m <= n - (s + 1) + 1 /\ a \in Nat \ {0}
      <4> HIDE DEF d
      <4> QED BY <1>1, <1>6
    <3> HIDE DEF a, m, n
    <3> QED BY <1>1, <3>1, PartOfPart
  <2>2. a + (s + 1) - 1 = s + a /\ m + (s + 1) - 1 = n
    <3> HIDE DEF d
    <3> QED BY <1>1, <1>6
  <2> QED BY <2>1, <2>2
<1>10. d[m].start <= m => rest \in Line
  <2> SUFFICES ASSUME d[m].start <= m PROVE rest \in Line
    OBVIOUS
  <2> HIDE DEF q, m, d
  <2>1. \A j \in d[m].start..m : q[j] \in Codes
    BY <1>1, <1>4, <1>6
  <2> QED BY <1>1, <1>4, <1>6, <2>1, SubSeqProperties
<1> HIDE DEF c, d, q, rest, first, Line, m, n
<1>11. split_lines(text) = first \o split_lines(q)
  <2>1. CASE d[m].start > m
    <3>1. c[n].start > n
      BY <1>1, <1>5, <1>6, <2>1
    <3>2. split_lines(text) = c[n].lines /\ split_lines(q) = d[m].lines
      BY <1>7, <1>8, <2>1, <3>1
    <3> QED BY <1>5, <3>2
  <2>2. CASE ~(d[m].start > m)
    <3> DEFINE v == d[m].lines
    <3>1. rest \in Line /\ v \in Seq(Line)
      BY <1>1, <1>6, <1>10, <2>2
    <3>2. ~(c[n].start > n)
      BY <1>1, <1>5, <1>6, <2>2
    <3>3. split_lines(text) = Append(first \o v, rest) /\ split_lines(q) = Append(v, rest)
      BY <1>5, <1>7, <1>8, <1>9, <2>2, <3>2
    <3> HIDE DEF v
    <3>4. Append(first \o v, rest) = first \o Append(v, rest)
      <4>1. first \o v \in Seq(Line) /\ <<rest>> \in Seq(Line)
        BY <1>2, <3>1, ConcatProperties
      <4>2. Append(first \o v, rest) = (first \o v) \o <<rest>> /\ Append(v, rest) = v \o <<rest>>
        BY <3>1, <4>1, AppendIsConcat
      <4> QED BY <1>2, <3>1, <4>1, <4>2, ConcatAssociative, SMTT(30)
    <3> QED BY <3>3, <3>4
  <2> QED BY <2>1, <2>2
<1> QED BY <1>2, <1>3, <1>11 DEF first, c, q, n, Line

-----------------------------------------------------------------------------
(* head and tail.                                                          *)

\* All of a sequence is the sequence.
LEMMA WholeText ==
  ASSUME NEW A, NEW text \in Seq(A)
  PROVE  SubSeq(text, 1, Len(text)) = text
OBVIOUS

\* A beginning of a text is a prefix of it.
LEMMA PrefixIs ==
  ASSUME NEW A, NEW text \in Seq(A), NEW e \in 0..Len(text)
  PROVE  IsPrefix(SubSeq(text, 1, e), text)
<1> DEFINE p == SubSeq(text, 1, e)
<1>1. p \in Seq(A) /\ Len(p) = e
  OBVIOUS
<1>2. SubSeq(p, 1, Len(p)) = p
  <2> HIDE DEF p
  <2> QED BY <1>1, WholeText
<1> HIDE DEF p
<1>3. SubSeq(text, 1, Len(p)) = p
  BY <1>1 DEF p
<1>4. Len(p) <= Len(text)
  BY <1>1
<1> QED BY <1>2, <1>3, <1>4 DEF IsPrefix, p

\* An end of a text is a suffix of it.
LEMMA SuffixIs ==
  ASSUME NEW A, NEW text \in Seq(A), NEW s \in 0..Len(text)
  PROVE  IsSuffix(SubSeq(text, s + 1, Len(text)), text)
<1> DEFINE n == Len(text)
           m == n - s
           q == SubSeq(text, s + 1, n)
           rq == Reverse(q)
           rt == Reverse(text)
<1>1. n \in Nat /\ m \in Nat /\ m <= n /\ s \in Nat
  OBVIOUS
<1>2. q = [i \in 1..m |-> text[s + i]]
  <2>1. q = [i \in 1..(n - (s + 1) + 1) |-> text[i + (s + 1) - 1]]
    OBVIOUS
  <2>2. n - (s + 1) + 1 = m /\ \A i \in 1..m : i + (s + 1) - 1 = s + i
    OBVIOUS
  <2> HIDE DEF q, m
  <2> QED BY <2>1, <2>2
<1>3. Len(q) = m
  <2> HIDE DEF q, m
  <2> QED BY <1>1, <1>2
<1>4. rq = [i \in 1..m |-> q[(m - i) + 1]] /\ rt = [i \in 1..n |-> text[(n - i) + 1]]
  <2> HIDE DEF q, m
  <2> QED BY <1>3 DEF Reverse
<1>5. Len(rq) = m /\ Len(rt) = n
  <2> HIDE DEF rq, rt, q, m, n
  <2> QED BY <1>1, <1>4
<1>9. rq \in Seq(A) /\ rt \in Seq(A)
  <2>1. \A i \in 1..n : text[(n - i) + 1] \in A
    OBVIOUS
  <2>2. \A i \in 1..m : q[(m - i) + 1] \in A
    <3> TAKE i \in 1..m
    <3>1. (m - i) + 1 \in 1..m /\ s + ((m - i) + 1) \in 1..n
      BY <1>1
    <3> HIDE DEF q, m
    <3> QED BY <1>2, <3>1
  <2> HIDE DEF rq, rt, q, m, n
  <2> QED BY <1>1, <1>4, <2>1, <2>2
<1>6. SubSeq(rq, 1, m) = [i \in 1..m |-> rq[i]] /\ SubSeq(rt, 1, m) = [i \in 1..m |-> rt[i]]
  <2> HIDE DEF rq, rt, q, m, n
  <2>1. m - 1 + 1 = m /\ \A i \in 1..m : i + 1 - 1 = i
    BY <1>1
  <2>2. SubSeq(rq, 1, m) = [i \in 1..(m - 1 + 1) |-> rq[i + 1 - 1]]
    BY <1>1, <1>5, <1>9
  <2>3. SubSeq(rt, 1, m) = [i \in 1..(m - 1 + 1) |-> rt[i + 1 - 1]]
    BY <1>1, <1>5, <1>9
  <2> QED BY <2>1, <2>2, <2>3
<1>7. \A i \in 1..m : rq[i] = rt[i]
  <2> TAKE i \in 1..m
  <2>1. (m - i) + 1 \in 1..m /\ s + ((m - i) + 1) = (n - i) + 1 /\ i \in 1..n
    BY <1>1
  <2> HIDE DEF rq, rt, q, m, n
  <2>2. rq[i] = q[(m - i) + 1] /\ rt[i] = text[(n - i) + 1]
    BY <1>4, <2>1
  <2>3. q[(m - i) + 1] = text[s + ((m - i) + 1)]
    BY <1>2, <2>1
  <2> QED BY <2>1, <2>2, <2>3
<1>8. IsPrefix(rq, rt)
  <2> HIDE DEF rq, rt, q, m, n
  <2> QED BY <1>1, <1>5, <1>6, <1>7 DEF IsPrefix
<1> QED BY <1>8 DEF IsSuffix

\* Where head stops and tail starts.
HeadEnd(text, n) ==
  IF n < 0 THEN Len(text)
  ELSE Min({Len(text)} \union {i \in 0..Len(text) : Newlines(text, 1, i) >= n})

TailStart(text, n) ==
  LET nth == {i \in DOMAIN text : text[i] = NL /\ Newlines(text, i, Len(text)) = n}
  IN  IF nth = {} THEN 0 ELSE Max(nth)

\* head prints the first n lines, or all of the text.
LEMMA HeadCuts ==
  ASSUME NEW text \in Seq(Codes), NEW n \in Int
  PROVE  LET p == SubSeq(text, 1, HeadEnd(text, n))
             lines == split_lines(text)
         IN  /\ IsPrefix(p, text)
             /\ split_lines(p) =
                  IF n < 0 THEN lines
                  ELSE SubSeq(lines, 1, IF n < Len(lines) THEN n ELSE Len(lines))
<1> DEFINE len == Len(text)
           N(i) == Newlines(text, 1, i)
           S == {len} \union {i \in 0..len : N(i) >= n}
           e == HeadEnd(text, n)
           p == SubSeq(text, 1, e)
           lines == split_lines(text)
           Line == Seq(Codes)
<1>1. len \in Nat /\ len \in 0..len /\ len \in S /\ S \subseteq 0..len
  OBVIOUS
<1>2. \A i \in 0..len : N(i) \in Nat /\ N(i) <= N(len)
  <2> TAKE i \in 0..len
  <2>1. i \in Int /\ len \in Int /\ i + 1 \in Int
    OBVIOUS
  <2>2. Newlines(text, 1, i) \in Nat /\ Newlines(text, i + 1, len) \in Nat
    BY <2>1, NewlinesIs
  <2>3. Newlines(text, 1, len) = Newlines(text, 1, i) + Newlines(text, i + 1, len)
    BY <1>1, NewlinesSplit
  <2> QED BY <2>2, <2>3
<1>3. lines \in Seq(Line) /\ Len(lines) \in Nat /\ Len(lines) \in {N(len), N(len) + 1}
  <2>1. N(len) \in Nat
    BY <1>1, <1>2
  <2>2. lines \in Seq(Line) /\ Len(lines) = N(len) + (IF text = <<>> \/ text[Len(text)] = NL THEN 0 ELSE 1)
    BY SplitCounts
  <2> HIDE DEF N, lines, Line
  <2> QED BY <2>1, <2>2
<1>4. e \in 0..len /\ (n >= 0 => e \in S /\ \A y \in S : e <= y)
  <2>1. CASE n < 0
    BY <1>1, <2>1 DEF HeadEnd
  <2>2. CASE n >= 0
    <3>1. e = Min(S)
      BY <2>2 DEF HeadEnd
    <3>2. S \subseteq Nat /\ S # {}
      BY <1>1
    <3>3. Min(S) \in S /\ \A y \in S : Min(S) <= y
      <4> HIDE DEF S
      <4> QED BY <3>2, MinIs
    <3> HIDE DEF S, e
    <3> QED BY <1>1, <3>1, <3>3
  <2> QED BY <2>1, <2>2
<1> HIDE DEF e
<1>5. IsPrefix(p, text)
  BY <1>4, PrefixIs
<1>6. e = len => p = text
  BY WholeText
<1>7. CASE n < 0
  <2>1. e = len
    BY <1>7 DEF HeadEnd, e
  <2> QED BY <1>5, <1>6, <1>7, <2>1 DEF e
<1>8. CASE n >= 0 /\ N(len) < n
  <2>1. \A i \in 0..len : ~(N(i) >= n)
    <3> HIDE DEF N
    <3> QED BY <1>1, <1>2, <1>8
  <2>2. e = len
    <3> HIDE DEF N
    <3> QED BY <1>4, <1>8, <2>1
  <2>3. (IF n < Len(lines) THEN n ELSE Len(lines)) = Len(lines)
    <3> HIDE DEF N, lines
    <3> QED BY <1>1, <1>2, <1>3, <1>8
  <2>4. SubSeq(lines, 1, Len(lines)) = lines
    <3> HIDE DEF lines, Line
    <3> QED BY <1>3, WholeText
  <2>5. split_lines(p) = SubSeq(lines, 1, IF n < Len(lines) THEN n ELSE Len(lines))
    <3> HIDE DEF p
    <3> QED BY <1>6, <2>2, <2>3, <2>4
  <2>6. ~(n < 0)
    <3> HIDE DEF N
    <3> QED BY <1>8
  <2> QED BY <1>5, <2>5, <2>6 DEF e
<1>9. CASE n >= 0 /\ N(len) >= n
  <2>1. N(e) >= n
    <3> HIDE DEF N
    <3> QED BY <1>1, <1>4, <1>9
  <2>2. N(e) = n /\ (e = 0 \/ text[e] = NL)
    <3>1. CASE e = 0
      <4>1. N(e) = 0
        BY <3>1, NewlinesIs
      <4> HIDE DEF N
      <4> QED BY <1>9, <2>1, <3>1, <4>1
    <3>2. CASE e # 0
      <4>1. e - 1 \in 0..len /\ 1 <= e /\ e \in Int
        BY <1>1, <1>4, <3>2
      <4>2. N(e - 1) \in Nat /\ N(e - 1) < n
        <5>1. e - 1 \notin S
          <6> HIDE DEF S
          <6> QED BY <1>4, <1>9, <4>1
        <5>2. N(e - 1) \in Nat /\ ~(N(e - 1) >= n)
          <6> HIDE DEF N
          <6> QED BY <1>2, <4>1, <5>1
        <5> HIDE DEF N
        <5> QED BY <5>2
      <4>3. N(e) = N(e - 1) + (IF text[e] = NL THEN 1 ELSE 0)
        BY <4>1, NewlinesIs
      <4> HIDE DEF N
      <4> QED BY <2>1, <4>2, <4>3
    <3> QED BY <3>1, <3>2
  <2> DEFINE first == Cut(text)[e].lines
             rest == split_lines(SubSeq(text, e + 1, Len(text)))
  <2>3. /\ first \in Seq(Line) /\ Len(first) = n
        /\ split_lines(p) = first /\ lines = first \o rest
    BY <1>4, <2>2, SplitInTwo
  <2>4. rest \in Seq(Line)
    <3>1. SubSeq(text, e + 1, Len(text)) \in Seq(Codes)
      <4>1. \A j \in (e+1)..len : text[j] \in Codes
        BY <1>1, <1>4
      <4>2. e + 1 \in Int /\ len \in Int
        BY <1>1, <1>4
      <4> QED BY <4>1, <4>2, SubSeqProperties
    <3> QED BY <3>1, SplitCounts
  <2> HIDE DEF first, rest, Line, lines, p
  <2>5. SubSeq(lines, 1, Len(first)) = first
    BY <2>3, <2>4, PartsOfConcat
  <2>6. (IF n < Len(lines) THEN n ELSE Len(lines)) = n
    <3>1. Len(lines) = Len(first) + Len(rest) /\ Len(rest) \in Nat
      <4>1. Len(first \o rest) = Len(first) + Len(rest)
        BY <2>3, <2>4, ConcatProperties
      <4>2. Len(rest) \in Nat
        BY <2>4
      <4> QED BY <2>3, <4>1, <4>2
    <3> QED BY <2>3, <3>1
  <2>7. split_lines(p) = SubSeq(lines, 1, IF n < Len(lines) THEN n ELSE Len(lines))
    BY <2>3, <2>5, <2>6
  <2>8. ~(n < 0)
    <3> HIDE DEF N
    <3> QED BY <1>9
  <2> QED BY <1>5, <2>7, <2>8 DEF e, lines, p
<1>10. n < 0 \/ (n >= 0 /\ N(len) < n) \/ (n >= 0 /\ N(len) >= n)
  <2>1. N(len) \in Nat
    BY <1>1, <1>2
  <2> HIDE DEF N
  <2> QED BY <2>1
<1> QED BY <1>7, <1>8, <1>9, <1>10

\* Where tail starts, a line does; the newlines before it are those it leaves out.
LEMMA TailStartIs ==
  ASSUME NEW text \in Seq(Codes), NEW n \in Int
  PROVE  LET s == TailStart(text, n)
             all == Newlines(text, 1, Len(text))
         IN  /\ s \in 0..Len(text) /\ (s = 0 \/ text[s] = NL)
             /\ n <= 0 \/ n > all => s = 0
             /\ n > 0 /\ n <= all => s # 0 /\ Newlines(text, 1, s) = all - n + 1
<1> DEFINE len == Len(text)
           N(i) == Newlines(text, i, len)
           all == Newlines(text, 1, len)
           nth == {i \in 1..len : text[i] = NL /\ N(i) = n}
           s == TailStart(text, n)
<1>1. len \in Nat /\ nth \subseteq 0..len
  OBVIOUS
<1>2. ASSUME NEW i \in 1..len
      PROVE  /\ N(i) \in Nat /\ N(i + 1) \in Nat
             /\ N(i) = N(i + 1) + (IF text[i] = NL THEN 1 ELSE 0)
  <2>1. i \in Int /\ i + 1 \in Int /\ len \in Int /\ i <= len
    OBVIOUS
  <2> HIDE DEF len
  <2> QED BY <2>1, NewlinesIs
<1>3. s = IF nth = {} THEN 0 ELSE Max(nth)
  <2>1. DOMAIN text = 1..len
    OBVIOUS
  <2> QED BY <2>1 DEF TailStart
<1>4. nth # {} => s \in nth
  <2> HIDE DEF nth, len, s
  <2> QED BY <1>1, <1>3, MaxIs
<1>5. ASSUME NEW i \in nth
      PROVE  /\ i \in 1..len /\ text[i] = NL /\ n > 0 /\ n <= all
             /\ Newlines(text, 1, i) = all - n + 1
  <2>1. i \in 1..len /\ text[i] = NL /\ N(i) = n
    OBVIOUS
  <2>2. N(i) = N(i + 1) + 1 /\ N(i + 1) \in Nat
    <3> HIDE DEF N
    <3> QED BY <1>2, <2>1
  <2>3. all = Newlines(text, 1, i) + N(i + 1)
    <3>1. i \in 0..len
      BY <1>1, <2>1
    <3> QED BY <1>1, <3>1, NewlinesSplit
  <2>4. Newlines(text, 1, i) \in Nat /\ Newlines(text, 1, i) >= 1
    <3>1. i \in Int /\ 1 <= i /\ i - 1 \in Int
      BY <1>1, <2>1
    <3>2. /\ Newlines(text, 1, i) = Newlines(text, 1, i - 1) + 1
          /\ Newlines(text, 1, i - 1) \in Nat
      BY <2>1, <3>1, NewlinesIs
    <3> QED BY <3>2
  <2> HIDE DEF N, all
  <2> QED BY <2>1, <2>2, <2>3, <2>4
<1>6. ASSUME n > 0, n <= all PROVE nth # {}
  <2> DEFINE T == {i \in 1..len : N(i) >= n}
  <2>1. all \in Nat /\ all = N(1)
    BY <1>1, NewlinesIs
  <2>2. 1 \in T
    <3>1. len < 1 => all = 0
      BY <1>1, NewlinesIs
    <3>2. 1 \in 1..len
      <4> HIDE DEF all
      <4> QED BY <1>1, <1>6, <2>1, <3>1
    <3> HIDE DEF N, all
    <3> QED BY <1>6, <2>1, <3>2
  <2>3. T \subseteq 0..len /\ T # {}
    <3>1. T \subseteq 0..len
      OBVIOUS
    <3> HIDE DEF T
    <3> QED BY <2>2, <3>1
  <2> DEFINE j == Max(T)
  <2>4. j \in T /\ \A y \in T : j >= y
    <3> HIDE DEF T, len
    <3> QED BY <1>1, <2>3, MaxIs
  <2> HIDE DEF j
  <2>5. j \in 1..len /\ N(j) >= n /\ j + 1 \notin T
    <3>1. j \in 1..len /\ N(j) >= n
      BY <2>4
    <3>2. ~(j >= j + 1)
      BY <3>1
    <3> HIDE DEF T, N
    <3> QED BY <2>4, <3>1, <3>2
  <2>6. N(j + 1) < n
    <3>1. CASE j = len
      <4>1. N(j + 1) = 0
        BY <1>1, <3>1, NewlinesIs
      <4> HIDE DEF N
      <4> QED BY <1>6, <4>1
    <3>2. CASE j # len
      <4>1. j + 1 \in 1..len
        BY <1>1, <2>5, <3>2
      <4>2. ~(N(j + 1) >= n)
        <5> HIDE DEF N
        <5> QED BY <2>5, <4>1
      <4> HIDE DEF N
      <4> QED BY <1>2, <2>5, <4>2
    <3> QED BY <3>1, <3>2
  <2>7. text[j] = NL /\ N(j) = n
    <3> HIDE DEF N
    <3> QED BY <1>2, <2>5, <2>6
  <2>8. j \in nth
    BY <2>5, <2>7
  <2> QED BY <2>8
<1>7. CASE nth = {}
  <2>1. ~(n > 0 /\ n <= all)
    BY <1>6, <1>7
  <2>2. s = 0 /\ 0 \in 0..len
    BY <1>1, <1>3, <1>7
  <2> HIDE DEF all, nth, len
  <2> QED BY <2>1, <2>2 DEF all, len
<1>8. CASE nth # {}
  <2>1. s \in nth
    BY <1>4, <1>8
  <2> HIDE DEF nth, s
  <2>2. /\ s \in 1..len /\ text[s] = NL /\ n > 0 /\ n <= all
        /\ Newlines(text, 1, s) = all - n + 1
    BY <1>5, <2>1
  <2>3. s \in 0..len /\ s # 0
    BY <1>1, <2>2
  <2>4. all \in Nat
    BY <1>1, NewlinesIs
  <2>5. ~(n <= 0 \/ n > all)
    <3> HIDE DEF all
    <3> QED BY <2>2, <2>4
  <2> QED BY <2>2, <2>3, <2>5 DEF s
<1> QED BY <1>7, <1>8

\* tail prints the last n lines, counting the newline that ends the text as one
\* before a line, or all of the text.
LEMMA TailCuts ==
  ASSUME NEW text \in Seq(Codes), NEW n \in Int
  PROVE  LET q == SubSeq(text, TailStart(text, n) + 1, Len(text))
             lines == split_lines(text)
             ended == text # <<>> /\ Last(text) = NL
             k == IF n <= 0 \/ n > Newlines(text, 1, Len(text)) THEN Len(lines)
                  ELSE IF ended THEN n - 1 ELSE n
         IN  /\ IsSuffix(q, text)
             /\ split_lines(q) = SubSeq(lines, Len(lines) - k + 1, Len(lines))
<1> DEFINE len == Len(text)
           all == Newlines(text, 1, len)
           s == TailStart(text, n)
           q == SubSeq(text, s + 1, len)
           lines == split_lines(text)
           ended == text # <<>> /\ Last(text) = NL
           k == IF n <= 0 \/ n > all THEN Len(lines) ELSE IF ended THEN n - 1 ELSE n
           Line == Seq(Codes)
           first == Cut(text)[s].lines
           rest == split_lines(q)
<1>1. /\ s \in 0..len /\ (s = 0 \/ text[s] = NL)
      /\ n <= 0 \/ n > all => s = 0
      /\ n > 0 /\ n <= all => s # 0 /\ Newlines(text, 1, s) = all - n + 1
  BY TailStartIs
<1> HIDE DEF s
<1>2. len \in Nat /\ all \in Nat /\ Newlines(text, 1, 0) = 0 /\ (text = <<>> <=> len = 0)
  <2>1. len \in Nat /\ (text = <<>> <=> len = 0)
    OBVIOUS
  <2> HIDE DEF len
  <2> QED BY <2>1, NewlinesIs
<1>3. IsSuffix(q, text)
  BY <1>1, SuffixIs
<1>4. /\ first \in Seq(Line) /\ Len(first) = Newlines(text, 1, s) /\ lines = first \o rest
  BY <1>1, SplitInTwo
<1>5. rest \in Seq(Line)
  <2>1. q \in Seq(Codes)
    <3>1. \A j \in (s+1)..len : text[j] \in Codes
      BY <1>1, <1>2
    <3>2. s + 1 \in Int /\ len \in Int
      BY <1>1, <1>2
    <3> QED BY <3>1, <3>2, SubSeqProperties
  <2> HIDE DEF q
  <2> QED BY <2>1, SplitCounts
<1>6. Len(lines) = all + (IF ended THEN 0 ELSE IF len = 0 THEN 0 ELSE 1)
  <2>1. Len(lines) = all + (IF text = <<>> \/ text[Len(text)] = NL THEN 0 ELSE 1)
    BY SplitCounts
  <2>2. Last(text) = text[Len(text)]
    BY DEF Last
  <2> HIDE DEF lines, all
  <2> QED BY <1>2, <2>1, <2>2
<1> HIDE DEF first, rest, lines, q, all, ended, Line
<1>7. Len(first) = Len(lines) - k
  <2>1. CASE n <= 0 \/ n > all
    <3>1. k = Len(lines) /\ s = 0 /\ Len(first) = 0
      BY <1>1, <1>2, <1>4, <2>1
    <3>2. Len(lines) \in Nat
      <4> HIDE DEF len
      <4> QED BY <1>2, <1>6
    <3> HIDE DEF k
    <3> QED BY <3>1, <3>2
  <2>2. CASE ~(n <= 0 \/ n > all)
    <3>1. n > 0 /\ n <= all
      BY <1>2, <2>2
    <3>2. s # 0 /\ Newlines(text, 1, s) = all - n + 1
      BY <1>1, <3>1
    <3>3. len # 0
      BY <1>1, <1>2, <3>2
    <3>4. k = IF ended THEN n - 1 ELSE n
      BY <2>2
    <3> HIDE DEF k, len
    <3>5. Len(lines) = all + (IF ended THEN 0 ELSE 1)
      BY <1>6, <3>3
    <3> QED BY <1>2, <1>4, <3>2, <3>4, <3>5
  <2> QED BY <2>1, <2>2
<1> HIDE DEF k, len
<1>8. SubSeq(first \o rest, Len(first) + 1, Len(first \o rest)) = rest
  BY <1>4, <1>5, PartsOfConcat
<1>9. SubSeq(lines, Len(lines) - k + 1, Len(lines)) = rest
  BY <1>4, <1>7, <1>8
<1> QED BY <1>3, <1>9 DEF rest, lines, q, k, ended, all, len, s

-----------------------------------------------------------------------------
(* The order of lines.                                                     *)

\* The character strcmp reads, and that one line comes before another.
At(s, i) == IF i > Len(s) THEN 0 ELSE s[i]

Before(x, y) ==
  \E i \in Nat \ {0} : At(x, i) < At(y, i) /\ \A j \in 1..i - 1 : At(x, j) = At(y, j)

\* What strcmp reads is a character, and its NUL behind the last only.
LEMMA AtIs ==
  ASSUME NEW s \in Seq(Codes), NEW i \in Nat \ {0}
  PROVE  /\ At(s, i) \in Nat
         /\ At(s, i) > 0 <=> i <= Len(s)
<1>1. i <= Len(s) => s[i] \in Codes
  OBVIOUS
<1>2. \A c \in Codes : c \in Nat /\ c > 0
  BY DEF Codes
<1>3. Len(s) \in Nat
  OBVIOUS
<1>4. CASE i <= Len(s)
  <2>1. At(s, i) = s[i]
    BY <1>3, <1>4 DEF At
  <2> QED BY <1>1, <1>2, <1>4, <2>1
<1>5. CASE ~(i <= Len(s))
  <2>1. At(s, i) = 0
    BY <1>3, <1>5 DEF At
  <2> QED BY <1>5, <2>1
<1> QED BY <1>4, <1>5

\* Lines that differ do so at a first character, up to the sum of their lengths.
LEMMA FirstDifference ==
  ASSUME NEW x \in Seq(Codes), NEW y \in Seq(Codes)
  PROVE  LET diff == {i \in 1..Len(x) + Len(y) : At(x, i) # At(y, i)}
         IN  /\ diff = {} => x = y
             /\ diff # {} => /\ Min(diff) \in Nat \ {0}
                             /\ At(x, Min(diff)) # At(y, Min(diff))
                             /\ \A j \in 1..Min(diff) - 1 : At(x, j) = At(y, j)
<1> DEFINE diff == {i \in 1..Len(x) + Len(y) : At(x, i) # At(y, i)}
<1>1. Len(x) \in Nat /\ Len(y) \in Nat
  OBVIOUS
<1>2. ASSUME diff = {} PROVE x = y
  <2>1. \A i \in 1..Len(x) + Len(y) : At(x, i) = At(y, i)
    BY <1>2
  <2>2. ASSUME NEW u \in Seq(Codes), NEW v \in Seq(Codes), Len(u) < Len(v),
               \A i \in 1..Len(u) + Len(v) : At(u, i) = At(v, i)
        PROVE  FALSE
    <3>1. Len(u) + 1 \in Nat \ {0} /\ Len(u) + 1 \in 1..Len(u) + Len(v)
          /\ Len(u) + 1 <= Len(v) /\ ~(Len(u) + 1 <= Len(u))
      BY <2>2
    <3>2. At(v, Len(u) + 1) > 0 /\ ~(At(u, Len(u) + 1) > 0)
      BY <3>1, AtIs
    <3> QED BY <2>2, <3>1, <3>2
  <2>3. Len(x) = Len(y)
    <3>1. \A i \in 1..Len(y) + Len(x) : At(y, i) = At(x, i)
      BY <1>1, <2>1
    <3>2. ~(Len(x) < Len(y))
      BY <2>1, <2>2
    <3>3. ~(Len(y) < Len(x))
      BY <2>2, <3>1
    <3> QED BY <1>1, <3>2, <3>3
  <2>4. \A i \in 1..Len(x) : x[i] = y[i]
    <3> TAKE i \in 1..Len(x)
    <3>1. i \in 1..Len(x) + Len(y) /\ ~(i > Len(x)) /\ ~(i > Len(y))
      BY <1>1, <2>3
    <3> QED BY <2>1, <3>1 DEF At
  <2> QED BY <2>3, <2>4
<1>3. ASSUME diff # {}
      PROVE  /\ Min(diff) \in Nat \ {0}
             /\ At(x, Min(diff)) # At(y, Min(diff))
             /\ \A j \in 1..Min(diff) - 1 : At(x, j) = At(y, j)
  <2> DEFINE m == Min(diff)
  <2>1. diff \subseteq Nat
    BY <1>1
  <2>2. m \in diff /\ \A j \in diff : m <= j
    <3> HIDE DEF diff
    <3> QED BY <1>3, <2>1, MinIs
  <2> HIDE DEF m
  <2>3. m \in 1..Len(x) + Len(y) /\ At(x, m) # At(y, m)
    BY <2>2
  <2>4. \A j \in 1..m - 1 : At(x, j) = At(y, j)
    <3> SUFFICES ASSUME NEW j \in 1..m - 1, At(x, j) # At(y, j) PROVE FALSE
      OBVIOUS
    <3>1. j \in 1..Len(x) + Len(y) /\ ~(m <= j)
      BY <1>1, <2>3
    <3>2. j \in diff
      BY <3>1
    <3> HIDE DEF diff
    <3> QED BY <2>2, <3>1, <3>2
  <2> QED BY <1>1, <2>3, <2>4 DEF m
<1> QED BY <1>2, <1>3

\* strcmp is negative, zero or positive as the one line comes before, is or comes
\* behind the other, and of two lines only one comes before the other.
LEMMA StrcmpIs ==
  ASSUME NEW x \in Seq(Codes), NEW y \in Seq(Codes)
  PROVE  /\ strcmp(x, y) = IF x = y THEN 0 ELSE IF Before(x, y) THEN -1 ELSE 1
         /\ ~(Before(x, y) /\ Before(y, x)) /\ ~Before(x, x)
         /\ x # y => Before(x, y) \/ Before(y, x)
<1> DEFINE diff == {i \in 1..Len(x) + Len(y) : At(x, i) # At(y, i)}
           m == Min(diff)
<1>1. /\ diff = {} => x = y
      /\ diff # {} => /\ m \in Nat \ {0} /\ At(x, m) # At(y, m)
                      /\ \A j \in 1..m - 1 : At(x, j) = At(y, j)
  BY FirstDifference
<1>2. strcmp(x, y) = IF diff = {} THEN 0 ELSE IF At(x, m) < At(y, m) THEN -1 ELSE 1
  BY DEF strcmp, At
<1>3. x = y => diff = {}
  OBVIOUS
<1> HIDE DEF diff, m
<1>4. ASSUME NEW i \in Nat \ {0}, NEW k \in Nat \ {0},
             At(x, i) < At(y, i), \A j \in 1..i - 1 : At(x, j) = At(y, j),
             At(y, k) < At(x, k), \A j \in 1..k - 1 : At(y, j) = At(x, j)
      PROVE  FALSE
  <2>1. At(x, i) \in Nat /\ At(y, i) \in Nat /\ At(x, k) \in Nat /\ At(y, k) \in Nat
    BY AtIs
  <2>2. ~(i < k)
    <3> SUFFICES ASSUME i < k PROVE FALSE
      OBVIOUS
    <3>1. i \in 1..k - 1
      OBVIOUS
    <3> QED BY <1>4, <2>1, <3>1
  <2>3. ~(k < i)
    <3> SUFFICES ASSUME k < i PROVE FALSE
      OBVIOUS
    <3>1. k \in 1..i - 1
      OBVIOUS
    <3> QED BY <1>4, <2>1, <3>1
  <2> QED BY <1>4, <2>1, <2>2, <2>3
<1>5. ~(Before(x, y) /\ Before(y, x))
  BY <1>4 DEF Before
<1>6. ~Before(x, x)
  <2> SUFFICES ASSUME NEW i \in Nat \ {0}, At(x, i) < At(x, i) PROVE FALSE
    BY DEF Before
  <2> QED BY AtIs
<1>7. diff # {} => /\ At(x, m) < At(y, m) => Before(x, y)
                   /\ ~(At(x, m) < At(y, m)) => Before(y, x)
  <2> SUFFICES ASSUME diff # {}
               PROVE  /\ At(x, m) < At(y, m) => Before(x, y)
                      /\ ~(At(x, m) < At(y, m)) => Before(y, x)
    OBVIOUS
  <2>1. At(x, m) \in Nat /\ At(y, m) \in Nat
    BY <1>1, AtIs
  <2>2. ~(At(x, m) < At(y, m)) => At(y, m) < At(x, m)
    BY <1>1, <2>1
  <2> QED BY <1>1, <2>2 DEF Before
<1>8. x # y => Before(x, y) \/ Before(y, x)
  BY <1>1, <1>7
<1>9. strcmp(x, y) = IF x = y THEN 0 ELSE IF Before(x, y) THEN -1 ELSE 1
  BY <1>1, <1>2, <1>3, <1>5, <1>7
<1> QED BY <1>5, <1>6, <1>8, <1>9

\* A line before one that is before a third is before the third.
LEMMA BeforeTransitive ==
  ASSUME NEW x \in Seq(Codes), NEW y \in Seq(Codes), NEW z \in Seq(Codes),
         Before(x, y), Before(y, z)
  PROVE  Before(x, z)
<1>1. PICK i \in Nat \ {0} : At(x, i) < At(y, i) /\ \A j \in 1..i - 1 : At(x, j) = At(y, j)
  BY DEF Before
<1>2. PICK k \in Nat \ {0} : At(y, k) < At(z, k) /\ \A j \in 1..k - 1 : At(y, j) = At(z, j)
  BY DEF Before
<1> DEFINE m == IF i <= k THEN i ELSE k
<1>3. \A j \in Nat \ {0} : At(x, j) \in Nat /\ At(y, j) \in Nat /\ At(z, j) \in Nat
  BY AtIs
<1>4. At(x, m) < At(z, m)
  <2>1. CASE i < k
    <3>1. i \in 1..k - 1 /\ m = i
      BY <2>1
    <3> QED BY <1>1, <1>2, <3>1
  <2>2. CASE k < i
    <3>1. k \in 1..i - 1 /\ m = k
      BY <2>2
    <3> QED BY <1>1, <1>2, <3>1
  <2>3. CASE i = k
    <3>1. m = i
      BY <2>3
    <3>2. At(x, i) \in Nat /\ At(y, i) \in Nat /\ At(z, i) \in Nat
      BY <1>3
    <3> QED BY <1>1, <1>2, <2>3, <3>1, <3>2
  <2> QED BY <2>1, <2>2, <2>3
<1>5. \A j \in 1..m - 1 : At(x, j) = At(z, j)
  <2> TAKE j \in 1..m - 1
  <2>1. j \in 1..i - 1 /\ j \in 1..k - 1
    OBVIOUS
  <2> QED BY <1>1, <1>2, <2>1
<1>6. m \in Nat \ {0}
  OBVIOUS
<1> HIDE DEF m
<1> QED BY <1>4, <1>5, <1>6 DEF Before

\* The value of a line is an integer.
LEMMA AtoiIs ==
  ASSUME NEW s \in Seq(Codes)
  PROVE  atoi(s) \in Int
<1> DEFINE n == Len(s)
           to(from, C) == Min({i \in from..n : i < n => s[i + 1] \notin C})
           blank == to(0, {32} \union 9..13)
           sign  == IF blank < n /\ s[blank + 1] \in {43, 45} THEN s[blank + 1] ELSE 0
           first == IF sign = 0 THEN blank ELSE blank + 1
<1>1. n \in Nat
  OBVIOUS
<1>2. ASSUME NEW from \in 0..n, NEW C PROVE to(from, C) \in from..n
  <2> DEFINE T == {i \in from..n : i < n => s[i + 1] \notin C}
  <2>1. n \in T /\ T \subseteq Nat
    BY <1>1
  <2>2. Min(T) \in T
    <3> HIDE DEF T
    <3> QED BY <2>1, MinIs
  <2> QED BY <2>2
<1>3. blank \in 0..n
  <2> HIDE DEF to
  <2>1. 0 \in 0..n
    BY <1>1
  <2> QED BY <1>2, <2>1
<1>4. first \in 0..n
  <2> HIDE DEF blank
  <2>1. sign # 0 => blank < n
    OBVIOUS
  <2> QED BY <1>1, <1>3, <2>1
<1> DEFINE end == to(first, 48..57)
<1>5. end \in 0..n
  <2> HIDE DEF to, first
  <2>1. to(first, 48..57) \in first..n
    BY <1>2, <1>4
  <2> QED BY <1>1, <1>4, <2>1
<1> DEFINE Then(h, i) == IF i <= first THEN 0 ELSE h[i - 1] * 10 + s[i] - 48
           value == CHOOSE h : h = [i \in 0..n |-> Then(h, i)]
           st == [p \in Int \X (1..n) |-> IF p[2] <= first THEN 0 ELSE p[1] * 10 + s[p[2]] - 48]
<1>6. atoi(s) = IF sign = 45 THEN -value[end] ELSE value[end]
  BY DEF atoi
<1>14. \A c \in Codes : c \in Int
  BY DEF Codes
<1>7. st \in [Int \X (1..n) -> Int]
  <2>1. \A p \in Int \X (1..n) : (IF p[2] <= first THEN 0 ELSE p[1] * 10 + s[p[2]] - 48) \in Int
    <3> TAKE p \in Int \X (1..n)
    <3>1. p[1] \in Int /\ p[2] \in 1..n
      OBVIOUS
    <3>2. s[p[2]] \in Codes
      BY <3>1
    <3>3. s[p[2]] \in Int
      BY <1>14, <3>2
    <3> HIDE DEF first
    <3> QED BY <3>1, <3>3
  <2> HIDE DEF first
  <2> QED BY <2>1
<1> HIDE DEF first, end, sign
<1>8. PICK g \in [0..n -> Int] : g[0] = 0 /\ \A i \in 1..n : g[i] = st[<<g[i-1], i>>]
  <2> HIDE DEF st, n
  <2>1. 0 \in Int
    OBVIOUS
  <2>2. Walks(Int, 0, n, st) # {}
    BY <1>1, <1>7, <2>1, Iterate
  <2> QED BY <2>2 DEF Walks
<1>9. \A i \in 0..n : g[i] = Then(g, i)
  <2> TAKE i \in 0..n
  <2>1. CASE i = 0
    BY <1>4, <1>8, <2>1
  <2>2. CASE i # 0
    <3>1. i \in 1..n /\ g[i-1] \in Int
      BY <1>1, <2>2
    <3> QED BY <1>8, <3>1
  <2> QED BY <2>1, <2>2
<1>10. g = [i \in 0..n |-> Then(g, i)]
  <2> HIDE DEF Then
  <2> QED BY <1>9
<1>11. value = [i \in 0..n |-> Then(value, i)]
  <2> HIDE DEF Then
  <2> QED BY <1>10
<1> HIDE DEF value
<1>12. \A i \in 0..n : value[i] \in Int
  <2> DEFINE S == {i \in 0..n : value[i] \in Int}
  <2>1. \A i \in 0..n : value[i] = Then(value, i)
    BY <1>11
  <2>2. 0 \in S
    <3>1. 0 \in 0..n /\ 0 <= first
      BY <1>1, <1>4
    <3> QED BY <2>1, <3>1
  <2>3. ASSUME NEW i \in 1..n, i - 1 \in S PROVE i \in S
    <3>1. i \in 0..n /\ value[i - 1] \in Int /\ s[i] \in Codes
      BY <1>1, <2>3
    <3>2. s[i] \in Int
      BY <1>14, <3>1
    <3> QED BY <2>1, <3>1, <3>2
  <2>4. 0..n \subseteq S
    <3> HIDE DEF S, n
    <3> QED BY <1>1, <2>2, <2>3, InductTo
  <2> QED BY <2>4
<1>13. value[end] \in Int
  BY <1>5, <1>12
<1> QED BY <1>6, <1>13

\* With every choice of options the comparison orders all lines, and calls only
\* equal lines equal.
LEMMA CompareOrders ==
  ASSUME NEW opts
  PROVE  /\ \A x, y \in Seq(Codes) :
              /\ Compare(opts, x, y) \in {-1, 0, 1}
              /\ Compare(opts, x, y) = 0 <=> x = y
              /\ Compare(opts, y, x) = -Compare(opts, x, y)
         /\ \A x, y, z \in Seq(Codes) :
              Compare(opts, x, y) <= 0 /\ Compare(opts, y, z) <= 0 => Compare(opts, x, z) <= 0
<1> DEFINE Line == Seq(Codes)
           Less(x, y) == IF "n" \in opts
                         THEN atoi(x) < atoi(y) \/ (atoi(x) = atoi(y) /\ Before(x, y))
                         ELSE Before(x, y)
           C(x, y) == IF "n" \in opts THEN cmp_str_num(x, y) ELSE strcmp(x, y)
<1>1. ASSUME NEW x \in Line, NEW y \in Line
      PROVE  /\ C(x, y) = IF x = y THEN 0 ELSE IF Less(x, y) THEN -1 ELSE 1
             /\ ~(Less(x, y) /\ Less(y, x)) /\ ~Less(x, x)
             /\ x # y => Less(x, y) \/ Less(y, x)
  <2>1. /\ strcmp(x, y) = IF x = y THEN 0 ELSE IF Before(x, y) THEN -1 ELSE 1
        /\ ~(Before(x, y) /\ Before(y, x)) /\ ~Before(x, x)
        /\ x # y => Before(x, y) \/ Before(y, x)
    BY StrcmpIs
  <2>2. atoi(x) \in Int /\ atoi(y) \in Int
    BY AtoiIs
  <2> HIDE DEF Line
  <2> QED BY <2>1, <2>2 DEF cmp_str_num
<1>2. ASSUME NEW x \in Line, NEW y \in Line, NEW z \in Line, Less(x, y), Less(y, z)
      PROVE  Less(x, z)
  <2>1. Before(x, y) /\ Before(y, z) => Before(x, z)
    BY BeforeTransitive
  <2>2. atoi(x) \in Int /\ atoi(y) \in Int /\ atoi(z) \in Int
    BY AtoiIs
  <2> HIDE DEF Line
  <2> QED BY <1>2, <2>1, <2>2
<1> HIDE DEF Less, Line
<1>3. \A x, y \in Line : Compare(opts, x, y) = IF "r" \in opts THEN -C(x, y) ELSE C(x, y)
  BY DEF Compare
<1> HIDE DEF C
<1>4. ASSUME NEW x \in Line, NEW y \in Line
      PROVE  /\ Compare(opts, x, y) \in {-1, 0, 1}
             /\ Compare(opts, x, y) = 0 <=> x = y
             /\ Compare(opts, y, x) = -Compare(opts, x, y)
             /\ Compare(opts, x, y) <= 0 <=>
                  (x = y \/ IF "r" \in opts THEN Less(y, x) ELSE Less(x, y))
  <2>1. /\ C(x, y) = IF x = y THEN 0 ELSE IF Less(x, y) THEN -1 ELSE 1
        /\ C(y, x) = IF x = y THEN 0 ELSE IF Less(y, x) THEN -1 ELSE 1
        /\ ~(Less(x, y) /\ Less(y, x))
        /\ x # y => Less(x, y) \/ Less(y, x)
    BY <1>1
  <2>2. /\ Compare(opts, x, y) = IF "r" \in opts THEN -C(x, y) ELSE C(x, y)
        /\ Compare(opts, y, x) = IF "r" \in opts THEN -C(y, x) ELSE C(y, x)
    BY <1>3
  <2>3. CASE "r" \in opts
    <3>1. C(x, y) \in {-1, 0, 1} /\ C(y, x) = -C(x, y) /\ (C(x, y) = 0 <=> x = y)
      BY <2>1
    <3>2. C(x, y) >= 0 <=> (x = y \/ Less(y, x))
      BY <2>1
    <3>3. Compare(opts, x, y) = -C(x, y) /\ Compare(opts, y, x) = -C(y, x)
      BY <2>2, <2>3
    <3> QED BY <2>3, <3>1, <3>2, <3>3
  <2>4. CASE "r" \notin opts
    BY <2>1, <2>2, <2>4
  <2> QED BY <2>3, <2>4
<1>5. ASSUME NEW x \in Line, NEW y \in Line, NEW z \in Line,
             Compare(opts, x, y) <= 0, Compare(opts, y, z) <= 0
      PROVE  Compare(opts, x, z) <= 0
  <2> DEFINE Pre(u, v) == u = v \/ IF "r" \in opts THEN Less(v, u) ELSE Less(u, v)
  <2>1. Pre(x, y) /\ Pre(y, z)
    BY <1>4, <1>5
  <2>2. Pre(x, z)
    BY <1>2, <2>1
  <2> QED BY <1>4, <2>2
<1> QED BY <1>4, <1>5 DEF Line

-----------------------------------------------------------------------------
(* How often something is in a sequence.                                   *)

\* Two sequences behind each other have each element as often as both together.
LEMMA CountConcat ==
  ASSUME NEW A, NEW u \in Seq(A), NEW v \in Seq(A), NEW l
  PROVE  /\ Count(u, l) \in Nat /\ Count(v, l) \in Nat
         /\ Count(u \o v, l) = Count(u, l) + Count(v, l)
<1> DEFINE P(s) == {i \in DOMAIN s : s[i] = l}
           w == u \o v
           Q == {i \in 1..Len(w) : i > Len(u) /\ w[i] = l}
           f == [i \in P(v) |-> i + Len(u)]
<1>1. /\ w \in Seq(A) /\ Len(w) = Len(u) + Len(v) /\ Len(u) \in Nat /\ Len(v) \in Nat
      /\ \A i \in 1..Len(w) : w[i] = IF i <= Len(u) THEN u[i] ELSE v[i - Len(u)]
  BY ConcatProperties
<1> HIDE DEF w
<1>2. ASSUME NEW s \in Seq(A) PROVE IsFiniteSet(P(s)) /\ Cardinality(P(s)) \in Nat
  <2>1. IsFiniteSet(1..Len(s)) /\ P(s) \in SUBSET (1..Len(s))
    <3>1. Len(s) \in Int /\ DOMAIN s = 1..Len(s)
      OBVIOUS
    <3>2. IsFiniteSet(1..Len(s))
      BY <3>1, FS_Interval
    <3> QED BY <3>1, <3>2
  <2> HIDE DEF P
  <2> QED BY <2>1, FS_Subset, FS_CardinalityType
<1>3. P(w) = P(u) \union Q /\ P(u) \intersect Q = {}
  <2>1. DOMAIN w = 1..Len(w) /\ DOMAIN u = 1..Len(u)
    BY <1>1
  <2>2. \A i : i \in P(w) <=> i \in P(u) \/ i \in Q
    <3> TAKE i
    <3>1. i \in 1..Len(u) => i \in 1..Len(w) /\ w[i] = u[i] /\ i <= Len(u)
      BY <1>1
    <3>2. i \in 1..Len(w) => i > Len(u) \/ i \in 1..Len(u)
      BY <1>1
    <3> QED BY <2>1, <3>1, <3>2
  <2>3. \A i : ~(i \in P(u) /\ i \in Q)
    BY <1>1, <2>1
  <2> HIDE DEF P, Q
  <2> QED BY <2>2, <2>3
<1>4. f \in Bijection(P(v), Q)
  <2>1. DOMAIN v = 1..Len(v)
    OBVIOUS
  <2>2. ASSUME NEW i \in P(v) PROVE f[i] = i + Len(u) /\ f[i] \in Q /\ i \in Nat
    <3>1. i \in 1..Len(v) /\ v[i] = l
      BY <2>1
    <3>2. i + Len(u) \in 1..Len(w) /\ ~(i + Len(u) <= Len(u)) /\ (i + Len(u)) - Len(u) = i
          /\ i + Len(u) > Len(u)
      BY <1>1, <3>1
    <3> QED BY <1>1, <3>1, <3>2
  <2>3. ASSUME NEW k \in Q PROVE \E i \in P(v) : f[i] = k
    <3>1. k - Len(u) \in 1..Len(v) /\ ~(k <= Len(u)) /\ (k - Len(u)) + Len(u) = k
      BY <1>1
    <3>2. k - Len(u) \in P(v)
      BY <1>1, <2>1, <3>1
    <3> QED BY <3>1, <3>2
  <2>4. f \in [P(v) -> Q]
    BY <2>2
  <2>5. \A i, j \in P(v) : f[i] = f[j] => i = j
    <3> TAKE i, j \in P(v)
    <3>1. f[i] = i + Len(u) /\ f[j] = j + Len(u) /\ i \in Nat /\ j \in Nat
      BY <2>2
    <3> HIDE DEF f, P
    <3> QED BY <1>1, <3>1
  <2> HIDE DEF f, P, Q
  <2>6. f \in Injection(P(v), Q)
    <3>1. DOMAIN f = P(v)
      BY <2>4
    <3> QED BY <2>4, <2>5, <3>1 DEF Injection, IsInjective
  <2>7. f \in Surjection(P(v), Q)
    BY <2>3, <2>4 DEF Surjection
  <2> QED BY <2>6, <2>7 DEF Bijection
<1>5. IsFiniteSet(Q) /\ Cardinality(Q) = Cardinality(P(v))
  <2>1. ExistsBijection(P(v), Q)
    <3> HIDE DEF f, P, Q
    <3> QED BY <1>4 DEF ExistsBijection
  <2>2. IsFiniteSet(P(v))
    BY <1>2
  <2> HIDE DEF P, Q
  <2> QED BY <2>1, <2>2, FS_Bijection
<1>6. Cardinality(P(w)) = Cardinality(P(u)) + Cardinality(P(v))
  <2>1. IsFiniteSet(P(u)) /\ Cardinality(P(u)) \in Nat /\ Cardinality(P(v)) \in Nat
    BY <1>2
  <2> HIDE DEF P, Q
  <2>2. Cardinality(P(u) \union Q) = Cardinality(P(u)) + Cardinality(Q) - Cardinality(P(u) \intersect Q)
    BY <1>5, <2>1, FS_Union
  <2>3. Cardinality(P(u) \intersect Q) = 0
    BY <1>3, FS_EmptySet
  <2> QED BY <1>3, <1>5, <2>1, <2>2, <2>3
<1>7. \A s : Count(s, l) = Cardinality(P(s))
  BY DEF Count
<1> HIDE DEF P
<1> QED BY <1>2, <1>6, <1>7 DEF w

\* One element is there once.
LEMMA CountOne ==
  ASSUME NEW x, NEW l
  PROVE  Count(<<x>>, l) = IF x = l THEN 1 ELSE 0
<1>1. {i \in DOMAIN <<x>> : <<x>>[i] = l} = IF x = l THEN {1} ELSE {}
  OBVIOUS
<1>2. Cardinality({1}) = 1 /\ Cardinality({}) = 0
  BY FS_Singleton, FS_EmptySet
<1> QED BY <1>1, <1>2 DEF Count

\* What is in a sequence is there at least once.
LEMMA CountIn ==
  ASSUME NEW A, NEW s \in Seq(A), NEW l
  PROVE  l \in Range(s) <=> Count(s, l) # 0
<1> DEFINE P == {i \in DOMAIN s : s[i] = l}
<1>1. IsFiniteSet(P)
  <2>1. IsFiniteSet(1..Len(s)) /\ P \in SUBSET (1..Len(s))
    <3>1. Len(s) \in Int /\ DOMAIN s = 1..Len(s)
      OBVIOUS
    <3>2. IsFiniteSet(1..Len(s))
      BY <3>1, FS_Interval
    <3> QED BY <3>1, <3>2
  <2> HIDE DEF P
  <2> QED BY <2>1, FS_Subset
<1>2. l \in Range(s) <=> P # {}
  BY DEF Range
<1>3. Cardinality(P) = 0 <=> P = {}
  <2> HIDE DEF P
  <2> QED BY <1>1, FS_EmptySet
<1>4. Count(s, l) = Cardinality(P)
  BY DEF Count
<1> HIDE DEF P
<1> QED BY <1>2, <1>3, <1>4

-----------------------------------------------------------------------------
(* Insertion.                                                              *)

\* A line, and lines each of which may stand before those behind it.
Line == Seq(Codes)

InOrder(opts, s) ==
  \A i, j \in 1..Len(s) : i < j => Compare(opts, s[i], s[j]) <= 0

\* Orders as CompareOrders says, of lines as such.
LEMMA Order ==
  ASSUME NEW opts
  PROVE  /\ \A x, y \in Line :
              /\ Compare(opts, x, y) \in {-1, 0, 1}
              /\ Compare(opts, x, y) = 0 <=> x = y
              /\ Compare(opts, y, x) = -Compare(opts, x, y)
         /\ \A x, y, z \in Line :
              Compare(opts, x, y) <= 0 /\ Compare(opts, y, z) <= 0 => Compare(opts, x, z) <= 0
BY CompareOrders DEF Line

\* A line put in its place leaves the lines in order, and adds itself.
LEMMA InsertIs ==
  ASSUME NEW opts, NEW s \in Seq(Line), NEW key \in Line, InOrder(opts, s)
  PROVE  LET r == Insert(opts, s, key)
         IN  /\ r \in Seq(Line) /\ InOrder(opts, r)
             /\ \A l : Count(r, l) = Count(s, l) + (IF key = l THEN 1 ELSE 0)
<1> DEFINE n == Len(s)
           stays == {j \in DOMAIN s : Compare(opts, key, s[j]) >= 0}
           p == Max({0} \union stays)
           u == SubSeq(s, 1, p)
           v == SubSeq(s, p + 1, n)
           r == Insert(opts, s, key)
<1>1. n \in Nat /\ DOMAIN s = 1..n
  OBVIOUS
<1>2. p \in {0} \union stays /\ \A j \in {0} \union stays : p >= j
  <2>1. {0} \union stays \subseteq 0..n /\ {0} \union stays # {}
    BY <1>1
  <2> HIDE DEF stays, n
  <2> QED BY <1>1, <2>1, MaxIs
<1> HIDE DEF p
<1>3. p \in 0..n /\ p \in Nat /\ p <= n
  BY <1>1, <1>2
<1>4. ASSUME NEW i \in 1..n
      PROVE  /\ s[i] \in Line
             /\ i <= p => Compare(opts, s[i], key) <= 0
             /\ i > p => Compare(opts, key, s[i]) <= 0
  <2>1. s[i] \in Line
    BY <1>1
  <2>2. ASSUME i <= p PROVE Compare(opts, s[i], key) <= 0
    <3>1. p \in stays /\ p \in 1..n
      BY <1>1, <1>2, <2>2
    <3>2. Compare(opts, key, s[p]) >= 0 /\ s[p] \in Line
      BY <1>1, <3>1
    <3>3. Compare(opts, s[p], key) <= 0
      <4>1. /\ Compare(opts, key, s[p]) \in {-1, 0, 1}
            /\ Compare(opts, s[p], key) = -Compare(opts, key, s[p])
        BY <3>2, Order
      <4> QED BY <3>2, <4>1
    <3>4. i = p \/ Compare(opts, s[i], s[p]) <= 0
      BY <1>1, <2>2, <3>1 DEF InOrder
    <3> QED BY <2>1, <3>2, <3>3, <3>4, Order
  <2>3. ASSUME i > p PROVE Compare(opts, key, s[i]) <= 0
    <3>1. i \notin stays
      <4>1. ~(p >= i)
        BY <1>3, <2>3
      <4> HIDE DEF stays
      <4> QED BY <1>2, <4>1
    <3>2. ~(Compare(opts, key, s[i]) >= 0)
      BY <1>1, <3>1
    <3>3. Compare(opts, key, s[i]) \in {-1, 0, 1}
      BY <2>1, Order
    <3> QED BY <3>2, <3>3
  <2> QED BY <2>1, <2>2, <2>3
<1>5. u \in Seq(Line) /\ v \in Seq(Line) /\ s = u \o v
      /\ Len(u) = p /\ Len(v) = n - p
      /\ (\A i \in 1..p : u[i] = s[i]) /\ \A i \in 1..n - p : v[i] = s[i + p]
  <2>1. u \in Seq(Line) /\ Len(u) = p /\ \A i \in 1..p : u[i] = s[i]
    <3>1. \A i \in 1..p : s[i] \in Line
      BY <1>3, <1>4
    <3> HIDE DEF n
    <3> QED BY <1>3, <3>1, SubSeqProperties
  <2>2. v \in Seq(Line) /\ Len(v) = n - p /\ \A i \in 1..n - p : v[i] = s[i + p]
    <3> DEFINE a == p + 1
    <3>1. \A i \in a..n : s[i] \in Line
      BY <1>3, <1>4
    <3>2. a \in Int /\ n \in Int /\ a = p + 1
      BY <1>1, <1>3
    <3> HIDE DEF n, a
    <3>3. /\ SubSeq(s, a, n) \in Seq(Line)
          /\ Len(SubSeq(s, a, n)) = IF a <= n THEN n - a + 1 ELSE 0
          /\ \A i \in 1..n - a + 1 : SubSeq(s, a, n)[i] = s[a + i - 1]
      BY <3>1, <3>2, SubSeqProperties
    <3>4. n - a + 1 = n - p /\ \A i \in 1..n - p : a + i - 1 = i + p
      BY <1>1, <1>3, <3>2
    <3>5. v = SubSeq(s, a, n)
      BY <3>2
    <3>6. Len(v) = n - p
      BY <1>1, <1>3, <3>2, <3>3, <3>4, <3>5
    <3> HIDE DEF v
    <3> QED BY <3>3, <3>4, <3>5, <3>6
  <2>3. s = u \o v
    <3> HIDE DEF u, v
    <3> DEFINE w == u \o v
    <3>1. /\ w \in Seq(Line) /\ Len(w) = p + (n - p)
          /\ \A i \in 1..Len(w) : w[i] = IF i <= p THEN u[i] ELSE v[i - p]
      <4>1. /\ w \in Seq(Line) /\ Len(w) = Len(u) + Len(v)
            /\ \A i \in 1..Len(w) : w[i] = IF i <= Len(u) THEN u[i] ELSE v[i - Len(u)]
        BY <2>1, <2>2, ConcatProperties
      <4> HIDE DEF w, n
      <4> QED BY <2>1, <2>2, <4>1
    <3> HIDE DEF w
    <3>2. Len(w) = n
      BY <1>1, <1>3, <3>1
    <3>3. \A i \in 1..n : w[i] = s[i]
      <4> TAKE i \in 1..n
      <4>1. CASE i <= p
        <5>1. i \in 1..p
          BY <1>3, <4>1
        <5> QED BY <2>1, <3>1, <3>2, <4>1, <5>1
      <4>2. CASE ~(i <= p)
        <5>1. i - p \in 1..n - p /\ (i - p) + p = i
          BY <1>1, <1>3, <4>2
        <5> QED BY <2>2, <3>1, <3>2, <4>2, <5>1
      <4> QED BY <4>1, <4>2
    <3>4. s = w
      <4>1. Len(s) = n
        OBVIOUS
      <4> HIDE DEF n
      <4> QED BY <3>1, <3>2, <3>3, <4>1, SeqEqual
    <3> QED BY <3>4 DEF w
  <2> QED BY <2>1, <2>2, <2>3
<1>6. r = u \o <<key>> \o v
  <2>1. r = InsertAt(s, p + 1, key)
    BY DEF Insert, p
  <2>2. InsertAt(s, p + 1, key) = SubSeq(s, 1, (p + 1) - 1) \o <<key>> \o SubSeq(s, p + 1, Len(s))
    BY DEF InsertAt
  <2>3. (p + 1) - 1 = p
    BY <1>3
  <2> HIDE DEF r
  <2> QED BY <2>1, <2>2, <2>3
<1> DEFINE x == u \o <<key>>
<1> HIDE DEF r, u, v
<1>7. /\ <<key>> \in Seq(Line) /\ x \in Seq(Line) /\ Len(x) = p + 1
      /\ (\A i \in 1..p : x[i] = s[i]) /\ x[p + 1] = key
  <2>1. <<key>> \in Seq(Line) /\ Len(<<key>>) = 1 /\ <<key>>[1] = key
    OBVIOUS
  <2>2. /\ x \in Seq(Line) /\ Len(x) = Len(u) + Len(<<key>>)
        /\ \A i \in 1..Len(x) : x[i] = IF i <= Len(u) THEN u[i] ELSE <<key>>[i - Len(u)]
    BY <1>5, <2>1, ConcatProperties
  <2> HIDE DEF x
  <2>3. Len(x) = p + 1
    BY <1>3, <1>5, <2>1, <2>2
  <2>4. \A i \in 1..p : x[i] = s[i]
    <3> TAKE i \in 1..p
    <3>1. i \in 1..Len(x) /\ i <= Len(u)
      BY <1>3, <1>5, <2>3
    <3> QED BY <1>5, <2>2, <3>1
  <2>5. x[p + 1] = key
    <3>1. p + 1 \in 1..Len(x) /\ ~(p + 1 <= Len(u)) /\ (p + 1) - Len(u) = 1
      BY <1>3, <1>5, <2>3
    <3> QED BY <2>1, <2>2, <3>1
  <2> QED BY <2>1, <2>2, <2>3, <2>4, <2>5
<1>8. r \in Seq(Line) /\ \A l : Count(r, l) = Count(s, l) + (IF key = l THEN 1 ELSE 0)
  <2>1. r \in Seq(Line)
    <3> HIDE DEF x
    <3>1. x \o v \in Seq(Line)
      BY <1>5, <1>7, ConcatProperties
    <3> QED BY <1>6, <3>1 DEF x
  <2>2. ASSUME NEW l PROVE Count(r, l) = Count(s, l) + (IF key = l THEN 1 ELSE 0)
    <3>1. Count(s, l) = Count(u, l) + Count(v, l) /\ Count(u, l) \in Nat /\ Count(v, l) \in Nat
      <4>1. Count(u \o v, l) = Count(u, l) + Count(v, l) /\ Count(u, l) \in Nat /\ Count(v, l) \in Nat
        BY <1>5, CountConcat
      <4> QED BY <1>5, <4>1
    <3>2. Count(x, l) = Count(u, l) + Count(<<key>>, l)
      <4> DEFINE k == <<key>>
      <4>1. k \in Seq(Line) /\ x = u \o k
        BY <1>7
      <4> HIDE DEF k, x
      <4>2. Count(u \o k, l) = Count(u, l) + Count(k, l)
        BY <1>5, <4>1, CountConcat
      <4> QED BY <4>1, <4>2 DEF k
    <3>3. Count(r, l) = Count(x, l) + Count(v, l)
      <4> HIDE DEF x
      <4>1. Count(x \o v, l) = Count(x, l) + Count(v, l)
        BY <1>5, <1>7, CountConcat
      <4> QED BY <1>6, <4>1 DEF x
    <3>4. Count(<<key>>, l) = IF key = l THEN 1 ELSE 0
      BY CountOne
    <3> HIDE DEF x
    <3> QED BY <3>1, <3>2, <3>3, <3>4
  <2> QED BY <2>1, <2>2
<1>9. /\ Len(r) = n + 1
      /\ \A i \in 1..n + 1 : r[i] = IF i <= p THEN s[i] ELSE IF i = p + 1 THEN key ELSE s[i - 1]
  <2> DEFINE w == x \o v
  <2>1. r = w
    BY <1>6
  <2>2. /\ Len(w) = Len(x) + Len(v)
        /\ \A i \in 1..Len(w) : w[i] = IF i <= Len(x) THEN x[i] ELSE v[i - Len(x)]
    <3> HIDE DEF x
    <3> QED BY <1>5, <1>7, ConcatProperties
  <2> HIDE DEF w, x, n
  <2>3. Len(w) = n + 1
    BY <1>1, <1>3, <1>5, <1>7, <2>2
  <2>4. ASSUME NEW i \in 1..n + 1
        PROVE  w[i] = IF i <= p THEN s[i] ELSE IF i = p + 1 THEN key ELSE s[i - 1]
    <3>1. CASE i <= p
      <4>1. i \in 1..p /\ i <= Len(x)
        BY <1>3, <1>7, <3>1
      <4> QED BY <1>7, <2>2, <2>3, <3>1, <4>1
    <3>2. CASE i = p + 1
      <4>1. i <= Len(x) /\ ~(i <= p)
        BY <1>3, <1>7, <3>2
      <4> QED BY <1>7, <2>2, <2>3, <3>2, <4>1
    <3>3. CASE i > p + 1
      <4>1. ~(i <= Len(x)) /\ i - Len(x) \in 1..n - p /\ (i - Len(x)) + p = i - 1
            /\ ~(i <= p) /\ i # p + 1
        BY <1>1, <1>3, <1>7, <3>3
      <4> QED BY <1>5, <2>2, <2>3, <4>1
    <3> QED BY <1>3, <3>1, <3>2, <3>3
  <2> QED BY <2>1, <2>3, <2>4
<1>10. InOrder(opts, r)
  <2> SUFFICES ASSUME NEW i \in 1..n + 1, NEW j \in 1..n + 1, i < j
               PROVE  Compare(opts, r[i], r[j]) <= 0
    BY <1>9 DEF InOrder
  <2> HIDE DEF n
  <2>1. \A a, b \in 1..n : a < b => Compare(opts, s[a], s[b]) <= 0
    BY DEF InOrder, n
  <2>2. CASE j <= p
    <3>1. i <= p /\ i \in 1..n /\ j \in 1..n
      BY <1>1, <1>3, <2>2
    <3> QED BY <1>9, <2>1, <2>2, <3>1
  <2>3. CASE j = p + 1
    <3>1. i <= p /\ i \in 1..n /\ ~(j <= p)
      BY <1>1, <1>3, <2>3
    <3> QED BY <1>4, <1>9, <2>3, <3>1
  <2>4. CASE j > p + 1
    <3>1. j - 1 \in 1..n /\ ~(j <= p) /\ j # p + 1 /\ j - 1 > p
      BY <1>1, <1>3, <2>4
    <3>2. r[j] = s[j - 1]
      BY <1>9, <3>1
    <3>3. CASE i <= p
      <4>1. i \in 1..n /\ i < j - 1
        BY <1>1, <1>3, <3>1, <3>3
      <4> QED BY <1>9, <2>1, <3>1, <3>2, <3>3, <4>1
    <3>4. CASE i = p + 1
      <4>1. ~(i <= p)
        BY <1>3, <3>4
      <4>2. r[i] = key
        BY <1>9, <3>4, <4>1
      <4> QED BY <1>4, <3>1, <3>2, <4>2
    <3>5. CASE i > p + 1
      <4>1. i - 1 \in 1..n /\ i - 1 < j - 1 /\ ~(i <= p) /\ i # p + 1
        BY <1>1, <1>3, <3>5
      <4>2. r[i] = s[i - 1]
        BY <1>9, <4>1
      <4> QED BY <2>1, <3>1, <3>2, <4>1, <4>2
    <3> QED BY <1>3, <3>3, <3>4, <3>5
  <2> QED BY <1>3, <2>2, <2>3, <2>4
<1> QED BY <1>8, <1>10 DEF r

-----------------------------------------------------------------------------
(* sort.                                                                   *)

\* A beginning of a sequence is the one before it and one element.
LEMMA OneMore ==
  ASSUME NEW A, NEW s \in Seq(A), NEW i \in 1..Len(s)
  PROVE  /\ SubSeq(s, 1, i - 1) \in Seq(A) /\ SubSeq(s, 1, i) \in Seq(A) /\ s[i] \in A
         /\ SubSeq(s, 1, i) = Append(SubSeq(s, 1, i - 1), s[i])
         /\ SubSeq(s, 1, i) = SubSeq(s, 1, i - 1) \o <<s[i]>>
<1> DEFINE u == SubSeq(s, 1, i - 1)
           w == SubSeq(s, 1, i)
<1>1. Len(s) \in Nat /\ i \in Nat /\ i - 1 \in 0..Len(s) /\ s[i] \in A
  OBVIOUS
<1>2. u \in Seq(A) /\ Len(u) = i - 1 /\ \A j \in 1..i - 1 : u[j] = s[j]
  <2>1. \A j \in 1..i - 1 : s[j] \in A
    OBVIOUS
  <2> QED BY <2>1, SubSeqProperties
<1>3. w \in Seq(A) /\ Len(w) = i /\ \A j \in 1..i : w[j] = s[j]
  <2>1. \A j \in 1..i : s[j] \in A
    OBVIOUS
  <2> QED BY <2>1, SubSeqProperties
<1> HIDE DEF u, w
<1>4. /\ Append(u, s[i]) \in Seq(A) /\ Len(Append(u, s[i])) = i
      /\ \A j \in 1..i : Append(u, s[i])[j] = s[j]
  BY <1>1, <1>2, AppendProperties
<1>5. w = Append(u, s[i])
  <2> DEFINE x == Append(u, s[i])
  <2> HIDE DEF x
  <2>1. x \in Seq(A) /\ Len(x) = i /\ \A j \in 1..i : x[j] = s[j]
    BY <1>4 DEF x
  <2>2. w = x
    BY <1>3, <2>1, SeqEqual
  <2> QED BY <2>2 DEF x
<1>6. Append(u, s[i]) = u \o <<s[i]>>
  BY <1>1, <1>2, AppendIsConcat
<1> QED BY <1>1, <1>2, <1>3, <1>5, <1>6 DEF u, w

\* The insertion sort puts lines in order, and keeps each as often as it was.
LEMMA SortedIs ==
  ASSUME NEW opts, NEW lines \in Seq(Line)
  PROVE  LET s == SortedTo(opts, lines)[Len(lines)]
         IN  /\ s \in Seq(Line) /\ InOrder(opts, s)
             /\ \A l : Count(s, l) = Count(lines, l)
<1> DEFINE n == Len(lines)
           D == {s \in Seq(Line) : InOrder(opts, s)}
           st == [p \in D \X (1..n) |-> Insert(opts, p[1], lines[p[2]])]
           f == SortedTo(opts, lines)
           Then(h, i) == IF i = 0 THEN <<>> ELSE Insert(opts, h[i - 1], lines[i])
<1>1. n \in Nat /\ \A i \in 1..n : lines[i] \in Line
  OBVIOUS
<1>2. ASSUME NEW s \in D, NEW i \in 1..n PROVE Insert(opts, s, lines[i]) \in D
  <2>1. s \in Seq(Line) /\ InOrder(opts, s) /\ lines[i] \in Line
    BY <1>1
  <2>2. Insert(opts, s, lines[i]) \in Seq(Line) /\ InOrder(opts, Insert(opts, s, lines[i]))
    BY <2>1, InsertIs
  <2> QED BY <2>2
<1>3. <<>> \in D
  <2>1. <<>> \in Seq(Line) /\ Len(<<>>) = 0
    OBVIOUS
  <2>2. InOrder(opts, <<>>)
    BY <2>1 DEF InOrder
  <2> QED BY <2>1, <2>2
<1> HIDE DEF D, n
<1>4. st \in [D \X (1..n) -> D]
  <2>1. \A p \in D \X (1..n) : Insert(opts, p[1], lines[p[2]]) \in D
    <3> TAKE p \in D \X (1..n)
    <3>1. p[1] \in D /\ p[2] \in 1..n
      OBVIOUS
    <3> QED BY <1>2, <3>1
  <2> QED BY <2>1
<1>5. PICK g \in [0..n -> D] : g[0] = <<>> /\ \A i \in 1..n : g[i] = st[<<g[i-1], i>>]
  <2> HIDE DEF st
  <2>1. Walks(D, <<>>, n, st) # {}
    BY <1>1, <1>3, <1>4, Iterate
  <2> QED BY <2>1 DEF Walks
<1>6. \A i \in 0..n : g[i] = Then(g, i)
  <2> TAKE i \in 0..n
  <2>1. CASE i = 0
    BY <1>5, <2>1
  <2>2. CASE i # 0
    <3>1. i \in 1..n /\ i - 1 \in 0..n
      BY <1>1, <2>2
    <3>2. <<g[i-1], i>> \in D \X (1..n) /\ g[i] = st[<<g[i-1], i>>]
      <4> HIDE DEF st
      <4> QED BY <1>5, <3>1
    <3> QED BY <2>2, <3>2
  <2> QED BY <2>1, <2>2
<1>7. g = [i \in 0..n |-> Then(g, i)]
  <2> HIDE DEF Then, st
  <2> QED BY <1>5, <1>6
<1>8. f = CHOOSE h : h = [i \in 0..n |-> Then(h, i)]
  BY DEF SortedTo, n
<1>9. f = [i \in 0..n |-> Then(f, i)]
  <2> HIDE DEF Then, f
  <2> QED BY <1>7, <1>8
<1> HIDE DEF f
<1>10. f[0] = <<>> /\ \A i \in 1..n : f[i] = Insert(opts, f[i-1], lines[i])
  <2>1. 0 \in 0..n /\ \A i \in 1..n : i \in 0..n /\ i # 0
    BY <1>1
  <2>2. \A i \in 0..n : f[i] = Then(f, i)
    BY <1>9
  <2> QED BY <2>1, <2>2
<1> DEFINE Good(i) == f[i] \in D /\ \A l : Count(f[i], l) = Count(SubSeq(lines, 1, i), l)
           S == {i \in 0..n : Good(i)}
<1>11. 0 \in S
  <2>1. SubSeq(lines, 1, 0) = <<>>
    BY SubSeqEmpty
  <2>2. f[0] \in D
    BY <1>3, <1>10
  <2>3. ASSUME NEW l PROVE Count(f[0], l) = Count(SubSeq(lines, 1, 0), l)
    BY <1>10, <2>1
  <2>4. 0 \in 0..n
    BY <1>1
  <2> QED BY <2>2, <2>3, <2>4
<1>12. ASSUME NEW i \in 1..n, i - 1 \in S PROVE i \in S
  <2>1. i \in 0..n /\ Good(i - 1) /\ i \in 1..Len(lines)
    BY <1>1, <1>12 DEF n
  <2> DEFINE e == f[i-1]
             key == lines[i]
             u == SubSeq(lines, 1, i - 1)
  <2>2. e \in Seq(Line) /\ InOrder(opts, e) /\ key \in Line
    BY <1>1, <2>1 DEF D
  <2>3. u \in Seq(Line) /\ SubSeq(lines, 1, i) = u \o <<key>>
    BY <2>1, OneMore
  <2>4. f[i] = Insert(opts, e, key)
    BY <1>10
  <2>5. /\ Insert(opts, e, key) \in Seq(Line) /\ InOrder(opts, Insert(opts, e, key))
        /\ \A l : Count(Insert(opts, e, key), l) = Count(e, l) + (IF key = l THEN 1 ELSE 0)
    <3> HIDE DEF e, key
    <3> QED BY <2>2, InsertIs
  <2>6. ASSUME NEW l PROVE Count(f[i], l) = Count(SubSeq(lines, 1, i), l)
    <3> DEFINE k == <<key>>
    <3>1. k \in Seq(Line)
      BY <2>2
    <3>2. Count(k, l) = IF key = l THEN 1 ELSE 0
      BY CountOne
    <3>3. Count(u \o k, l) = Count(u, l) + Count(k, l)
      <4> HIDE DEF k, u
      <4> QED BY <2>3, <3>1, CountConcat
    <3>4. Count(e, l) = Count(u, l)
      BY <2>1
    <3>5. SubSeq(lines, 1, i) = u \o k
      BY <2>3
    <3>6. Count(f[i], l) = Count(e, l) + (IF key = l THEN 1 ELSE 0)
      <4> HIDE DEF e, key
      <4> QED BY <2>4, <2>5
    <3> HIDE DEF e, key, u, k
    <3> QED BY <3>2, <3>3, <3>4, <3>5, <3>6
  <2>7. f[i] \in D
    BY <2>4, <2>5 DEF D
  <2> QED BY <2>1, <2>6, <2>7
<1>13. 0..n \subseteq S
  <2> HIDE DEF S
  <2> QED BY <1>1, <1>11, <1>12, InductTo
<1>14. Good(n)
  <2>1. n \in S
    <3> HIDE DEF S
    <3> QED BY <1>1, <1>13
  <2> QED BY <2>1
<1>15. SubSeq(lines, 1, n) = lines
  BY WholeText DEF n
<1> QED BY <1>14, <1>15 DEF D, f, n

\* What sort prints of lines in order: all of them, or with -u those of them
\* that are left when every line is there once.
LEMMA PrintedIs ==
  ASSUME NEW opts, NEW unique \in BOOLEAN, NEW s \in Seq(Line), InOrder(opts, s)
  PROVE  LET o == PrintedTo(unique, s)[Len(s)]
         IN  /\ o \in Seq(Line) /\ InOrder(opts, o) /\ Range(o) = Range(s)
             /\ \A l \in Range(s) : Count(o, l) = IF unique THEN 1 ELSE Count(s, l)
<1> DEFINE n == Len(s)
           D == Seq(Line)
           Next1(o, i) == IF unique /\ o # <<>> /\ Last(o) = s[i] THEN o ELSE Append(o, s[i])
           st == [p \in D \X (1..n) |-> Next1(p[1], p[2])]
           f == PrintedTo(unique, s)
           Then(h, i) == IF i = 0 THEN <<>>
                         ELSE LET o == h[i - 1]
                              IN  IF unique /\ o # <<>> /\ Last(o) = s[i] THEN o ELSE Append(o, s[i])
<1>1. n \in Nat /\ \A i \in 1..n : s[i] \in Line
  OBVIOUS
<1>2. ASSUME NEW o \in D, NEW i \in 1..n PROVE Next1(o, i) \in D
  <2>1. Append(o, s[i]) \in D
    BY <1>1, AppendProperties
  <2> QED BY <2>1
<1>3. <<>> \in D
  OBVIOUS
<1>4. \A h, i : Then(h, i) = IF i = 0 THEN <<>> ELSE Next1(h[i - 1], i)
  OBVIOUS
<1> HIDE DEF D, n, Next1, Then
<1>5. st \in [D \X (1..n) -> D]
  <2>1. \A p \in D \X (1..n) : Next1(p[1], p[2]) \in D
    <3> TAKE p \in D \X (1..n)
    <3>1. p[1] \in D /\ p[2] \in 1..n
      OBVIOUS
    <3> QED BY <1>2, <3>1
  <2> QED BY <2>1
<1>6. PICK g \in [0..n -> D] : g[0] = <<>> /\ \A i \in 1..n : g[i] = st[<<g[i-1], i>>]
  <2> HIDE DEF st
  <2>1. Walks(D, <<>>, n, st) # {}
    BY <1>1, <1>3, <1>5, Iterate
  <2> QED BY <2>1 DEF Walks
<1>7. \A i \in 0..n : g[i] = Then(g, i)
  <2> TAKE i \in 0..n
  <2>1. CASE i = 0
    BY <1>4, <1>6, <2>1
  <2>2. CASE i # 0
    <3>1. i \in 1..n /\ i - 1 \in 0..n
      BY <1>1, <2>2
    <3>2. <<g[i-1], i>> \in D \X (1..n) /\ g[i] = st[<<g[i-1], i>>]
      <4> HIDE DEF st
      <4> QED BY <1>6, <3>1
    <3> QED BY <1>4, <2>2, <3>2
  <2> QED BY <2>1, <2>2
<1>8. g = [i \in 0..n |-> Then(g, i)]
  <2> HIDE DEF st
  <2> QED BY <1>6, <1>7
<1>9. f = CHOOSE h : h = [i \in 0..n |-> Then(h, i)]
  BY DEF PrintedTo, n, Then
<1>10. f = [i \in 0..n |-> Then(f, i)]
  <2> HIDE DEF f
  <2> QED BY <1>8, <1>9
<1> HIDE DEF f
<1>11. f[0] = <<>> /\ \A i \in 1..n : f[i] = Next1(f[i-1], i)
  <2>1. 0 \in 0..n /\ \A i \in 1..n : i \in 0..n /\ i # 0
    BY <1>1
  <2>2. \A i \in 0..n : f[i] = Then(f, i)
    BY <1>10
  <2> QED BY <1>4, <2>1, <2>2
<1> DEFINE Part(i) == SubSeq(s, 1, i)
<1>12. \A i \in 1..n : /\ Part(i - 1) \in D /\ Part(i) \in D
                       /\ Part(i) = Append(Part(i - 1), s[i])
  <2> TAKE i \in 1..n
  <2>1. i \in 1..Len(s)
    BY DEF n
  <2> QED BY <2>1, OneMore DEF D
<1>13. Part(0) = <<>> /\ Part(n) = s
  BY SubSeqEmpty, WholeText DEF n
<1> HIDE DEF Part
<1>14. \A x, y, z \in Line : /\ Compare(opts, x, y) \in {-1, 0, 1}
                             /\ Compare(opts, x, y) = 0 <=> x = y
                             /\ Compare(opts, y, x) = -Compare(opts, x, y)
                             /\ Compare(opts, x, y) <= 0 /\ Compare(opts, y, z) <= 0 => Compare(opts, x, z) <= 0
  BY Order
<1>15. CASE ~unique
  <2> DEFINE S == {i \in 0..n : f[i] = Part(i)}
  <2>1. 0 \in S
    BY <1>1, <1>11, <1>13
  <2>2. ASSUME NEW i \in 1..n, i - 1 \in S PROVE i \in S
    <3>1. i \in 0..n
      BY <1>1
    <3> QED BY <1>11, <1>12, <1>15, <2>2, <3>1 DEF Next1
  <2>3. 0..n \subseteq S
    <3> HIDE DEF S
    <3> QED BY <1>1, <2>1, <2>2, InductTo
  <2>4. f[n] = s
    <3>1. n \in S
      <4> HIDE DEF S
      <4> QED BY <1>1, <2>3
    <3> QED BY <1>13, <3>1
  <2> QED BY <1>15, <2>4 DEF f, n
<1>16. CASE unique
  <2> DEFINE Good(i) == LET o == f[i]
                        IN  /\ o \in D /\ Range(o) = Range(Part(i))
                            /\ \A a, b \in 1..Len(o) : a < b => Compare(opts, o[a], o[b]) = -1
                            /\ i > 0 => o # <<>> /\ Last(o) = s[i]
             S == {i \in 0..n : Good(i)}
  <2>1. 0 \in S
    <3>1. f[0] = <<>> /\ Len(<<>>) = 0 /\ Part(0) = <<>> /\ 0 \in 0..n /\ ~(0 > 0)
      BY <1>1, <1>11, <1>13
    <3>2. 1..Len(f[0]) = {}
      BY <3>1
    <3> QED BY <1>3, <3>1, <3>2
  <2>2. ASSUME NEW i \in 1..n, i - 1 \in S PROVE i \in S
    <3> DEFINE o == f[i-1]
               key == s[i]
    <3>1. i \in 0..n /\ i > 0 /\ key \in Line /\ Good(i - 1)
      BY <1>1, <2>2
    <3>2. /\ o \in D /\ Range(o) = Range(Part(i - 1))
          /\ \A a, b \in 1..Len(o) : a < b => Compare(opts, o[a], o[b]) = -1
          /\ i > 1 => o # <<>> /\ Last(o) = s[i - 1]
      BY <3>1
    <3>3. f[i] = IF o # <<>> /\ Last(o) = key THEN o ELSE Append(o, key)
      BY <1>11, <1>16 DEF Next1
    <3> HIDE DEF o, key
    <3>4. Range(Part(i)) = Range(Part(i - 1)) \union {key}
      <4> DEFINE w == Part(i - 1)
      <4>1. w \in Seq(Line) /\ Part(i) = Append(w, key)
        BY <1>12 DEF key, D
      <4> HIDE DEF w
      <4>2. Part(i) = w \o <<key>>
        BY <3>1, <4>1, AppendIsConcat
      <4> DEFINE k == <<key>>
      <4>3. k \in Seq(Line) /\ Range(k) = {key} /\ Part(i) = w \o k
        BY <3>1, <4>2 DEF Range
      <4> HIDE DEF k
      <4>4. Range(w \o k) = Range(w) \union Range(k)
        BY <4>1, <4>3, RangeConcatenation
      <4> QED BY <4>3, <4>4 DEF w
    <3>5. CASE o # <<>> /\ Last(o) = key
      <4>1. f[i] = o
        BY <3>3, <3>5
      <4>2. key \in Range(o)
        <5>1. Len(o) \in DOMAIN o
          BY <3>2, <3>5 DEF D
        <5> QED BY <3>5, <5>1 DEF Range, Last
      <4>3. Range(o) = Range(Part(i))
        BY <3>2, <3>4, <4>2
      <4> QED BY <3>1, <3>2, <3>5, <4>1, <4>3 DEF key
    <3>6. CASE ~(o # <<>> /\ Last(o) = key)
      <4> DEFINE w == Append(o, key)
      <4>1. f[i] = w
        BY <3>3, <3>6
      <4>2. /\ o \in Seq(Line) /\ w \in Seq(Line) /\ Len(w) = Len(o) + 1 /\ Len(o) \in Nat
            /\ w[Len(w)] = key /\ \A a \in 1..Len(o) : w[a] = o[a]
        <5>1. o \in Seq(Line)
          BY <3>2 DEF D
        <5> QED BY <3>1, <5>1, AppendProperties
      <4>3. Range(w) = Range(o) \union {key}
        <5> DEFINE k == <<key>>
        <5>1. k \in Seq(Line) /\ Range(k) = {key} /\ w = o \o k
          BY <3>1, <4>2, AppendIsConcat DEF Range
        <5> HIDE DEF k, w
        <5>2. Range(o \o k) = Range(o) \union Range(k)
          BY <4>2, <5>1, RangeConcatenation
        <5> QED BY <5>1, <5>2
      <4> HIDE DEF w
      <4>4. ASSUME NEW a \in 1..Len(o) PROVE Compare(opts, o[a], key) = -1
        <5> DEFINE last == o[Len(o)]
        <5>1. o # <<>> /\ Len(o) \in 1..Len(o) /\ o[a] \in Line /\ last \in Line
          BY <4>2
        <5>2. i > 1
          <6> SUFFICES ASSUME i = 1 PROVE FALSE
            BY <3>1
          <6>1. o = <<>>
            BY <1>11 DEF o
          <6> QED BY <5>1, <6>1
        <5>3. last = s[i - 1] /\ last # key
          BY <3>2, <3>6, <5>1, <5>2 DEF Last
        <5>4. Compare(opts, last, key) <= 0
          <6>1. i - 1 \in 1..Len(s) /\ i \in 1..Len(s) /\ i - 1 < i
            BY <1>1, <5>2 DEF n
          <6> QED BY <5>3, <6>1 DEF InOrder, key
        <5>5. a = Len(o) \/ Compare(opts, o[a], last) = -1
          BY <3>2, <4>2, <5>1
        <5> HIDE DEF last
        <5>6. Compare(opts, last, key) = -1
          BY <1>14, <3>1, <5>1, <5>3, <5>4
        <5>7. CASE a = Len(o)
          BY <5>6, <5>7 DEF last
        <5>8. CASE Compare(opts, o[a], last) = -1
          <6>1. Compare(opts, o[a], key) <= 0
            BY <1>14, <3>1, <5>1, <5>6, <5>8
          <6>2. o[a] # key
            <7> SUFFICES ASSUME o[a] = key PROVE FALSE
              OBVIOUS
            <7>1. Compare(opts, key, last) = -Compare(opts, last, key)
              BY <1>14, <3>1, <5>1
            <7> QED BY <5>6, <5>8, <7>1
          <6>3. Compare(opts, o[a], key) \in {-1, 0, 1} /\ Compare(opts, o[a], key) # 0
            BY <1>14, <3>1, <5>1, <6>2
          <6> QED BY <6>1, <6>3
        <5> QED BY <5>5, <5>7, <5>8
      <4>5. ASSUME NEW a \in 1..Len(w), NEW b \in 1..Len(w), a < b
            PROVE  Compare(opts, w[a], w[b]) = -1
        <5>1. a \in 1..Len(o) /\ (b = Len(w) \/ b \in 1..Len(o))
          <6> DEFINE m == Len(o)
          <6>1. Len(w) = m + 1 /\ m \in Nat
            BY <4>2
          <6> HIDE DEF m
          <6>2. a \in 1..m /\ (b = m + 1 \/ b \in 1..m)
            BY <4>5, <6>1
          <6> QED BY <6>1, <6>2 DEF m
        <5> QED BY <3>2, <4>2, <4>4, <4>5, <5>1
      <4>6. w # <<>> /\ Last(w) = key /\ w \in D
        BY <4>2 DEF Last, D
      <4> QED BY <3>1, <3>2, <3>4, <4>1, <4>3, <4>5, <4>6 DEF key
    <3> QED BY <3>5, <3>6
  <2>3. 0..n \subseteq S
    <3> HIDE DEF S
    <3> QED BY <1>1, <2>1, <2>2, InductTo
  <2>4. Good(n)
    <3>1. n \in S
      <4> HIDE DEF S
      <4> QED BY <1>1, <2>3
    <3> QED BY <3>1
  <2> DEFINE o == f[n]
  <2>5. /\ o \in Seq(Line) /\ Range(o) = Range(s) /\ Len(o) \in Nat
        /\ \A a, b \in 1..Len(o) : a < b => Compare(opts, o[a], o[b]) = -1
    BY <1>13, <2>4 DEF D
  <2> HIDE DEF o
  <2>6. InOrder(opts, o)
    <3>1. -1 <= 0
      OBVIOUS
    <3> QED BY <2>5, <3>1 DEF InOrder
  <2>7. ASSUME NEW l \in Range(s) PROVE Count(o, l) = 1
    <3> DEFINE P == {i \in DOMAIN o : o[i] = l}
    <3>1. DOMAIN o = 1..Len(o) /\ l \in Range(o)
      BY <2>5
    <3>2. PICK a \in 1..Len(o) : o[a] = l
      BY <3>1 DEF Range
    <3>3. ASSUME NEW b \in 1..Len(o), o[b] = l PROVE a = b
      <4>1. o[a] \in Line /\ Compare(opts, l, l) = 0
        <5>1. o[a] \in Line
          BY <2>5
        <5> QED BY <1>14, <3>2, <5>1
      <4>2. ~(a < b) /\ ~(b < a)
        BY <2>5, <3>2, <3>3, <4>1
      <4> QED BY <4>2
    <3>4. P = {a}
      BY <3>1, <3>2, <3>3
    <3>5. Cardinality(P) = 1
      BY <3>4, FS_Singleton
    <3> QED BY <3>5 DEF Count
  <2> QED BY <1>16, <2>5, <2>6, <2>7 DEF o, f, n
<1> QED BY <1>15, <1>16

-----------------------------------------------------------------------------
(* uniq.                                                                   *)

\* What FlattenSeq has put together after each of its sequences.
LEMMA FlattenIs ==
  ASSUME NEW A, NEW ss \in Seq(Seq(A)), ss # <<>>
  PROVE  \E h \in [1..Len(ss) -> Seq(A)] :
           /\ h[1] = ss[1]
           /\ \A i \in 2..Len(ss) : h[i] = h[i-1] \o ss[i]
           /\ FlattenSeq(ss) = h[Len(ss)]
<1> DEFINE n == Len(ss)
           B == Seq(A)
           m == n - 1
           st == [p \in B \X (1..m) |-> p[1] \o ss[p[2] + 1]]
           Then(h, i) == IF i = 1 THEN ss[i] ELSE h[i-1] \o ss[i]
           f == CHOOSE h : h = [i \in 1..n |-> Then(h, i)]
<1>1. n \in Nat /\ n # 0 /\ m \in Nat /\ m + 1 = n /\ \A i \in 1..n : ss[i] \in B
  <2>1. n \in Nat /\ n # 0 /\ \A i \in 1..n : ss[i] \in B
    OBVIOUS
  <2> HIDE DEF n
  <2> QED BY <2>1
<1>2. \A x, y \in B : x \o y \in B
  BY ConcatProperties
<1>3. FlattenSeq(ss) = f[n]
  <2>1. FlattenSeq(ss) = IF n = 0 THEN ss ELSE f[n]
    BY DEF FlattenSeq
  <2> HIDE DEF f, n
  <2> QED BY <1>1, <2>1
<1> HIDE DEF n, m, B
<1>4. st \in [B \X (1..m) -> B]
  <2>1. \A p \in B \X (1..m) : p[1] \o ss[p[2] + 1] \in B
    <3> TAKE p \in B \X (1..m)
    <3>1. p[1] \in B /\ p[2] \in 1..m
      OBVIOUS
    <3>2. p[2] + 1 \in 1..n
      BY <1>1, <3>1
    <3> QED BY <1>1, <1>2, <3>1, <3>2
  <2> QED BY <2>1
<1>5. PICK g \in [0..m -> B] : g[0] = ss[1] /\ \A i \in 1..m : g[i] = st[<<g[i-1], i>>]
  <2> HIDE DEF st
  <2>1. ss[1] \in B
    BY <1>1
  <2>2. Walks(B, ss[1], m, st) # {}
    BY <1>1, <1>4, <2>1, Iterate
  <2> QED BY <2>2 DEF Walks
<1> DEFINE h == [i \in 1..n |-> g[i-1]]
<1>6. h \in [1..n -> B] /\ \A i \in 1..n : h[i] = Then(h, i)
  <2>1. \A i \in 1..n : i - 1 \in 0..m
    BY <1>1
  <2>2. h \in [1..n -> B]
    BY <1>5, <2>1
  <2>3. ASSUME NEW i \in 1..n PROVE h[i] = Then(h, i)
    <3>1. CASE i = 1
      BY <1>1, <1>5, <3>1
    <3>2. CASE i # 1
      <4> DEFINE j == i - 1
      <4>1. j \in 1..m /\ j \in 1..n /\ j + 1 = i /\ j - 1 \in 0..m
        BY <1>1, <3>2
      <4> HIDE DEF j
      <4>2. h[i] = g[j] /\ h[j] = g[j-1] /\ i - 1 = j
        BY <4>1 DEF j
      <4>3. g[j] = g[j-1] \o ss[j + 1]
        <5>1. <<g[j-1], j>> \in B \X (1..m) /\ g[j] = st[<<g[j-1], j>>]
          <6> HIDE DEF st
          <6> QED BY <1>5, <4>1
        <5> QED BY <5>1
      <4> HIDE DEF h
      <4> QED BY <3>2, <4>1, <4>2, <4>3
    <3> QED BY <3>1, <3>2
  <2> QED BY <2>2, <2>3
<1> HIDE DEF h
<1>7. h = [i \in 1..n |-> Then(h, i)]
  <2> HIDE DEF Then
  <2> QED BY <1>6
<1>8. f = [i \in 1..n |-> Then(f, i)]
  <2> HIDE DEF Then
  <2> QED BY <1>7
<1> HIDE DEF f
<1>9. \A i \in 1..n : f[i] = Then(f, i)
  BY <1>8
<1>10. f[1] = ss[1] /\ \A i \in 2..n : f[i] = f[i-1] \o ss[i]
  <2>1. 1 \in 1..n /\ \A i \in 2..n : i \in 1..n /\ i # 1
    BY <1>1
  <2> QED BY <1>9, <2>1
<1>11. \A i \in 1..n : f[i] \in B
  <2> DEFINE S == {i \in 0..n : i = 0 \/ f[i] \in B}
  <2>1. 0 \in S
    BY <1>1
  <2>2. ASSUME NEW i \in 1..n, i - 1 \in S PROVE i \in S
    <3>1. i \in 0..n /\ ss[i] \in B
      BY <1>1
    <3>2. CASE i = 1
      BY <1>10, <3>1, <3>2
    <3>3. CASE i # 1
      <4>1. i \in 2..n /\ f[i-1] \in B
        BY <1>1, <2>2, <3>3
      <4> QED BY <1>2, <1>10, <3>1, <4>1
    <3> QED BY <3>2, <3>3
  <2>3. 0..n \subseteq S
    <3> HIDE DEF S
    <3> QED BY <1>1, <2>1, <2>2, InductTo
  <2>4. \A i \in 1..n : i \in 0..n /\ i # 0
    BY <1>1
  <2> QED BY <2>3, <2>4
<1>12. f \in [1..n -> B]
  <2>1. DOMAIN f = 1..n
    BY <1>8
  <2>2. f = [i \in 1..n |-> f[i]]
    <3> HIDE DEF Then
    <3> QED BY <1>8, <2>1
  <2> HIDE DEF Then
  <2> QED BY <1>11, <2>2
<1> QED BY <1>3, <1>10, <1>12 DEF n, B

\* A sequence behind the others is flattened behind them.
LEMMA FlattenSnoc ==
  ASSUME NEW A, NEW ss \in Seq(Seq(A)), NEW t \in Seq(A)
  PROVE  /\ FlattenSeq(ss) \in Seq(A)
         /\ FlattenSeq(Append(ss, t)) = FlattenSeq(ss) \o t
<1> DEFINE B == Seq(A)
           w == Append(ss, t)
           n == Len(ss)
<1>1. /\ w \in Seq(B) /\ Len(w) = n + 1 /\ n \in Nat /\ w # <<>>
      /\ w[n + 1] = t /\ \A i \in 1..n : w[i] = ss[i]
  <2>1. ss \in Seq(B) /\ t \in B
    OBVIOUS
  <2> HIDE DEF B
  <2>2. w \in Seq(B) /\ Len(w) = n + 1 /\ n \in Nat
    BY <2>1, AppendProperties
  <2>3. w[n + 1] = t /\ \A i \in 1..n : w[i] = ss[i]
    BY <2>1, AppendProperties
  <2> QED BY <2>2, <2>3
<1> HIDE DEF w
<1>2. PICK h \in [1..n + 1 -> B] :
        /\ h[1] = w[1] /\ \A i \in 2..n + 1 : h[i] = h[i-1] \o w[i]
        /\ FlattenSeq(w) = h[n + 1]
  <2>1. w \in Seq(Seq(A))
    BY <1>1
  <2>2. \E h \in [1..Len(w) -> Seq(A)] :
          /\ h[1] = w[1] /\ \A i \in 2..Len(w) : h[i] = h[i-1] \o w[i]
          /\ FlattenSeq(w) = h[Len(w)]
    BY <1>1, <2>1, FlattenIs
  <2>3. Len(w) = n + 1
    BY <1>1
  <2> HIDE DEF n
  <2> QED BY <2>2, <2>3 DEF B
<1>3. CASE ss = <<>>
  <2>1. FlattenSeq(ss) = <<>> /\ n = 0
    BY <1>3 DEF FlattenSeq
  <2>2. FlattenSeq(w) = t
    BY <1>1, <1>2, <2>1
  <2>3. <<>> \o t = t /\ <<>> \in Seq(A)
    BY ConcatEmptySeq
  <2> QED BY <2>1, <2>2, <2>3 DEF w
<1>4. CASE ss # <<>>
  <2>1. PICK g \in [1..n -> B] :
          /\ g[1] = ss[1] /\ \A i \in 2..n : g[i] = g[i-1] \o ss[i]
          /\ FlattenSeq(ss) = g[n]
    BY <1>4, FlattenIs
  <2>2. n # 0
    BY <1>4
  <2> HIDE DEF n, B
  <2> DEFINE S == {i \in 0..n : i = 0 \/ h[i] = g[i]}
  <2>3. 0 \in S
    BY <1>1
  <2>4. ASSUME NEW i \in 1..n, i - 1 \in S PROVE i \in S
    <3>1. i \in 0..n /\ w[i] = ss[i]
      BY <1>1
    <3>2. CASE i = 1
      BY <1>2, <2>1, <3>1, <3>2
    <3>3. CASE i # 1
      <4>1. i \in 2..n /\ i \in 2..n + 1 /\ h[i-1] = g[i-1]
        BY <1>1, <2>4, <3>3
      <4> QED BY <1>2, <2>1, <3>1, <4>1
    <3> QED BY <3>2, <3>3
  <2>5. 0..n \subseteq S
    <3> HIDE DEF S
    <3> QED BY <1>1, <2>3, <2>4, InductTo
  <2>6. h[n] = g[n] /\ g[n] \in B
    <3>1. n \in 0..n /\ n \in 1..n
      BY <1>1, <2>2
    <3>2. n \in S
      <4> HIDE DEF S
      <4> QED BY <2>5, <3>1
    <3> QED BY <2>1, <2>2, <3>1, <3>2
  <2>7. h[n + 1] = h[n] \o t
    <3>1. n + 1 \in 2..n + 1 /\ (n + 1) - 1 = n
      BY <1>1, <2>2
    <3> QED BY <1>1, <1>2, <3>1
  <2> QED BY <1>2, <2>1, <2>6, <2>7 DEF w, B
<1> QED BY <1>3, <1>4

\* A line with how often uniq found it in a row, and that many of it.
Run == [line : Line, run : Nat \ {0}]

Row(r) == [k \in 1..r.run |-> r.line]

Rows(o) == [i \in DOMAIN o |-> [k \in 1..o[i].run |-> o[i].line]]

\* A line with its count, behind others, gives that many of it behind theirs.
LEMMA RowsSnoc ==
  ASSUME NEW o \in Seq(Run), NEW r \in Run
  PROVE  /\ Row(r) \in Seq(Line) /\ Rows(o) \in Seq(Seq(Line))
         /\ FlattenSeq(Rows(o)) \in Seq(Line)
         /\ FlattenSeq(Rows(Append(o, r))) = FlattenSeq(Rows(o)) \o Row(r)
<1> DEFINE w == Append(o, r)
           n == Len(o)
           B == Seq(Line)
<1>1. ASSUME NEW x \in Run PROVE Row(x) \in B
  <2>1. x.line \in Line /\ x.run \in Nat
    BY DEF Run
  <2> QED BY <2>1 DEF Row
<1>2. \A x \in Seq(Run) : Rows(x) = [i \in 1..Len(x) |-> Row(x[i])]
  <2> TAKE x \in Seq(Run)
  <2>1. DOMAIN x = 1..Len(x)
    OBVIOUS
  <2> QED BY <2>1 DEF Rows, Row
<1>3. \A x \in Seq(Run) : Rows(x) \in Seq(B) /\ Len(Rows(x)) = Len(x)
                          /\ \A i \in 1..Len(x) : Rows(x)[i] = Row(x[i])
  <2> TAKE x \in Seq(Run)
  <2>1. Len(x) \in Nat /\ \A i \in 1..Len(x) : Row(x[i]) \in B
    <3>1. Len(x) \in Nat /\ \A i \in 1..Len(x) : x[i] \in Run
      OBVIOUS
    <3> HIDE DEF B
    <3> QED BY <1>1, <3>1
  <2>2. Rows(x) = [i \in 1..Len(x) |-> Row(x[i])]
    BY <1>2
  <2> HIDE DEF B
  <2> DEFINE m == Len(x)
             y == Rows(x)
  <2>3. m \in Nat /\ y = [i \in 1..m |-> Row(x[i])] /\ \A i \in 1..m : Row(x[i]) \in B
    BY <2>1, <2>2
  <2> HIDE DEF m, y
  <2>4. y \in Seq(B) /\ Len(y) = m /\ \A i \in 1..m : y[i] = Row(x[i])
    BY <2>3
  <2> QED BY <2>4 DEF m, y
<1>4. /\ w \in Seq(Run) /\ Len(w) = n + 1 /\ n \in Nat /\ w[n + 1] = r
      /\ \A i \in 1..n : w[i] = o[i]
  BY AppendProperties
<1>5. Rows(w) = Append(Rows(o), Row(r))
  <2> DEFINE y == Rows(o)
             z == Row(r)
             x == Append(y, z)
  <2>1. y \in Seq(B) /\ Len(y) = n /\ (\A i \in 1..n : y[i] = Row(o[i])) /\ z \in B
    BY <1>1, <1>3
  <2> HIDE DEF y, z, B
  <2>2. /\ x \in Seq(B) /\ Len(x) = n + 1 /\ x[n + 1] = z
        /\ \A i \in 1..n : x[i] = y[i]
    BY <2>1, AppendProperties
  <2> HIDE DEF x, w, n
  <2>3. Rows(w) \in Seq(B) /\ Len(Rows(w)) = n + 1 /\ \A i \in 1..n + 1 : Rows(w)[i] = Row(w[i])
    BY <1>3, <1>4
  <2>4. \A i \in 1..n + 1 : Rows(w)[i] = x[i]
    <3> TAKE i \in 1..n + 1
    <3>1. i \in 1..n \/ i = n + 1
      BY <1>4
    <3> QED BY <1>4, <2>1, <2>2, <2>3, <3>1 DEF z
  <2>5. Rows(w) = x
    BY <2>2, <2>3, <2>4, SeqEqual
  <2> QED BY <2>5 DEF x, y, z
<1>6. Row(r) \in Seq(Line) /\ Rows(o) \in Seq(Seq(Line))
  BY <1>1, <1>3
<1> HIDE DEF w
<1>7. FlattenSeq(Rows(o)) \in Seq(Line) /\ FlattenSeq(Append(Rows(o), Row(r))) = FlattenSeq(Rows(o)) \o Row(r)
  <2> DEFINE y == Rows(o)
             z == Row(r)
  <2>1. y \in Seq(Seq(Line)) /\ z \in Seq(Line)
    BY <1>6
  <2> HIDE DEF y, z
  <2>2. FlattenSeq(y) \in Seq(Line) /\ FlattenSeq(Append(y, z)) = FlattenSeq(y) \o z
    BY <2>1, FlattenSnoc
  <2> QED BY <2>2 DEF y, z
<1> QED BY <1>5, <1>6, <1>7 DEF w

\* Counting a line once more.
LEMMA GrowsByOne ==
  ASSUME NEW o \in Seq(Run), o # <<>>
  PROVE  LET w == [o EXCEPT ![Len(o)].run = @ + 1]
         IN  /\ w \in Seq(Run) /\ Len(w) = Len(o) /\ w # <<>>
             /\ \A i \in 1..Len(o) : w[i].line = o[i].line
             /\ FlattenSeq(Rows(w)) = Append(FlattenSeq(Rows(o)), Last(o).line)
<1> DEFINE n == Len(o)
           r == o[n]
           r1 == [line |-> r.line, run |-> r.run + 1]
           u == SubSeq(o, 1, n - 1)
           w == [o EXCEPT ![n].run = @ + 1]
<1>1. n \in Nat /\ n \in 1..n /\ n - 1 \in Nat /\ r \in Run
  OBVIOUS
<1>2. r.line \in Line /\ r.run \in Nat \ {0} /\ r1 \in Run
  <2>1. r.line \in Line /\ r.run \in Nat \ {0}
    BY <1>1 DEF Run
  <2> QED BY <2>1 DEF Run
<1>3. w = [i \in 1..n |-> IF i = n THEN r1 ELSE o[i]]
  <2>1. [r EXCEPT !.run = @ + 1] = r1
    <3>1. r \in [line : Line, run : Nat \ {0}]
      BY <1>1 DEF Run
    <3> HIDE DEF r
    <3> QED BY <3>1
  <2>2. w = [o EXCEPT ![n] = [r EXCEPT !.run = @ + 1]]
    OBVIOUS
  <2>3. DOMAIN o = 1..n
    OBVIOUS
  <2> HIDE DEF w, r1
  <2>4. w = [o EXCEPT ![n] = r1]
    BY <2>1, <2>2
  <2> QED BY <2>3, <2>4
<1>4. /\ w \in Seq(Run) /\ Len(w) = n
      /\ \A i \in 1..n : w[i] = IF i = n THEN r1 ELSE o[i]
  <2>1. \A i \in 1..n : o[i] \in Run
    OBVIOUS
  <2> HIDE DEF w, r1, n
  <2> QED BY <1>1, <1>2, <1>3, <2>1
<1>5. u \in Seq(Run) /\ o = Append(u, r) /\ Len(u) = n - 1 /\ \A i \in 1..n - 1 : u[i] = o[i]
  <2>1. u \in Seq(Run) /\ SubSeq(o, 1, n) = Append(u, r)
    BY <1>1, OneMore
  <2>2. SubSeq(o, 1, n) = o
    BY WholeText
  <2>3. Len(u) = n - 1 /\ \A i \in 1..n - 1 : u[i] = o[i]
    <3>1. \A i \in 1..n - 1 : o[i] \in Run
      OBVIOUS
    <3> HIDE DEF n
    <3> QED BY <1>1, <3>1, SubSeqProperties
  <2> HIDE DEF u, r, n
  <2> QED BY <2>1, <2>2, <2>3
<1> HIDE DEF w, r1, u
<1>6. w = Append(u, r1)
  <2> DEFINE x == Append(u, r1)
  <2>1. /\ x \in Seq(Run) /\ Len(x) = n /\ x[n] = r1
        /\ \A i \in 1..n - 1 : x[i] = u[i]
    <3>1. Len(u) + 1 = n
      BY <1>1, <1>5
    <3> HIDE DEF n
    <3> QED BY <1>2, <1>5, <3>1, AppendProperties
  <2> HIDE DEF x, n
  <2>2. \A i \in 1..n : w[i] = x[i]
    <3> TAKE i \in 1..n
    <3>1. i = n \/ (i \in 1..n - 1 /\ i # n)
      BY <1>1
    <3> QED BY <1>4, <1>5, <2>1, <3>1
  <2>3. w = x
    BY <1>4, <2>1, <2>2, SeqEqual
  <2> QED BY <2>3 DEF x
<1> DEFINE F == FlattenSeq(Rows(u))
<1>7. /\ Row(r) \in Seq(Line) /\ F \in Seq(Line)
      /\ FlattenSeq(Rows(o)) = F \o Row(r) /\ FlattenSeq(Rows(w)) = F \o Row(r1)
  <2> HIDE DEF r
  <2> QED BY <1>1, <1>2, <1>5, <1>6, RowsSnoc
<1>8. Row(r1) = Append(Row(r), r.line)
  <2> DEFINE l == r.line
             k == r.run
  <2>1. k \in Nat /\ l \in Line
    BY <1>2
  <2>2. Row(r) = [j \in 1..k |-> l] /\ Row(r1) = [j \in 1..k + 1 |-> l]
    BY DEF Row, r1
  <2> HIDE DEF l, k
  <2>3. Append([j \in 1..k |-> l], l) = [j \in 1..k + 1 |-> l]
    BY <2>1
  <2>4. r.line = l
    BY DEF l
  <2> QED BY <2>2, <2>3, <2>4
<1>9. F \o Append(Row(r), r.line) = Append(F \o Row(r), r.line)
  <2> DEFINE y == Row(r)
             l == r.line
  <2>1. y \in Seq(Line) /\ l \in Line /\ F \in Seq(Line)
    BY <1>2, <1>7
  <2> HIDE DEF y, l, F
  <2>2. F \o y \in Seq(Line) /\ <<l>> \in Seq(Line)
    BY <2>1, ConcatProperties
  <2>3. Append(F \o y, l) = (F \o y) \o <<l>> /\ Append(y, l) = y \o <<l>>
    BY <2>1, <2>2, AppendIsConcat
  <2>4. F \o Append(y, l) = Append(F \o y, l)
    BY <2>1, <2>2, <2>3, ConcatAssociative, SMTT(30)
  <2> QED BY <2>4 DEF y, l
<1>10. FlattenSeq(Rows(w)) = Append(FlattenSeq(Rows(o)), Last(o).line)
  <2>1. Last(o) = r
    BY DEF Last
  <2> HIDE DEF F, r
  <2> QED BY <1>7, <1>8, <1>9, <2>1
<1>11. \A i \in 1..n : w[i].line = o[i].line
  <2> TAKE i \in 1..n
  <2>1. r1.line = r.line
    BY DEF r1
  <2> HIDE DEF n
  <2> QED BY <1>4, <2>1
<1>12. w # <<>>
  BY <1>1, <1>4
<1> QED BY <1>4, <1>10, <1>11, <1>12 DEF w, n

\* What uniq prints of lines: no line twice in a row, and counts that give the
\* lines back.
LEMMA RunsIs ==
  ASSUME NEW lines \in Seq(Line)
  PROVE  LET o == RunsTo(lines)[Len(lines)]
         IN  /\ \A a \in 1..Len(o) - 1 : o[a].line # o[a + 1].line
             /\ FlattenSeq(Rows(o)) = lines
<1> DEFINE n == Len(lines)
           D == Seq(Run)
           Again(o) == [o EXCEPT ![Len(o)].run = @ + 1]
           one(i) == [line |-> lines[i], run |-> 1]
           Next1(o, i) == IF o # <<>> /\ Last(o).line = lines[i] THEN Again(o) ELSE Append(o, one(i))
           st == [p \in D \X (1..n) |-> Next1(p[1], p[2])]
           f == RunsTo(lines)
           Then(h, i) == IF i = 0 THEN <<>>
                         ELSE LET o == h[i - 1]
                              IN  IF o # <<>> /\ Last(o).line = lines[i] THEN [o EXCEPT ![Len(o)].run = @ + 1]
                                  ELSE Append(o, [line |-> lines[i], run |-> 1])
<1>1. n \in Nat /\ \A i \in 1..n : lines[i] \in Line /\ one(i) \in Run /\ one(i).line = lines[i]
  <2>1. n \in Nat /\ \A i \in 1..n : lines[i] \in Line
    OBVIOUS
  <2> QED BY <2>1 DEF Run
<1>2. \A o \in D : o # <<>> => Again(o) \in D
  BY GrowsByOne
<1>3. \A o \in D, i \in 1..n : Append(o, one(i)) \in D
  <2> TAKE o \in D, i \in 1..n
  <2> DEFINE r == one(i)
  <2>1. r \in Run
    BY <1>1
  <2> HIDE DEF r
  <2>2. Append(o, r) \in D
    BY <2>1, AppendProperties
  <2> QED BY <2>2 DEF r
<1>4. \A h, i : Then(h, i) = IF i = 0 THEN <<>> ELSE Next1(h[i - 1], i)
  OBVIOUS
<1>5. ASSUME NEW o \in D, NEW i \in 1..n PROVE Next1(o, i) \in D
  <2> HIDE DEF D, Again, one
  <2> QED BY <1>2, <1>3
<1>6. <<>> \in D
  OBVIOUS
<1> HIDE DEF D, n, Next1, Then, one, Again
<1>7. st \in [D \X (1..n) -> D]
  <2>1. \A p \in D \X (1..n) : Next1(p[1], p[2]) \in D
    <3> TAKE p \in D \X (1..n)
    <3>1. p[1] \in D /\ p[2] \in 1..n
      OBVIOUS
    <3> QED BY <1>5, <3>1
  <2> QED BY <2>1
<1>8. PICK g \in [0..n -> D] : g[0] = <<>> /\ \A i \in 1..n : g[i] = st[<<g[i-1], i>>]
  <2> HIDE DEF st
  <2>1. Walks(D, <<>>, n, st) # {}
    BY <1>1, <1>6, <1>7, Iterate
  <2> QED BY <2>1 DEF Walks
<1>9. \A i \in 0..n : g[i] = Then(g, i)
  <2> TAKE i \in 0..n
  <2>1. CASE i = 0
    BY <1>4, <1>8, <2>1
  <2>2. CASE i # 0
    <3>1. i \in 1..n /\ i - 1 \in 0..n
      BY <1>1, <2>2
    <3>2. <<g[i-1], i>> \in D \X (1..n) /\ g[i] = st[<<g[i-1], i>>]
      <4> HIDE DEF st
      <4> QED BY <1>8, <3>1
    <3> QED BY <1>4, <2>2, <3>2
  <2> QED BY <2>1, <2>2
<1>10. g = [i \in 0..n |-> Then(g, i)]
  <2> HIDE DEF st
  <2> QED BY <1>8, <1>9
<1>11. f = CHOOSE h : h = [i \in 0..n |-> Then(h, i)]
  BY DEF RunsTo, n, Then
<1>12. f = [i \in 0..n |-> Then(f, i)]
  <2> HIDE DEF f
  <2> QED BY <1>10, <1>11
<1> HIDE DEF f
<1>13. f[0] = <<>> /\ \A i \in 1..n : f[i] = Next1(f[i-1], i)
  <2>1. 0 \in 0..n /\ \A i \in 1..n : i \in 0..n /\ i # 0
    BY <1>1
  <2>2. \A i \in 0..n : f[i] = Then(f, i)
    BY <1>12
  <2> QED BY <1>4, <2>1, <2>2
<1> DEFINE Part(i) == SubSeq(lines, 1, i)
           Apart(o) == \A a \in 1..Len(o) - 1 : o[a].line # o[a + 1].line
           Good(i) == /\ f[i] \in D /\ Apart(f[i]) /\ FlattenSeq(Rows(f[i])) = Part(i)
           S == {i \in 0..n : Good(i)}
<1>14. \A i \in 1..n : /\ Part(i - 1) \in Seq(Line) /\ Part(i) = Append(Part(i - 1), lines[i])
                       /\ Part(i) = Part(i - 1) \o <<lines[i]>>
  <2> TAKE i \in 1..n
  <2>1. i \in 1..Len(lines)
    BY DEF n
  <2> QED BY <2>1, OneMore
<1>15. Part(0) = <<>> /\ Part(n) = lines
  BY SubSeqEmpty, WholeText DEF n
<1> HIDE DEF Part
<1>16. 0 \in S
  <2>1. f[0] = <<>> /\ Len(<<>>) = 0 /\ Part(0) = <<>> /\ 0 \in 0..n
    BY <1>1, <1>13, <1>15
  <2>2. 1..Len(f[0]) - 1 = {}
    BY <2>1
  <2>3. FlattenSeq(Rows(<<>>)) = <<>>
    <3>1. Rows(<<>>) = <<>>
      BY DEF Rows
    <3>2. FlattenSeq(<<>>) = <<>>
      BY DEF FlattenSeq
    <3> QED BY <3>1, <3>2
  <2>4. Apart(f[0])
    BY <2>2
  <2>5. f[0] \in D /\ FlattenSeq(Rows(f[0])) = Part(0)
    BY <1>6, <2>1, <2>3
  <2> HIDE DEF Apart
  <2> QED BY <2>1, <2>4, <2>5
<1>17. ASSUME NEW i \in 1..n, i - 1 \in S PROVE i \in S
  <2> DEFINE o == f[i - 1]
             w == f[i]
             l == lines[i]
  <2>1. i \in 0..n /\ o \in D /\ Apart(o) /\ FlattenSeq(Rows(o)) = Part(i - 1)
    BY <1>1, <1>17
  <2>2. w = Next1(o, i)
    BY <1>13
  <2>3. l \in Line /\ one(i) \in Run /\ one(i).line = l
    BY <1>1
  <2> HIDE DEF o, w
  <2>4. o \in Seq(Run)
    BY <2>1 DEF D
  <2>5. CASE o # <<>> /\ Last(o).line = l
    <3>1. w = [o EXCEPT ![Len(o)].run = @ + 1]
      BY <2>2, <2>5 DEF Next1, Again
    <3> DEFINE v == [o EXCEPT ![Len(o)].run = @ + 1]
    <3>2. /\ v \in Seq(Run) /\ Len(v) = Len(o)
          /\ \A a \in 1..Len(o) : v[a].line = o[a].line
          /\ FlattenSeq(Rows(v)) = Append(FlattenSeq(Rows(o)), Last(o).line)
      BY <2>4, <2>5, GrowsByOne
    <3>3. w = v
      BY <3>1
    <3> HIDE DEF v
    <3>4. Apart(w)
      <4> SUFFICES ASSUME NEW a \in 1..Len(w) - 1 PROVE w[a].line # w[a + 1].line
        OBVIOUS
      <4>1. Len(o) \in Nat /\ Len(w) = Len(o)
        BY <2>4, <3>2, <3>3
      <4>2. a \in 1..Len(o) - 1 /\ a \in 1..Len(o) /\ a + 1 \in 1..Len(o)
        BY <4>1
      <4> QED BY <2>1, <3>2, <3>3, <4>2
    <3>5. FlattenSeq(Rows(w)) = Part(i)
      <4>1. Part(i) = Append(Part(i - 1), l)
        BY <1>14
      <4> QED BY <2>1, <2>5, <3>2, <3>3, <4>1
    <3>6. w \in D
      BY <3>2, <3>3 DEF D
    <3> HIDE DEF Apart
    <3> QED BY <2>1, <3>4, <3>5, <3>6 DEF w
  <2>6. CASE ~(o # <<>> /\ Last(o).line = l)
    <3> DEFINE r == one(i)
               m == Len(o)
    <3>1. w = Append(o, r) /\ r \in Run /\ r.line = l
      BY <2>2, <2>3, <2>6 DEF Next1
    <3>2. r.run = 1
      BY DEF one
    <3> HIDE DEF r
    <3>3. /\ w \in Seq(Run) /\ Len(w) = m + 1 /\ m \in Nat /\ w[m + 1] = r
          /\ \A a \in 1..m : w[a] = o[a]
      BY <2>4, <3>1, AppendProperties
    <3>4. Apart(w)
      <4> SUFFICES ASSUME NEW a \in 1..Len(w) - 1 PROVE w[a].line # w[a + 1].line
        OBVIOUS
      <4>1. CASE a = m
        <5>1. m \in 1..m /\ m # 0
          BY <3>3, <4>1
        <5>2. o # <<>> /\ Last(o) = o[m]
          BY <5>1 DEF Last
        <5>3. o[m].line # l
          BY <2>6, <5>2
        <5> HIDE DEF m
        <5> QED BY <3>1, <3>3, <4>1, <5>1, <5>3
      <4>2. CASE a # m
        <5> HIDE DEF m
        <5>1. a \in 1..m - 1 /\ a \in 1..m /\ a + 1 \in 1..m
          BY <3>3, <4>2
        <5>2. o[a].line # o[a + 1].line
          BY <2>1, <5>1 DEF m
        <5> QED BY <3>3, <5>1, <5>2
      <4> QED BY <4>1, <4>2
    <3>5. FlattenSeq(Rows(w)) = Part(i)
      <4>1. Row(r) = <<l>>
        <5>1. Row(r) = [k \in 1..1 |-> l]
          BY <3>1, <3>2 DEF Row
        <5> HIDE DEF l
        <5> QED BY <5>1
      <4>2. FlattenSeq(Rows(Append(o, r))) = FlattenSeq(Rows(o)) \o Row(r)
        BY <2>4, <3>1, RowsSnoc
      <4>3. Part(i) = Part(i - 1) \o <<l>>
        BY <1>14
      <4> QED BY <2>1, <3>1, <4>1, <4>2, <4>3
    <3>6. w \in D
      BY <3>3 DEF D
    <3> HIDE DEF Apart
    <3> QED BY <2>1, <3>4, <3>5, <3>6 DEF w
  <2> QED BY <2>5, <2>6
<1>18. 0..n \subseteq S
  <2> HIDE DEF S
  <2> QED BY <1>1, <1>16, <1>17, InductTo
<1>19. Good(n)
  <2>1. n \in S
    <3> HIDE DEF S
    <3> QED BY <1>1, <1>18
  <2> QED BY <2>1
<1> QED BY <1>15, <1>19 DEF f, n

-----------------------------------------------------------------------------
(* diff.                                                                   *)

\* B says what a function from P to V has at each place, and needs its values at
\* places of lower rank only.
Descends(P, V, R, B) ==
  /\ B \in [[P -> V] \X P -> V]
  /\ \A h1, h2 \in [P -> V], p \in P :
       (\A q \in P : R[q] < R[p] => h1[q] = h2[q]) => B[<<h1, p>>] = B[<<h2, p>>]

\* The functions that have everywhere what B says.
Solutions(P, V, B) == {f \in [P -> V] : \A p \in P : f[p] = B[<<f, p>>]}

\* There is one, when the ranks are bounded.
LEMMA Recursion ==
  ASSUME NEW P, NEW V, NEW v \in V, NEW K \in Nat, NEW R \in [P -> 0..K], NEW B,
         Descends(P, V, R, B)
  PROVE  Solutions(P, V, B) # {}
<1> DEFINE D == [P -> V]
           n == K + 1
           first == [p \in P |-> v]
           st == [q \in D \X (1..n) |-> [p \in P |-> B[<<q[1], p>>]]]
<1>0. /\ B \in [[P -> V] \X P -> V]
      /\ \A h1, h2 \in [P -> V], p \in P :
           (\A q \in P : R[q] < R[p] => h1[q] = h2[q]) => B[<<h1, p>>] = B[<<h2, p>>]
  BY DEF Descends
<1>1. n \in Nat /\ first \in D
  OBVIOUS
<1>2. st \in [D \X (1..n) -> D]
  <2>1. \A q \in D \X (1..n) : [p \in P |-> B[<<q[1], p>>]] \in D
    <3> TAKE q \in D \X (1..n)
    <3>1. q[1] \in D
      OBVIOUS
    <3>2. \A p \in P : B[<<q[1], p>>] \in V
      BY <1>0, <3>1
    <3> QED BY <3>2
  <2> HIDE DEF D, n
  <2> QED BY <2>1
<1>3. PICK g \in [0..n -> D] : g[0] = first /\ \A i \in 1..n : g[i] = st[<<g[i-1], i>>]
  <2> HIDE DEF st, D, n, first
  <2>1. Walks(D, first, n, st) # {}
    BY <1>1, <1>2, Iterate
  <2> QED BY <2>1 DEF Walks
<1>4. \A i \in 1..n, p \in P : g[i][p] = B[<<g[i-1], p>>]
  <2> TAKE i \in 1..n, p \in P
  <2>1. i - 1 \in 0..n
    BY <1>1
  <2> HIDE DEF D, n
  <2>2. g[i-1] \in D /\ <<g[i-1], i>> \in D \X (1..n) /\ g[i] = st[<<g[i-1], i>>]
    <3> HIDE DEF st
    <3> QED BY <1>3, <2>1
  <2>3. g[i] = [q \in P |-> B[<<g[i-1], q>>]]
    BY <2>2
  <2> QED BY <2>3
<1> DEFINE S == {i \in 0..n : \A p \in P : R[p] < i => g[i][p] = B[<<g[i], p>>]}
<1>5. \A i \in 0..n : g[i] \in [P -> V]
  BY <1>3
<1> HIDE DEF first, st, D
<1>6. 0 \in S
  <2>1. \A p \in P : ~(R[p] < 0)
    OBVIOUS
  <2> QED BY <1>1, <2>1
<1>7. ASSUME NEW i \in 1..n, i - 1 \in S PROVE i \in S
  <2>1. i \in 0..n /\ i - 1 \in 0..n
    BY <1>1
  <2>2. \A p \in P : R[p] < i - 1 => g[i-1][p] = B[<<g[i-1], p>>]
    BY <1>7
  <2>3. ASSUME NEW p \in P, R[p] < i PROVE g[i][p] = B[<<g[i], p>>]
    <3>1. ASSUME NEW q \in P, R[q] < R[p] PROVE g[i-1][q] = g[i][q]
      <4>1. R[q] < i - 1
        <5>1. R[q] \in Int /\ R[p] \in Int /\ i \in Int
          BY <1>1
        <5> QED BY <2>3, <3>1, <5>1
      <4> QED BY <1>4, <2>2, <4>1
    <3>2. B[<<g[i-1], p>>] = B[<<g[i], p>>]
      BY <1>0, <1>5, <2>1, <3>1
    <3> QED BY <1>4, <3>2
  <2> HIDE DEF n
  <2> QED BY <2>1, <2>3
<1>8. 0..n \subseteq S
  <2> HIDE DEF S, n
  <2> QED BY <1>1, <1>6, <1>7, InductTo
<1>9. n \in S
  <2> HIDE DEF S, n
  <2> QED BY <1>1, <1>8
<1>10. \A p \in P : R[p] < n
  OBVIOUS
<1>11. g[n] \in [P -> V] /\ \A p \in P : g[n][p] = B[<<g[n], p>>]
  BY <1>1, <1>5, <1>9, <1>10
<1> QED BY <1>11 DEF Solutions

\* The entries of diff's table, and how many lines are left behind each.
Entries(la, lb) == (0..Len(la)) \X (0..Len(lb))

Left(la, lb) == [p \in Entries(la, lb) |-> (Len(la) - p[1]) + (Len(lb) - p[2])]

\* What the loop of cmd_diff puts in the entry p of the table h.
EntryOf(la, lb, h, p) ==
  LET i == p[1]  j == p[2]
  IN  (IF i = Len(la) \/ j = Len(lb) THEN (Len(la) - i) + (Len(lb) - j)
       ELSE Min({h[<<i+1, j+1>>] + (IF la[i+1] = lb[j+1] THEN 0 ELSE 1),
                 h[<<i+1, j>>] + 1, h[<<i, j+1>>] + 1})) % WORD16

\* The least of three numbers.
LEMMA LeastOfThree ==
  ASSUME NEW a \in Nat, NEW b \in Nat, NEW c \in Nat
  PROVE  LET m == Min({a, b, c})
         IN  m \in Nat /\ m \in {a, b, c} /\ m <= a /\ m <= b /\ m <= c
<1> DEFINE S == {a, b, c}
<1>1. S \subseteq Nat /\ S # {}
  OBVIOUS
<1>2. Min(S) \in S /\ \A y \in S : Min(S) <= y
  <2> HIDE DEF S
  <2> QED BY <1>1, MinIs
<1> QED BY <1>2

\* The entries behind one are entries with less left.
LEMMA EntriesBehind ==
  ASSUME NEW la \in Seq(Line), NEW lb \in Seq(Line), NEW p \in Entries(la, lb)
  PROVE  LET i == p[1]  j == p[2]
             E == Entries(la, lb)
             R == Left(la, lb)
         IN  /\ i \in 0..Len(la) /\ j \in 0..Len(lb) /\ p = <<i, j>>
             /\ R[p] \in 0..Len(la) + Len(lb) /\ R[p] = (Len(la) - i) + (Len(lb) - j)
             /\ i < Len(la) => <<i+1, j>> \in E /\ R[<<i+1, j>>] = R[p] - 1
             /\ j < Len(lb) => <<i, j+1>> \in E /\ R[<<i, j+1>>] = R[p] - 1
             /\ i < Len(la) /\ j < Len(lb) => <<i+1, j+1>> \in E /\ R[<<i+1, j+1>>] = R[p] - 2
<1> DEFINE i == p[1]
           j == p[2]
           na == Len(la)
           nb == Len(lb)
           E == (0..na) \X (0..nb)
           R == [q \in E |-> (na - q[1]) + (nb - q[2])]
<1>1. na \in Nat /\ nb \in Nat
  OBVIOUS
<1>2. p \in E
  BY DEF Entries
<1> HIDE DEF na, nb
<1>3. i \in 0..na /\ j \in 0..nb /\ p = <<i, j>>
  BY <1>2
<1> HIDE DEF i, j
<1>4. \A x \in 0..na, y \in 0..nb : <<x, y>> \in E /\ R[<<x, y>>] = (na - x) + (nb - y)
  <2> TAKE x \in 0..na, y \in 0..nb
  <2>1. <<x, y>> \in E
    OBVIOUS
  <2> QED BY <2>1
<1> HIDE DEF E, R
<1>5. R[p] = (na - i) + (nb - j) /\ R[p] \in 0..na + nb
  BY <1>1, <1>3, <1>4
<1>6. i < na => <<i+1, j>> \in E /\ R[<<i+1, j>>] = R[p] - 1
  <2>1. i < na => i + 1 \in 0..na /\ (na - (i + 1)) + (nb - j) = ((na - i) + (nb - j)) - 1
    BY <1>1, <1>3
  <2> QED BY <1>3, <1>4, <1>5, <2>1
<1>7. j < nb => <<i, j+1>> \in E /\ R[<<i, j+1>>] = R[p] - 1
  <2>1. j < nb => j + 1 \in 0..nb /\ (na - i) + (nb - (j + 1)) = ((na - i) + (nb - j)) - 1
    BY <1>1, <1>3
  <2> QED BY <1>3, <1>4, <1>5, <2>1
<1>8. i < na /\ j < nb => <<i+1, j+1>> \in E /\ R[<<i+1, j+1>>] = R[p] - 2
  <2>1. i < na /\ j < nb => /\ i + 1 \in 0..na /\ j + 1 \in 0..nb
                            /\ (na - (i + 1)) + (nb - (j + 1)) = ((na - i) + (nb - j)) - 2
    BY <1>1, <1>3
  <2> QED BY <1>4, <1>5, <2>1
<1>9. Entries(la, lb) = E /\ Left(la, lb) = R
  BY DEF Entries, Left, E, R, na, nb
<1> QED BY <1>3, <1>5, <1>6, <1>7, <1>8, <1>9 DEF i, j, na, nb

\* cmd_diff fills its table as EntryOf says.
LEMMA TableIs ==
  ASSUME NEW la \in Seq(Line), NEW lb \in Seq(Line)
  PROVE  LET d == Distances(la, lb)
         IN  \A p \in Entries(la, lb) : d[p] = EntryOf(la, lb, d, p)
<1> DEFINE P == Entries(la, lb)
           K == Len(la) + Len(lb)
           R == Left(la, lb)
           B == [q \in [P -> Nat] \X P |-> EntryOf(la, lb, q[1], q[2])]
           d == Distances(la, lb)
<1>1. K \in Nat /\ R \in [P -> 0..K]
  <2>1. \A p \in P : R[p] \in 0..K
    BY EntriesBehind
  <2>2. R = [p \in P |-> R[p]]
    BY DEF Left
  <2>3. K \in Nat
    OBVIOUS
  <2> HIDE DEF P, K, R
  <2> QED BY <2>1, <2>2, <2>3
<1>2. ASSUME NEW h \in [P -> Nat], NEW p \in P PROVE EntryOf(la, lb, h, p) \in Nat
  <2> DEFINE i == p[1]
             j == p[2]
             a == h[<<i+1, j+1>>] + (IF la[i+1] = lb[j+1] THEN 0 ELSE 1)
             b == h[<<i+1, j>>] + 1
             c == h[<<i, j+1>>] + 1
             m == IF i = Len(la) \/ j = Len(lb) THEN (Len(la) - i) + (Len(lb) - j) ELSE Min({a, b, c})
  <2>1. /\ i \in 0..Len(la) /\ j \in 0..Len(lb)
        /\ i < Len(la) => <<i+1, j>> \in P
        /\ j < Len(lb) => <<i, j+1>> \in P
        /\ i < Len(la) /\ j < Len(lb) => <<i+1, j+1>> \in P
    BY EntriesBehind
  <2> HIDE DEF i, j, P
  <2>2. m \in Nat
    <3>1. CASE i = Len(la) \/ j = Len(lb)
      BY <2>1, <3>1
    <3>2. CASE i # Len(la) /\ j # Len(lb)
      <4>1. i < Len(la) /\ j < Len(lb)
        BY <2>1, <3>2
      <4>2. a \in Nat /\ b \in Nat /\ c \in Nat
        BY <2>1, <4>1, SMTT(30)
      <4> HIDE DEF a, b, c
      <4>3. Min({a, b, c}) \in Nat
        BY <4>2, LeastOfThree
      <4> QED BY <3>2, <4>3
    <3> QED BY <3>1, <3>2
  <2>3. EntryOf(la, lb, h, p) = m % WORD16
    BY DEF EntryOf, i, j
  <2> HIDE DEF m
  <2>4. WORD16 \in Nat /\ WORD16 > 0
    BY TextAssumption
  <2> QED BY <2>2, <2>3, <2>4
<1>3. B \in [[P -> Nat] \X P -> Nat]
  <2>1. \A q \in [P -> Nat] \X P : EntryOf(la, lb, q[1], q[2]) \in Nat
    <3> TAKE q \in [P -> Nat] \X P
    <3>1. q[1] \in [P -> Nat] /\ q[2] \in P
      OBVIOUS
    <3> HIDE DEF P
    <3> QED BY <1>2, <3>1
  <2> HIDE DEF P
  <2> QED BY <2>1
<1>4. ASSUME NEW h1 \in [P -> Nat], NEW h2 \in [P -> Nat], NEW p \in P,
             \A q \in P : R[q] < R[p] => h1[q] = h2[q]
      PROVE  B[<<h1, p>>] = B[<<h2, p>>]
  <2>1. <<h1, p>> \in [P -> Nat] \X P /\ <<h2, p>> \in [P -> Nat] \X P
    OBVIOUS
  <2>2. B[<<h1, p>>] = EntryOf(la, lb, h1, p) /\ B[<<h2, p>>] = EntryOf(la, lb, h2, p)
    <3> HIDE DEF P
    <3> QED BY <2>1
  <2> DEFINE i == p[1]
             j == p[2]
  <2>3. /\ i \in 0..Len(la) /\ j \in 0..Len(lb) /\ R[p] \in 0..K
        /\ i < Len(la) => <<i+1, j>> \in P /\ R[<<i+1, j>>] = R[p] - 1
        /\ j < Len(lb) => <<i, j+1>> \in P /\ R[<<i, j+1>>] = R[p] - 1
        /\ i < Len(la) /\ j < Len(lb) => <<i+1, j+1>> \in P /\ R[<<i+1, j+1>>] = R[p] - 2
    BY EntriesBehind
  <2> HIDE DEF P, R, K, B
  <2>4. CASE i = Len(la) \/ j = Len(lb)
    BY <2>2, <2>4 DEF EntryOf
  <2>5. CASE i # Len(la) /\ j # Len(lb)
    <3> HIDE DEF i, j
    <3>1. i < Len(la) /\ j < Len(lb)
      BY <2>3, <2>5
    <3>2. R[p] \in Int /\ R[p] - 1 < R[p] /\ R[p] - 2 < R[p]
      BY <2>3
    <3>3. h1[<<i+1, j+1>>] = h2[<<i+1, j+1>>] /\ h1[<<i+1, j>>] = h2[<<i+1, j>>]
          /\ h1[<<i, j+1>>] = h2[<<i, j+1>>]
      BY <1>4, <2>3, <3>1, <3>2
    <3> QED BY <2>2, <2>5, <3>3 DEF EntryOf, i, j
  <2> QED BY <2>4, <2>5
<1>5. PICK f \in [P -> Nat] : \A p \in P : f[p] = B[<<f, p>>]
  <2> HIDE DEF P, K, R, B
  <2> DEFINE V == Nat
  <2>1. 0 \in V /\ B \in [[P -> V] \X P -> V]
    BY <1>3
  <2>2. Descends(P, V, R, B)
    BY <1>4, <2>1 DEF Descends
  <2> HIDE DEF V
  <2>3. Solutions(P, V, B) # {}
    BY <1>1, <2>1, <2>2, Recursion
  <2> QED BY <2>3 DEF V, Solutions
<1>6. f = [p \in P |-> EntryOf(la, lb, f, p)]
  <2>1. ASSUME NEW p \in P PROVE f[p] = EntryOf(la, lb, f, p)
    <3>1. <<f, p>> \in [P -> Nat] \X P /\ f[p] = B[<<f, p>>]
      <4> HIDE DEF P, B
      <4> QED BY <1>5
    <3> HIDE DEF P
    <3> QED BY <3>1
  <2> HIDE DEF P
  <2> QED BY <1>5, <2>1
<1>7. d = CHOOSE h : h = [p \in P |-> EntryOf(la, lb, h, p)]
  BY DEF Distances, EntryOf, Entries
<1>8. d = [p \in P |-> EntryOf(la, lb, d, p)]
  <2> HIDE DEF d, P
  <2> QED BY <1>6, <1>7
<1> HIDE DEF d, P
<1>9. \A p \in P : d[p] = EntryOf(la, lb, d, p)
  BY <1>8
<1> QED BY <1>9 DEF d, P

\* The lines behind the first i of one file are those behind the first j of the
\* other.
SameRest(la, lb, i, j) ==
  /\ Len(la) - i = Len(lb) - j
  /\ \A k \in 1..Len(la) - i : la[i + k] = lb[j + k]

\* They are when the next ones are, and those behind them.
LEMMA SameRestFrom ==
  ASSUME NEW la \in Seq(Line), NEW lb \in Seq(Line),
         NEW i \in 0..Len(la), NEW j \in 0..Len(lb), i < Len(la), j < Len(lb)
  PROVE  SameRest(la, lb, i, j) <=> la[i+1] = lb[j+1] /\ SameRest(la, lb, i+1, j+1)
<1> DEFINE n == Len(la) - i
           m == Len(lb) - j
<1>1. /\ n \in Nat \ {0} /\ m \in Nat \ {0} /\ i \in Nat /\ j \in Nat
      /\ Len(la) - (i + 1) = n - 1 /\ Len(lb) - (j + 1) = m - 1
  OBVIOUS
<1>2. ASSUME SameRest(la, lb, i, j) PROVE la[i+1] = lb[j+1] /\ SameRest(la, lb, i+1, j+1)
  <2>1. n = m /\ \A k \in 1..n : la[i + k] = lb[j + k]
    BY <1>2 DEF SameRest
  <2> HIDE DEF n, m
  <2>2. 1 \in 1..n
    BY <1>1
  <2>3. ASSUME NEW k \in 1..n - 1 PROVE la[(i+1) + k] = lb[(j+1) + k]
    <3>1. k + 1 \in 1..n /\ (i + 1) + k = i + (k + 1) /\ (j + 1) + k = j + (k + 1)
      BY <1>1
    <3> QED BY <2>1, <3>1
  <2>4. la[i+1] = lb[j+1]
    BY <2>1, <2>2
  <2> QED BY <1>1, <2>1, <2>3, <2>4 DEF SameRest
<1>3. ASSUME la[i+1] = lb[j+1], SameRest(la, lb, i+1, j+1) PROVE SameRest(la, lb, i, j)
  <2> HIDE DEF n, m
  <2>1. n - 1 = m - 1 /\ \A k \in 1..n - 1 : la[(i+1) + k] = lb[(j+1) + k]
    BY <1>1, <1>3 DEF SameRest
  <2>2. n = m
    BY <1>1, <2>1
  <2>3. ASSUME NEW k \in 1..n PROVE la[i + k] = lb[j + k]
    <3>1. CASE k = 1
      BY <1>3, <3>1
    <3>2. CASE k # 1
      <4>1. k - 1 \in 1..n - 1 /\ (i + 1) + (k - 1) = i + k /\ (j + 1) + (k - 1) = j + k
        BY <1>1, <3>2
      <4> QED BY <2>1, <4>1
    <3> QED BY <3>1, <3>2
  <2> QED BY <2>2, <2>3 DEF SameRest, n, m
<1> QED BY <1>2, <1>3

\* An entry that does not wrap is 0 when the files are the same behind it, and
\* else not.
LEMMA TableTells ==
  ASSUME NEW la \in Seq(Line), NEW lb \in Seq(Line), Len(la) < WORD16, Len(lb) < WORD16
  PROVE  Distances(la, lb)[<<0, 0>>] = 0 <=> la = lb
<1> DEFINE P == Entries(la, lb)
           R == Left(la, lb)
           na == Len(la)
           nb == Len(lb)
           d == Distances(la, lb)
           Most(i, j) == IF na - i >= nb - j THEN na - i ELSE nb - j
           Good(p) == /\ d[p] \in Nat /\ d[p] <= Most(p[1], p[2])
                      /\ d[p] = 0 <=> SameRest(la, lb, p[1], p[2])
           n == na + nb + 1
           S == {k \in 0..n : \A p \in P : R[p] < k => Good(p)}
<1>1. na \in Nat /\ nb \in Nat /\ n \in Nat /\ WORD16 \in Nat /\ na < WORD16 /\ nb < WORD16
  BY TextAssumption
<1>2. \A m \in Nat : m < WORD16 => m % WORD16 = m
  BY <1>1
<1>3. \A p \in P : d[p] = EntryOf(la, lb, d, p)
  BY TableIs
<1> HIDE DEF d
<1>4. ASSUME NEW p \in P, \A q \in P : R[q] < R[p] => Good(q) PROVE Good(p)
  <2> DEFINE i == p[1]
             j == p[2]
             a == d[<<i+1, j+1>>] + (IF la[i+1] = lb[j+1] THEN 0 ELSE 1)
             b == d[<<i+1, j>>] + 1
             c == d[<<i, j+1>>] + 1
             m == IF i = na \/ j = nb THEN (na - i) + (nb - j) ELSE Min({a, b, c})
  <2>1. /\ i \in 0..na /\ j \in 0..nb /\ R[p] \in Int
        /\ i < na => <<i+1, j>> \in P /\ R[<<i+1, j>>] = R[p] - 1
        /\ j < nb => <<i, j+1>> \in P /\ R[<<i, j+1>>] = R[p] - 1
        /\ i < na /\ j < nb => <<i+1, j+1>> \in P /\ R[<<i+1, j+1>>] = R[p] - 2
    BY EntriesBehind
  <2>2. d[p] = m % WORD16
    BY <1>3 DEF EntryOf
  <2> HIDE DEF P, R, m
  <2>3. m \in Nat /\ m <= Most(i, j) /\ (m = 0 <=> SameRest(la, lb, i, j))
    <3>1. CASE i = na \/ j = nb
      <4>1. m = (na - i) + (nb - j)
        BY <3>1 DEF m
      <4>2. SameRest(la, lb, i, j) <=> i = na /\ j = nb
        <5> HIDE DEF i, j
        <5>1. SameRest(la, lb, i, j) => na - i = nb - j
          BY DEF SameRest
        <5>2. i = na /\ j = nb => SameRest(la, lb, i, j)
          BY <1>1 DEF SameRest
        <5> HIDE DEF na, nb
        <5> QED BY <1>1, <2>1, <3>1, <5>1, <5>2
      <4> HIDE DEF i, j, na, nb
      <4> QED BY <1>1, <2>1, <3>1, <4>1, <4>2
    <3>2. CASE i # na /\ j # nb
      <4>1. i < na /\ j < nb
        BY <1>1, <2>1, <3>2
      <4>2. Good(<<i+1, j+1>>) /\ Good(<<i+1, j>>) /\ Good(<<i, j+1>>)
        <5> HIDE DEF i, j, Good
        <5> QED BY <1>4, <2>1, <4>1
      <4>3. /\ d[<<i+1, j+1>>] \in Nat /\ d[<<i+1, j+1>>] <= Most(i+1, j+1)
            /\ d[<<i+1, j+1>>] = 0 <=> SameRest(la, lb, i+1, j+1)
            /\ d[<<i+1, j>>] \in Nat /\ d[<<i, j+1>>] \in Nat
        <5> HIDE DEF i, j, Most, na, nb
        <5> QED BY <4>2
      <4> DEFINE diag == d[<<i+1, j+1>>]
                 same == la[i+1] = lb[j+1]
      <4>4. a = IF same THEN diag ELSE diag + 1
        BY <4>3
      <4>5. a \in Nat /\ b \in Nat \ {0} /\ c \in Nat \ {0}
        <5> HIDE DEF i, j
        <5> QED BY <4>3
      <4> HIDE DEF a, b, c
      <4>6. m = Min({a, b, c})
        BY <3>2 DEF m
      <4>7. m \in Nat /\ m \in {a, b, c} /\ m <= a
        BY <4>5, <4>6, LeastOfThree
      <4>8. m = 0 <=> a = 0
        BY <4>5, <4>7
      <4>9. SameRest(la, lb, i, j) <=> same /\ diag = 0
        <5> HIDE DEF i, j
        <5>1. SameRest(la, lb, i, j) <=> la[i+1] = lb[j+1] /\ SameRest(la, lb, i+1, j+1)
          BY <2>1, <4>1, SameRestFrom
        <5> QED BY <4>3, <5>1
      <4>10. Most(i+1, j+1) + 1 = Most(i, j) /\ Most(i, j) \in Nat
        <5> HIDE DEF i, j, na, nb
        <5> QED BY <1>1, <2>1, <4>1
      <4>11. diag \in Nat /\ diag <= Most(i+1, j+1)
        BY <4>3
      <4>12. Most(i+1, j+1) \in Int
        <5> HIDE DEF i, j, na, nb
        <5> QED BY <1>1, <2>1, <4>1
      <4> HIDE DEF diag, same, Most
      <4>13. m <= Most(i, j)
        BY <4>4, <4>5, <4>7, <4>10, <4>11, <4>12
      <4> QED BY <4>4, <4>7, <4>8, <4>9, <4>11, <4>13
    <3> QED BY <3>1, <3>2
  <2>4. m < WORD16
    <3>1. Most(i, j) \in Nat /\ Most(i, j) < WORD16
      <4> HIDE DEF i, j, na, nb
      <4> QED BY <1>1, <2>1
    <3> HIDE DEF Most
    <3> QED BY <1>1, <2>3, <3>1
  <2>5. d[p] = m
    BY <1>2, <2>2, <2>3, <2>4
  <2> HIDE DEF Most
  <2> QED BY <2>3, <2>5
<1> HIDE DEF Good
<1>5. \A p \in P : R[p] \in Nat /\ R[p] < n
  <2> TAKE p \in P
  <2>1. R[p] \in 0..na + nb
    BY EntriesBehind
  <2> HIDE DEF R, na, nb
  <2> QED BY <1>1, <2>1
<1> HIDE DEF P, R, n
<1>6. 0 \in S
  <2>1. \A p \in P : ~(R[p] < 0)
    BY <1>5
  <2> QED BY <1>1, <2>1
<1>7. ASSUME NEW k \in 1..n, k - 1 \in S PROVE k \in S
  <2>1. k \in 0..n /\ k \in Int
    BY <1>1
  <2>2. \A q \in P : R[q] < k - 1 => Good(q)
    BY <1>7
  <2>3. ASSUME NEW p \in P, R[p] < k PROVE Good(p)
    <3>1. \A q \in P : R[q] < R[p] => R[q] < k - 1
      BY <1>5, <2>1, <2>3
    <3> QED BY <1>4, <2>2, <3>1
  <2> QED BY <2>1, <2>3
<1>8. 0..n \subseteq S
  <2> HIDE DEF S
  <2> QED BY <1>1, <1>6, <1>7, InductTo
<1>9. n \in S
  <2> HIDE DEF S
  <2> QED BY <1>1, <1>8
<1>10. <<0, 0>> \in P
  BY <1>1 DEF P, Entries
<1>11. Good(<<0, 0>>)
  BY <1>5, <1>9, <1>10
<1>12. d[<<0, 0>>] = 0 <=> SameRest(la, lb, 0, 0)
  <2> HIDE DEF Most
  <2> QED BY <1>11 DEF Good
<1>13. SameRest(la, lb, 0, 0) <=> la = lb
  <2>1. ASSUME SameRest(la, lb, 0, 0) PROVE la = lb
    <3>1. na = nb /\ \A k \in 1..na : la[k] = lb[k]
      <4>1. na - 0 = nb - 0 /\ \A k \in 1..na - 0 : la[0 + k] = lb[0 + k]
        BY <2>1 DEF SameRest
      <4> HIDE DEF na, nb
      <4>2. na - 0 = na /\ nb - 0 = nb /\ \A k \in 1..na : 0 + k = k
        BY <1>1
      <4> QED BY <4>1, <4>2
    <3> QED BY <3>1, SeqEqual
  <2>2. la = lb => SameRest(la, lb, 0, 0)
    BY DEF SameRest
  <2> QED BY <2>1, <2>2
<1> QED BY <1>12, <1>13 DEF d

\* A sequence before the others is flattened before them.
LEMMA FlattenCons ==
  ASSUME NEW A, NEW x \in Seq(A), NEW ss \in Seq(Seq(A))
  PROVE  FlattenSeq(<<x>> \o ss) = x \o FlattenSeq(ss)
<1> DEFINE B == Seq(A)
           one == <<x>>
           w == one \o ss
           n == Len(ss)
<1>1. /\ w \in Seq(B) /\ Len(w) = n + 1 /\ n \in Nat /\ w # <<>>
      /\ w[1] = x /\ \A i \in 1..n : w[i + 1] = ss[i]
  <2>1. ss \in Seq(B) /\ one \in Seq(B) /\ Len(one) = 1 /\ one[1] = x /\ n \in Nat
    OBVIOUS
  <2> HIDE DEF B, one
  <2>2. /\ w \in Seq(B) /\ Len(w) = Len(one) + n
        /\ \A i \in 1..Len(w) : w[i] = IF i <= Len(one) THEN one[i] ELSE ss[i - Len(one)]
    <3>1. one \in Seq(B) /\ ss \in Seq(B)
      BY <2>1
    <3> QED BY <3>1, ConcatProperties, ZenonT(40)
  <2> HIDE DEF w, n
  <2>3. Len(w) = n + 1 /\ w # <<>> /\ w[1] = x
    BY <2>1, <2>2
  <2>4. ASSUME NEW i \in 1..n PROVE w[i + 1] = ss[i]
    <3>1. i + 1 \in 1..Len(w) /\ ~(i + 1 <= Len(one)) /\ (i + 1) - Len(one) = i
      BY <2>1, <2>3
    <3> QED BY <2>2, <3>1
  <2> QED BY <2>1, <2>2, <2>3, <2>4
<1> HIDE DEF w
<1>2. PICK h \in [1..n + 1 -> B] :
        /\ h[1] = w[1] /\ \A i \in 2..n + 1 : h[i] = h[i-1] \o w[i]
        /\ FlattenSeq(w) = h[n + 1]
  <2>1. w \in Seq(Seq(A))
    BY <1>1
  <2>2. \E h \in [1..Len(w) -> Seq(A)] :
          /\ h[1] = w[1] /\ \A i \in 2..Len(w) : h[i] = h[i-1] \o w[i]
          /\ FlattenSeq(w) = h[Len(w)]
    BY <1>1, <2>1, FlattenIs
  <2>3. Len(w) = n + 1
    BY <1>1
  <2> HIDE DEF n
  <2> QED BY <2>2, <2>3 DEF B
<1>3. CASE ss = <<>>
  <2>1. FlattenSeq(ss) = <<>> /\ n = 0
    BY <1>3 DEF FlattenSeq
  <2>2. FlattenSeq(w) = x
    BY <1>1, <1>2, <2>1
  <2>3. x \o <<>> = x
    BY ConcatEmptySeq
  <2> QED BY <2>1, <2>2, <2>3 DEF w
<1>4. CASE ss # <<>>
  <2>1. PICK g \in [1..n -> B] :
          /\ g[1] = ss[1] /\ \A i \in 2..n : g[i] = g[i-1] \o ss[i]
          /\ FlattenSeq(ss) = g[n]
    BY <1>4, FlattenIs
  <2>2. n # 0
    BY <1>4
  <2>3. \A i \in 1..n : ss[i] \in Seq(A) /\ g[i] \in Seq(A)
    <3>1. \A i \in 1..n : ss[i] \in B
      OBVIOUS
    <3>2. \A i \in 1..n : g[i] \in B
      <4> HIDE DEF n, B
      <4> QED BY <2>1
    <3> QED BY <3>1, <3>2
  <2> HIDE DEF n, B
  <2> DEFINE S == {i \in 0..n : i = 0 \/ h[i + 1] = x \o g[i]}
  <2>4. 0 \in S
    BY <1>1
  <2>5. ASSUME NEW i \in 1..n, i - 1 \in S PROVE i \in S
    <3>1. i \in 0..n /\ i + 1 \in 2..n + 1 /\ (i + 1) - 1 = i
      BY <1>1
    <3>2. h[i + 1] = h[i] \o ss[i]
      BY <1>1, <1>2, <3>1
    <3>3. CASE i = 1
      BY <1>1, <1>2, <2>1, <3>1, <3>2, <3>3
    <3>4. CASE i # 1
      <4>1. i \in 2..n /\ i - 1 \in 1..n /\ i - 1 # 0 /\ (i - 1) + 1 = i
        BY <1>1, <3>4
      <4>2. h[i] = x \o g[i-1]
        BY <2>5, <4>1
      <4> DEFINE u == g[i-1]
                 v == ss[i]
      <4>3. u \in Seq(A) /\ v \in Seq(A)
        BY <2>3, <4>1
      <4> HIDE DEF u, v
      <4>4. (x \o u) \o v = x \o (u \o v)
        BY <4>3, ConcatAssociative, SMTT(30)
      <4>5. g[i] = u \o v
        BY <2>1, <4>1 DEF u, v
      <4>6. h[i + 1] = (x \o u) \o v
        BY <3>2, <4>2 DEF u, v
      <4>7. h[i + 1] = x \o g[i]
        BY <4>4, <4>5, <4>6
      <4> QED BY <3>1, <4>7
    <3> QED BY <3>3, <3>4
  <2>6. 0..n \subseteq S
    <3> HIDE DEF S
    <3> QED BY <1>1, <2>4, <2>5, InductTo
  <2>7. h[n + 1] = x \o g[n]
    <3>1. n \in S
      <4> HIDE DEF S
      <4> QED BY <1>1, <2>6
    <3> QED BY <2>2, <3>1
  <2> QED BY <1>2, <2>1, <2>7 DEF w
<1> QED BY <1>3, <1>4

\* A hunk, and one side of each of several.
Hunk == [{"old", "new"} -> Seq(Line)]

Side(o, f) == [k \in DOMAIN o |-> o[k][f]]

\* A hunk before others has its lines before theirs.
LEMMA SideCons ==
  ASSUME NEW r \in Hunk, NEW o \in Seq(Hunk), NEW f \in {"old", "new"}
  PROVE  /\ r[f] \in Seq(Line) /\ Side(o, f) \in Seq(Seq(Line))
         /\ FlattenSeq(Side(<<r>> \o o, f)) = r[f] \o FlattenSeq(Side(o, f))
<1> DEFINE one == <<r>>
           w == one \o o
           n == Len(o)
           B == Seq(Line)
           y == Side(o, f)
           z == r[f]
           x == <<z>>
<1>1. \A h \in Hunk : h[f] \in B
  BY DEF Hunk
<1>2. \A s \in Seq(Hunk) : Side(s, f) \in Seq(B) /\ Len(Side(s, f)) = Len(s)
                           /\ \A i \in 1..Len(s) : Side(s, f)[i] = s[i][f]
  <2> TAKE s \in Seq(Hunk)
  <2>1. Len(s) \in Nat /\ DOMAIN s = 1..Len(s) /\ \A i \in 1..Len(s) : s[i][f] \in B
    <3>1. Len(s) \in Nat /\ DOMAIN s = 1..Len(s) /\ \A i \in 1..Len(s) : s[i] \in Hunk
      OBVIOUS
    <3> HIDE DEF B
    <3> QED BY <1>1, <3>1
  <2> HIDE DEF B
  <2>2. Side(s, f) = [i \in 1..Len(s) |-> s[i][f]]
    BY <2>1 DEF Side
  <2> QED BY <2>1, <2>2
<1>3. one \in Seq(Hunk) /\ Len(one) = 1 /\ one[1] = r /\ n \in Nat
  OBVIOUS
<1>4. z \in B /\ x \in Seq(B) /\ Len(x) = 1 /\ x[1] = z
  <2>1. z \in B
    BY <1>1
  <2> HIDE DEF z, B
  <2> QED BY <2>1
<1>5. y \in Seq(B) /\ Len(y) = n /\ \A i \in 1..n : y[i] = o[i][f]
  BY <1>2
<1>6. /\ w \in Seq(Hunk) /\ Len(w) = 1 + n
      /\ \A i \in 1..Len(w) : w[i] = IF i <= 1 THEN one[i] ELSE o[i - 1]
  <2> HIDE DEF one
  <2>1. /\ w \in Seq(Hunk) /\ Len(w) = Len(one) + Len(o)
        /\ \A i \in 1..Len(w) : w[i] = IF i <= Len(one) THEN one[i] ELSE o[i - Len(one)]
    BY <1>3, ConcatProperties, SMTT(30)
  <2> HIDE DEF w
  <2> QED BY <1>3, <2>1
<1>7. /\ x \o y \in Seq(B) /\ Len(x \o y) = 1 + n
      /\ \A i \in 1..Len(x \o y) : (x \o y)[i] = IF i <= 1 THEN x[i] ELSE y[i - 1]
  <2> DEFINE v == x \o y
  <2> HIDE DEF x, y, B, n
  <2>1. /\ v \in Seq(B) /\ Len(v) = Len(x) + Len(y)
        /\ \A i \in 1..Len(v) : v[i] = IF i <= Len(x) THEN x[i] ELSE y[i - Len(x)]
    <3>1. x \in Seq(B) /\ y \in Seq(B)
      BY <1>4, <1>5
    <3> QED BY <3>1, ConcatProperties
  <2> HIDE DEF v
  <2>2. /\ v \in Seq(B) /\ Len(v) = 1 + n
        /\ \A i \in 1..Len(v) : v[i] = IF i <= 1 THEN x[i] ELSE y[i - 1]
    BY <1>4, <1>5, <2>1
  <2> QED BY <2>2 DEF v
<1>8. Side(w, f) = x \o y
  <2> DEFINE v == x \o y
             u == Side(w, f)
  <2>1. u \in Seq(B) /\ Len(u) = 1 + n /\ \A i \in 1..Len(w) : u[i] = w[i][f]
    BY <1>2, <1>6
  <2>2. v \in Seq(B) /\ Len(v) = 1 + n
        /\ \A i \in 1..Len(v) : v[i] = IF i <= 1 THEN x[i] ELSE y[i - 1]
    BY <1>7
  <2> HIDE DEF u, v, w, x, y, B, n, one
  <2>3. ASSUME NEW i \in 1..1 + n PROVE u[i] = v[i]
    <3>1. CASE i = 1
      <4>1. u[i] = r[f]
        BY <1>3, <1>6, <2>1, <3>1
      <4>2. v[i] = z
        BY <1>3, <1>4, <2>2, <3>1
      <4> QED BY <4>1, <4>2
    <3>2. CASE i # 1
      <4>1. i - 1 \in 1..n /\ ~(i <= 1)
        BY <1>3, <3>2
      <4> QED BY <1>5, <1>6, <2>1, <2>2, <4>1
    <3> QED BY <3>1, <3>2
  <2>4. u = v
    BY <2>1, <2>2, <2>3, SeqEqual
  <2> QED BY <2>4 DEF u, v
<1>9. FlattenSeq(x \o y) = z \o FlattenSeq(y)
  <2> HIDE DEF y, z
  <2>1. z \in Seq(Line) /\ y \in Seq(Seq(Line))
    BY <1>4, <1>5
  <2> QED BY <2>1, FlattenCons
<1> HIDE DEF w
<1>10. Side(w, f) = x \o y /\ FlattenSeq(Side(w, f)) = z \o FlattenSeq(y)
  BY <1>8, <1>9
<1> QED BY <1>4, <1>5, <1>10 DEF w

\* What the walk of cmd_diff prints from p on, when h says it for the entries
\* behind p.
WalkFrom(la, lb, d, h, p) ==
  LET i == p[1]  j == p[2]
      hunk(old, new) == <<[old |-> old, new |-> new]>>
  IN  IF i = Len(la) /\ j = Len(lb) THEN <<>>
      ELSE IF i < Len(la) /\ j < Len(lb) /\ la[i+1] = lb[j+1]
        THEN hunk(<<la[i+1]>>, <<lb[j+1]>>) \o h[<<i+1, j+1>>]
      ELSE IF j < Len(lb) /\ (i = Len(la) \/ d[p] = d[<<i, j+1>>] + 1)
        THEN hunk(<<>>, <<lb[j+1]>>) \o h[<<i, j+1>>]
      ELSE IF i < Len(la) /\ (j = Len(lb) \/ d[p] = d[<<i+1, j>>] + 1)
        THEN hunk(<<la[i+1]>>, <<>>) \o h[<<i+1, j>>]
      ELSE hunk(<<la[i+1]>>, <<lb[j+1]>>) \o h[<<i+1, j+1>>]

\* The first line left of a file, and the lines behind the first i.
Taken(s, i, x) == IF x = 0 THEN <<>> ELSE <<s[i+1]>>

Rest(s, i) == SubSeq(s, i + 1, Len(s))

\* At p the walk takes x lines of one file and y of the other, and goes on.
Takes(la, lb, d, p, x, y) ==
  /\ p[1] + x <= Len(la) /\ p[2] + y <= Len(lb)
  /\ <<p[1] + x, p[2] + y>> \in Entries(la, lb)
  /\ Left(la, lb)[<<p[1] + x, p[2] + y>>] < Left(la, lb)[p]
  /\ \A h : WalkFrom(la, lb, d, h, p) =
       <<[old |-> Taken(la, p[1], x), new |-> Taken(lb, p[2], y)]>> \o h[<<p[1] + x, p[2] + y>>]

\* Short of both ends, whatever the table has, the walk takes a line of one file
\* or of both.
LEMMA WalkSteps ==
  ASSUME NEW la \in Seq(Line), NEW lb \in Seq(Line), NEW d, NEW p \in Entries(la, lb),
         ~(p[1] = Len(la) /\ p[2] = Len(lb))
  PROVE  \E x, y \in {0, 1} : Takes(la, lb, d, p, x, y)
<1> DEFINE i == p[1]
           j == p[2]
           na == Len(la)
           nb == Len(lb)
           E == Entries(la, lb)
           R == Left(la, lb)
           Goes(x, y) == \A h : WalkFrom(la, lb, d, h, p) =
                <<[old |-> Taken(la, i, x), new |-> Taken(lb, j, y)]>> \o h[<<i + x, j + y>>]
           Fits(x, y) == /\ i + x <= na /\ j + y <= nb /\ <<i + x, j + y>> \in E
                         /\ R[<<i + x, j + y>>] < R[p]
<1>1. /\ i \in 0..na /\ j \in 0..nb /\ R[p] \in Int /\ na \in Nat /\ nb \in Nat
      /\ i < na => <<i+1, j>> \in E /\ R[<<i+1, j>>] = R[p] - 1
      /\ j < nb => <<i, j+1>> \in E /\ R[<<i, j+1>>] = R[p] - 1
      /\ i < na /\ j < nb => <<i+1, j+1>> \in E /\ R[<<i+1, j+1>>] = R[p] - 2
  <2>0. R[p] \in 0..na + nb
    BY EntriesBehind
  <2>1. R[p] \in Int
    <3> HIDE DEF R, na, nb
    <3> QED BY <2>0
  <2>2. na \in Nat /\ nb \in Nat
    OBVIOUS
  <2> QED BY <2>1, <2>2, EntriesBehind
<1>2. \A s, k : Taken(s, k, 0) = <<>> /\ Taken(s, k, 1) = <<s[k+1]>>
  BY DEF Taken
<1>3. i + 0 = i /\ j + 0 = j
  <2> HIDE DEF i, j
  <2> QED BY <1>1
<1>4. ~(i = na /\ j = nb)
  OBVIOUS
<1> HIDE DEF E, R, na, nb
<1>5. i < na /\ j < nb => Fits(1, 1)
  <2> HIDE DEF i, j
  <2> QED BY <1>1
<1>6. j < nb => Fits(0, 1)
  <2> HIDE DEF i, j
  <2> QED BY <1>1, <1>3
<1>7. i < na => Fits(1, 0)
  <2> HIDE DEF i, j
  <2> QED BY <1>1, <1>3
<1> HIDE DEF Fits
<1>8. (Fits(1, 1) /\ Goes(1, 1)) \/ (Fits(0, 1) /\ Goes(0, 1)) \/ (Fits(1, 0) /\ Goes(1, 0))
  <2>1. CASE i < na /\ j < nb /\ la[i+1] = lb[j+1]
    <3>1. Goes(1, 1)
      BY <1>2, <1>4, <2>1 DEF WalkFrom, na, nb
    <3> QED BY <1>5, <2>1, <3>1
  <2>2. CASE /\ ~(i < na /\ j < nb /\ la[i+1] = lb[j+1])
             /\ j < nb /\ (i = na \/ d[p] = d[<<i, j+1>>] + 1)
    <3>1. Goes(0, 1)
      BY <1>2, <1>3, <1>4, <2>2 DEF WalkFrom, na, nb
    <3> QED BY <1>6, <2>2, <3>1
  <2>3. CASE /\ ~(i < na /\ j < nb /\ la[i+1] = lb[j+1])
             /\ ~(j < nb /\ (i = na \/ d[p] = d[<<i, j+1>>] + 1))
             /\ i < na /\ (j = nb \/ d[p] = d[<<i+1, j>>] + 1)
    <3>1. Goes(1, 0)
      BY <1>2, <1>3, <1>4, <2>3 DEF WalkFrom, na, nb
    <3> QED BY <1>7, <2>3, <3>1
  <2>4. CASE /\ ~(i < na /\ j < nb /\ la[i+1] = lb[j+1])
             /\ ~(j < nb /\ (i = na \/ d[p] = d[<<i, j+1>>] + 1))
             /\ ~(i < na /\ (j = nb \/ d[p] = d[<<i+1, j>>] + 1))
    <3>1. Goes(1, 1)
      BY <1>2, <1>4, <2>4 DEF WalkFrom, na, nb
    <3>2. i < na /\ j < nb
      <4> HIDE DEF i, j
      <4> QED BY <1>1, <1>4, <2>4
    <3> QED BY <1>5, <3>1, <3>2
  <2> QED BY <2>1, <2>2, <2>3, <2>4
<1>9. 0 \in {0, 1} /\ 1 \in {0, 1}
  OBVIOUS
<1>10. \E x, y \in {0, 1} : Fits(x, y) /\ Goes(x, y)
  <2> HIDE DEF Goes
  <2> QED BY <1>8, <1>9
<1> QED BY <1>10 DEF Takes, Fits, Goes, E, R, na, nb

\* A line taken and the lines behind it are the lines from it on.
LEMMA RestFrom ==
  ASSUME NEW s \in Seq(Line), NEW i \in 0..Len(s), NEW x \in {0, 1}, i + x <= Len(s)
  PROVE  /\ Taken(s, i, x) \in Seq(Line) /\ Rest(s, i + x) \in Seq(Line)
         /\ Taken(s, i, x) \o Rest(s, i + x) = Rest(s, i)
<1> DEFINE n == Len(s)
           w == Rest(s, i)
           v == Rest(s, i + x)
           u == Taken(s, i, x)
<1>1. n \in Nat /\ i \in Nat /\ \A k \in 1..n : s[k] \in Line
  OBVIOUS
<1>2. \A m \in 0..n : /\ Rest(s, m) \in Seq(Line) /\ Len(Rest(s, m)) = n - m
                      /\ \A k \in 1..n - m : Rest(s, m)[k] = s[k + m]
  <2> TAKE m \in 0..n
  <2> DEFINE r == SubSeq(s, m + 1, n)
  <2>1. m + 1 \in Int /\ \A k \in (m + 1)..n : s[k] \in Line
    BY <1>1
  <2>2. /\ r \in Seq(Line) /\ Len(r) = IF m + 1 <= n THEN n - (m + 1) + 1 ELSE 0
        /\ \A k \in 1..n - (m + 1) + 1 : r[k] = s[(m + 1) + k - 1]
    <3> HIDE DEF n
    <3> QED BY <1>1, <2>1, SubSeqProperties
  <2>3. Rest(s, m) = r
    BY DEF Rest
  <2> HIDE DEF r, n
  <2>4. Len(r) = n - m
    BY <1>1, <2>2
  <2>5. ASSUME NEW k \in 1..n - m PROVE r[k] = s[k + m]
    <3>1. k \in 1..n - (m + 1) + 1 /\ (m + 1) + k - 1 = k + m
      BY <1>1
    <3> QED BY <2>2, <3>1
  <2> QED BY <2>2, <2>3, <2>4, <2>5
<1>3. i + x \in 0..n /\ i \in 0..n
  BY <1>1
<1>4. v \in Seq(Line) /\ w \in Seq(Line)
  <2> HIDE DEF n
  <2> QED BY <1>2, <1>3
<1>5. CASE x = 0
  <2>1. u = <<>> /\ i + x = i /\ <<>> \in Seq(Line)
    BY <1>1, <1>5 DEF Taken
  <2> HIDE DEF v, w, u
  <2>2. <<>> \o w = w /\ v = w
    BY <1>4, <2>1, ConcatEmptySeq DEF v, w
  <2> QED BY <1>4, <2>1, <2>2 DEF v, w, u
<1>6. CASE x = 1
  <2> DEFINE l == s[i + 1]
             one == <<l>>
             t == one \o v
  <2>1. u = one /\ i + 1 \in 1..n /\ l \in Line
    BY <1>1, <1>6 DEF Taken
  <2>2. one \in Seq(Line) /\ Len(one) = 1 /\ one[1] = l
    <3> HIDE DEF l
    <3> QED BY <2>1
  <2>3. /\ Len(v) = n - (i + 1) /\ \A k \in 1..n - (i + 1) : v[k] = s[k + (i + 1)]
        /\ Len(w) = n - i /\ \A k \in 1..n - i : w[k] = s[k + i]
    <3>1. i + x = i + 1
      BY <1>6
    <3> HIDE DEF n
    <3> QED BY <1>2, <1>3, <3>1
  <2> HIDE DEF l, one, u, v, w, n
  <2>4. /\ t \in Seq(Line) /\ Len(t) = Len(one) + Len(v)
        /\ \A k \in 1..Len(t) : t[k] = IF k <= Len(one) THEN one[k] ELSE v[k - Len(one)]
    <3>1. one \in Seq(Line) /\ v \in Seq(Line)
      BY <1>4, <2>2
    <3> QED BY <3>1, ConcatProperties, ZenonT(40)
  <2> HIDE DEF t
  <2>5. Len(t) = n - i
    BY <1>1, <2>1, <2>2, <2>3, <2>4
  <2>6. ASSUME NEW k \in 1..n - i PROVE t[k] = w[k]
    <3>1. k \in 1..Len(t) /\ w[k] = s[k + i] /\ k + i \in Int
      BY <1>1, <2>3, <2>5
    <3>2. CASE k = 1
      <4>1. t[k] = l /\ k + i = i + 1
        BY <1>1, <2>2, <2>4, <3>1, <3>2
      <4> QED BY <3>1, <4>1 DEF l
    <3>3. CASE k # 1
      <4>1. k - 1 \in 1..n - (i + 1) /\ ~(k <= 1) /\ (k - 1) + (i + 1) = k + i
        BY <1>1, <2>1, <3>3
      <4> QED BY <2>2, <2>3, <2>4, <3>1, <4>1
    <3> QED BY <3>2, <3>3
  <2>7. t = w
    BY <1>4, <2>3, <2>4, <2>5, <2>6, SeqEqual
  <2> QED BY <1>4, <2>1, <2>2, <2>7 DEF t, u, v, w
<1> QED BY <1>5, <1>6

\* A hunk put before hunks.
LEMMA HunkCons ==
  ASSUME NEW u \in Seq(Line), NEW v \in Seq(Line), NEW o \in Seq(Hunk)
  PROVE  LET r == [old |-> u, new |-> v]
         IN  /\ <<r>> \o o \in Seq(Hunk)
             /\ FlattenSeq(Side(<<r>> \o o, "old")) = u \o FlattenSeq(Side(o, "old"))
             /\ FlattenSeq(Side(<<r>> \o o, "new")) = v \o FlattenSeq(Side(o, "new"))
<1> DEFINE r == [old |-> u, new |-> v]
           one == <<r>>
<1>1. r \in Hunk /\ r["old"] = u /\ r["new"] = v
  <2> DEFINE B == Seq(Line)
  <2>1. u \in B /\ v \in B
    OBVIOUS
  <2> HIDE DEF B
  <2>2. r = [f \in {"old", "new"} |-> IF f = "old" THEN u ELSE v]
    OBVIOUS
  <2> HIDE DEF r
  <2>3. r \in [{"old", "new"} -> B] /\ r["old"] = u /\ r["new"] = v
    BY <2>1, <2>2
  <2> QED BY <2>3 DEF Hunk, B
<1> HIDE DEF r
<1>2. one \in Seq(Hunk)
  BY <1>1
<1>3. one \o o \in Seq(Hunk)
  <2> HIDE DEF one
  <2> QED BY <1>2, ConcatProperties
<1>4. FlattenSeq(Side(<<r>> \o o, "old")) = r["old"] \o FlattenSeq(Side(o, "old"))
  BY <1>1, SideCons
<1>5. FlattenSeq(Side(<<r>> \o o, "new")) = r["new"] \o FlattenSeq(Side(o, "new"))
  BY <1>1, SideCons
<1>6. /\ FlattenSeq(Side(<<r>> \o o, "old")) = u \o FlattenSeq(Side(o, "old"))
      /\ FlattenSeq(Side(<<r>> \o o, "new")) = v \o FlattenSeq(Side(o, "new"))
  BY <1>1, <1>4, <1>5
<1> QED BY <1>3, <1>6 DEF r

\* Walk is what the walk prints from the first entry.
LEMMA WalkIs ==
  ASSUME NEW la \in Seq(Line), NEW lb \in Seq(Line), NEW d
  PROVE  \E w : /\ \A p \in Entries(la, lb) : w[p] = WalkFrom(la, lb, d, w, p)
                /\ Walk(la, lb, d) = w[<<0, 0>>]
<1> DEFINE P == Entries(la, lb)
           K == Len(la) + Len(lb)
           R == Left(la, lb)
           V == Seq(Hunk)
           B == [q \in [P -> V] \X P |-> WalkFrom(la, lb, d, q[1], q[2])]
           w == CHOOSE h : h = [p \in P |-> WalkFrom(la, lb, d, h, p)]
<1>1. K \in Nat /\ R \in [P -> 0..K]
  <2>1. \A p \in P : R[p] \in 0..K
    BY EntriesBehind
  <2>2. R = [p \in P |-> R[p]]
    BY DEF Left
  <2>3. K \in Nat
    OBVIOUS
  <2> HIDE DEF P, K, R
  <2> QED BY <2>1, <2>2, <2>3
<1>2. ASSUME NEW p \in P, ~(p[1] = Len(la) /\ p[2] = Len(lb))
      PROVE  \E u \in Seq(Line), v \in Seq(Line), q \in P :
               /\ R[q] < R[p]
               /\ \A h : WalkFrom(la, lb, d, h, p) = <<[old |-> u, new |-> v]>> \o h[q]
  <2> DEFINE i == p[1]
             j == p[2]
  <2>0. PICK x \in {0, 1}, y \in {0, 1} : Takes(la, lb, d, p, x, y)
    BY <1>2, WalkSteps
  <2>1. /\ i + x <= Len(la) /\ j + y <= Len(lb)
        /\ <<i + x, j + y>> \in P /\ R[<<i + x, j + y>>] < R[p]
        /\ \A h : WalkFrom(la, lb, d, h, p) =
             <<[old |-> Taken(la, i, x), new |-> Taken(lb, j, y)]>> \o h[<<i + x, j + y>>]
    BY <2>0 DEF Takes
  <2>2. i \in 0..Len(la) /\ j \in 0..Len(lb)
    BY EntriesBehind
  <2> HIDE DEF i, j, P, R
  <2>3. Taken(la, i, x) \in Seq(Line) /\ Taken(lb, j, y) \in Seq(Line)
    BY <2>1, <2>2, RestFrom
  <2> DEFINE u == Taken(la, i, x)
             v == Taken(lb, j, y)
             q == <<i + x, j + y>>
  <2>4. /\ u \in Seq(Line) /\ v \in Seq(Line) /\ q \in P /\ R[q] < R[p]
        /\ \A h : WalkFrom(la, lb, d, h, p) = <<[old |-> u, new |-> v]>> \o h[q]
    BY <2>1, <2>3
  <2> HIDE DEF u, v, q
  <2> QED BY <2>4
<1>3. ASSUME NEW p \in P, p[1] = Len(la), p[2] = Len(lb)
      PROVE  \A h : WalkFrom(la, lb, d, h, p) = <<>>
  BY <1>3 DEF WalkFrom
<1> HIDE DEF P, R, K
<1>4. ASSUME NEW h \in [P -> V], NEW p \in P PROVE WalkFrom(la, lb, d, h, p) \in V
  <2>1. CASE p[1] = Len(la) /\ p[2] = Len(lb)
    <3>1. WalkFrom(la, lb, d, h, p) = <<>>
      BY <1>3, <2>1
    <3>2. <<>> \in V
      OBVIOUS
    <3> HIDE DEF V
    <3> QED BY <3>1, <3>2
  <2>2. CASE ~(p[1] = Len(la) /\ p[2] = Len(lb))
    <3>1. PICK u \in Seq(Line), v \in Seq(Line), q \in P :
            WalkFrom(la, lb, d, h, p) = <<[old |-> u, new |-> v]>> \o h[q]
      BY <1>2, <2>2
    <3> DEFINE o == h[q]
    <3>2. o \in Seq(Hunk)
      OBVIOUS
    <3> HIDE DEF o
    <3>3. <<[old |-> u, new |-> v]>> \o o \in Seq(Hunk)
      BY <3>2, HunkCons
    <3> QED BY <3>1, <3>3 DEF o
  <2> QED BY <2>1, <2>2
<1> HIDE DEF V
<1>5. B \in [[P -> V] \X P -> V]
  <2>1. \A q \in [P -> V] \X P : WalkFrom(la, lb, d, q[1], q[2]) \in V
    <3> TAKE q \in [P -> V] \X P
    <3>1. q[1] \in [P -> V] /\ q[2] \in P
      OBVIOUS
    <3> QED BY <1>4, <3>1
  <2> QED BY <2>1
<1>6. ASSUME NEW h1 \in [P -> V], NEW h2 \in [P -> V], NEW p \in P,
             \A q \in P : R[q] < R[p] => h1[q] = h2[q]
      PROVE  B[<<h1, p>>] = B[<<h2, p>>]
  <2>1. <<h1, p>> \in [P -> V] \X P /\ <<h2, p>> \in [P -> V] \X P
    OBVIOUS
  <2>2. B[<<h1, p>>] = WalkFrom(la, lb, d, h1, p) /\ B[<<h2, p>>] = WalkFrom(la, lb, d, h2, p)
    BY <2>1
  <2> HIDE DEF B
  <2>3. CASE p[1] = Len(la) /\ p[2] = Len(lb)
    BY <1>3, <2>2, <2>3
  <2>4. CASE ~(p[1] = Len(la) /\ p[2] = Len(lb))
    <3>1. PICK u \in Seq(Line), v \in Seq(Line), q \in P :
            /\ R[q] < R[p]
            /\ \A h : WalkFrom(la, lb, d, h, p) = <<[old |-> u, new |-> v]>> \o h[q]
      BY <1>2, <2>4
    <3>2. h1[q] = h2[q]
      BY <1>6, <3>1
    <3> QED BY <2>2, <3>1, <3>2
  <2> QED BY <2>3, <2>4
<1>7. PICK f \in [P -> V] : \A p \in P : f[p] = B[<<f, p>>]
  <2>1. <<>> \in V
    BY DEF V
  <2> HIDE DEF B
  <2>2. Descends(P, V, R, B)
    BY <1>5, <1>6 DEF Descends
  <2>3. Solutions(P, V, B) # {}
    BY <1>1, <2>1, <2>2, Recursion
  <2> QED BY <2>3 DEF Solutions
<1>8. f = [p \in P |-> WalkFrom(la, lb, d, f, p)]
  <2>1. ASSUME NEW p \in P PROVE f[p] = WalkFrom(la, lb, d, f, p)
    <3>1. <<f, p>> \in [P -> V] \X P /\ f[p] = B[<<f, p>>]
      <4> HIDE DEF B
      <4> QED BY <1>7
    <3> QED BY <3>1
  <2> QED BY <1>7, <2>1
<1>9. w = [p \in P |-> WalkFrom(la, lb, d, w, p)]
  <2> HIDE DEF w
  <2>1. w = CHOOSE h : h = [p \in P |-> WalkFrom(la, lb, d, h, p)]
    BY DEF w
  <2> QED BY <1>8, <2>1
<1>10. Walk(la, lb, d) = w[<<0, 0>>]
  BY DEF Walk, WalkFrom, Entries, P
<1> HIDE DEF w
<1>11. \A p \in P : w[p] = WalkFrom(la, lb, d, w, p)
  BY <1>9
<1> QED BY <1>10, <1>11 DEF P

\* Whatever the table has, the hunks of the walk give both files back.
LEMMA WalkRebuilds ==
  ASSUME NEW la \in Seq(Line), NEW lb \in Seq(Line), NEW d
  PROVE  LET o == Walk(la, lb, d)
         IN  FlattenSeq(Side(o, "old")) = la /\ FlattenSeq(Side(o, "new")) = lb
<1> DEFINE P == Entries(la, lb)
           R == Left(la, lb)
           na == Len(la)
           nb == Len(lb)
           n == na + nb + 1
<1>1. PICK w : /\ \A p \in P : w[p] = WalkFrom(la, lb, d, w, p)
               /\ Walk(la, lb, d) = w[<<0, 0>>]
  BY WalkIs
<1> DEFINE Good(p) == /\ w[p] \in Seq(Hunk)
                      /\ FlattenSeq(Side(w[p], "old")) = Rest(la, p[1])
                      /\ FlattenSeq(Side(w[p], "new")) = Rest(lb, p[2])
           S == {k \in 0..n : \A p \in P : R[p] < k => Good(p)}
<1>2. na \in Nat /\ nb \in Nat /\ n \in Nat
  OBVIOUS
<1>3. FlattenSeq(Side(<<>>, "old")) = <<>> /\ FlattenSeq(Side(<<>>, "new")) = <<>>
  <2>1. Side(<<>>, "old") = <<>> /\ Side(<<>>, "new") = <<>>
    BY DEF Side
  <2>2. FlattenSeq(<<>>) = <<>>
    BY DEF FlattenSeq
  <2> QED BY <2>1, <2>2
<1>4. ASSUME NEW p \in P, \A q \in P : R[q] < R[p] => Good(q) PROVE Good(p)
  <2> DEFINE i == p[1]
             j == p[2]
  <2>1. CASE i = na /\ j = nb
    <3>1. w[p] = <<>>
      BY <1>1, <2>1 DEF WalkFrom
    <3>2. Rest(la, i) = <<>> /\ Rest(lb, j) = <<>>
      <4>1. SubSeq(la, na + 1, na) = <<>> /\ SubSeq(lb, nb + 1, nb) = <<>>
        BY <1>2, SubSeqEmpty
      <4> QED BY <2>1, <4>1 DEF Rest
    <3>3. <<>> \in Seq(Hunk)
      OBVIOUS
    <3> QED BY <1>3, <3>1, <3>2, <3>3
  <2>2. CASE ~(i = na /\ j = nb)
    <3>0. PICK x \in {0, 1}, y \in {0, 1} : Takes(la, lb, d, p, x, y)
      BY <2>2, WalkSteps
    <3> DEFINE u == Taken(la, i, x)
               v == Taken(lb, j, y)
               q == <<i + x, j + y>>
               o == w[q]
               r == [old |-> u, new |-> v]
    <3>1. /\ i + x <= na /\ j + y <= nb /\ q \in P /\ R[q] < R[p]
          /\ WalkFrom(la, lb, d, w, p) = <<r>> \o o
      BY <3>0 DEF Takes
    <3>2. i \in 0..na /\ j \in 0..nb
      BY EntriesBehind
    <3>3. w[p] = <<r>> \o o
      BY <1>1, <3>1
    <3>4. q[1] = i + x /\ q[2] = j + y
      OBVIOUS
    <3> HIDE DEF P, R, i, j, q
    <3>5. /\ u \in Seq(Line) /\ u \o Rest(la, i + x) = Rest(la, i)
          /\ v \in Seq(Line) /\ v \o Rest(lb, j + y) = Rest(lb, j)
      <4>1. u \in Seq(Line) /\ u \o Rest(la, i + x) = Rest(la, i)
        BY <3>1, <3>2, RestFrom
      <4>2. v \in Seq(Line) /\ v \o Rest(lb, j + y) = Rest(lb, j)
        BY <3>1, <3>2, RestFrom
      <4> QED BY <4>1, <4>2
    <3>6. Good(q)
      <4> HIDE DEF Good
      <4> QED BY <1>4, <3>1
    <3>7. /\ o \in Seq(Hunk)
          /\ FlattenSeq(Side(o, "old")) = Rest(la, i + x)
          /\ FlattenSeq(Side(o, "new")) = Rest(lb, j + y)
      BY <3>4, <3>6
    <3> HIDE DEF u, v, o
    <3>8. /\ <<r>> \o o \in Seq(Hunk)
          /\ FlattenSeq(Side(<<r>> \o o, "old")) = u \o FlattenSeq(Side(o, "old"))
          /\ FlattenSeq(Side(<<r>> \o o, "new")) = v \o FlattenSeq(Side(o, "new"))
      BY <3>5, <3>7, HunkCons
    <3> HIDE DEF r
    <3>9. /\ w[p] \in Seq(Hunk)
          /\ FlattenSeq(Side(w[p], "old")) = Rest(la, i)
          /\ FlattenSeq(Side(w[p], "new")) = Rest(lb, j)
      BY <3>3, <3>5, <3>7, <3>8
    <3> QED BY <3>9 DEF i, j
  <2> QED BY <2>1, <2>2
<1> HIDE DEF Good
<1>5. \A p \in P : R[p] \in Nat /\ R[p] < n
  <2> TAKE p \in P
  <2>1. R[p] \in 0..na + nb
    BY EntriesBehind
  <2> HIDE DEF R, na, nb
  <2> QED BY <1>2, <2>1
<1> HIDE DEF P, R, n
<1>6. 0 \in S
  <2>1. \A p \in P : ~(R[p] < 0)
    BY <1>5
  <2> QED BY <1>2, <2>1
<1>7. ASSUME NEW k \in 1..n, k - 1 \in S PROVE k \in S
  <2>1. k \in 0..n /\ k \in Int
    BY <1>2
  <2>2. \A q \in P : R[q] < k - 1 => Good(q)
    BY <1>7
  <2>3. ASSUME NEW p \in P, R[p] < k PROVE Good(p)
    <3>1. \A q \in P : R[q] < R[p] => R[q] < k - 1
      BY <1>5, <2>1, <2>3
    <3> QED BY <1>4, <2>2, <3>1
  <2> QED BY <2>1, <2>3
<1>8. 0..n \subseteq S
  <2> HIDE DEF S
  <2> QED BY <1>2, <1>6, <1>7, InductTo
<1>9. n \in S
  <2> HIDE DEF S
  <2> QED BY <1>2, <1>8
<1>10. <<0, 0>> \in P
  BY <1>2 DEF P, Entries
<1>11. Good(<<0, 0>>)
  BY <1>5, <1>9, <1>10
<1>12. Rest(la, 0) = la /\ Rest(lb, 0) = lb
  <2>1. SubSeq(la, 1, Len(la)) = la /\ SubSeq(lb, 1, Len(lb)) = lb
    BY WholeText
  <2>2. 0 + 1 = 1
    OBVIOUS
  <2> QED BY <2>1, <2>2 DEF Rest
<1>13. /\ FlattenSeq(Side(w[<<0, 0>>], "old")) = Rest(la, 0)
       /\ FlattenSeq(Side(w[<<0, 0>>], "new")) = Rest(lb, 0)
  BY <1>11 DEF Good
<1> QED BY <1>1, <1>12, <1>13

\* diff gives both files back, and tells equal ones from others.
LEMMA DiffPrints ==
  ASSUME NEW la \in Seq(Line), NEW lb \in Seq(Line)
  PROVE  LET d == Distances(la, lb)
             o == Walk(la, lb, d)
         IN  /\ FlattenSeq([k \in DOMAIN o |-> o[k].old]) = la
             /\ FlattenSeq([k \in DOMAIN o |-> o[k].new]) = lb
             /\ Len(la) < WORD16 /\ Len(lb) < WORD16 => (d[<<0, 0>>] = 0 <=> la = lb)
<1> DEFINE d == Distances(la, lb)
           o == Walk(la, lb, d)
<1>1. FlattenSeq(Side(o, "old")) = la /\ FlattenSeq(Side(o, "new")) = lb
  BY WalkRebuilds
<1>2. Len(la) < WORD16 /\ Len(lb) < WORD16 => (d[<<0, 0>>] = 0 <=> la = lb)
  BY TableTells
<1> HIDE DEF o
<1>3. /\ Side(o, "old") = [k \in DOMAIN o |-> o[k].old]
      /\ Side(o, "new") = [k \in DOMAIN o |-> o[k].new]
  BY DEF Side
<1> QED BY <1>1, <1>2, <1>3 DEF o

-----------------------------------------------------------------------------
(* The commands.                                                           *)

\* split_lines gives lines, sort prints them in order and uniq without repeats.
LEMMA SortPrints ==
  ASSUME NEW opts, NEW lines \in Seq(Line)
  PROVE  LET s == SortedTo(opts, lines)[Len(lines)]
             o == PrintedTo("u" \in opts, s)[Len(s)]
         IN  /\ \A i, j \in DOMAIN o : i < j => Compare(opts, o[i], o[j]) <= 0
             /\ Range(o) = Range(lines)
             /\ \A l \in Range(lines) : Count(o, l) = IF "u" \in opts THEN 1 ELSE Count(lines, l)
<1> DEFINE s == SortedTo(opts, lines)[Len(lines)]
           unique == "u" \in opts
           o == PrintedTo(unique, s)[Len(s)]
<1>1. s \in Seq(Line) /\ InOrder(opts, s) /\ \A l : Count(s, l) = Count(lines, l)
  BY SortedIs
<1> HIDE DEF s
<1>2. /\ o \in Seq(Line) /\ InOrder(opts, o) /\ Range(o) = Range(s)
      /\ \A l \in Range(s) : Count(o, l) = IF unique THEN 1 ELSE Count(s, l)
  <2>1. unique \in BOOLEAN
    OBVIOUS
  <2> HIDE DEF unique
  <2> QED BY <1>1, <2>1, PrintedIs
<1>3. Range(s) = Range(lines)
  <2>1. ASSUME NEW l PROVE l \in Range(s) <=> l \in Range(lines)
    <3>1. l \in Range(s) <=> Count(s, l) # 0
      BY <1>1, CountIn
    <3>2. l \in Range(lines) <=> Count(lines, l) # 0
      BY CountIn
    <3> QED BY <1>1, <3>1, <3>2
  <2> QED BY <2>1
<1> HIDE DEF o
<1>4. \A i, j \in DOMAIN o : i < j => Compare(opts, o[i], o[j]) <= 0
  <2>1. DOMAIN o = 1..Len(o)
    BY <1>2
  <2> QED BY <1>2, <2>1 DEF InOrder
<1>5. \A l \in Range(lines) : Count(o, l) = IF unique THEN 1 ELSE Count(lines, l)
  BY <1>1, <1>2, <1>3
<1> QED BY <1>2, <1>3, <1>4, <1>5 DEF o, unique, s

\* What a command printed is what it makes of the file, which is a text.
TextInv == file \in Seq(Codes) /\ HeadTailCut /\ SortOrders /\ DiffRebuilds

\* Nothing has run at first.
LEMMA TextInvInit == TextInit => TextInv
<1> SUFFICES ASSUME TextInit PROVE TextInv
  OBVIOUS
<1>1. file \in Seq(Codes)
  BY TextAssumption DEF TextInit, Codes
<1>2. cmd.name = "none"
  BY DEF TextInit
<1> QED BY <1>1, <1>2 DEF TextInv, HeadTailCut, SortOrders, DiffRebuilds

\* Every command prints what it promises, and leaves the file alone.
LEMMA TextInvStep == TextInv /\ [TextNext]_textVars => TextInv'
<1> SUFFICES ASSUME TextInv, [TextNext]_textVars PROVE TextInv'
  OBVIOUS
<1>1. file \in Seq(Codes)
  BY DEF TextInv
<1>2. ASSUME NEW n \in Counts, cmd_head(n) PROVE TextInv'
  <2> DEFINE p == SubSeq(file, 1, HeadEnd(file, n))
  <2>1. cmd' = [name |-> "head", n |-> n] /\ out' = p /\ file' = file
    BY <1>2 DEF cmd_head, Ran, HeadEnd
  <2>2. n \in Int
    BY TextAssumption
  <2>3. /\ IsPrefix(p, file)
        /\ split_lines(p) =
             IF n < 0 THEN split_lines(file)
             ELSE SubSeq(split_lines(file), 1, IF n < Len(split_lines(file)) THEN n ELSE Len(split_lines(file)))
    BY <1>1, <2>2, HeadCuts
  <2>4. cmd'.name = "head" /\ cmd'.n = n
    BY <2>1
  <2> HIDE DEF p
  <2>5. HeadTailCut'
    BY <2>1, <2>3, <2>4 DEF HeadTailCut
  <2>6. SortOrders' /\ DiffRebuilds'
    BY <2>4 DEF SortOrders, DiffRebuilds
  <2> QED BY <1>1, <2>1, <2>5, <2>6 DEF TextInv
<1>3. ASSUME NEW n \in Counts, cmd_tail(n) PROVE TextInv'
  <2> DEFINE q == SubSeq(file, TailStart(file, n) + 1, Len(file))
  <2>1. cmd' = [name |-> "tail", n |-> n] /\ out' = q /\ file' = file
    BY <1>3 DEF cmd_tail, Ran, TailStart
  <2>2. n \in Int
    BY TextAssumption
  <2>3. LET lines == split_lines(file)
            ended == file # <<>> /\ Last(file) = NL
            k == IF n <= 0 \/ n > Newlines(file, 1, Len(file)) THEN Len(lines)
                 ELSE IF ended THEN n - 1 ELSE n
        IN  /\ IsSuffix(q, file)
            /\ split_lines(q) = SubSeq(lines, Len(lines) - k + 1, Len(lines))
    BY <1>1, <2>2, TailCuts
  <2>4. cmd'.name = "tail" /\ cmd'.n = n
    BY <2>1
  <2> HIDE DEF q
  <2>5. HeadTailCut'
    BY <2>1, <2>3, <2>4 DEF HeadTailCut
  <2>6. SortOrders' /\ DiffRebuilds'
    BY <2>4 DEF SortOrders, DiffRebuilds
  <2> QED BY <1>1, <2>1, <2>5, <2>6 DEF TextInv
<1>4. ASSUME NEW opts \in SUBSET {"r", "n", "u"}, cmd_sort(opts) PROVE TextInv'
  <2> DEFINE lines == split_lines(file)
             s == SortedTo(opts, lines)[Len(lines)]
             o == PrintedTo("u" \in opts, s)[Len(s)]
  <2>1. cmd' = [name |-> "sort", opts |-> opts] /\ out' = o /\ file' = file
    BY <1>4 DEF cmd_sort, Ran
  <2>2. cmd'.name = "sort" /\ cmd'.opts = opts
    BY <2>1
  <2>3. lines \in Seq(Line)
    BY <1>1, SplitCounts DEF Line
  <2>4. /\ \A i, j \in DOMAIN o : i < j => Compare(opts, o[i], o[j]) <= 0
        /\ Range(o) = Range(lines)
        /\ \A l \in Range(lines) : Count(o, l) = IF "u" \in opts THEN 1 ELSE Count(lines, l)
    <3> HIDE DEF lines
    <3> QED BY <2>3, SortPrints
  <2>5. lines' = lines
    BY <2>1
  <2> HIDE DEF o
  <2>6. SortOrders'
    BY <2>1, <2>2, <2>4, <2>5 DEF SortOrders
  <2>7. HeadTailCut' /\ DiffRebuilds'
    BY <2>2 DEF HeadTailCut, DiffRebuilds
  <2> QED BY <1>1, <2>1, <2>6, <2>7 DEF TextInv
<1>5. ASSUME cmd_uniq PROVE TextInv'
  <2> DEFINE lines == split_lines(file)
             o == RunsTo(lines)[Len(lines)]
  <2>1. cmd'.name = "uniq" /\ out' = o /\ file' = file
    BY <1>5 DEF cmd_uniq, Ran
  <2>2. lines \in Seq(Line)
    BY <1>1, SplitCounts DEF Line
  <2>3. /\ \A i \in 1..Len(o) - 1 : o[i].line # o[i+1].line
        /\ FlattenSeq([i \in DOMAIN o |-> [k \in 1..o[i].run |-> o[i].line]]) = lines
    <3> HIDE DEF lines
    <3> QED BY <2>2, RunsIs DEF Rows
  <2>4. lines' = lines
    BY <2>1
  <2> HIDE DEF o
  <2>5. SortOrders'
    BY <2>1, <2>3, <2>4 DEF SortOrders
  <2>6. HeadTailCut' /\ DiffRebuilds'
    BY <2>1 DEF HeadTailCut, DiffRebuilds
  <2> QED BY <1>1, <2>1, <2>5, <2>6 DEF TextInv
<1>6. ASSUME NEW other \in Others, cmd_diff(other) PROVE TextInv'
  <2> DEFINE la == split_lines(file)
             lb == split_lines(other)
             d == Distances(la, lb)
             o == Walk(la, lb, d)
  <2>1. /\ cmd' = [name |-> "diff", other |-> other] /\ file' = file
        /\ d[<<0, 0>>] = 0 => rc' = 0
        /\ d[<<0, 0>>] # 0 => rc' = 1 /\ out' = o
    BY <1>6 DEF cmd_diff, Ran
  <2>2. cmd'.name = "diff" /\ cmd'.other = other
    BY <2>1
  <2>3. other \in Seq(Codes)
    BY TextAssumption DEF Codes
  <2>4. la \in Seq(Line) /\ lb \in Seq(Line)
    BY <1>1, <2>3, SplitCounts DEF Line
  <2>5. la' = la /\ split_lines(cmd'.other) = lb
    BY <2>1, <2>2
  <2> HIDE DEF la, lb
  <2>6. /\ FlattenSeq([k \in DOMAIN o |-> o[k].old]) = la
        /\ FlattenSeq([k \in DOMAIN o |-> o[k].new]) = lb
        /\ Len(la) < WORD16 /\ Len(lb) < WORD16 => (d[<<0, 0>>] = 0 <=> la = lb)
    BY <2>4, DiffPrints
  <2> HIDE DEF d, o
  <2>7. DiffRebuilds'
    <3>1. split_lines(file') = la
      BY <2>5 DEF la
    <3>2. rc' = 1 => out' = o
      BY <2>1
    <3>3. rc' = 0 <=> d[<<0, 0>>] = 0
      BY <2>1
    <3> QED BY <2>5, <2>6, <3>1, <3>2, <3>3 DEF DiffRebuilds
  <2>8. HeadTailCut' /\ SortOrders'
    BY <2>2 DEF HeadTailCut, SortOrders
  <2> QED BY <1>1, <2>1, <2>7, <2>8 DEF TextInv
<1>7. CASE UNCHANGED textVars
  BY <1>7 DEF textVars, TextInv, HeadTailCut, SortOrders, DiffRebuilds
<1> QED BY <1>2, <1>3, <1>4, <1>5, <1>6, <1>7 DEF TextNext

\* head prints the first n lines of a file, and tail the last n, or n - 1 of one
\* that ends in a newline, for every text and every n.
THEOREM HeadTailCuts == TextSpec => []HeadTailCut
<1>1. TextInv => HeadTailCut
  BY DEF TextInv
<1> QED BY <1>1, TextInvInit, TextInvStep, PTL DEF TextSpec

\* sort prints every line as often as it was there, or once with -u, in the
\* order its options ask for, and uniq the lines without repeats and counts
\* that give them back, for every text and every set of options.
THEOREM SortKeepsLines == TextSpec => []SortOrders
<1>1. TextInv => SortOrders
  BY DEF TextInv
<1> QED BY <1>1, TextInvInit, TextInvStep, PTL DEF TextSpec

\* The hunks of diff, with the lines both files keep, are the first file on one
\* side and the second on the other, and files shorter than the table's numbers
\* wrap are called identical just when their lines are.
THEOREM DiffGivesBack == TextSpec => []DiffRebuilds
<1>1. TextInv => DiffRebuilds
  BY DEF TextInv
<1> QED BY <1>1, TextInvInit, TextInvStep, PTL DEF TextSpec
=============================================================================
