------------------------------ MODULE MCClock ------------------------------
(* Starting times a second before a minute, ten o'clock, noon, midnight and  *)
(* the end of a leap year's February and of a year.                          *)
EXTENDS Clock

Time(y, mo, d, h, mi, s) ==
  [second |-> s, minute |-> mi, hour |-> h, day |-> d, month |-> mo, year |-> y]
MCStartTimes == { Time(26, 7, 18,  8, 39, 59), Time(26, 7, 18,  9, 59, 59),
                  Time(26, 7, 18, 11, 59, 59), Time(24, 2, 29, 23, 59, 59),
                  Time(25, 12, 31, 23, 59, 59), Time(26, 10, 30, 19, 59, 58) }
MCOperands == {-1, 0, 1, 2}
MCModes == [binary : BOOLEAN, h24 : BOOLEAN]
=============================================================================
