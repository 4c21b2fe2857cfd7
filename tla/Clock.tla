------------------------------- MODULE Clock --------------------------------
(***************************************************************************)
(* The clock program of src/src/clock.c: read_rtc() reads the registers of *)
(* the real-time clock one by one until two readings agree, converts them, *)
(* and main() makes the hour a local one.  What main() then prints is left *)
(* out: the text at clock.c:125-161 is made from addresses, not digits.    *)
(* The makefile does not build the program yet.  The chip ticks between    *)
(* any two of its steps.                                                   *)
(*                                                                         *)
(* day stands for the three registers of the date: they are read after the *)
(* hour and not compared.  century_register is 0, so it is never read.     *)
(*                                                                         *)
(* since and ticks are not the program's: since is when the last pass over *)
(* the registers began, ticks how often the chip has ticked since the      *)
(* reading began.                                                          *)
(***************************************************************************)
EXTENDS Integers

CONSTANTS
  Seconds, Minutes,  \* the length of a minute and of an hour (60, 60)
  Days,              \* the days that the chip tells apart; bound: the chip
                     \* stands still at the end of the last one
  Modes,             \* register B: [binary : BOOLEAN, h24 : BOOLEAN]
  MaxTicks           \* bound: how often the chip ticks during a reading;
                     \* it then stands still until the reading is over

Hours == 24

(* A reading takes no longer than an hour less a minute.  Two passes that  *)
(* are further apart can agree on a time that the chip has not had yet.    *)
ASSUME ClockAssumption ==
  /\ Seconds \in 1 .. 60 /\ Minutes \in 1 .. 60 /\ Days \in 1 .. 31
  /\ Modes \subseteq [binary : BOOLEAN, h24 : BOOLEAN]
  /\ MaxTicks \in 0 .. Seconds * (Minutes - 1)

VARIABLES
  now,           \* the seconds that have passed
  updating,      \* the update-in-progress flag
  registerB,
  pc,            \* what read_rtc() and main() do next
  reading,       \* second, minute, hour and day
  last,          \* last_second, last_minute and last_hour
  since, ticks

chip == <<now, updating, registerB>>
vars == <<chip, pc, reading, last, since, ticks>>

-----------------------------------------------------------------------------
(* The chip, as the program uses it.                                       *)

DayLength == Seconds * Minutes * Hours

TimeAt(t) == [second |-> t % Seconds,
              minute |-> (t \div Seconds) % Minutes,
              hour   |-> (t \div (Seconds * Minutes)) % Hours]
DayAt(t) == 1 + ((t \div DayLength) % Days)

Bcd(v)     == 16 * (v \div 10) + (v % 10)
Encoded(v) == IF registerB.binary THEN v ELSE Bcd(v)

(* In 12-hour mode the hours are 12, 1, ..., 11, and bit 7 says p.m.       *)
EncodedHour(h) ==
  IF registerB.h24 THEN Encoded(h)
  ELSE Encoded(IF h % 12 = 0 THEN 12 ELSE h % 12)
         + (IF h >= 12 THEN 128 ELSE 0)

Register(r) ==
  CASE r = "hour" -> EncodedHour(TimeAt(now).hour)
    [] r = "day"  -> Encoded(DayAt(now))
    [] OTHER      -> Encoded(TimeAt(now)[r])

(* The clock is not set while it is read.  A real chip goes on after the   *)
(* bounds Days and MaxTicks; this one stands still.                        *)
BeginUpdate ==
  /\ ~ updating
  /\ ticks < MaxTicks
  /\ now + 1 < Days * DayLength
  /\ updating' = TRUE
  /\ UNCHANGED <<now, registerB, pc, reading, last, since, ticks>>

Tick ==
  /\ updating
  /\ updating' = FALSE
  /\ now' = now + 1
  /\ ticks' = ticks + 1
  /\ UNCHANGED <<registerB, pc, reading, last, since>>

-----------------------------------------------------------------------------
(* The program.                                                            *)

Fields == {"second", "minute", "hour"}
NoTime == [f \in Fields |-> -1]
Zeros  == [f \in Fields \cup {"day"} |-> 0]

Init ==
  /\ now \in 0 .. Days * DayLength - 1
  /\ updating = FALSE
  /\ registerB \in Modes
  /\ pc = "poll"
  /\ reading = Zeros
  /\ last = NoTime
  /\ since = now /\ ticks = 0

(* while (get_update_in_progress_flag());                                  *)
Poll ==
  /\ pc = "poll"
  /\ ~ updating
  /\ pc' = "second"
  /\ since' = now
  /\ UNCHANGED <<chip, reading, last, ticks>>

After == [second |-> "minute", minute |-> "hour", hour |-> "day",
          day |-> "compare"]

(* get_RTC_register()                                                      *)
ReadRegister ==
  /\ pc \in DOMAIN After
  /\ reading' = [reading EXCEPT ![pc] = Register(pc)]
  /\ pc' = After[pc]
  /\ UNCHANGED <<chip, last, since, ticks>>

Time(r) == [f \in Fields |-> r[f]]

(* Mutated form: a single pass is enough.                                  *)
CompareNever ==
  /\ pc = "compare"
  /\ pc' = "convert"
  /\ last' = Time(reading)
  /\ UNCHANGED <<chip, reading, since, ticks>>

(* Mutated form: what is compared is not renewed.                          *)
CompareFirst ==
  /\ pc = "compare"
  /\ pc' = IF last = Time(reading) THEN "convert" ELSE "poll"
  /\ last' = IF last = NoTime THEN Time(reading) ELSE last
  /\ UNCHANGED <<chip, reading, since, ticks>>

(* The condition of the loop, the first pass before it and the copies at   *)
(* its beginning.                                                          *)
Compare ==
  /\ pc = "compare"
  /\ pc' = IF last = Time(reading) THEN "convert" ELSE "poll"
  /\ last' = Time(reading)
  /\ UNCHANGED <<chip, reading, since, ticks>>

FromBcd(v) == (v % 16) + (v \div 16) * 10

Decoded(v) == IF registerB.binary THEN v ELSE FromBcd(v)

(* Bit 7 is kept through the conversion from BCD.                          *)
DecodedHour(v) ==
  LET h == IF registerB.binary THEN v
           ELSE FromBcd(v % 128) + (IF v >= 128 THEN 128 ELSE 0)
  IN  IF ~ registerB.h24 /\ h >= 128 THEN ((h % 128) + 12) % 24 ELSE h

Convert ==
  /\ pc = "convert"
  /\ reading' = [f \in DOMAIN reading |->
                   IF f = "hour" THEN DecodedHour(reading[f])
                   ELSE Decoded(reading[f])]
  /\ pc' = "show"
  /\ UNCHANGED <<chip, last, since, ticks>>

(* Mutated form: the comparison is the wrong way round.                    *)
LocalHourSwapped(h) == IF h + 7 < 24 THEN h + 7 - 24 ELSE h + 7

(* Seven hours ahead; 24 is left as it is.                                 *)
LocalHour(h) == IF h + 7 > 24 THEN h + 7 - 24 ELSE h + 7

(* main() makes the hour local, and prints ...                             *)
Show ==
  /\ pc = "show"
  /\ reading' = [reading EXCEPT !.hour = LocalHour(@)]
  /\ pc' = "shown"
  /\ UNCHANGED <<chip, last, since, ticks>>

(* ... and begins the next reading, which overwrites all of the last one.  *)
Again ==
  /\ pc = "shown"
  /\ pc' = "poll"
  /\ reading' = Zeros
  /\ last' = NoTime
  /\ since' = now /\ ticks' = 0
  /\ UNCHANGED chip

Program == Poll \/ ReadRegister \/ Compare \/ Convert \/ Show \/ Again

Next == BeginUpdate \/ Tick \/ Program

(* The program runs on, and an update that has begun comes to its end.     *)
Spec == Init /\ [][Next]_vars /\ WF_vars(Program) /\ WF_vars(Tick)

-----------------------------------------------------------------------------
(***************************************************************************)
(* Properties.                                                             *)
(***************************************************************************)

Clocks == [Fields -> -1 .. 255]

(* Every variable holds a value of its kind.                               *)
TypeOK ==
  /\ now \in 0 .. Days * DayLength - 1
  /\ updating \in BOOLEAN
  /\ registerB \in Modes
  /\ pc \in DOMAIN After \cup {"poll", "compare", "convert", "show", "shown"}
  /\ reading \in [Fields \cup {"day"} -> 0 .. 255]
  /\ last \in Clocks
  /\ since \in 0 .. now /\ ticks \in 0 .. MaxTicks

(* The hour that main() has for an hour of the chip, 24 being midnight.    *)
ShowsHour(h) == reading.hour \in 1 .. 24 /\ reading.hour % 24 = (h + 7) % 24

(* The time that main() prints from is never put together from before and  *)
(* after a tick: it is one that the chip had during the last pass of       *)
(* read_rtc(), in local time, and the day belongs to that moment or a      *)
(* later one.  In 12-hour mode the two hours that are called 12 come out   *)
(* wrong and are left aside.                                               *)
TimeWasReal ==
  pc = "shown" =>
    \E t \in since .. now :
      /\ reading.second = TimeAt(t).second
      /\ reading.minute = TimeAt(t).minute
      /\ \/ ShowsHour(TimeAt(t).hour)
         \/ ~ registerB.h24 /\ TimeAt(t).hour % 12 = 0
      /\ \E u \in t .. now : reading.day = DayAt(u)

(* The loop over the registers ends once the chip has ticked MaxTicks      *)
(* times in a reading: two passes agree when no tick comes between them,   *)
(* which the code leaves to its being much faster than the chip.           *)
ReadingEnds == []<>(pc = "shown")

=============================================================================
