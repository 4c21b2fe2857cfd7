---------------------------- MODULE Clock_proofs ----------------------------
(***************************************************************************)
(* Proofs about the clock program, for every length of minute and hour up  *)
(* to 60, every mode of the chip and every order of its ticks and the      *)
(* program's steps.                                                        *)
(***************************************************************************)
EXTENDS Clock, TLAPS

-----------------------------------------------------------------------------
(* Arithmetic.                                                             *)

(* Multiplication keeps the order.                                         *)
LEMMA Products ==
  ASSUME NEW c \in Nat, NEW a \in Nat, NEW b \in Nat, a <= b
  PROVE  c * a <= c * b /\ c * a \in Nat /\ c * b \in Nat
OBVIOUS

(* Quotient and remainder.                                                 *)
LEMMA Division ==
  ASSUME NEW t \in Nat, NEW d \in Nat, d > 0
  PROVE  /\ t \div d \in Nat
         /\ t % d \in 0 .. d - 1
         /\ t = d * (t \div d) + (t % d)
OBVIOUS

(* A later moment has no smaller quotient.                                 *)
LEMMA DivMonotone ==
  ASSUME NEW a \in Nat, NEW b \in Nat, a <= b, NEW d \in Nat, d > 0
  PROVE  a \div d <= b \div d
<1> DEFINE p == a \div d
           q == b \div d
<1>1. /\ p \in Nat /\ q \in Nat
      /\ a % d \in 0 .. d - 1 /\ b % d \in 0 .. d - 1
      /\ a = d * p + (a % d) /\ b = d * q + (b % d)
  BY Division
<1> DEFINE r == a % d
           s == b % d
<1> HIDE DEF p, q, r, s
<1>2. SUFFICES ASSUME q + 1 <= p PROVE FALSE
  BY <1>1 DEF p, q
<1>3. d * (q + 1) <= d * p
  BY <1>1, <1>2, Products
<1>4. d * (q + 1) = d * q + d /\ d * q \in Nat /\ d * p \in Nat
  BY <1>1
<1>5. QED
  BY <1>1, <1>3, <1>4 DEF r, s

(* Two numbers with the same remainder are equal or far apart.             *)
LEMMA SameRemainder ==
  ASSUME NEW a \in Nat, NEW b \in Nat, a < b, NEW d \in Nat, d > 0,
         a % d = b % d
  PROVE  b >= a + d
<1> DEFINE p == a \div d
           q == b \div d
           r == a % d
<1>1. /\ p \in Nat /\ q \in Nat /\ r \in Nat
      /\ a = d * p + r /\ b = d * q + r
  BY Division
<1> HIDE DEF p, q, r
<1>2. d * p \in Nat /\ d * q \in Nat /\ d * p < d * q
  BY <1>1
<1>3. p + 1 <= q
  <2>1. SUFFICES ASSUME q <= p PROVE FALSE
    BY <1>1
  <2>2. d * q <= d * p
    BY <1>1, <2>1, Products
  <2>3. QED
    BY <1>2, <2>2
<1>4. d * (p + 1) <= d * q /\ d * (p + 1) = d * p + d
  BY <1>1, <1>3, Products
<1>5. QED
  BY <1>1, <1>2, <1>4

(* The moments of two passes over the registers, s, m and h for second,    *)
(* minute and hour, that agree in minute and hour and lie close together:  *)
(* the second of the later pass was read in that minute and hour.          *)
LEMMA PassesAgree ==
  ASSUME NEW m0 \in Nat, NEW h0 \in Nat, NEW s1 \in Nat, NEW m1 \in Nat,
         NEW h1 \in Nat, m0 <= h0, h0 <= s1, s1 <= m1, m1 <= h1,
         h1 - m0 <= MaxTicks,
         TimeAt(m0).minute = TimeAt(m1).minute,
         TimeAt(h0).hour = TimeAt(h1).hour
  PROVE  TimeAt(s1).minute = TimeAt(m1).minute /\ TimeAt(s1).hour = TimeAt(h1).hour
<1> DEFINE S == Seconds
           M == Minutes
           SM == S * M
           Q(t) == t \div S
           H(t) == t \div SM
<1>1. /\ S \in Nat /\ S > 0 /\ M \in Nat /\ M > 0 /\ SM \in Nat /\ SM > 0
      /\ S * (M - 1) = SM - S /\ MaxTicks \in Nat /\ MaxTicks <= SM - S
  <2>1. S \in Nat /\ S > 0 /\ M \in Nat /\ M > 0
    BY ClockAssumption
  <2>2. S * (M - 1) = S * M - S /\ S * M \in Nat /\ S * M > 0
    BY <2>1
  <2>3. MaxTicks \in Nat /\ MaxTicks <= S * (M - 1)
    BY <2>1, <2>2, ClockAssumption
  <2>4. QED
    BY <2>1, <2>2, <2>3
<1>2. \A t : TimeAt(t).minute = Q(t) % M /\ TimeAt(t).hour = H(t) % 24
  BY DEF TimeAt, Hours
<1> HIDE DEF SM, S, M
<1>3. ASSUME NEW t \in Nat
      PROVE  /\ Q(t) \in Nat /\ H(t) \in Nat
             /\ S * Q(t) <= t /\ t < S * Q(t) + S
             /\ SM * H(t) <= t /\ t < SM * H(t) + SM
             /\ S * Q(t) \in Nat /\ SM * H(t) \in Nat
  <2>1. /\ Q(t) \in Nat /\ t % S \in 0 .. S - 1 /\ t = S * Q(t) + (t % S)
        /\ H(t) \in Nat /\ t % SM \in 0 .. SM - 1 /\ t = SM * H(t) + (t % SM)
    BY <1>1, Division
  <2> HIDE DEF Q, H
  <2>2. S * Q(t) \in Nat /\ SM * H(t) \in Nat
    BY <1>1, <2>1
  <2>3. QED
    BY <1>1, <2>1, <2>2
<1>4. \A a \in Nat, b \in Nat : a <= b => Q(a) <= Q(b) /\ H(a) <= H(b)
  BY <1>1, DivMonotone
<1> HIDE DEF Q, H
<1>5. H(s1) = H(h1)
  <2>1. H(h0) <= H(s1) /\ H(s1) <= H(h1)
    BY <1>4
  <2>2. H(h1) <= H(h0) + 1
    <3>1. SUFFICES ASSUME H(h0) + 2 <= H(h1) PROVE FALSE
      BY <1>3
    <3>2. SM * (H(h0) + 2) <= SM * H(h1) /\ SM * (H(h0) + 2) = SM * H(h0) + SM + SM
      <4>1. H(h0) \in Nat /\ H(h1) \in Nat
        BY <1>3
      <4>2. SM * (H(h0) + 2) <= SM * H(h1)
        BY <1>1, <3>1, <4>1, Products
      <4>3. QED
        BY <1>1, <4>1, <4>2
    <3>3. SM * H(h1) <= h1 /\ h0 < SM * H(h0) + SM /\ SM * H(h0) \in Nat /\ SM * H(h1) \in Nat
      BY <1>3
    <3>4. h1 - h0 <= SM
      BY <1>1
    <3>5. QED
      BY <1>1, <3>2, <3>3, <3>4
  <2>3. H(h0) % 24 = H(h1) % 24
    BY <1>2
  <2>4. H(h0) \in Nat /\ H(h1) \in Nat /\ H(s1) \in Nat
    BY <1>3
  <2>5. H(h1) # H(h0) + 1
    BY <2>3, <2>4
  <2>6. QED
    BY <2>1, <2>2, <2>4, <2>5
<1>6. Q(s1) = Q(m1)
  <2>1. Q(m0) <= Q(s1) /\ Q(s1) <= Q(m1)
    BY <1>4
  <2>2. Q(m0) \in Nat /\ Q(s1) \in Nat /\ Q(m1) \in Nat
    BY <1>3
  <2>3. SUFFICES ASSUME Q(s1) # Q(m1) PROVE FALSE
    OBVIOUS
  <2>4. Q(m0) < Q(m1)
    BY <2>1, <2>2, <2>3
  <2>5. Q(m0) % M = Q(m1) % M
    BY <1>2
  <2>6. Q(m1) >= Q(m0) + M
    BY <1>1, <2>2, <2>4, <2>5, SameRemainder
  <2>7. S * (Q(m0) + M) <= S * Q(m1) /\ S * (Q(m0) + M) = S * Q(m0) + SM
    BY <1>1, <2>2, <2>6, Products DEF SM
  <2>8. S * Q(m1) <= m1 /\ m0 < S * Q(m0) + S /\ S * Q(m0) \in Nat /\ S * Q(m1) \in Nat
    BY <1>3
  <2>9. QED
    BY <1>1, <2>7, <2>8
<1>7. QED
  BY <1>2, <1>5, <1>6

-----------------------------------------------------------------------------
(* The values of the registers.                                            *)

(* The fields of a moment.                                                 *)
LEMMA TimeFacts ==
  ASSUME NEW t \in Nat
  PROVE  /\ TimeAt(t).second \in 0 .. 59
         /\ TimeAt(t).minute \in 0 .. 59
         /\ TimeAt(t).hour \in 0 .. 23
         /\ DayAt(t) \in 1 .. 31
<1>1. /\ Seconds \in Nat /\ Seconds > 0 /\ Seconds <= 60
      /\ Minutes \in Nat /\ Minutes > 0 /\ Minutes <= 60
      /\ Days \in Nat /\ Days > 0 /\ Days <= 31
  BY ClockAssumption
<1>2. Seconds * Minutes \in Nat /\ Seconds * Minutes > 0
  BY <1>1
<1>3. DayLength \in Nat /\ DayLength > 0
  BY <1>2 DEF DayLength, Hours
<1>4. t % Seconds \in 0 .. Seconds - 1
  BY <1>1, Division
<1>5. (t \div Seconds) \in Nat /\ (t \div (Seconds * Minutes)) \in Nat
      /\ (t \div DayLength) \in Nat
  BY <1>1, <1>2, <1>3, Division
<1>6. /\ (t \div Seconds) % Minutes \in 0 .. Minutes - 1
      /\ (t \div (Seconds * Minutes)) % 24 \in 0 .. 23
      /\ (t \div DayLength) % Days \in 0 .. Days - 1
  <2>1. \A n \in Nat : n % Minutes \in 0 .. Minutes - 1 /\ n % 24 \in 0 .. 23
                       /\ n % Days \in 0 .. Days - 1
    BY <1>1, Division
  <2>2. QED
    BY <1>5, <2>1
<1>7. TimeAt(t).second \in 0 .. 59 /\ TimeAt(t).minute \in 0 .. 59
  BY <1>1, <1>4, <1>6 DEF TimeAt
<1>8. TimeAt(t).hour \in 0 .. 23
  BY <1>6 DEF TimeAt, Hours
<1>9. DayAt(t) \in 1 .. 31
  BY <1>1, <1>6 DEF DayAt
<1>10. QED
  BY <1>7, <1>8, <1>9

(* What the chip encodes read_rtc() decodes, whichever the mode.           *)
LEMMA DecodeFacts ==
  ASSUME registerB \in Modes, NEW v \in 0 .. 59
  PROVE  Encoded(v) \in 0 .. 100 /\ Decoded(Encoded(v)) = v
<1>1. CASE registerB.binary
  BY <1>1 DEF Encoded, Decoded
<1>2. CASE ~ registerB.binary
  <2>1. Bcd(v) \in 0 .. 100 /\ FromBcd(Bcd(v)) = v
    BY DEF Bcd, FromBcd
  <2>2. QED
    BY <1>2, <2>1 DEF Encoded, Decoded
<1>3. QED
  BY <1>1, <1>2

(* An hour comes out as it was but for the hours that are called 12.       *)
LEMMA DecodeHour ==
  ASSUME registerB \in Modes, NEW h \in 0 .. 23
  PROVE  /\ EncodedHour(h) \in 0 .. 255
         /\ DecodedHour(EncodedHour(h)) \in 0 .. 23
         /\ DecodedHour(EncodedHour(h)) = h \/ (~ registerB.h24 /\ h % 12 = 0)
<1> DEFINE g == IF h % 12 = 0 THEN 12 ELSE h % 12
<1>1. g \in 1 .. 12
  OBVIOUS
<1>2. h < 12 /\ h % 12 # 0 => g = h
  OBVIOUS
<1>3. h >= 12 /\ h % 12 # 0 => g + 12 = h /\ g < 12
  OBVIOUS
<1>4. \A v \in 0 .. 23 : Bcd(v) \in 0 .. 40 /\ FromBcd(Bcd(v)) = v
  BY DEF Bcd, FromBcd
<1>5. CASE registerB.h24
  <2>1. CASE registerB.binary
    BY <1>5, <2>1 DEF EncodedHour, DecodedHour, Encoded
  <2>2. CASE ~ registerB.binary
    <3>1. EncodedHour(h) = Bcd(h)
      BY <1>5, <2>2 DEF EncodedHour, Encoded
    <3>2. Bcd(h) % 128 = Bcd(h) /\ ~ (Bcd(h) >= 128) /\ Bcd(h) \in 0 .. 255
      BY <1>4
    <3>3. DecodedHour(Bcd(h)) = FromBcd(Bcd(h)) + 0
      BY <1>5, <2>2, <3>2 DEF DecodedHour
    <3>4. QED
      BY <1>4, <3>1, <3>2, <3>3
  <2>3. QED
    BY <2>1, <2>2
<1>6. CASE ~ registerB.h24
  <2> DEFINE b == IF h >= 12 THEN 128 ELSE 0
             e == Encoded(g)
  <2>1. EncodedHour(h) = e + b
    BY <1>6 DEF EncodedHour
  <2>2. e \in 0 .. 40
    BY <1>1, <1>4 DEF Encoded
  <2>3. (e + b) % 128 = e /\ (e + b >= 128 <=> h >= 12) /\ e + b \in 0 .. 255
    BY <2>2
  <2>4. /\ ~ registerB.binary => FromBcd(e) = g
        /\ registerB.binary => e = g
    BY <1>1, <1>4 DEF Encoded
  <2> HIDE DEF e, g
  <2>5. DecodedHour(e + b) = IF h >= 12 THEN (g + 12) % 24 ELSE g
    <3> DEFINE w == IF registerB.binary THEN e + b
                    ELSE FromBcd((e + b) % 128) + (IF e + b >= 128 THEN 128 ELSE 0)
    <3>1. w = g + b
      BY <1>1, <2>2, <2>3, <2>4
    <3>2. DecodedHour(e + b) = IF w >= 128 THEN ((w % 128) + 12) % 24 ELSE w
      BY <1>6 DEF DecodedHour
    <3>3. QED
      BY <1>1, <3>1, <3>2
  <2>6. (IF h >= 12 THEN (g + 12) % 24 ELSE g) \in 0 .. 23
    BY <1>1
  <2>7. h % 12 # 0 => (IF h >= 12 THEN (g + 12) % 24 ELSE g) = h
    BY <1>1, <1>2, <1>3
  <2>8. QED
    BY <1>6, <2>1, <2>3, <2>5, <2>6, <2>7
<1>7. QED
  BY <1>5, <1>6

(* Different times look different in the registers.                        *)
LEMMA EncodeInjective ==
  ASSUME registerB \in Modes
  PROVE  /\ \A v \in 0 .. 59, w \in 0 .. 59 : Encoded(v) = Encoded(w) => v = w
         /\ \A g \in 0 .. 23, h \in 0 .. 23 : EncodedHour(g) = EncodedHour(h) => g = h
<1>1. \A v \in 0 .. 59, w \in 0 .. 59 : Encoded(v) = Encoded(w) => v = w
  BY DecodeFacts
<1>2. ASSUME NEW g \in 0 .. 23, NEW h \in 0 .. 23, EncodedHour(g) = EncodedHour(h)
      PROVE  g = h
  <2>1. CASE registerB.h24
    BY <1>2, <2>1, DecodeHour
  <2>2. CASE ~ registerB.h24
    <3> DEFINE N(x) == IF x % 12 = 0 THEN 12 ELSE x % 12
               B(x) == IF x >= 12 THEN 128 ELSE 0
    <3>1. N(g) \in 0 .. 59 /\ N(h) \in 0 .. 59
      OBVIOUS
    <3>2. Encoded(N(g)) \in 0 .. 100 /\ Encoded(N(h)) \in 0 .. 100
      BY <3>1, DecodeFacts
    <3>3. Encoded(N(g)) + B(g) = Encoded(N(h)) + B(h)
      BY <1>2, <2>2 DEF EncodedHour
    <3>4. Encoded(N(g)) = Encoded(N(h)) /\ (g >= 12 <=> h >= 12)
      <4> DEFINE a == Encoded(N(g))
                 c == Encoded(N(h))
      <4>1. a \in 0 .. 100 /\ c \in 0 .. 100 /\ a + B(g) = c + B(h)
        BY <3>2, <3>3
      <4> HIDE DEF a, c, N
      <4>2. a = c /\ (g >= 12 <=> h >= 12)
        BY <4>1
      <4>3. QED
        BY <4>2 DEF a, c
    <3> HIDE DEF N
    <3>5. N(g) = N(h)
      BY <1>1, <3>1, <3>4
    <3>6. QED
      BY <3>4, <3>5 DEF N
  <2>3. QED
    BY <2>1, <2>2
<1>3. QED
  BY <1>1, <1>2

-----------------------------------------------------------------------------
(* The invariant.                                                          *)

(* When the reading began.                                                 *)
Began == now - ticks

(* The registers r as they were at the moments s, m and h.                 *)
Pass(r, s, m, h) ==
  /\ r["second"] = Encoded(TimeAt(s).second)
  /\ r["minute"] = Encoded(TimeAt(m).minute)
  /\ r["hour"] = EncodedHour(TimeAt(h).hour)

(* What is compared with was read in a pass of this reading before x.      *)
Seen(x) ==
  \/ last = NoTime
  \/ \E s \in Began .. x, m \in Began .. x, h \in Began .. x :
       s <= m /\ m <= h /\ Pass(last, s, m, h)

(* When the registers are polled, and during the pass that follows.        *)
LastInv ==
  /\ pc = "poll" => Seen(now)
  /\ pc \in {"second", "minute", "hour", "day", "compare"} => Seen(since)

(* How far the pass has come.                                              *)
PassInv ==
  /\ pc = "minute" =>
       \E s \in since .. now : reading["second"] = Encoded(TimeAt(s).second)
  /\ pc = "hour" =>
       \E s \in since .. now, m \in since .. now :
         /\ s <= m
         /\ reading["second"] = Encoded(TimeAt(s).second)
         /\ reading["minute"] = Encoded(TimeAt(m).minute)
  /\ pc = "day" =>
       \E s \in since .. now, m \in since .. now, h \in since .. now :
         s <= m /\ m <= h /\ Pass(reading, s, m, h)
  /\ pc = "compare" =>
       \E s \in since .. now, m \in since .. now, h \in since .. now,
          d \in since .. now :
         /\ s <= m /\ m <= h /\ h <= d
         /\ Pass(reading, s, m, h)
         /\ reading["day"] = Encoded(DayAt(d))

(* The time that the two passes agree on was the chip's.                   *)
AgreedInv ==
  pc = "convert" =>
    \E t \in since .. now, u \in since .. now :
      /\ t <= u
      /\ Pass(reading, t, t, t)
      /\ reading["day"] = Encoded(DayAt(u))

(* So is the time that they are converted to.                              *)
ConvertedInv ==
  pc = "show" =>
    \E t \in since .. now, u \in since .. now :
      /\ t <= u
      /\ reading["second"] = TimeAt(t).second
      /\ reading["minute"] = TimeAt(t).minute
      /\ reading["hour"] \in 0 .. 23
      /\ \/ reading["hour"] = TimeAt(t).hour
         \/ ~ registerB.h24 /\ TimeAt(t).hour % 12 = 0
      /\ reading["day"] = DayAt(u)

(* An update that has begun can come to its end.                           *)
UpdateInv == updating => now + 1 < Days * DayLength /\ ticks < MaxTicks

(* The inductive invariant.                                                *)
Inv ==
  /\ TypeOK /\ UpdateInv
  /\ Began \in 0 .. since
  /\ LastInv /\ PassInv /\ AgreedInv /\ ConvertedInv /\ TimeWasReal

(* The program begins with nothing read.                                   *)
LEMMA InitInv == Init => Inv
<1> SUFFICES ASSUME Init PROVE Inv
  OBVIOUS
<1>1. /\ now \in 0 .. Days * DayLength - 1 /\ now \in Nat
      /\ MaxTicks \in Nat
  <2>1. now \in 0 .. Days * DayLength - 1
    BY DEF Init
  <2>2. Seconds \in Nat /\ Minutes \in Nat /\ Minutes > 0 /\ Days \in Nat
    BY ClockAssumption
  <2>3. Seconds * (Minutes - 1) \in Nat /\ Seconds * Minutes \in Nat
    BY <2>2
  <2>4. DayLength \in Nat
    BY <2>3 DEF DayLength, Hours
  <2>5. Days * DayLength \in Nat
    BY <2>2, <2>4
  <2>6. MaxTicks \in Nat
    BY <2>3, ClockAssumption
  <2>7. QED
    BY <2>1, <2>5, <2>6
<1>2. /\ updating = FALSE /\ registerB \in Modes /\ pc = "poll"
      /\ reading = Zeros /\ last = NoTime /\ since = now /\ ticks = 0
  BY DEF Init
<1>3. Zeros \in [Fields \cup {"day"} -> 0 .. 255] /\ NoTime \in Clocks
  BY DEF Zeros, NoTime, Clocks
<1>4. since \in 0 .. now /\ ticks \in 0 .. MaxTicks /\ Began \in 0 .. since
  BY <1>1, <1>2 DEF Began
<1>5. TypeOK
  BY <1>1, <1>2, <1>3, <1>4 DEF TypeOK
<1>6. LastInv /\ PassInv /\ AgreedInv /\ ConvertedInv /\ TimeWasReal
  BY <1>2 DEF LastInv, PassInv, AgreedInv, ConvertedInv, TimeWasReal, Seen
<1>7. QED
  BY <1>2, <1>4, <1>5, <1>6 DEF Inv, UpdateInv

(* The numbers of a state.                                                 *)
LEMMA NumberFacts ==
  ASSUME Inv
  PROVE  /\ now \in Nat /\ since \in Nat /\ ticks \in Nat /\ MaxTicks \in Nat
         /\ since <= now /\ ticks <= MaxTicks /\ Days * DayLength \in Nat
         /\ Began \in Nat /\ Began <= since /\ Began + ticks = now
         /\ registerB \in Modes
<1>1. Seconds \in Nat /\ Minutes \in Nat /\ Minutes > 0 /\ Days \in Nat
  BY ClockAssumption
<1>2. Seconds * (Minutes - 1) \in Nat /\ Seconds * Minutes \in Nat
  BY <1>1
<1>3. DayLength \in Nat
  BY <1>2 DEF DayLength, Hours
<1>4. Days * DayLength \in Nat
  BY <1>1, <1>3
<1>5. MaxTicks \in Nat
  BY <1>2, ClockAssumption
<1>6. now \in Nat
  BY <1>4 DEF Inv, TypeOK
<1>7. since \in 0 .. now /\ ticks \in 0 .. MaxTicks /\ Began \in 0 .. since
  BY DEF Inv, TypeOK
<1>8. Began + ticks = now
  BY <1>5, <1>6, <1>7 DEF Began
<1>9. QED
  BY <1>4, <1>5, <1>6, <1>7, <1>8 DEF Inv, TypeOK

(* The chip's steps: time goes on, and what was real stays real.           *)
LEMMA ChipInv ==
  ASSUME Inv, UNCHANGED <<registerB, pc, reading, last, since>>,
         updating' \in BOOLEAN,
         \/ now' = now /\ ticks' = ticks
         \/ now' = now + 1 /\ ticks' = ticks + 1,
         now' \in 0 .. Days * DayLength - 1, ticks' \in 0 .. MaxTicks, UpdateInv'
  PROVE  Inv'
<1>1. /\ now \in Nat /\ since \in Nat /\ ticks \in Nat /\ since <= now
      /\ Began \in Nat /\ Began <= since
  BY NumberFacts
<1>2. now' \in Nat /\ now <= now' /\ since' = since
  BY <1>1
<1>3. Began' = Began
  <2>1. CASE now' = now /\ ticks' = ticks
    BY <2>1 DEF Began
  <2>2. CASE now' = now + 1 /\ ticks' = ticks + 1
    <3>1. (now + 1) - (ticks + 1) = now - ticks
      BY <1>1
    <3>2. QED
      BY <2>2, <3>1 DEF Began
  <2>3. QED
    BY <2>1, <2>2
<1>4. since' \in 0 .. now' /\ Began' \in 0 .. since'
  BY <1>1, <1>2, <1>3
<1>5. TypeOK'
  BY <1>4 DEF Inv, TypeOK
<1>6. (since .. now) \subseteq (since' .. now') /\ (Began .. now) \subseteq (Began' .. now')
      /\ (Began .. since) = (Began' .. since')
  BY <1>1, <1>2, <1>3
<1>7. \A v : Encoded(v)' = Encoded(v) /\ EncodedHour(v)' = EncodedHour(v)
  BY DEF Encoded, EncodedHour
<1>8. LastInv'
  BY <1>6, <1>7 DEF Inv, LastInv, Seen, Pass
<1>9. PassInv'
  BY SMTT(30), <1>6, <1>7 DEF Inv, PassInv, Pass
<1>10. AgreedInv' /\ ConvertedInv'
  BY <1>6, <1>7 DEF Inv, AgreedInv, ConvertedInv, Pass
<1>11. TimeWasReal'
  <2>1. \A t \in since .. now : t \in Nat /\ (t .. now) \subseteq (t .. now')
    BY <1>1, <1>2
  <2>2. QED
    BY <1>6, <2>1 DEF Inv, TimeWasReal, ShowsHour
<1>12. QED
  BY <1>4, <1>5, <1>8, <1>9, <1>10, <1>11 DEF Inv

(* A pass begins.                                                          *)
LEMMA PollInv == ASSUME Inv, Poll PROVE Inv'
<1>1. /\ pc = "poll" /\ pc' = "second" /\ since' = now
      /\ UNCHANGED <<now, updating, registerB, reading, last, ticks>>
  BY DEF Poll, chip
<1>2. now \in Nat /\ Began \in Nat /\ Began <= now
  BY NumberFacts
<1>3. since' \in 0 .. now' /\ Began' = Began /\ Began' \in 0 .. since'
  BY <1>1, <1>2 DEF Began
<1>4. TypeOK'
  BY <1>1, <1>3 DEF Inv, TypeOK, After
<1>5. LastInv'
  <2>1. \A v : Encoded(v)' = Encoded(v) /\ EncodedHour(v)' = EncodedHour(v)
    BY <1>1 DEF Encoded, EncodedHour
  <2>2. Seen(now)
    BY <1>1 DEF Inv, LastInv
  <2>3. QED
    BY <1>1, <1>3, <2>1, <2>2 DEF LastInv, Seen, Pass
<1>6. PassInv' /\ AgreedInv' /\ ConvertedInv' /\ TimeWasReal'
  BY <1>1 DEF PassInv, AgreedInv, ConvertedInv, TimeWasReal
<1>7. QED
  BY <1>1, <1>3, <1>4, <1>5, <1>6 DEF Inv, UpdateInv

(* A register is read, at the moment now.                                  *)
LEMMA ReadRegisterInv == ASSUME Inv, ReadRegister PROVE Inv'
<1>1. /\ pc \in {"second", "minute", "hour", "day"}
      /\ reading' = [reading EXCEPT ![pc] = Register(pc)]
      /\ UNCHANGED <<now, updating, registerB, last, since, ticks>>
      /\ pc = "second" => pc' = "minute"
      /\ pc = "minute" => pc' = "hour"
      /\ pc = "hour" => pc' = "day"
      /\ pc = "day" => pc' = "compare"
  BY DEF ReadRegister, chip, After
<1>2. /\ now \in Nat /\ since \in Nat /\ since <= now /\ registerB \in Modes
      /\ reading \in [Fields \cup {"day"} -> 0 .. 255]
  BY NumberFacts DEF Inv, TypeOK
<1>3. /\ Register("second") = Encoded(TimeAt(now).second)
      /\ Register("minute") = Encoded(TimeAt(now).minute)
      /\ Register("hour") = EncodedHour(TimeAt(now).hour)
      /\ Register("day") = Encoded(DayAt(now))
  <2>1. TimeAt(now)["second"] = TimeAt(now).second /\ TimeAt(now)["minute"] = TimeAt(now).minute
    OBVIOUS
  <2>2. QED
    BY <2>1 DEF Register
<1>4. Register(pc) \in 0 .. 255
  <2>1. DayAt(now) \in 0 .. 59
    BY <1>2, TimeFacts
  <2>2. \A v \in 0 .. 59 : Encoded(v) \in 0 .. 255
    <3>1. \A v \in 0 .. 59 : Encoded(v) \in 0 .. 100
      BY <1>2, DecodeFacts
    <3>2. \A x \in 0 .. 100 : x \in 0 .. 255
      OBVIOUS
    <3>3. QED
      BY <3>1, <3>2
  <2>3. \A h \in 0 .. 23 : EncodedHour(h) \in 0 .. 255
    BY <1>2, DecodeHour
  <2>4. /\ TimeAt(now).second \in 0 .. 59 /\ TimeAt(now).minute \in 0 .. 59
        /\ TimeAt(now).hour \in 0 .. 23
    BY <1>2, TimeFacts
  <2>5. /\ Register("second") \in 0 .. 255 /\ Register("minute") \in 0 .. 255
        /\ Register("hour") \in 0 .. 255 /\ Register("day") \in 0 .. 255
    <3>1. /\ Encoded(TimeAt(now).second) \in 0 .. 255
          /\ Encoded(TimeAt(now).minute) \in 0 .. 255
          /\ Encoded(DayAt(now)) \in 0 .. 255
      BY <2>1, <2>2, <2>4, Zenon
    <3>2. EncodedHour(TimeAt(now).hour) \in 0 .. 255
      BY <2>3, <2>4, Zenon
    <3>3. QED
      BY <1>3, <3>1, <3>2, Zenon
  <2>6. QED
    BY <1>1, <2>5
<1>5. now \in since .. now /\ \A t \in since .. now : t <= now
  BY <1>2
<1>6. reading' \in [Fields \cup {"day"} -> 0 .. 255]
  BY <1>1, <1>2, <1>4
<1>7. TypeOK' /\ Began' \in 0 .. since' /\ Began' = Began
  <2>1. Began' = Began
    BY <1>1 DEF Began
  <2>2. QED
    BY <1>1, <1>6, <2>1 DEF Inv, TypeOK, After
<1>8. \A v : Encoded(v)' = Encoded(v) /\ EncodedHour(v)' = EncodedHour(v)
  BY <1>1 DEF Encoded, EncodedHour
<1>9. LastInv'
  BY <1>1, <1>7, <1>8 DEF Inv, LastInv, Seen, Pass
<1>10. /\ \A f \in Fields \cup {"day"} : f # pc => reading'[f] = reading[f]
       /\ reading'[pc] = Register(pc)
  BY <1>1, <1>2 DEF Fields
<1>11. PassInv'
  <2>1. CASE pc = "second"
    BY <1>1, <1>3, <1>5, <1>8, <1>10, <2>1 DEF PassInv
  <2>2. CASE pc = "minute"
    <3>1. PICK s \in since .. now : reading["second"] = Encoded(TimeAt(s).second)
      BY <2>2 DEF Inv, PassInv
    <3>2. /\ s <= now
          /\ reading'["second"] = Encoded(TimeAt(s).second)
          /\ reading'["minute"] = Encoded(TimeAt(now).minute)
      BY <1>3, <1>5, <1>10, <2>2, <3>1 DEF Fields
    <3>3. QED
      BY <1>1, <1>5, <1>8, <2>2, <3>2 DEF PassInv
  <2>3. CASE pc = "hour"
    <3>1. PICK s \in since .. now, m \in since .. now :
            /\ s <= m
            /\ reading["second"] = Encoded(TimeAt(s).second)
            /\ reading["minute"] = Encoded(TimeAt(m).minute)
      BY <2>3 DEF Inv, PassInv
    <3>2. m <= now /\ Pass(reading', s, m, now)
      BY <1>3, <1>5, <1>10, <2>3, <3>1 DEF Fields, Pass
    <3>3. \E p \in since .. now, q \in since .. now, h \in since .. now :
            p <= q /\ q <= h /\ Pass(reading', p, q, h)
      BY <1>5, <3>1, <3>2
    <3>4. QED
      BY <1>1, <1>8, <2>3, <3>3 DEF PassInv, Pass
  <2>4. CASE pc = "day"
    <3>1. PICK s \in since .. now, m \in since .. now, h \in since .. now :
            s <= m /\ m <= h /\ Pass(reading, s, m, h)
      BY <2>4 DEF Inv, PassInv
    <3>2. h <= now /\ Pass(reading', s, m, h) /\ reading'["day"] = Encoded(DayAt(now))
      BY <1>3, <1>5, <1>10, <2>4, <3>1 DEF Fields, Pass
    <3>3. \E p \in since .. now, q \in since .. now, r \in since .. now, d \in since .. now :
            /\ p <= q /\ q <= r /\ r <= d
            /\ Pass(reading', p, q, r)
            /\ reading'["day"] = Encoded(DayAt(d))
      BY <1>5, <3>1, <3>2
    <3>4. QED
      BY <1>1, <1>8, <2>4, <3>3 DEF PassInv, Pass
  <2>5. QED
    BY <1>1, <2>1, <2>2, <2>3, <2>4
<1>12. AgreedInv' /\ ConvertedInv' /\ TimeWasReal'
  BY <1>1 DEF AgreedInv, ConvertedInv, TimeWasReal
<1>13. QED
  BY <1>1, <1>7, <1>9, <1>11, <1>12 DEF Inv, UpdateInv

(* Two passes are compared: if they agree, the time was real.              *)
LEMMA CompareInv == ASSUME Inv, Compare PROVE Inv'
<1>1. /\ pc = "compare"
      /\ pc' = IF last = Time(reading) THEN "convert" ELSE "poll"
      /\ last' = Time(reading)
      /\ UNCHANGED <<now, updating, registerB, reading, since, ticks>>
  BY DEF Compare, chip
<1>2. /\ now \in Nat /\ since \in Nat /\ since <= now /\ registerB \in Modes
      /\ ticks <= MaxTicks /\ ticks \in Nat /\ MaxTicks \in Nat
      /\ Began \in Nat /\ Began <= since /\ Began + ticks = now
      /\ reading \in [Fields \cup {"day"} -> 0 .. 255]
  BY NumberFacts DEF Inv, TypeOK
<1>3. \A f \in Fields : Time(reading)[f] = reading[f]
  BY DEF Time
<1>4. Time(reading) \in Clocks
  <2>1. \A f \in Fields : reading[f] \in -1 .. 255
    <3>1. \A f \in Fields : reading[f] \in 0 .. 255
      BY <1>2
    <3>2. \A x \in 0 .. 255 : x \in -1 .. 255
      OBVIOUS
    <3>3. QED
      BY <3>1, <3>2
  <2>2. QED
    BY <2>1 DEF Time, Clocks
<1>5. Began' = Began
  BY <1>1 DEF Began
<1>6. TypeOK' /\ Began' \in 0 .. since'
  BY <1>1, <1>4, <1>5 DEF Inv, TypeOK
<1>7. \A v : Encoded(v)' = Encoded(v) /\ EncodedHour(v)' = EncodedHour(v)
  BY <1>1 DEF Encoded, EncodedHour
<1>8. PICK s1 \in since .. now, m1 \in since .. now, h1 \in since .. now,
           d1 \in since .. now :
        /\ s1 <= m1 /\ m1 <= h1 /\ h1 <= d1
        /\ Pass(reading, s1, m1, h1)
        /\ reading["day"] = Encoded(DayAt(d1))
  BY <1>1 DEF Inv, PassInv
<1>9. LastInv'
  <2>1. Pass(Time(reading), s1, m1, h1)
    BY <1>3, <1>8 DEF Pass, Fields
  <2>2. s1 \in Began .. now /\ m1 \in Began .. now /\ h1 \in Began .. now
    BY <1>2, <1>8
  <2>3. \E s \in Began .. now, m \in Began .. now, h \in Began .. now :
          s <= m /\ m <= h /\ Pass(Time(reading), s, m, h)
    BY <1>8, <2>1, <2>2
  <2>4. Seen(now)'
    BY <1>1, <1>5, <1>7, <2>3 DEF Seen, Pass
  <2>5. QED
    BY <1>1, <2>4 DEF LastInv
<1>10. AgreedInv'
  <2>1. SUFFICES ASSUME last = Time(reading) PROVE AgreedInv'
    BY <1>1 DEF AgreedInv
  <2>2. last # NoTime
    <3>1. "second" \in Fields /\ reading["second"] \in 0 .. 255
      BY <1>2 DEF Fields
    <3>2. last["second"] = reading["second"] /\ NoTime["second"] = -1
      BY <1>3, <2>1, <3>1 DEF NoTime
    <3>3. reading["second"] # -1
      BY <3>1
    <3>4. QED
      BY <3>2, <3>3
  <2>3. PICK s0 \in Began .. since, m0 \in Began .. since, h0 \in Began .. since :
          s0 <= m0 /\ m0 <= h0 /\ Pass(last, s0, m0, h0)
    BY <1>1, <2>2 DEF Inv, LastInv, Seen
  <2>4. /\ s1 \in Nat /\ m1 \in Nat /\ h1 \in Nat /\ m0 \in Nat /\ h0 \in Nat
        /\ m0 <= h0 /\ h0 <= s1 /\ s1 <= m1 /\ m1 <= h1 /\ h1 - m0 <= MaxTicks
    BY <1>2, <1>8, <2>3
  <2>5. /\ Encoded(TimeAt(m0).minute) = Encoded(TimeAt(m1).minute)
        /\ EncodedHour(TimeAt(h0).hour) = EncodedHour(TimeAt(h1).hour)
    <3>1. last["minute"] = reading["minute"] /\ last["hour"] = reading["hour"]
      BY <1>3, <2>1 DEF Fields
    <3>2. QED
      BY <1>8, <2>3, <3>1 DEF Pass
  <2>6. /\ TimeAt(m0).minute \in 0 .. 59 /\ TimeAt(m1).minute \in 0 .. 59
        /\ TimeAt(h0).hour \in 0 .. 23 /\ TimeAt(h1).hour \in 0 .. 23
    BY <2>4, TimeFacts
  <2>7. /\ TimeAt(m0).minute = TimeAt(m1).minute
        /\ TimeAt(h0).hour = TimeAt(h1).hour
    BY <1>2, <2>5, <2>6, EncodeInjective
  <2>8. /\ TimeAt(s1).minute = TimeAt(m1).minute
        /\ TimeAt(s1).hour = TimeAt(h1).hour
    BY <2>4, <2>7, PassesAgree
  <2>9. Pass(reading, s1, s1, s1)
    BY <1>8, <2>8 DEF Pass
  <2>10. s1 <= d1
    BY <1>2, <1>8
  <2>11. \E t \in since .. now, u \in since .. now :
           t <= u /\ Pass(reading, t, t, t) /\ reading["day"] = Encoded(DayAt(u))
    BY <1>8, <2>9, <2>10
  <2>12. QED
    BY <1>1, <1>7, <2>11 DEF AgreedInv, Pass
<1>11. PassInv' /\ ConvertedInv' /\ TimeWasReal'
  BY <1>1 DEF PassInv, ConvertedInv, TimeWasReal
<1>12. QED
  BY <1>1, <1>6, <1>9, <1>10, <1>11 DEF Inv, UpdateInv

(* The time that was agreed on is converted.                               *)
LEMMA ConvertInv == ASSUME Inv, Convert PROVE Inv'
<1>1. /\ pc = "convert" /\ pc' = "show"
      /\ reading' = [f \in DOMAIN reading |->
                       IF f = "hour" THEN DecodedHour(reading[f])
                       ELSE Decoded(reading[f])]
      /\ UNCHANGED <<now, updating, registerB, last, since, ticks>>
  BY DEF Convert, chip
<1>2. /\ now \in Nat /\ since \in Nat /\ since <= now /\ registerB \in Modes
      /\ reading \in [Fields \cup {"day"} -> 0 .. 255]
  BY NumberFacts DEF Inv, TypeOK
<1>3. PICK t \in since .. now, u \in since .. now :
        t <= u /\ Pass(reading, t, t, t) /\ reading["day"] = Encoded(DayAt(u))
  BY <1>1 DEF Inv, AgreedInv
<1>4. t \in Nat /\ u \in Nat
  BY <1>2
<1>5. /\ TimeAt(t).second \in 0 .. 59 /\ TimeAt(t).minute \in 0 .. 59
      /\ TimeAt(t).hour \in 0 .. 23 /\ DayAt(u) \in 1 .. 31 /\ DayAt(u) \in 0 .. 59
  BY <1>4, TimeFacts
<1>6. DOMAIN reading = {"second", "minute", "hour", "day"}
  BY <1>2 DEF Fields
<1>7. /\ reading'["second"] = Decoded(reading["second"])
      /\ reading'["minute"] = Decoded(reading["minute"])
      /\ reading'["hour"] = DecodedHour(reading["hour"])
      /\ reading'["day"] = Decoded(reading["day"])
  BY <1>1, <1>6
<1>8. /\ reading'["second"] = TimeAt(t).second
      /\ reading'["minute"] = TimeAt(t).minute
      /\ reading'["day"] = DayAt(u)
  BY <1>2, <1>3, <1>5, <1>7, DecodeFacts DEF Pass
<1>9. /\ reading'["hour"] \in 0 .. 23
      /\ \/ reading'["hour"] = TimeAt(t).hour
         \/ ~ registerB.h24 /\ TimeAt(t).hour % 12 = 0
  BY <1>2, <1>3, <1>5, <1>7, DecodeHour DEF Pass
<1>10. reading' \in [Fields \cup {"day"} -> 0 .. 255]
  <2>1. \A f \in {"second", "minute", "hour", "day"} : reading'[f] \in 0 .. 255
    <3>1. \A x : x \in 0 .. 59 \/ x \in 0 .. 23 \/ x \in 1 .. 31 => x \in 0 .. 255
      OBVIOUS
    <3>2. QED
      BY <1>5, <1>8, <1>9, <3>1
  <2>2. Fields \cup {"day"} = {"second", "minute", "hour", "day"}
    BY DEF Fields
  <2>3. DOMAIN reading' = {"second", "minute", "hour", "day"}
        /\ reading' = [f \in DOMAIN reading' |-> reading'[f]]
    BY <1>1, <1>6
  <2>4. QED
    BY <2>1, <2>2, <2>3
<1>11. TypeOK' /\ Began' \in 0 .. since'
  BY <1>1, <1>10 DEF Inv, TypeOK, Began
<1>12. ConvertedInv'
  BY <1>1, <1>3, <1>8, <1>9 DEF ConvertedInv
<1>13. LastInv' /\ PassInv' /\ AgreedInv' /\ TimeWasReal'
  BY <1>1 DEF LastInv, PassInv, AgreedInv, TimeWasReal
<1>14. QED
  BY <1>1, <1>11, <1>12, <1>13 DEF Inv, UpdateInv

(* main() makes the hour local.                                            *)
LEMMA ShowInv == ASSUME Inv, Show PROVE Inv'
<1>1. /\ pc = "show" /\ pc' = "shown"
      /\ reading' = [reading EXCEPT !["hour"] = LocalHour(reading["hour"])]
      /\ UNCHANGED <<now, updating, registerB, last, since, ticks>>
  BY DEF Show, chip
<1>2. /\ now \in Nat /\ since \in Nat /\ since <= now
      /\ reading \in [Fields \cup {"day"} -> 0 .. 255]
  BY NumberFacts DEF Inv, TypeOK
<1>3. PICK t \in since .. now, u \in since .. now :
        /\ t <= u
        /\ reading["second"] = TimeAt(t).second
        /\ reading["minute"] = TimeAt(t).minute
        /\ reading["hour"] \in 0 .. 23
        /\ \/ reading["hour"] = TimeAt(t).hour
           \/ ~ registerB.h24 /\ TimeAt(t).hour % 12 = 0
        /\ reading["day"] = DayAt(u)
  BY <1>1 DEF Inv, ConvertedInv
<1>4. \A h \in 0 .. 23 : /\ LocalHour(h) \in 1 .. 24 /\ LocalHour(h) \in 0 .. 255
                         /\ LocalHour(h) % 24 = (h + 7) % 24
  BY DEF LocalHour
<1>5. /\ reading'["second"] = reading["second"]
      /\ reading'["minute"] = reading["minute"]
      /\ reading'["day"] = reading["day"]
      /\ reading'["hour"] = LocalHour(reading["hour"])
  BY <1>1, <1>2 DEF Fields
<1>6. reading' \in [Fields \cup {"day"} -> 0 .. 255]
  BY ZenonT(30), <1>1, <1>2, <1>3, <1>4
<1>7. TypeOK' /\ Began' \in 0 .. since'
  BY <1>1, <1>6 DEF Inv, TypeOK, Began
<1>8. u \in t .. now
  BY <1>2, <1>3
<1>9. reading'["hour"] \in 1 .. 24
      /\ reading'["hour"] % 24 = (reading["hour"] + 7) % 24
  BY <1>3, <1>4, <1>5
<1>10. TimeWasReal'
  <2>1. /\ reading'.second = TimeAt(t).second
        /\ reading'.minute = TimeAt(t).minute
        /\ reading'.day = DayAt(u)
    BY <1>3, <1>5
  <2>2. \/ reading'.hour \in 1 .. 24 /\ reading'.hour % 24 = (TimeAt(t).hour + 7) % 24
        \/ ~ registerB.h24 /\ TimeAt(t).hour % 12 = 0
    BY <1>3, <1>9
  <2>3. QED
    BY <1>1, <1>3, <1>8, <2>1, <2>2 DEF TimeWasReal, ShowsHour
<1>11. LastInv' /\ PassInv' /\ AgreedInv' /\ ConvertedInv'
  BY <1>1 DEF LastInv, PassInv, AgreedInv, ConvertedInv
<1>12. QED
  BY <1>1, <1>7, <1>10, <1>11 DEF Inv, UpdateInv

(* The next reading begins.                                                *)
LEMMA AgainInv == ASSUME Inv, Again PROVE Inv'
<1>1. /\ pc' = "poll" /\ reading' = Zeros /\ last' = NoTime
      /\ since' = now /\ ticks' = 0
      /\ UNCHANGED <<now, updating, registerB>>
  BY DEF Again, chip
<1>2. now \in Nat /\ MaxTicks \in Nat
  BY NumberFacts
<1>3. Zeros \in [Fields \cup {"day"} -> 0 .. 255] /\ NoTime \in Clocks
  BY DEF Zeros, NoTime, Clocks
<1>4. Began' = now
  BY <1>1, <1>2 DEF Began
<1>5. since' \in 0 .. now' /\ ticks' \in 0 .. MaxTicks /\ Began' \in 0 .. since'
  BY <1>1, <1>2, <1>4
<1>6. TypeOK'
  BY <1>1, <1>3, <1>5 DEF Inv, TypeOK
<1>7. LastInv' /\ PassInv' /\ AgreedInv' /\ ConvertedInv' /\ TimeWasReal'
  BY <1>1 DEF LastInv, PassInv, AgreedInv, ConvertedInv, TimeWasReal, Seen
<1>9. UpdateInv'
  <2>1. updating => now + 1 < Days * DayLength /\ ticks < MaxTicks /\ ticks \in Nat
    BY NumberFacts DEF Inv, UpdateInv
  <2>2. updating => 0 < MaxTicks
    BY <1>2, <2>1
  <2>3. QED
    BY <1>1, <2>1, <2>2 DEF UpdateInv
<1>10. QED
  BY <1>1, <1>2, <1>5, <1>6, <1>7, <1>9 DEF Inv

(* Every step keeps the invariant.                                         *)
LEMMA StepInv == Inv /\ [Next]_vars => Inv'
<1> SUFFICES ASSUME Inv, [Next]_vars PROVE Inv'
  OBVIOUS
<1>1. /\ now \in 0 .. Days * DayLength - 1 /\ ticks \in 0 .. MaxTicks
      /\ updating \in BOOLEAN /\ now \in Nat /\ ticks \in Nat /\ MaxTicks \in Nat
      /\ Days * DayLength \in Nat
  BY NumberFacts DEF Inv, TypeOK
<1>2. CASE BeginUpdate
  <2>1. /\ ticks < MaxTicks /\ now + 1 < Days * DayLength /\ updating' = TRUE
        /\ UNCHANGED <<now, registerB, pc, reading, last, since, ticks>>
    BY <1>2 DEF BeginUpdate
  <2>2. UpdateInv'
    BY <2>1 DEF UpdateInv
  <2>3. QED
    BY <1>1, <2>1, <2>2, ChipInv
<1>3. CASE Tick
  <2>1. updating /\ now' = now + 1 /\ ticks' = ticks + 1 /\ updating' = FALSE
        /\ UNCHANGED <<registerB, pc, reading, last, since>>
    BY <1>3 DEF Tick
  <2>2. now' \in 0 .. Days * DayLength - 1 /\ ticks' \in 0 .. MaxTicks
    <3>1. now + 1 < Days * DayLength /\ ticks < MaxTicks
      BY <2>1 DEF Inv, UpdateInv
    <3>2. QED
      BY <1>1, <2>1, <3>1
  <2>3. UpdateInv'
    BY <2>1 DEF UpdateInv
  <2>4. QED
    BY <2>1, <2>2, <2>3, ChipInv
<1>4. CASE Poll
  BY <1>4, PollInv
<1>5. CASE ReadRegister
  BY <1>5, ReadRegisterInv
<1>6. CASE Compare
  BY <1>6, CompareInv
<1>7. CASE Convert
  BY <1>7, ConvertInv
<1>8. CASE Show
  BY <1>8, ShowInv
<1>9. CASE Again
  BY <1>9, AgainInv
<1>10. CASE UNCHANGED vars
  <2>1. UNCHANGED <<now, updating, registerB, pc, reading, last, since, ticks>>
    BY <1>10 DEF vars, chip
  <2>2. UpdateInv'
    BY <2>1 DEF Inv, UpdateInv
  <2>3. QED
    BY <1>1, <2>1, <2>2, ChipInv
<1>11. QED
  BY <1>2, <1>3, <1>4, <1>5, <1>6, <1>7, <1>8, <1>9, <1>10 DEF Next, Program

-----------------------------------------------------------------------------
(* The theorems.                                                           *)

(* Every reachable state satisfies the invariant.                          *)
THEOREM ClockInvariant == Spec => []Inv
BY InitInv, StepInv, PTL DEF Spec

(* The chip, the registers that read_rtc() has read and what it compares   *)
(* them with always hold values of their kind.                             *)
THEOREM ClockTypes == Spec => []TypeOK
<1>1. Inv => TypeOK
  BY DEF Inv
<1>2. QED
  BY <1>1, ClockInvariant, PTL

(* The time that main() prints from was the chip's in the last pass of     *)
(* read_rtc(), wherever the ticks came: two passes that agree are enough.  *)
THEOREM TimeCorrect == Spec => []TimeWasReal
<1>1. Inv => TimeWasReal
  BY DEF Inv
<1>2. QED
  BY <1>1, ClockInvariant, PTL
=============================================================================
