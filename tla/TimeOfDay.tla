------------------------------- MODULE TimeOfDay -------------------------------
(***************************************************************************)
(* The time the wall clock of the Coldfire port shows: from the text of    *)
(* CCI's command `c' over rtx_atoi to an offset, and from the system time  *)
(* over rtx_sprintf to the text on the console                             *)
(* (coldfire/user/src/wallclock.c, coldfire/util/src/utils.c).             *)
(*                                                                         *)
(* A character is its distance from '0', which is what the code works      *)
(* with: the digits are 0 to 9.                                            *)
(***************************************************************************)
EXTENDS Integers, Sequences

CONSTANTS
    TICKS,     \* in a second (100)
    Command,   \* the arguments of the command `c'
    MaxNow     \* bound on the system time

INT_MAX == 2147483647   \* of the board's uint32_t, a signed type (coldfire.h:52)

(* The system time is followed until it overflows, at the latest.          *)
ASSUME TimeAssumption ==
    /\ TICKS \in Nat \ {0, 1}
    /\ MaxNow \in 1 .. INT_MAX
    /\ Command \subseteq Seq(Int)

COLON == 10
PLUS  == -5
MINUS == -3
SPACE == -16

SEC_IN_HR == 86400

VARIABLES
    now,      \* k_clock_get_system_time
    offset,   \* in seconds
    ref,      \* the system time when the clock was set
    face,     \* history: hours, minutes and seconds as they should be
    part      \* history: ticks since the face last changed

clockVars == <<now, offset, ref, face, part>>

(* The system time starts at 1, the clock at midnight as of time 0.        *)
ClockInit == now = 1 /\ offset = 0 /\ ref = 0 /\ face = <<0, 0, 0>> /\ part = 1

(* The characters of str from the first that is no space, without a sign.  *)
Unsigned(str) ==
    IF str # <<>> /\ str[1] \in {PLUS, MINUS} THEN Tail(str) ELSE str

SpacesEnd(str) ==
    CHOOSE i \in 1 .. Len(str) + 1 :
        /\ i <= Len(str) => str[i] # SPACE
        /\ \A j \in 1 .. i - 1 : str[j] = SPACE

Unspaced(str) == SubSeq(str, SpacesEnd(str), Len(str))

DecimalValue(digits) ==
    LET value[i \in 0 .. Len(digits)] == IF i = 0 THEN 0 ELSE 10 * value[i - 1] + digits[i]
    IN  value[Len(digits)]

(* `tmp > 10' lets the colon pass for a digit of value 10.                 *)
rtx_atoi(str) ==
    LET rest   == Unspaced(str)
        digits == Unsigned(rest)
        num    == DecimalValue(digits)
    IN  [ret |-> IF digits # <<>> /\ \A i \in DOMAIN digits : digits[i] \in 0 .. 10 THEN 1 ELSE 0,
         num |-> IF rest # <<>> /\ rest[1] = MINUS THEN -num ELSE num]

(* Hours, minutes and seconds, or <<>> for ERROR_ILLEGAL_ARG.              *)
Parsed(timeParam) ==
    LET Field(i) == rtx_atoi(SubSeq(timeParam, i, i + 1))
    IN  IF /\ Len(timeParam) = 8 /\ timeParam[3] = COLON /\ timeParam[6] = COLON
           /\ Field(1).num <= 23 /\ Field(4).num <= 59 /\ Field(7).num <= 59
           /\ Field(1).ret + Field(4).ret + Field(7).ret = 3
          THEN <<Field(1).num, Field(4).num, Field(7).num>>
          ELSE <<>>

(* Fault: the offset is set, the time it counts from is not.               *)
RefKept(hms) ==
    /\ offset' = hms[1] * 3600 + hms[2] * 60 + hms[3]
    /\ UNCHANGED ref

ClockSet(hms) ==
    /\ offset' = hms[1] * 3600 + hms[2] * 60 + hms[3]
    /\ ref' = now

(* The time a proper text hh:mm:ss gives, or <<>>.                         *)
Meant(timeParam) ==
    LET Two(i) == 10 * timeParam[i] + timeParam[i + 1]
    IN  IF /\ Len(timeParam) = 8 /\ timeParam[3] = COLON /\ timeParam[6] = COLON
           /\ \A i \in {1, 2, 4, 5, 7, 8} : timeParam[i] \in 0 .. 9
           /\ Two(1) < 24 /\ Two(4) < 60 /\ Two(7) < 60
          THEN <<Two(1), Two(4), Two(7)>>
          ELSE <<>>

(* The face is undefined from when a text is accepted that gives no time.  *)
_setWallClock(timeParam) ==
    /\ IF Parsed(timeParam) # <<>> THEN ClockSet(Parsed(timeParam)) ELSE UNCHANGED <<offset, ref>>
    /\ IF Parsed(timeParam) # <<>> \/ Meant(timeParam) # <<>>
         THEN face' = Meant(timeParam) /\ part' = 0
         ELSE UNCHANGED <<face, part>>
    /\ UNCHANGED now

(* The next second, with its carries.                                      *)
NextSecond(f) ==
    CASE f = <<>>                           -> <<>>
      [] f # <<>> /\ f[3] < 59              -> <<f[1], f[2], f[3] + 1>>
      [] f # <<>> /\ f[3] = 59 /\ f[2] < 59 -> <<f[1], f[2] + 1, 0>>
      [] OTHER                              -> <<(f[1] + 1) % 24, 0, 0>>

k_clock_incr_system_time ==
    /\ now < MaxNow
    /\ now' = now + 1
    /\ part' = (part + 1) % TICKS
    /\ face' = IF part' = 0 THEN NextSecond(face) ELSE face
    /\ UNCHANGED <<offset, ref>>

ClockNext == k_clock_incr_system_time \/ \E timeParam \in Command : _setWallClock(timeParam)

ClockSpec == ClockInit /\ [][ClockNext]_clockVars

-----------------------------------------------------------------------------
(* The text                                                                *)

(* Remainder and quotient as C has them.                                   *)
Rem(a, b) == IF a >= 0 THEN a % b ELSE -((-a) % b)
Quo(a, b) == IF a >= 0 THEN a \div b ELSE -((-a) \div b)

clock_time == Rem(Quo(now - ref, TICKS) + offset, SEC_IN_HR)

(* `while(num/div > 0)'.                                                   *)
NumDigits(abs) == CHOOSE n \in 0 .. 10 : abs < 10 ^ n /\ (n > 0 => abs >= 10 ^ (n - 1))

Padding(n, zero) == [i \in 1 .. n |-> IF zero THEN 0 ELSE SPACE]

DigitsOf(abs, size) == [i \in 1 .. size |-> (abs \div 10 ^ (size - i)) % 10]

Front(str) == SubSeq(str, 1, Len(str) - 1)

(* The branch of rtx_sprintf for %d behind str.  Zero has no digits; its   *)
(* `0' takes the place of the last character, which is padding if there is *)
(* a width.  A sign, too, takes the place of padding.                      *)
AppendNumber(str, num, spaces, zero) ==
    LET abs    == IF num < 0 THEN -num ELSE num
        size   == NumDigits(abs)
        padded == str \o Padding(spaces - size, zero)
        signed == IF num < 0 /\ size < spaces THEN Front(padded) ELSE padded
        zeroed == IF size = 0 THEN Front(signed) \o <<0>> ELSE signed
    IN  zeroed \o (IF num < 0 THEN <<MINUS>> ELSE <<>>) \o DigitsOf(abs, size)

(* CLOCK_FORMAT, "%02d:%02d:%02d".                                         *)
ClockText ==
    LET hr  == AppendNumber(<<>>, Quo(clock_time, 3600), 2, TRUE)
        min == AppendNumber(Append(hr, COLON), Quo(Rem(clock_time, 3600), 60), 2, TRUE)
    IN  AppendNumber(Append(min, COLON), Rem(clock_time, 60), 2, TRUE)

-----------------------------------------------------------------------------
(* The clock shows the time it was set to, or midnight at time 0, and      *)
(* every second after it until the system time overflows, over minutes,    *)
(* hours and midnight, in two digits each; and it accepts every            *)
(* time of the day.  (It accepts other texts, too: rtx_atoi, utils.c:246,  *)
(* and a sign, wallclock.c:164; about those this says nothing.)            *)
ShowsTheTime ==
    face # <<>> =>
       LET Digits(n) == <<n \div 10, n % 10>>
       IN  ClockText = Digits(face[1]) \o <<COLON>> \o Digits(face[2]) \o <<COLON>> \o Digits(face[3])
=============================================================================
