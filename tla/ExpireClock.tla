---------------------------- MODULE ExpireClock ----------------------------
(***************************************************************************)
(* The expiry that expireUserToken() writes after every command: the local *)
(* time of the server moved on by EXPIRETIME single seconds, through ends  *)
(* of minutes, days, months and years.                                     *)
(***************************************************************************)
EXTENDS Integers, Sequences

CONSTANTS EXPIRETIME,
          Times   \* local times at which commands have been carried out

VARIABLE updates   \* what expireUserToken() asked the table for last, or nothing

Day == 86400

Time == [year : Nat, month : 1 .. 12, day : 1 .. 31, hour : 0 .. 23, minute : 0 .. 59, second : 0 .. 59]

\* EXPIRETIME is 30.
ASSUME ExpireAssumption == EXPIRETIME \in Nat /\ EXPIRETIME <= Day

\* February has 29 days.
Leap(year) == ~(year % 4 # 0 /\ year % 100 # 0) \/ year % 400 = 0

monthDays(t) == <<31, IF Leap(t.year) THEN 29 ELSE 28, 31, 30, 31, 30, 31, 31, 30, 31, 30, 31>>[t.month]

\* Mutant of NextDay: no month ends before its thirty-first day.
NextDayOfLongMonth(t) ==
    LET on == [t EXCEPT !.day = @ + 1, !.hour = 0] IN
    CASE on.day <= 31                                -> on
      [] on.day > 31 /\ t.month < 12                 -> [on EXCEPT !.month = @ + 1, !.day = 1]
      [] on.day > 31 /\ t.month = 12                 -> [on EXCEPT !.year = @ + 1, !.month = 1, !.day = 1]

NextDay(t) ==
    LET on   == [t EXCEPT !.day = @ + 1, !.hour = 0]
        over == on.day > monthDays(t)
    IN  CASE ~over                  -> on
          [] over /\ t.month < 12 -> [on EXCEPT !.month = @ + 1, !.day = 1]
          [] over /\ t.month = 12 -> [on EXCEPT !.year = @ + 1, !.month = 1, !.day = 1]

Tick(t) ==
    LET minute == [t EXCEPT !.minute = @ + 1, !.second = 0]
        hour   == [t EXCEPT !.hour = @ + 1, !.minute = 0, !.second = 0]
    IN  CASE t.second # 59                                   -> [t EXCEPT !.second = @ + 1]
          [] t.second = 59 /\ t.minute # 59                  -> minute
          [] t.second = 59 /\ t.minute = 59 /\ t.hour # 23 -> hour
          [] t.second = 59 /\ t.minute = 59 /\ t.hour = 23 -> NextDay(hour)

expireUserToken(now) ==
    LET after[i \in 0 .. EXPIRETIME] == IF i = 0 THEN now ELSE Tick(after[i - 1])
    IN  after[EXPIRETIME]

NoUpdate == updates = {}
Expire == \E now \in Times : updates' = {[now |-> now, newExpire |-> expireUserToken(now)]}

ExpireSpec == NoUpdate /\ [][Expire]_updates
-----------------------------------------------------------------------------
\* The Gregorian calendar: days since the start of year 0, by cycles that begin
\* in March, and seconds of the day.
DayNumber(t) ==
    LET y == IF t.month > 2 THEN t.year ELSE t.year - 1
        m == (t.month + 9) % 12
    IN  365 * y + (y \div 4) - (y \div 100) + (y \div 400) + ((153 * m + 2) \div 5) + t.day
FirstOfNext(t) == IF t.month = 12 THEN [t EXCEPT !.year = @ + 1, !.month = 1, !.day = 1]
                                  ELSE [t EXCEPT !.month = @ + 1, !.day = 1]
RealDay(t) == t.day <= DayNumber(FirstOfNext(t)) - DayNumber([t EXCEPT !.day = 1])
SecondOfDay(t) == 3600 * t.hour + 60 * t.minute + t.second

\* Commands are carried out at times of the calendar.
ASSUME TimesAssumption == \A t \in Times : t \in Time /\ RealDay(t)

\* Later is a day of the calendar and n seconds after now.
IsAfter(later, now, n) ==
    LET second == SecondOfDay(now) + n IN
    /\ RealDay(later)
    /\ DayNumber(later) = DayNumber(now) + (second \div Day)
    /\ SecondOfDay(later) = second % Day

\* The last day of February in 2100 and the other centuries that are no leap
\* years, where the rule has a day too many.
WrongLeapDay(now) ==
    /\ now.year % 100 = 0 /\ now.year % 400 # 0
    /\ now.month = 2 /\ now.day = 28 /\ SecondOfDay(now) + EXPIRETIME >= Day

\* The expiry is EXPIRETIME seconds after the time of the command in the
\* calendar, but for the one day that the leap rule of the code has too many.
ExpiryIsRight ==
    \A u \in updates : IsAfter(u.newExpire, u.now, EXPIRETIME) <=> ~WrongLeapDay(u.now)
=============================================================================
