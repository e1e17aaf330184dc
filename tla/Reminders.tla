------------------------------ MODULE Reminders -----------------------------
(***************************************************************************)
(* The deadline reminders (src/season/reminders.py) as `fcc daily` of      *)
(* src/cli.py makes them after the job of the day: what applies at the     *)
(* hour of the run goes into one message, and the notifier suppresses a    *)
(* message whose content it sent in the last DedupHours.                   *)
(*                                                                         *)
(* Time is in whole hours since a Monday 00:00, in the league's zone.      *)
(***************************************************************************)
EXTENDS Integers

CONSTANTS
  DedupHours,    \* notifications.dedup_window_hours
  FirstWeek,     \* the season week of hour 0
  DraftAt,       \* the hour of the draft, or Never
  TradeEnd,      \* the midnight after the last day of trades, or Never
  PlayoffWeek,   \* playoff_start_week
  RunHours,      \* the hours of the week a run is scheduled at
  Lateness,      \* by how many hours one may be late
  LastHour       \* bounds the clock

ASSUME RemindersAssumption ==
  /\ {DedupHours, LastHour} \cup RunHours \cup Lateness \subseteq Nat
  /\ {FirstWeek, DraftAt, TradeEnd, PlayoffWeek} \subseteq Int

VARIABLES
  hour,
  gaps,          \* the weeks whose lineup cannot be filled
  mailed         \* the messages sent: records [at, message]

reminderVars == <<hour, gaps, mailed>>

Never == -1

WeekOf(h) == FirstWeek + h \div 168
Weekday(h) == (h \div 24) % 7      \* Monday is 0
HourOfDay(h) == h % 24

RemindersInit ==
  /\ hour = 0
  /\ gaps = {}
  /\ mailed = {}

-----------------------------------------------------------------------------
\* _describe_delta, of a time that many whole hours away.
Describe(hours) ==
  LET days == hours \div 24 IN
  IF days > 1 THEN <<"in days", days>>
  ELSE IF days = 1 THEN <<"tomorrow", 0>>
  ELSE IF hours > 1 THEN <<"in hours", hours>>
  ELSE IF hours = 1 THEN <<"in about an hour", 0>>
  ELSE <<"shortly", 0>>

Reminder(about, urgency, detail) == {[about |-> about, urgency |-> urgency, detail |-> detail]}

Draft(h) ==
  LET until == DraftAt - h IN
  IF DraftAt = Never \/ until <= 0 \/ until > 7 * 24 THEN {}
  ELSE Reminder("draft", IF until <= 24 THEN "high" ELSE "normal", Describe(until))

Waivers(h) ==
  IF Weekday(h) = 1 /\ HourOfDay(h) < 12 THEN Reminder("waivers", "high", <<>>) ELSE {}

ThursdayLock(h) ==
  IF Weekday(h) = 3 /\ HourOfDay(h) \in 8..19 THEN Reminder("lock", "normal", <<>>) ELSE {}

\* The gaps are the bye planner's, with a horizon of one: those of next week.
GapsSeen(h) == gaps \cap {WeekOf(h) + 1}

SetLineup(h) ==
  IF Weekday(h) # 6 \/ HourOfDay(h) \notin 7..12 THEN {}
  ELSE Reminder("lineup", IF GapsSeen(h) # {} THEN "high" ELSE "normal", <<GapsSeen(h)>>)

\* Trades close a minute before midnight.
Deadline(h) ==
  LET until == TradeEnd - h IN
  IF TradeEnd = Never \/ until <= 0 \/ until > 240 THEN {}
  ELSE Reminder("trades", "normal", Describe(until - 1))

Playoffs(h) ==
  IF PlayoffWeek - WeekOf(h) = 1 THEN Reminder("playoffs", "normal", <<>>) ELSE {}

Build(h) ==
  Draft(h) \cup Waivers(h) \cup ThursdayLock(h) \cup SetLineup(h) \cup Deadline(h)
    \cup Playoffs(h)

(***************************************************************************)
(* to_notification sorts what build() appended in this order, the urgent   *)
(* ones first.  What the notifier compares is told by who leads, and by    *)
(* what the message says: only the draft's urgency is not seen in its text. *)
(***************************************************************************)
Appended == [draft |-> 1, waivers |-> 2, lock |-> 3, lineup |-> 4, trades |-> 5, playoffs |-> 6]

Ahead(r, s) ==
  \/ r.urgency = "high" /\ s.urgency # "high"
  \/ r.urgency = s.urgency /\ Appended[r.about] <= Appended[s.about]

Message(reminders) ==
  [lead |-> (CHOOSE r \in reminders : \A s \in reminders : Ahead(r, s)).about,
   says |-> {<<r.about, r.detail>> : r \in reminders}]

DedupAWeek(h, at) == at > h - 7 * 24 - 1

InWindow(h, at) == at > h - DedupHours

AlreadyMailed(h, message) ==
  \E m \in mailed : m.message = message /\ InWindow(h, m.at)

-----------------------------------------------------------------------------
Scheduled(t) == t % 168 \in RunHours

NextRun == {t \in hour + 1 .. hour + 168 :
              Scheduled(t) /\ \A u \in hour + 1 .. t - 1 : ~Scheduled(u)}

\* The next scheduled run happens, late perhaps, or never.
Run ==
  \E t \in NextRun : \E late \in Lateness :
    /\ t + late <= LastHour
    /\ hour' = t + late
    /\ IF Build(hour') = {} \/ AlreadyMailed(hour', Message(Build(hour'))) THEN UNCHANGED mailed
       ELSE mailed' = mailed \cup {[at |-> hour', message |-> Message(Build(hour'))]}
    /\ UNCHANGED gaps

Dropped ==
  \E t \in NextRun : t <= LastHour /\ hour' = t /\ UNCHANGED <<gaps, mailed>>

\* A claim or a bye week found later changes what can be filled.
RosterMoves ==
  /\ \E week \in {WeekOf(hour) + 1} : gaps' = (gaps \ {week}) \cup ({week} \ gaps)
  /\ UNCHANGED <<hour, mailed>>

RemindersNext == Run \/ Dropped \/ RosterMoves

RemindersSpec == RemindersInit /\ [][RemindersNext]_reminderVars

-----------------------------------------------------------------------------
About(message) == {said[1] : said \in message.says}

(***************************************************************************)
(* No deadline of the day is missed for a message of another day: whoever  *)
(* runs on a Tuesday before noon, or on Sunday morning, has been told that *)
(* same day of what is due then, though last week's message may read alike *)
(* (already_sent, src/notify.py:80).                                       *)
(***************************************************************************)
ToldThatDay ==
  [][Run => \A r \in Build(hour') : r.about \in {"waivers", "lineup", "lock"} =>
       \E m \in mailed' : /\ m.at \div 24 = hour' \div 24
                          /\ r.about \in About(m.message)]_reminderVars
=============================================================================
