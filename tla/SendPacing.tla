----------------------------- MODULE SendPacing -----------------------------
(***************************************************************************)
(* When the sender sends: the start-up heartbeats, the packet-rate,        *)
(* heartbeat and end-of-session schedules, the pause after System Event S  *)
(* and the premarket window from S to Q, driven by the sender's data loop  *)
(* and its waits, on a clock that ends.  A send takes time, a sleeper      *)
(* wakes late, and nothing else takes time.                                *)
(*                                                                         *)
(* A packet is known by the System Event it ends with, if it has one ("S", *)
(* "Q" or "plain"), and by its time stamp, counted from that of S.  A file *)
(* has one S and, when a premarket mode is enabled, one Q after it.        *)
(***************************************************************************)
EXTENDS Integers

CONSTANTS
  Second,     \* ticks in a second
  MaxTime,    \* TimePoint::max()
  MaxLate,    \* bound: how long a send takes, or how late a sleeper wakes
  EosCopies,  \* packet_count_
  Configs     \* the options, records of
              \*   rate            packets_per_second, 0 for no limit
              \*   heartbeat, eos  the heartbeat and end-of-session intervals
              \*   beats, beat     startup_heartbeat_count and _interval_ms
              \*   pause           ss_pause_seconds, in ticks
              \*   mode            "off", "flat" or "timestamp"
              \*   seconds, toPace premarket_seconds and the packets from S to Q
              \*   span, speed     the time from S to Q and premarket_speedup

ASSUME PacingAssumption ==
  /\ {Second, MaxTime, EosCopies} \subseteq Nat \ {0}
  /\ MaxLate \in Nat
  /\ \A c \in Configs : /\ c.rate \in 0 .. Second
                        /\ {c.heartbeat, c.eos, c.beat} \subseteq 0 .. MaxTime
                        /\ c.mode \in {"off", "flat", "timestamp"}
                        /\ {c.toPace, c.span, c.speed} \subseteq Nat \ {0}
                        /\ {c.beats, c.pause, c.seconds} \subseteq Nat

Never == -1   \* an empty std::optional

VARIABLES
  cfg,
  now,
  scheduled,      \* scheduled_deadline_
  nextHeartbeat,  \* next_heartbeat_
  deadline,       \* what the sender waits for
  at, next,       \* where the sender is, and goes after a wait
  beats,          \* start-up heartbeats sent
  kind, stamp,    \* the packet at hand
  pausePending,   \* ss_pause_pending
  active,         \* premarket_active
  start,          \* premarket_start
  nextPremarket,  \* next_premarket_send
  paced,          \* packets taken from the source since S, in flat mode
  sawS,           \* the packet with S has been taken
  copies,         \* end-of-session packets sent
  traffic,        \* when the last packet of any kind was sent
  dataAt          \* history: when the last data packet was sent

startVars  == <<cfg, beats>>
packetVars == <<kind, stamp, paced, sawS>>
windowVars == <<pausePending, active, start, nextPremarket>>
rateVars   == <<scheduled, nextHeartbeat>>
sentVars   == <<copies, traffic, dataAt>>
pacingVars == <<startVars, packetVars, windowVars, rateVars, sentVars, now, deadline, at, next>>

PacingInit ==
  /\ cfg \in Configs
  /\ now = 0 /\ scheduled = 0 /\ nextHeartbeat = Never
  /\ deadline = 0 /\ at = "startup" /\ next = "fetch"
  /\ beats = 0
  /\ kind = "plain" /\ stamp = 0 /\ paced = 0 /\ sawS = FALSE
  /\ pausePending = (cfg.pause > 0)
  /\ active = FALSE /\ start = 0 /\ nextPremarket = 0
  /\ copies = 0 /\ traffic = 0 /\ dataAt = Never

\* intervalFor: a period rounded up to a tick; none disables the schedule.
Interval == IF cfg.rate = 0 THEN 0 ELSE (Second + cfg.rate - 1) \div cfg.rate

\* The time between two packets of a flat window, rounded up too.
FlatInterval ==
  IF cfg.mode = "flat" THEN (cfg.seconds * Second + cfg.toPace - 1) \div cfg.toPace ELSE 0

\* scaledDelay.
ScaledDelay(t) == (t + cfg.speed - 1) \div cfg.speed

\* base + interval, or Never beyond the clock's range.
Checked(base, interval) == IF base > MaxTime - interval THEN Never ELSE base + interval

\* checkedDeadlineAfterPacket.
AfterPacket(base, sent) == Checked(IF base > sent THEN base ELSE sent, Interval)

\* observeTraffic, which saturates.
ObserveTraffic(sent) ==
  nextHeartbeat' = IF cfg.heartbeat = 0 THEN Never
                   ELSE IF sent > MaxTime - cfg.heartbeat THEN MaxTime
                   ELSE sent + cfg.heartbeat

\* nextHeartbeatBefore: data due at the same moment takes precedence.
HeartbeatBefore(d) == nextHeartbeat # Never /\ nextHeartbeat < d

\* The next reading of the clock, up to MaxLate after base.
ClockAfter(base) == now' \in base .. base + MaxLate /\ now' <= MaxTime

\* sleepUntilOrStopped: at once when the deadline is past, else a little late.
SleepUntil(d) == IF now >= d THEN UNCHANGED now ELSE ClockAfter(d)

\* A send takes a while.
TransmitTime == ClockAfter(now)

\* The sender goes on to wait for d, or throws when d is out of range.
WaitFor(d, after) ==
  /\ deadline' = d /\ next' = after
  /\ at' = IF d = Never THEN "thrown" ELSE "wait"
-----------------------------------------------------------------------------
\* Mutant of StartupDeadline: counted from the wakeup.
StartupDeadlineLate == IF cfg.beat = 0 THEN now ELSE Checked(now, cfg.beat)

\* Each start-up heartbeat is due an interval after the last was due.
StartupDeadline == IF cfg.beat = 0 THEN now ELSE Checked(deadline, cfg.beat)

StartupBeat ==
  /\ at = "startup" /\ beats < cfg.beats
  /\ TransmitTime
  /\ traffic' = now'
  /\ beats' = beats + 1
  /\ at' = "beat_sent"
  /\ UNCHANGED <<cfg, packetVars, windowVars, rateVars, copies, dataAt, deadline, next>>

StartupSleep ==
  /\ at = "beat_sent"
  /\ IF StartupDeadline = Never THEN at' = "thrown" /\ UNCHANGED <<now, deadline>>
     ELSE /\ at' = "startup"
          /\ deadline' = StartupDeadline
          /\ IF cfg.beat = 0 THEN UNCHANGED now ELSE SleepUntil(StartupDeadline)
  /\ UNCHANGED <<startVars, packetVars, windowVars, rateVars, sentVars, next>>

StartupOver ==
  /\ at = "startup" /\ beats = cfg.beats
  /\ ObserveTraffic(now)
  /\ scheduled' = now
  /\ at' = "fetch"
  /\ UNCHANGED <<startVars, packetVars, windowVars, sentVars, now, deadline, next>>
-----------------------------------------------------------------------------
\* The events the next packet may end with.
Kinds ==
  IF ~active THEN IF sawS THEN {"plain"} ELSE {"plain", "S"}
  ELSE IF cfg.mode = "timestamp" THEN {"plain", "Q"}
  ELSE IF paced + 1 = cfg.toPace THEN {"Q"} ELSE {"plain"}

\* A packet is taken from the source; in the premarket window it is held back
\* until its time.
FetchTimed ==
  /\ at = "fetch"
  /\ kind' \in Kinds
  /\ stamp' \in (IF ~active \/ cfg.mode = "flat" THEN {0}
                 ELSE IF kind' = "Q" THEN {cfg.span} ELSE 0 .. cfg.span)
  /\ sawS' = (sawS \/ kind' = "S")
  /\ paced' = IF active /\ cfg.mode = "flat" THEN paced + 1 ELSE paced
  /\ IF ~active THEN at' = "send" /\ UNCHANGED <<deadline, next>>
     ELSE IF cfg.mode = "flat" THEN WaitFor(nextPremarket, "held")
     ELSE IF stamp' = 0 THEN at' = "send" /\ UNCHANGED <<deadline, next>>
     ELSE WaitFor(Checked(start, ScaledDelay(stamp')), "send")
  /\ UNCHANGED <<startVars, windowVars, rateVars, sentVars, now>>

\* The next packet of a flat window is due an interval after this one was.
Held ==
  /\ at = "held"
  /\ nextPremarket' = Checked(nextPremarket, FlatInterval)
  /\ at' = IF nextPremarket' = Never THEN "thrown" ELSE "send"
  /\ UNCHANGED <<startVars, packetVars, pausePending, active, start, rateVars, sentVars,
                 now, deadline, next>>

\* Mutant of RateAfter: the first packet after the window is not paced.
RateAfterWindow(sent) ==
  IF cfg.rate = 0 \/ active THEN scheduled ELSE AfterPacket(scheduled, sent)

\* The deadline of the next ordinary packet: none when the schedule is
\* disabled, and none in the window, whose last packet starts it anew.
RateAfter(sent) ==
  IF cfg.rate = 0 THEN scheduled
  ELSE IF kind = "Q" THEN AfterPacket(sent, sent)
  ELSE IF active THEN scheduled
  ELSE AfterPacket(scheduled, sent)

SendTimed ==
  /\ at = "send"
  /\ TransmitTime
  /\ ObserveTraffic(now')
  /\ traffic' = now'
  /\ dataAt' = now'
  /\ scheduled' = IF RateAfter(now') = Never THEN scheduled ELSE RateAfter(now')
  /\ at' = IF RateAfter(now') = Never THEN "thrown" ELSE "sent"
  /\ UNCHANGED <<startVars, packetVars, windowVars, copies, deadline, next>>

\* The pause after System Event S, once.
Pause ==
  /\ at = "sent" /\ kind = "S" /\ pausePending
  /\ WaitFor(Checked(now, cfg.pause), "sent")
  /\ pausePending' = FALSE
  /\ UNCHANGED <<startVars, packetVars, active, start, nextPremarket, rateVars, sentVars, now>>

OpensWindow == kind = "S" /\ cfg.mode # "off" /\ ~active

\* The premarket window opens.
OpenWindow ==
  /\ at = "sent" /\ ~(kind = "S" /\ pausePending) /\ OpensWindow
  /\ active' = TRUE /\ start' = now
  /\ nextPremarket' = Checked(now, FlatInterval)
  /\ at' = IF nextPremarket' = Never THEN "thrown" ELSE "fetch"
  /\ UNCHANGED <<startVars, packetVars, pausePending, rateVars, sentVars, now, deadline, next>>

\* System Event Q closes it.  Outside it the sender waits for its rate, if it
\* has one, unless the packet is known to be the last.
AfterData ==
  /\ at = "sent" /\ ~(kind = "S" /\ pausePending) /\ ~OpensWindow
  /\ active' = (active /\ kind # "Q")
  /\ \/ ~active' /\ cfg.rate > 0 /\ WaitFor(scheduled, "fetch")
     \/ (active' \/ cfg.rate = 0) /\ at' = "fetch" /\ UNCHANGED <<deadline, next>>
     \/ ~active' /\ kind = "plain" /\ at' = "end" /\ UNCHANGED <<deadline, next>>
  /\ UNCHANGED <<startVars, packetVars, pausePending, start, nextPremarket, rateVars, sentVars, now>>
-----------------------------------------------------------------------------
\* wait_until_with_heartbeats.
WaitOver ==
  /\ at = "wait" /\ now >= deadline
  /\ at' = next
  /\ UNCHANGED <<startVars, packetVars, windowVars, rateVars, sentVars, now, deadline, next>>

WaitForData ==
  /\ at = "wait" /\ now < deadline /\ ~HeartbeatBefore(deadline)
  /\ SleepUntil(deadline)
  /\ at' = next
  /\ UNCHANGED <<startVars, packetVars, windowVars, rateVars, sentVars, deadline, next>>

\* Mutant of WakeForHeartbeat: it sleeps until the data is due.
WakeAtDeadline ==
  /\ at = "wait" /\ now < deadline /\ HeartbeatBefore(deadline)
  /\ SleepUntil(deadline)
  /\ at' = "beat"
  /\ UNCHANGED <<startVars, packetVars, windowVars, rateVars, sentVars, deadline, next>>

WakeForHeartbeat ==
  /\ at = "wait" /\ now < deadline /\ HeartbeatBefore(deadline)
  /\ SleepUntil(nextHeartbeat)
  /\ at' = "beat"
  /\ UNCHANGED <<startVars, packetVars, windowVars, rateVars, sentVars, deadline, next>>

\* The heartbeat goes out, and the wait goes on.
SendHeartbeat ==
  /\ at = "beat"
  /\ TransmitTime
  /\ ObserveTraffic(now')
  /\ traffic' = now'
  /\ at' = "wait"
  /\ UNCHANGED <<startVars, packetVars, windowVars, scheduled, copies, dataAt, deadline, next>>
-----------------------------------------------------------------------------
\* Mutant of EosDeadline: the copies keep to the schedule of the first.
EosDeadlineCatchUp == IF copies = 0 THEN now ELSE Checked(deadline, cfg.eos)

\* checkedDeadlineAfterSend: each copy is due one interval after the last was
\* sent; the first at once.
EosDeadline == IF copies = 0 THEN now ELSE Checked(traffic, cfg.eos)

EndSleep ==
  /\ at = "end" /\ copies < EosCopies
  /\ EosDeadline # Never
  /\ deadline' = EosDeadline
  /\ SleepUntil(EosDeadline)
  /\ at' = "copy"
  /\ UNCHANGED <<startVars, packetVars, windowVars, rateVars, sentVars, next>>

SendEnd ==
  /\ at = "copy"
  /\ TransmitTime
  /\ traffic' = now'
  /\ copies' = copies + 1
  /\ at' = "end"
  /\ UNCHANGED <<startVars, packetVars, windowVars, rateVars, dataAt, deadline, next>>

EndThrown ==
  /\ at = "end" /\ copies < EosCopies
  /\ EosDeadline = Never
  /\ at' = "thrown"
  /\ UNCHANGED <<startVars, packetVars, windowVars, rateVars, sentVars, now, deadline, next>>

PacingNext ==
  \/ StartupBeat \/ StartupSleep \/ StartupOver
  \/ FetchTimed \/ Held \/ SendTimed \/ Pause \/ OpenWindow \/ AfterData
  \/ WaitOver \/ WaitForData \/ WakeForHeartbeat \/ SendHeartbeat
  \/ EndSleep \/ SendEnd \/ EndThrown

PacingSpec == PacingInit /\ [][PacingNext]_pacingVars
-----------------------------------------------------------------------------
\* Outside the premarket window the configured rate is a strict upper bound:
\* any two consecutive data packets are at least a rate-th of a second apart,
\* after late wakeups, slow sends, a pause and the window as well, whatever
\* the rounding of the period.
StrictRate ==
  [][SendTimed /\ dataAt # Never /\ ~active /\ cfg.rate > 0 =>
       (now - dataAt) * cfg.rate >= Second]_pacingVars

\* From the first data packet to the first copy of the end marker, whatever
\* is sent next, data or heartbeat, ends a silence of at most the heartbeat
\* interval, one late wakeup and the send itself: in the pause after S and
\* while a premarket packet is held back too.
NeverSilent ==
  [][SendTimed \/ SendHeartbeat \/ (SendEnd /\ copies = 0) =>
       (dataAt # Never /\ cfg.heartbeat > 0 =>
          now' - traffic <= cfg.heartbeat + 2 * MaxLate)]_pacingVars

\* Control packets do not bunch: after a late wakeup the next heartbeat is a
\* whole interval away, and the end-of-session copies are an interval apart
\* however late one was.
ControlsApart ==
  [][/\ SendHeartbeat => now - traffic >= cfg.heartbeat
     /\ SendEnd /\ copies > 0 => now - traffic >= cfg.eos]_pacingVars

\* The k-th of a series is due k intervals after the series began: never sent
\* before, and, where the interval leaves room for the lateness of one and its
\* send, not later than that, however late the ones before it were.
Due(k, interval, since, late) ==
  /\ now >= since + k * interval
  /\ interval >= late + MaxLate => now <= since + k * interval + late

\* How late a wait with heartbeats ends: by a wakeup, or by the wakeup and the
\* send of a heartbeat that was due just before.
WaitLate == IF cfg.heartbeat = 0 THEN MaxLate ELSE 2 * MaxLate

\* Start-up heartbeats and the packets of a flat window keep to a schedule
\* that lateness does not shift; a flat window takes at least the time that
\* was asked for, and in timestamp mode no packet is sent before its time.
OnSchedule ==
  /\ at = "startup" => Due(beats, cfg.beat, 0, MaxLate)
  /\ at = "send" /\ active /\ cfg.mode = "flat" =>
       /\ Due(paced, FlatInterval, start, WaitLate)
       /\ kind = "Q" => now - start >= cfg.seconds * Second
  /\ at = "send" /\ active /\ cfg.mode = "timestamp" => cfg.speed * (now - start) >= stamp
=============================================================================
