---------------------------- MODULE ScheduledJobs ---------------------------
(***************************************************************************)
(* The scheduled jobs: morning briefing, weekly summary and news refresh.  *)
(*                                                                         *)
(* Every worker process has a scheduler of its own, whose next run times   *)
(* live in its memory and are computed anew when it starts.  A run that    *)
(* begins more than the grace after its time is skipped; a job whose last  *)
(* run has not ended skips the next one.  A run reads the closed trades,   *)
(* publishes an event and notifies Telegram.  The jobs share nothing with  *)
(* each other, so a behaviour follows one of them, chosen at the start.    *)
(*                                                                         *)
(* Time is counted in slots.  Days and weeks begin at midnight UTC; the    *)
(* cron times, given in the scheduler's time zone, are converted to UTC.   *)
(***************************************************************************)
EXTENDS Integers

CONSTANTS
  Workers,      \* server processes
  Trades,
  Day,          \* slots of a day
  Week,         \* slots of a week
  BriefingAt,   \* the briefing's time, from midnight
  SummaryAt,    \* the summary's time, from the start of the week
  WorkingDays,  \* slots from the start of the week to the end of its last working day
  Interval,     \* between news refreshes
  Opening,      \* trading hours, from midnight
  Closing,
  Grace,        \* misfire_grace_time of the cron jobs
  MaxCommit,    \* longest time from closed_at to the commit
  MaxTime       \* slots that pass (bound)

ASSUME SchedulerAssumption ==
  /\ Day \in Nat \ {0} /\ Interval \in Nat \ {0}
  /\ Week \in Nat /\ Week > 0 /\ Week % Day = 0
  /\ BriefingAt \in Nat /\ SummaryAt \in Nat /\ Grace \in Nat /\ MaxCommit \in Nat
  /\ MaxTime \in Nat /\ Opening \in Nat /\ Closing \in Nat /\ WorkingDays \in Nat
  /\ SummaryAt + Grace < Day     \* a summary, even a late one, begins on its Monday
  /\ MaxCommit <= SummaryAt      \* no request takes from Sunday to the summary

Jobs == {"morning_briefing", "weekly_summary", "news_refresh"}

VARIABLES
  job,          \* the job followed
  now,
  trade,        \* the journal: each trade open, being closed, or closed, and closed_at
  up,           \* workers that run
  due,          \* next_run_time of the job in each worker
  run,          \* the run in progress in each worker
  announced,    \* events published
  told          \* Telegram messages delivered

vars == <<job, now, trade, up, due, run, announced, told>>

-----------------------------------------------------------------------------
(* Triggers.                                                               *)

(* Run times of a job, one of which (or, for the interval, the start of    *)
(* the scheduler) is `from`.                                               *)
Occurs(from, t) ==
  \/ job = "morning_briefing" /\ t % Day = BriefingAt /\ t % Week < WorkingDays
  \/ job = "weekly_summary"   /\ t % Week = SummaryAt
  \/ job = "news_refresh"     /\ (t - from) % Interval = 0

(* The first run time from `start` on (a set of one).                      *)
FirstOf(from, start) ==
  {t \in start .. start + 2 * Week + Interval :
     Occurs(from, t) /\ \A u \in start .. t - 1 : ~Occurs(from, u)}

NextRun(from) == FirstOf(from, now + 1)

(* The last run time that has passed (a set of one).                       *)
LastRun(from) ==
  {t \in from .. now : Occurs(from, t) /\ \A u \in t + 1 .. now : ~Occurs(from, u)}

GraceOfJob == IF job = "news_refresh" THEN 0 ELSE Grace

-----------------------------------------------------------------------------
(* Windows.                                                                *)

Midnight(t) == t - (t % Day)

TradingHours(t) == Opening <= t % Day /\ t % Day < Closing

(* Defect: no rounding down to midnight.                                  *)
SinceExactly(s) == IF job = "weekly_summary" THEN s - Week ELSE Midnight(s)

(* From when on a run that started at s counts closed trades.              *)
Since(s) == IF job = "weekly_summary" THEN Midnight(s - Week) ELSE Midnight(s)

Counted(r) == {t \in r.closed : trade[t].at >= Since(r.started)}

-----------------------------------------------------------------------------
Idle == [step |-> "idle", time |-> 0, started |-> 0, closed |-> {}]

Submitted(t) == [step |-> "submitted", time |-> t, started |-> 0, closed |-> {}]

Event(w, r) ==
  [worker |-> w, time |-> r.time, started |-> r.started, closed |-> r.closed]

Init ==
  /\ job \in Jobs
  /\ now = 0
  /\ trade = [t \in Trades |-> [step |-> "open", at |-> 0]]
  /\ up = {}
  /\ due = [w \in Workers |-> 0]
  /\ run = [w \in Workers |-> Idle]
  /\ announced = {}
  /\ told = {}

(* Time passes, whatever waits; a closing request does not last for ever.  *)
Tick ==
  /\ now < MaxTime
  /\ \A t \in Trades : trade[t].step = "closing" => now < trade[t].at + MaxCommit
  /\ now' = now + 1
  /\ UNCHANGED <<job, trade, up, due, run, announced, told>>

(* A close stamps closed_at, and commits or rolls back some time later.    *)
BeginClose(t) ==
  /\ trade[t].step = "open"
  /\ trade' = [trade EXCEPT ![t] = [step |-> "closing", at |-> now]]
  /\ UNCHANGED <<job, now, up, due, run, announced, told>>

EndClose(t) ==
  /\ trade[t].step = "closing"
  /\ \E s \in {"closed", "open"} : trade' = [trade EXCEPT ![t].step = s]
  /\ UNCHANGED <<job, now, up, due, run, announced, told>>

(* Defect: the start may be a run time itself.                             *)
StartUpAtOnce(w) ==
  /\ w \notin up
  /\ up' = up \cup {w}
  /\ \E t \in FirstOf(now, now) : due' = [due EXCEPT ![w] = t]
  /\ UNCHANGED <<job, now, trade, run, announced, told>>

(* The application starts: it registers every job and forgets the past.    *)
StartUp(w) ==
  /\ w \notin up
  /\ up' = up \cup {w}
  /\ \E t \in NextRun(now) : due' = [due EXCEPT ![w] = t]
  /\ UNCHANGED <<job, now, trade, run, announced, told>>

(* Defect: the process ends and its runs go on.                            *)
GoDownBusy(w) ==
  /\ w \in up
  /\ up' = up \ {w}
  /\ UNCHANGED <<job, now, trade, due, run, announced, told>>

(* The process ends, in order or by a crash: shutdown does not wait for    *)
(* runs in progress.                                                       *)
GoDown(w) ==
  /\ w \in up
  /\ up' = up \ {w}
  /\ run' = [run EXCEPT ![w] = Idle]
  /\ UNCHANGED <<job, now, trade, due, announced, told>>

(* The scheduler wakes up and submits the latest run time that has passed, *)
(* unless a run of the job is in progress.                                 *)
Submit(w) ==
  /\ w \in up /\ due[w] <= now
  /\ \E t \in NextRun(due[w]) : due' = [due EXCEPT ![w] = t]
  /\ \/ /\ run[w] = Idle
        /\ \E t \in LastRun(due[w]) :
             run' = [run EXCEPT ![w] = Submitted(t)]
     \/ run[w] # Idle /\ UNCHANGED run
  /\ UNCHANGED <<job, now, trade, up, announced, told>>

(* The run begins or is a misfire; news are refreshed in trading hours.    *)
Begin(w) ==
  /\ run[w].step = "submitted"
  /\ run' = [run EXCEPT ![w] =
       IF \/ now - run[w].time > GraceOfJob
          \/ job = "news_refresh" /\ ~TradingHours(now)
         THEN Idle
         ELSE [@ EXCEPT !.step = "building", !.started = now]]
  /\ UNCHANGED <<job, now, trade, up, due, announced, told>>

(* The summary and the briefing read the closed trades; the news, of which *)
(* each asset's may fail, read none.                                       *)
Build(w) ==
  /\ run[w].step = "building"
  /\ run' = [run EXCEPT ![w] =
       [@ EXCEPT !.step = "built",
                 !.closed = IF job = "news_refresh" THEN {}
                            ELSE {t \in Trades : trade[t].step = "closed"}]]
  /\ UNCHANGED <<job, now, trade, up, due, announced, told>>

(* The database, the AI or Redis fails: the run is logged and over.        *)
Fail(w) ==
  /\ \/ run[w].step = "built"
     \/ run[w].step = "building" /\ job # "news_refresh"
  /\ run' = [run EXCEPT ![w] = Idle]
  /\ UNCHANGED <<job, now, trade, up, due, announced, told>>

Publish(w) ==
  /\ run[w].step = "built"
  /\ announced' = announced \cup {Event(w, run[w])}
  /\ run' = [run EXCEPT ![w] =
               IF job = "news_refresh" THEN Idle ELSE [@ EXCEPT !.step = "published"]]
  /\ UNCHANGED <<job, now, trade, up, due, told>>

(* Telegram takes the message, or a failure is logged.                     *)
Notify(w) ==
  /\ run[w].step = "published"
  /\ told' \in {told, told \cup {Event(w, run[w])}}
  /\ run' = [run EXCEPT ![w] = Idle]
  /\ UNCHANGED <<job, now, trade, up, due, announced>>

Work(w) == Begin(w) \/ Build(w) \/ Fail(w) \/ Publish(w) \/ Notify(w)

Next ==
  \/ Tick
  \/ \E t \in Trades : BeginClose(t) \/ EndClose(t)
  \/ \E w \in Workers : StartUp(w) \/ GoDown(w) \/ Submit(w) \/ Work(w)

Spec == Init /\ [][Next]_vars

-----------------------------------------------------------------------------
(* Properties.                                                             *)

Trade == [step : {"open", "closing", "closed"}, at : Nat]

RunSteps == {"idle", "submitted", "building", "built", "published"}

Run == [step : RunSteps, time : Nat, started : Nat, closed : SUBSET Trades]

Announcement ==
  [worker : Workers, time : Nat, started : Nat, closed : SUBSET Trades]

(* Every variable has its type, and nothing runs in a process that is down.*)
TypeOK ==
  /\ job \in Jobs
  /\ now \in Nat
  /\ trade \in [Trades -> Trade]
  /\ up \subseteq Workers
  /\ due \in [Workers -> Nat]
  /\ run \in [Workers -> Run]
  /\ announced \subseteq Announcement
  /\ told \subseteq Announcement
  /\ \A w \in Workers \ up : run[w] = Idle

(* A trade that became visible between the reads of two weeks' summaries   *)
(* is counted by the later one, whichever workers made them: no trade      *)
(* falls between two summaries because a run was late, or because the      *)
(* commit of the close came after the first read.                          *)
NoTradeBetween ==
  \A a, b \in announced :
    job = "weekly_summary" /\ b.time = a.time + Week =>
      b.closed \ a.closed \subseteq Counted(b)

(* A worker never starts again a run it has announced, not even when it    *)
(* restarts at the very time of the run.                                   *)
AnnouncedOnce ==
  \A a \in announced :
    run[a.worker].time = a.time =>
      run[a.worker].step \in {"idle", "published"}

(* Telegram never hears of a run whose event was not published.            *)
ToldWhatWasAnnounced == told \subseteq announced

-----------------------------------------------------------------------------
(* What the code says and does not do.                                     *)

(* weekly_summary_job.py:3, "Queries analytics for the previous week": a   *)
(* trade closed on a Monday before the run counts in two weeks.            *)
CountedOnce ==
  \A a, b \in announced :
    job = "weekly_summary" /\ a.time < b.time =>
      Counted(a) \cap Counted(b) = {}

(* The production image starts two workers, and each runs every job.       *)
OneWorkerAnnounces ==
  \A a, b \in announced : a.time = b.time => a = b

=============================================================================
