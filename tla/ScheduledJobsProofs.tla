------------------------- MODULE ScheduledJobsProofs ------------------------
(***************************************************************************)
(* Safety of the scheduled jobs, for any number of workers and trades, any *)
(* length of the day and of the week, and for ever: MaxTime is arbitrary.  *)
(***************************************************************************)
EXTENDS ScheduledJobs, TLAPS

-----------------------------------------------------------------------------
(* Arithmetic of midnights.                                                *)

LEMMA Multiple ==
  ASSUME NEW d \in Nat \ {0}, NEW k \in Int, k >= 1
  PROVE  d * k >= d
  BY SMTT(20)

(* Division with remainder.                                                *)
LEMMA Division ==
  ASSUME NEW x \in Int, NEW d \in Nat \ {0}
  PROVE  /\ x % d \in Int /\ 0 <= x % d /\ x % d < d
         /\ x \div d \in Int
         /\ x = d * (x \div d) + (x % d)
  BY SMTT(20)

(* The remainder is unique.                                                *)
LEMMA Remainder ==
  ASSUME NEW d \in Nat \ {0}, NEW q \in Int, NEW r \in Int, 0 <= r, r < d,
         NEW x \in Int, x = d * q + r
  PROVE  x % d = r
<1> DEFINE p == x \div d
           s == x % d
<1>1. p \in Int /\ s \in Int /\ 0 <= s /\ s < d /\ x = d * p + s
  BY Division
<1> HIDE DEF p, s
<1>2. d * (q - p) = s - r
  BY <1>1, SMTT(20)
<1>3. CASE q - p >= 1
  <2>1. d * (q - p) >= d BY <1>1, <1>3, Multiple
  <2> QED BY <2>1, <1>1, <1>2
<1>4. CASE p - q >= 1
  <2>1. d * (p - q) >= d BY <1>1, <1>4, Multiple
  <2>2. d * (p - q) = r - s BY <1>1, SMTT(20)
  <2> QED BY <2>1, <2>2, <1>1
<1>5. CASE q = p
  <2>1. s = r BY <1>1, <1>5
  <2> QED BY <2>1 DEF s
<1> QED BY <1>1, <1>3, <1>4, <1>5

(* Up to the grace after a summary's time, midnight was SummaryAt slots    *)
(* before that time.                                                       *)
LEMMA SummaryMidnight ==
  ASSUME NEW f \in Int, f % Week = SummaryAt, NEW x \in Int, f <= x, x <= f + Grace
  PROVE  Midnight(x) = f - SummaryAt
<1> DEFINE n == Week \div Day
           q == f \div Week
           m == n * q
<1>1. n \in Int /\ Week = Day * n
  BY Division, SchedulerAssumption
<1>2. q \in Int /\ f = Week * q + SummaryAt
  BY Division, SchedulerAssumption
<1> HIDE DEF n, q
<1>3. m \in Int /\ Week * q = Day * m
  BY <1>1, <1>2, SchedulerAssumption, SMTT(20)
<1> HIDE DEF m
<1>4. x = Day * m + (SummaryAt + (x - f))
  BY <1>2, <1>3, SchedulerAssumption
<1>5. x % Day = SummaryAt + (x - f)
  BY <1>3, <1>4, Remainder, SchedulerAssumption
<1> QED BY <1>5, SchedulerAssumption DEF Midnight

-----------------------------------------------------------------------------
(* The inductive invariant.                                                *)

(* Closing times are in the past, and no close is older than MaxCommit.    *)
Stamped ==
  \A t \in Trades :
    /\ trade[t].step # "open" => trade[t].at <= now
    /\ trade[t].step = "closing" => now <= trade[t].at + MaxCommit

(* The next run time of a running summary job is one of its times.         *)
Planned ==
  job = "weekly_summary" => \A w \in up : due[w] % Week = SummaryAt

(* A run or an event that started belongs to a time that had come, and not *)
(* more than the grace before.                                             *)
Punctual(r) ==
  /\ r.time <= r.started /\ r.started <= now
  /\ job = "weekly_summary" => r.started <= r.time + Grace

OnTime(r) == job = "weekly_summary" => r.time % Week = SummaryAt

(* What a summary did not find closed was closed shortly before its time   *)
(* at the earliest; what it found is closed.                               *)
Complete(r) ==
  /\ \A t \in r.closed : trade[t].step = "closed"
  /\ job = "weekly_summary" =>
       \A t \in Trades \ r.closed :
         trade[t].step # "open" => r.time <= trade[t].at + MaxCommit

Running ==
  \A w \in Workers :
    /\ run[w].step # "idle" => OnTime(run[w]) /\ run[w].time <= now /\ run[w].time < due[w]
    /\ run[w].step \in {"building", "built", "published"} => Punctual(run[w])
    /\ run[w].step \in {"built", "published"} => Complete(run[w])
    /\ run[w].step = "published" => Event(w, run[w]) \in announced

Heard ==
  \A a \in announced :
    /\ OnTime(a) /\ Punctual(a) /\ Complete(a)
    /\ a.worker \in up => a.time < due[a.worker]

IInv ==
  /\ TypeOK /\ Stamped /\ Planned /\ Running /\ Heard
  /\ AnnouncedOnce /\ ToldWhatWasAnnounced

-----------------------------------------------------------------------------

LEMMA InitIInv == Init => IInv
  BY SchedulerAssumption
  DEF Init, IInv, TypeOK, Stamped, Planned, Running, Heard, AnnouncedOnce, ToldWhatWasAnnounced,
      Jobs, Trade, RunSteps, Run, Announcement, Idle

(* What a next and a last run time are.                                    *)
LEMMA RunTimes ==
  ASSUME now \in Nat, NEW from \in Nat
  PROVE  /\ \A t \in NextRun(from) : t \in Nat /\ t > now /\ OnTime([time |-> t])
         /\ \A t \in LastRun(from) : t \in Nat /\ from <= t /\ t <= now /\ OnTime([time |-> t])
<1>1. \A t : Occurs(from, t) => OnTime([time |-> t])
  BY DEF Occurs, OnTime
<1> QED BY <1>1, SchedulerAssumption DEF NextRun, FirstOf, LastRun

LEMMA TickKeeps == IInv /\ Tick => IInv'
<1> SUFFICES ASSUME IInv, Tick PROVE IInv'
  OBVIOUS
<1> USE SchedulerAssumption DEF IInv, Tick
<1>1. TypeOK'
  BY DEF TypeOK
<1>2. Stamped'
  BY DEF Stamped, TypeOK, Trade
<1>3. Planned'
  BY DEF Planned
<1>4. Running'
  BY DEF Running, TypeOK, Run, OnTime, Punctual, Complete, Event
<1>5. Heard'
  BY DEF Heard, TypeOK, Announcement, OnTime, Punctual, Complete
<1>6. AnnouncedOnce' /\ ToldWhatWasAnnounced'
  BY DEF AnnouncedOnce, ToldWhatWasAnnounced
<1> QED BY <1>1, <1>2, <1>3, <1>4, <1>5, <1>6

(* A trade's close may only add rows no read has seen, later than the      *)
(* reads that are done.                                                    *)
LEMMA TradeKeeps ==
  ASSUME IInv, NEW t \in Trades, BeginClose(t) \/ EndClose(t)
  PROVE  IInv'
<1> USE SchedulerAssumption DEF IInv, BeginClose, EndClose
<1>1. TypeOK'
  BY DEF TypeOK, Trade
<1>2. Stamped'
  BY DEF Stamped, TypeOK, Trade
<1>3. Planned'
  BY DEF Planned
<1>4. ASSUME NEW r, r.time \in Nat, r.time <= now, r.closed \subseteq Trades, Complete(r)
      PROVE  Complete(r)'
  BY <1>4 DEF Complete, TypeOK, Trade
<1>5. Running'
  BY <1>4 DEF Running, TypeOK, Run, OnTime, Punctual, Event
<1>6. Heard'
  BY <1>4 DEF Heard, TypeOK, Announcement, OnTime, Punctual
<1>7. AnnouncedOnce' /\ ToldWhatWasAnnounced'
  BY DEF AnnouncedOnce, ToldWhatWasAnnounced
<1> QED BY <1>1, <1>2, <1>3, <1>5, <1>6, <1>7

(* A worker that starts plans later than everything announced.             *)
LEMMA StartUpKeeps ==
  ASSUME IInv, NEW w \in Workers, StartUp(w)
  PROVE  IInv'
<1> USE SchedulerAssumption DEF IInv, StartUp
<1>1. PICK n \in NextRun(now) : due' = [due EXCEPT ![w] = n]
  OBVIOUS
<1>2. n \in Nat /\ n > now /\ OnTime([time |-> n])
  BY <1>1, RunTimes DEF TypeOK
<1>3. run[w] = Idle
  BY DEF TypeOK
<1>4. TypeOK'
  BY <1>1, <1>2 DEF TypeOK
<1>5. Stamped'
  BY DEF Stamped
<1>6. Planned'
  BY <1>1, <1>2 DEF Planned, TypeOK, OnTime
<1>7. Running'
  BY <1>1, <1>3 DEF Running, TypeOK, OnTime, Punctual, Complete, Event, Idle
<1>8. Heard'
  BY <1>1, <1>2 DEF Heard, TypeOK, Announcement, OnTime, Punctual, Complete
<1>9. AnnouncedOnce' /\ ToldWhatWasAnnounced'
  BY DEF AnnouncedOnce, ToldWhatWasAnnounced
<1> QED BY <1>4, <1>5, <1>6, <1>7, <1>8, <1>9

LEMMA GoDownKeeps ==
  ASSUME IInv, NEW w \in Workers, GoDown(w)
  PROVE  IInv'
<1> USE SchedulerAssumption DEF IInv, GoDown
<1>1. TypeOK'
  BY DEF TypeOK, Run, RunSteps, Idle
<1>2. Stamped' /\ Planned'
  BY DEF Stamped, Planned
<1>3. Running'
  BY DEF Running, TypeOK, OnTime, Punctual, Complete, Event, Idle
<1>4. Heard'
  BY DEF Heard, TypeOK, Announcement, OnTime, Punctual, Complete
<1>5. AnnouncedOnce' /\ ToldWhatWasAnnounced'
  BY DEF AnnouncedOnce, ToldWhatWasAnnounced, TypeOK, Announcement, Idle
<1> QED BY <1>1, <1>2, <1>3, <1>4, <1>5

(* A submitted time is at least the planned one, hence a new one.          *)
LEMMA SubmitKeeps ==
  ASSUME IInv, NEW w \in Workers, Submit(w)
  PROVE  IInv'
<1>0. TypeOK /\ Stamped /\ Planned /\ Running /\ Heard /\ AnnouncedOnce /\ ToldWhatWasAnnounced
  BY DEF IInv
<1>1. /\ w \in up /\ due[w] <= now
      /\ UNCHANGED <<job, now, trade, up, announced, told>>
  BY DEF Submit
<1>2. PICK n \in NextRun(due[w]) : due' = [due EXCEPT ![w] = n]
  BY DEF Submit
<1>3. n \in Nat /\ n > now /\ OnTime([time |-> n])
  BY <1>0, <1>2, RunTimes DEF TypeOK
<1>4. due' \in [Workers -> Nat] /\ \A v \in Workers : due[v] <= due'[v]
  BY <1>0, <1>1, <1>2, <1>3 DEF TypeOK
<1>5. Stamped' /\ ToldWhatWasAnnounced'
  BY <1>0, <1>1 DEF Stamped, ToldWhatWasAnnounced
<1>6. Planned'
  BY <1>0, <1>1, <1>2, <1>3 DEF Planned, TypeOK, OnTime
<1>7. ASSUME NEW r PROVE OnTime(r)' = OnTime(r) /\ Punctual(r)' = Punctual(r) /\ Complete(r)' = Complete(r)
  BY <1>1 DEF OnTime, Punctual, Complete
<1>8. Heard'
  <2> SUFFICES ASSUME NEW a \in announced
               PROVE  OnTime(a) /\ Punctual(a) /\ Complete(a) /\ (a.worker \in up => a.time < due'[a.worker])
    BY <1>1, <1>7 DEF Heard
  <2>1. a.worker \in Workers /\ a.time \in Nat
    BY <1>0 DEF TypeOK, Announcement
  <2> QED BY <1>0, <1>4, <2>1 DEF Heard, TypeOK
<1>9. CASE run' = run
  <2>1. TypeOK'
    BY <1>0, <1>1, <1>4, <1>9 DEF TypeOK
  <2>2. Running'
    <3> SUFFICES ASSUME NEW v \in Workers, run[v].step # "idle"
                 PROVE  run[v].time < due'[v]
      BY <1>0, <1>1, <1>7, <1>9 DEF Running, Event
    <3> QED BY <1>0, <1>4 DEF Running, TypeOK, Run
  <2>3. AnnouncedOnce'
    BY <1>0, <1>1, <1>9 DEF AnnouncedOnce
  <2> QED BY <1>5, <1>6, <1>8, <2>1, <2>2, <2>3 DEF IInv
<1>10. CASE run' # run
  <2>1. PICK l \in LastRun(due[w]) :
          run' = [run EXCEPT ![w] = Submitted(l)]
    BY <1>10 DEF Submit
  <2>2. l \in Nat /\ due[w] <= l /\ l <= now /\ OnTime([time |-> l])
    BY <1>0, RunTimes DEF TypeOK
  <2>3. run' = [run EXCEPT ![w] =
                  [step |-> "submitted", time |-> l, started |-> 0, closed |-> {}]]
    BY <2>1 DEF Submitted
  <2>4. TypeOK'
    BY <1>0, <1>1, <1>4, <2>2, <2>3 DEF TypeOK, Run, RunSteps
  <2>5. Running'
    <3> SUFFICES ASSUME NEW v \in Workers
                 PROVE  /\ run'[v].step # "idle" =>
                             OnTime(run'[v]) /\ run'[v].time <= now /\ run'[v].time < due'[v]
                        /\ run'[v].step \in {"building", "built", "published"} => Punctual(run'[v])
                        /\ run'[v].step \in {"built", "published"} => Complete(run'[v])
                        /\ run'[v].step = "published" => Event(v, run'[v]) \in announced
      BY <1>1, <1>7 DEF Running, Event
    <3>1. CASE v = w
      BY <1>0, <1>2, <1>3, <2>2, <2>3, <3>1 DEF TypeOK, OnTime
    <3>2. CASE v # w
      BY <1>0, <1>4, <2>3, <3>2 DEF Running, TypeOK, Run
    <3> QED BY <3>1, <3>2
  <2>6. AnnouncedOnce'
    <3> SUFFICES ASSUME NEW a \in announced, a.worker = w
                 PROVE  l # a.time
      BY <1>0, <1>1, <2>3 DEF AnnouncedOnce, TypeOK, Announcement
    <3> QED BY <1>0, <1>1, <2>2 DEF Heard, TypeOK, Announcement
  <2> QED BY <1>5, <1>6, <1>8, <2>4, <2>5, <2>6 DEF IInv
<1> QED BY <1>9, <1>10

-----------------------------------------------------------------------------
(* Steps of a run, which change that run and add to the events.            *)

LEMMA BeginKeeps ==
  ASSUME IInv, NEW w \in Workers, Begin(w)
  PROVE  IInv'
<1>0. TypeOK /\ Stamped /\ Planned /\ Running /\ Heard /\ AnnouncedOnce /\ ToldWhatWasAnnounced
  BY DEF IInv
<1>1. /\ UNCHANGED <<job, now, trade, up, due, announced, told>>
      /\ run[w].step = "submitted"
  BY DEF Begin
<1> DEFINE begun == [run[w] EXCEPT !.step = "building", !.started = now]
<1>2. /\ run[w] \in Run /\ now \in Nat /\ w \in up
      /\ GraceOfJob \in Nat
  BY <1>0, <1>1, SchedulerAssumption DEF TypeOK, Idle, GraceOfJob
<1>record.
      /\ begun \in Run /\ begun.step = "building" /\ begun.time = run[w].time
      /\ begun.started = now /\ begun.closed = run[w].closed
  BY <1>2 DEF Run, RunSteps
<1>taken.
      \/ run' = [run EXCEPT ![w] = Idle]
      \/ run' = [run EXCEPT ![w] = begun] /\ ~(now - run[w].time > GraceOfJob)
  BY DEF Begin
<1> HIDE DEF begun
<1>idle. Idle \in Run
  BY DEF Idle, Run, RunSteps
<1>3. /\ TypeOK'
      /\ \A v \in Workers \ {w} : run'[v] = run[v]
      /\ run'[w] # Idle => /\ run'[w].step = "building" /\ run'[w].time = run[w].time
                           /\ run'[w].started = now /\ now <= run[w].time + GraceOfJob
  <2>1. run' \in [Workers -> Run]
    BY <1>0, <1>record, <1>taken, <1>idle DEF TypeOK
  <2>2. TypeOK'
    BY <1>0, <1>1, <1>2, <1>taken, <2>1 DEF TypeOK
  <2>3. \A v \in Workers \ {w} : run'[v] = run[v]
    BY <1>0, <1>taken DEF TypeOK
  <2>4. run'[w] # Idle => run'[w] = begun /\ ~(now - run[w].time > GraceOfJob)
    BY <1>0, <1>taken DEF TypeOK
  <2>5. run[w].time \in Nat
    BY <1>2 DEF Run
  <2> QED BY <1>2, <1>record, <2>2, <2>3, <2>4, <2>5
<1>4. Stamped' /\ Planned' /\ Heard' /\ ToldWhatWasAnnounced'
  BY <1>0, <1>1 DEF Stamped, Planned, Heard, ToldWhatWasAnnounced, OnTime, Punctual, Complete
<1>5. Running'
  <2>1. run[w].time <= now /\ OnTime(run[w]) /\ run[w].time < due[w] /\ run[w].time \in Nat
    BY <1>0, <1>1, <1>2 DEF Running, Run
  <2>2. run'[w].step # "idle" => /\ run'[w].step = "building"
                                /\ OnTime(run'[w]) /\ Punctual(run'[w])
                                /\ run'[w].time <= now /\ run'[w].time < due[w]
    BY <1>2, <1>3, <2>1 DEF OnTime, Punctual, Idle, GraceOfJob
  <2>3. ASSUME NEW r PROVE OnTime(r)' = OnTime(r) /\ Punctual(r)' = Punctual(r) /\ Complete(r)' = Complete(r)
    BY <1>1 DEF OnTime, Punctual, Complete
  <2> QED BY <1>0, <1>1, <1>3, <2>2, <2>3 DEF Running, Event
<1>6. AnnouncedOnce'
  BY <1>0, <1>1, <1>3 DEF AnnouncedOnce, TypeOK, Announcement, Idle
<1> QED BY <1>3, <1>4, <1>5, <1>6 DEF IInv

(* What a read does not find is open, or its close is at most MaxCommit    *)
(* old.                                                                    *)
LEMMA BuildKeeps ==
  ASSUME IInv, NEW w \in Workers, Build(w)
  PROVE  IInv'
<1>0. TypeOK /\ Stamped /\ Planned /\ Running /\ Heard /\ AnnouncedOnce /\ ToldWhatWasAnnounced
  BY DEF IInv
<1>1. /\ UNCHANGED <<job, now, trade, up, due, announced, told>>
      /\ run[w].step = "building"
  BY DEF Build
<1> DEFINE found == IF job = "news_refresh" THEN {}
                    ELSE {t \in Trades : trade[t].step = "closed"}
<1>2. run' = [run EXCEPT ![w] = [run[w] EXCEPT !.step = "built", !.closed = found]]
  BY DEF Build
<1>3. found \subseteq Trades /\ \A t \in found : trade[t].step = "closed"
  OBVIOUS
<1>4. job = "weekly_summary" => \A t \in Trades \ found : trade[t].step # "closed"
  OBVIOUS
<1> HIDE DEF found
<1>5. /\ TypeOK'
      /\ \A v \in Workers \ {w} : run'[v] = run[v]
      /\ run'[w].step = "built" /\ run'[w].time = run[w].time
      /\ run'[w].started = run[w].started /\ run'[w].closed = found
  <2> DEFINE built == [run[w] EXCEPT !.step = "built", !.closed = found]
  <2>1. run[w] \in Run /\ w \in up
    BY <1>0, <1>1 DEF TypeOK, Idle
  <2>2. /\ built \in Run /\ built.step = "built" /\ built.time = run[w].time
        /\ built.started = run[w].started /\ built.closed = found
    BY <1>3, <2>1 DEF Run, RunSteps
  <2>3. run' = [run EXCEPT ![w] = built]
    BY <1>2
  <2> HIDE DEF built
  <2>4. run' \in [Workers -> Run] /\ run'[w] = built /\ \A v \in Workers \ {w} : run'[v] = run[v]
    BY <1>0, <2>2, <2>3 DEF TypeOK
  <2>5. TypeOK'
    BY <1>0, <1>1, <2>1, <2>4 DEF TypeOK
  <2> QED BY <2>2, <2>4, <2>5
<1>6. Stamped' /\ Planned' /\ Heard' /\ ToldWhatWasAnnounced'
  BY <1>0, <1>1 DEF Stamped, Planned, Heard, ToldWhatWasAnnounced, OnTime, Punctual, Complete
<1>7. Complete(run'[w])
  <2> SUFFICES ASSUME job = "weekly_summary", NEW t \in Trades \ found, trade[t].step # "open"
               PROVE  run[w].time <= trade[t].at + MaxCommit
    BY <1>3, <1>5 DEF Complete
  <2>1. trade[t].step = "closing" /\ trade[t].at \in Nat
    BY <1>0, <1>4 DEF TypeOK, Trade
  <2>2. run[w].time <= now /\ run[w].time \in Nat /\ now \in Nat
    BY <1>0, <1>1 DEF Running, TypeOK, Run
  <2> QED BY <1>0, <2>1, <2>2, SchedulerAssumption DEF Stamped
<1>8. Running'
  BY <1>0, <1>1, <1>5, <1>7 DEF Running, OnTime, Punctual, Complete, Event
<1>9. AnnouncedOnce'
  BY <1>0, <1>1, <1>5 DEF AnnouncedOnce, TypeOK, Announcement
<1> QED BY <1>5, <1>6, <1>8, <1>9 DEF IInv

LEMMA FailKeeps ==
  ASSUME IInv, NEW w \in Workers, Fail(w)
  PROVE  IInv'
<1>0. TypeOK /\ Stamped /\ Planned /\ Running /\ Heard /\ AnnouncedOnce /\ ToldWhatWasAnnounced
  BY DEF IInv
<1>1. /\ UNCHANGED <<job, now, trade, up, due, announced, told>>
      /\ run' = [run EXCEPT ![w] = Idle]
  BY DEF Fail
<1>2. TypeOK'
  BY <1>0, <1>1 DEF TypeOK, Run, RunSteps, Idle
<1>3. Stamped' /\ Planned' /\ Heard' /\ ToldWhatWasAnnounced'
  BY <1>0, <1>1 DEF Stamped, Planned, Heard, ToldWhatWasAnnounced, OnTime, Punctual, Complete
<1>4. Running'
  BY <1>0, <1>1 DEF Running, TypeOK, OnTime, Punctual, Complete, Event, Idle
<1>5. AnnouncedOnce'
  BY <1>0, <1>1 DEF AnnouncedOnce, TypeOK, Announcement, Idle
<1> QED BY <1>2, <1>3, <1>4, <1>5 DEF IInv

LEMMA PublishKeeps ==
  ASSUME IInv, NEW w \in Workers, Publish(w)
  PROVE  IInv'
<1>0. TypeOK /\ Stamped /\ Planned /\ Running /\ Heard /\ AnnouncedOnce /\ ToldWhatWasAnnounced
  BY DEF IInv
<1> DEFINE e == Event(w, run[w])
<1>1. /\ UNCHANGED <<job, now, trade, up, due, told>>
      /\ run[w].step = "built" /\ announced' = announced \cup {e}
  BY DEF Publish
<1> DEFINE published == [run[w] EXCEPT !.step = "published"]
<1>2. run' = [run EXCEPT ![w] = IF job = "news_refresh" THEN Idle ELSE published]
  BY DEF Publish
<1>3. /\ e \in Announcement /\ e.worker = w /\ e.time = run[w].time
      /\ e.started = run[w].started /\ e.closed = run[w].closed
  BY <1>0 DEF Event, TypeOK, Run, Announcement
<1>4. OnTime(e) /\ Punctual(e) /\ Complete(e) /\ e.time < due[w]
  BY <1>0, <1>1, <1>3 DEF Running, OnTime, Punctual, Complete
<1>5. /\ TypeOK'
      /\ \A v \in Workers \ {w} : run'[v] = run[v]
      /\ run'[w].step \in {"idle", "published"}
      /\ run'[w].step = "published" =>
           /\ run'[w].time = run[w].time /\ run'[w].started = run[w].started
           /\ run'[w].closed = run[w].closed
  <2>1. run[w] \in Run /\ w \in up
    BY <1>0, <1>1 DEF TypeOK, Idle
  <2>2. /\ published \in Run /\ published.step = "published" /\ published.time = run[w].time
        /\ published.started = run[w].started /\ published.closed = run[w].closed
    BY <2>1 DEF Run, RunSteps
  <2>3. Idle \in Run /\ Idle.step = "idle"
    BY DEF Idle, Run, RunSteps
  <2> HIDE DEF published
  <2>4. run' \in [Workers -> Run] /\ run'[w] \in {Idle, published}
    BY <1>0, <1>2, <2>2, <2>3 DEF TypeOK
  <2>5. \A v \in Workers \ {w} : run'[v] = run[v]
    BY <1>0, <1>2 DEF TypeOK
  <2>6. TypeOK'
    BY <1>0, <1>1, <1>3, <2>1, <2>4, <2>5 DEF TypeOK
  <2> QED BY <2>2, <2>3, <2>4, <2>5, <2>6
<1>6. Stamped' /\ Planned' /\ ToldWhatWasAnnounced'
  BY <1>0, <1>1 DEF Stamped, Planned, ToldWhatWasAnnounced
<1>7. ASSUME NEW r PROVE OnTime(r)' = OnTime(r) /\ Punctual(r)' = Punctual(r) /\ Complete(r)' = Complete(r)
  BY <1>1 DEF OnTime, Punctual, Complete
<1>8. Heard'
  BY <1>0, <1>1, <1>3, <1>4, <1>7 DEF Heard
<1>9. Running'
  BY <1>0, <1>1, <1>3, <1>5, <1>7 DEF Running, Event, OnTime, Punctual, Complete
<1>10. AnnouncedOnce'
  BY <1>0, <1>1, <1>3, <1>5 DEF AnnouncedOnce, TypeOK, Announcement
<1> QED BY <1>5, <1>6, <1>8, <1>9, <1>10 DEF IInv

LEMMA NotifyKeeps ==
  ASSUME IInv, NEW w \in Workers, Notify(w)
  PROVE  IInv'
<1>0. TypeOK /\ Stamped /\ Planned /\ Running /\ Heard /\ AnnouncedOnce /\ ToldWhatWasAnnounced
  BY DEF IInv
<1>1. /\ UNCHANGED <<job, now, trade, up, due, announced>>
      /\ run' = [run EXCEPT ![w] = Idle]
      /\ run[w].step = "published" /\ told' \subseteq told \cup {Event(w, run[w])}
  BY DEF Notify
<1>2. Event(w, run[w]) \in announced
  BY <1>0, <1>1 DEF Running
<1>3. TypeOK'
  BY <1>0, <1>1, <1>2 DEF TypeOK, Run, RunSteps, Idle
<1>4. Stamped' /\ Planned' /\ Heard' /\ ToldWhatWasAnnounced'
  BY <1>0, <1>1, <1>2 DEF Stamped, Planned, Heard, ToldWhatWasAnnounced, OnTime, Punctual, Complete
<1>5. Running'
  BY <1>0, <1>1 DEF Running, TypeOK, OnTime, Punctual, Complete, Event, Idle
<1>6. AnnouncedOnce'
  BY <1>0, <1>1 DEF AnnouncedOnce, TypeOK, Announcement, Idle
<1> QED BY <1>3, <1>4, <1>5, <1>6 DEF IInv

-----------------------------------------------------------------------------
(* The theorems.                                                           *)

LEMMA NextKeeps == IInv /\ [Next]_vars => IInv'
<1> SUFFICES ASSUME IInv, [Next]_vars PROVE IInv'
  OBVIOUS
<1>1. CASE Tick
  BY <1>1, TickKeeps
<1>2. ASSUME NEW t \in Trades, BeginClose(t) \/ EndClose(t) PROVE IInv'
  BY <1>2, TradeKeeps
<1>3. ASSUME NEW w \in Workers, StartUp(w) \/ GoDown(w) \/ Submit(w) PROVE IInv'
  BY <1>3, StartUpKeeps, GoDownKeeps, SubmitKeeps
<1>4. ASSUME NEW w \in Workers, Work(w) PROVE IInv'
  BY <1>4, BeginKeeps, BuildKeeps, FailKeeps, PublishKeeps, NotifyKeeps DEF Work
<1>5. CASE UNCHANGED vars
  <2>1. ASSUME NEW r PROVE OnTime(r)' = OnTime(r) /\ Punctual(r)' = Punctual(r) /\ Complete(r)' = Complete(r)
    BY <1>5 DEF vars, OnTime, Punctual, Complete
  <2>2. TypeOK' /\ Stamped' /\ Planned' /\ AnnouncedOnce' /\ ToldWhatWasAnnounced'
    BY <1>5 DEF vars, IInv, TypeOK, Stamped, Planned, AnnouncedOnce, ToldWhatWasAnnounced
  <2>3. Running' /\ Heard'
    BY <1>5, <2>1 DEF vars, IInv, Running, Heard, Event
  <2> QED BY <2>2, <2>3 DEF IInv
<1> QED BY <1>1, <1>2, <1>3, <1>4, <1>5 DEF Next

(* The inductive invariant holds in every reachable state.                 *)
THEOREM Invariance == Spec => []IInv
<1>1. Init => IInv BY InitIInv
<1>2. IInv /\ [Next]_vars => IInv' BY NextKeeps
<1> QED BY <1>1, <1>2, PTL DEF Spec

(* Every variable keeps its type, and nothing runs in a process that is    *)
(* down.                                                                   *)
THEOREM TypeCorrect == Spec => []TypeOK
<1>1. IInv => TypeOK BY DEF IInv
<1> QED BY <1>1, Invariance, PTL

(* No worker runs again what it has announced.                             *)
THEOREM NothingAnnouncedTwice == Spec => []AnnouncedOnce
<1>1. IInv => AnnouncedOnce BY DEF IInv
<1> QED BY <1>1, Invariance, PTL

(* Telegram hears only of published events.                                *)
THEOREM OnlyAnnouncedIsTold == Spec => []ToldWhatWasAnnounced
<1>1. IInv => ToldWhatWasAnnounced BY DEF IInv
<1> QED BY <1>1, Invariance, PTL

(* No trade falls between two weeks' summaries: what the first did not     *)
(* find was closed after the midnight before it, and there the second's    *)
(* window begins, however late within the grace it started.                *)
THEOREM NoTradeIsLost == Spec => []NoTradeBetween
<1>1. IInv => NoTradeBetween
  <2> SUFFICES ASSUME IInv, NEW a \in announced, NEW b \in announced,
                      job = "weekly_summary", b.time = a.time + Week,
                      NEW t \in b.closed \ a.closed
               PROVE  t \in Counted(b)
    BY DEF NoTradeBetween
  <2>1. /\ a.time \in Nat /\ b.time \in Nat /\ b.started \in Nat
        /\ t \in Trades /\ trade[t].at \in Nat
    BY DEF IInv, TypeOK, Announcement, Trade
  <2>2. trade[t].step # "open" /\ a.time <= trade[t].at + MaxCommit
    BY <2>1 DEF IInv, Heard, Complete
  <2>3. a.time % Week = SummaryAt
    BY DEF IInv, Heard, OnTime
  <2>4. b.time <= b.started /\ b.started <= b.time + Grace
    BY DEF IInv, Heard, Punctual
  <2> DEFINE x == b.started - Week
  <2>5. x \in Int /\ a.time <= x /\ x <= a.time + Grace
    BY <2>1, <2>4, SchedulerAssumption
  <2> HIDE DEF x
  <2>6. Midnight(x) = a.time - SummaryAt
    BY <2>1, <2>3, <2>5, SummaryMidnight
  <2>7. Midnight(x) <= trade[t].at
    BY <2>1, <2>2, <2>6, SchedulerAssumption
  <2>8. Since(b.started) = Midnight(x)
    BY DEF Since, x
  <2> QED BY <2>7, <2>8 DEF Counted
<1> QED BY <1>1, Invariance, PTL

=============================================================================
