------------------------------ MODULE ReplayPage -----------------------------
(***************************************************************************)
(* The replay page: a step is a request, its candle comes as an event, and *)
(* a timer of three seconds stands in for an event that does not come.     *)
(* The events of all replays come to all pages.  How requests on one       *)
(* session meet in the database is the subject of ReplayControl; here a    *)
(* request waits for the row's lock and then writes all of it.             *)
(***************************************************************************)
EXTENDS LiveSocket

CONSTANTS
  Replays,      \* sessions
  Frames,       \* number of frames of each
  Careful,      \* whether finish and create wait for all else, and next for finish
  MaxRefusals,  \* failed requests (bound)
  Slots         \* requests a page has open at a time (bound)

ASSUME PlayerAssumption ==
  /\ Frames \in [Replays -> Nat \ {0}]
  /\ NONE \notin Replays
  /\ Careful \in BOOLEAN
  /\ MaxRefusals \in Nat

VARIABLES
  row,          \* each session: the frame it stands on, and whether it is over
  put,          \* the requests the server works on, or whose answer is on its way
  gone,         \* those of them that the page has given up
  late,         \* requests answered, or given up, before their commit
  refusals,
  strayed,      \* whether a page has given up one of which nothing was announced yet
  player        \* what each page shows

serverVars == <<row, late, refusals>>

strayVars == <<gone, strayed>>

replayVars == <<serverVars, strayVars, put, player>>

NoReplay == [frame |-> -1, over |-> FALSE]

NoPut == [step |-> "none", op |-> "next", of |-> NONE, goal |-> NoReplay]

Goal(op, s, at) ==
  LET last == Frames[s] - 1
      next == IF at.frame < last THEN at.frame + 1 ELSE last
  IN  IF op = "finish" THEN [frame |-> last, over |-> TRUE]
      ELSE [frame |-> next, over |-> next = last]

Players ==
  [session : Replays \cup {NONE}, shown : [frame : Int, over : BOOLEAN],
   next : BOOLEAN, finish : BOOLEAN,             \* buttons enabled
   awaiting : BOOLEAN,                           \* _replayAwaitingFrame
   timers : Nat,
   area : {"empty", "spinner", "candle", "status"},
   candles : Seq(Replays \X Nat)]

ReplayInit ==
  /\ row = [s \in Replays |-> NoReplay]
  /\ put = [b \in Browsers |-> [i \in Slots |-> NoPut]]
  /\ late = {} /\ gone = {}
  /\ refusals = 0 /\ strayed = FALSE
  /\ player = [b \in Browsers |->
       [session |-> NONE, shown |-> NoReplay, next |-> FALSE, finish |-> FALSE,
        awaiting |-> FALSE, timers |-> 0, area |-> "empty", candles |-> <<>>]]

\* Nothing is on its way to the page or from it.
AtRest(b) ==
  /\ \A i \in Slots : put[b][i] = NoPut
  /\ player[b].timers = 0 /\ inbox[b] = <<>> /\ late = {}

-----------------------------------------------------------------------------
(* The page.                                                               *)

\* createReplay, when its answer is there: a new chart; the rest of the page stays.
CreateReplay(b, s) ==
  /\ page = "replay" /\ b \in Audience[page]
  /\ row[s] = NoReplay
  /\ Careful => AtRest(b)
  /\ row' = [row EXCEPT ![s] = [frame |-> 0, over |-> FALSE]]
  /\ player' = [player EXCEPT ![b] =
       [@ EXCEPT !.session = s, !.shown = row'[s], !.candles = <<>>,
                 !.next = TRUE, !.finish = TRUE]]
  /\ UNCHANGED <<put, late, refusals, strayVars, socketVars>>

Send(b, op) ==
  \E i \in Slots :
    /\ put[b][i] = NoPut
    /\ put' = [put EXCEPT ![b][i] =
                 [NoPut EXCEPT !.step = "sent", !.op = op, !.of = player[b].session]]

\* replayNext up to its await.
PressNext(b) ==
  /\ player[b].next
  /\ Careful => \A i \in Slots : put[b][i].op # "finish"
  /\ Send(b, "next")
  /\ player' = [player EXCEPT ![b] =
       [@ EXCEPT !.next = FALSE, !.awaiting = TRUE, !.area = "spinner"]]
  /\ UNCHANGED <<serverVars, strayVars, socketVars>>

\* replayFinish up to its await.
PressFinish(b) ==
  /\ player[b].finish
  /\ Careful => AtRest(b)
  /\ Send(b, "finish")
  /\ UNCHANGED <<serverVars, strayVars, player, socketVars>>

\* The rest of them: what the answer does to the page.
AnswerShown(p, q) ==
  IF q.step = "failed"
  THEN IF q.op = "next" THEN [p EXCEPT !.awaiting = FALSE, !.next = TRUE] ELSE p
  ELSE IF q.op = "finish"
  THEN [p EXCEPT !.shown = q.goal, !.next = FALSE, !.finish = FALSE]
  ELSE IF q.goal.over
  THEN [p EXCEPT !.shown = q.goal, !.awaiting = FALSE, !.finish = FALSE]
  ELSE [p EXCEPT !.shown = q.goal, !.next = TRUE, !.timers = @ + 1]

\* The request of b is over for all but its commit, before or after which it ends.
Leave(b, i) ==
  LET q == put[b][i] IN
    /\ q.step \in {"announced", "committed", "failed"}
    /\ put' = [put EXCEPT ![b][i] = NoPut]
    /\ late' = IF q.step = "announced" THEN late \cup {[of |-> q.of, goal |-> q.goal]} ELSE late

ReplayAnswer(b, i) ==
  /\ <<b, i>> \notin gone
  /\ Leave(b, i)
  /\ player' = [player EXCEPT ![b] = AnswerShown(@, put[b][i])]
  /\ UNCHANGED <<row, refusals, strayVars, socketVars>>

\* The answer to a request that the page has given up.
AnswerUnheard(b, i) ==
  /\ <<b, i>> \in gone
  /\ Leave(b, i)
  /\ gone' = gone \ {<<b, i>>}
  /\ UNCHANGED <<row, refusals, strayed, player, socketVars>>

\* The connection breaks off: for the page the request has failed and the next may
\* follow, while the server goes on with it.
BreakOff(b, i) ==
  /\ refusals < MaxRefusals
  /\ refusals' = refusals + 1
  /\ <<b, i>> \notin gone
  /\ player' = [player EXCEPT ![b] = AnswerShown(@, [put[b][i] EXCEPT !.step = "failed"])]
  /\ \/ /\ put[b][i].step \in {"sent", "loaded", "framed"}
        /\ gone' = gone \cup {<<b, i>>}
        /\ strayed' = TRUE
        /\ UNCHANGED <<put, late>>
     \/ /\ put[b][i].step = "announced"
        /\ Leave(b, i)
        /\ UNCHANGED strayVars
  /\ UNCHANGED <<row, socketVars>>

\* The three seconds are over.
FallbackTimer(b) ==
  LET p == player[b] IN
    /\ p.timers > 0
    /\ player' = [player EXCEPT ![b] =
         IF p.awaiting
         THEN [p EXCEPT !.timers = @ - 1, !.awaiting = FALSE,
                        !.area = IF p.candles # <<>> THEN "candle" ELSE "status"]
         ELSE [p EXCEPT !.timers = @ - 1]]
    /\ UNCHANGED <<serverVars, strayVars, put, socketVars>>

\* Bug variant: a frame that comes twice is drawn twice.
WithCandleAgain(candles, c) == Append(candles, c)

\* renderReplayFrame: a candle of the same time as the last is not drawn again.
WithCandle(candles, c) ==
  IF candles # <<>> /\ candles[Len(candles)] = c THEN candles ELSE Append(candles, c)

\* onWsEvent: replay.frame_advanced and replay.completed.
HearReplay(b) ==
  /\ page = "replay" /\ Take(b)
  /\ LET e == Head(inbox[b]) IN
       player' = [player EXCEPT ![b] =
         IF e.event = "replay.completed" THEN [@ EXCEPT !.next = FALSE, !.finish = FALSE]
         ELSE [@ EXCEPT !.awaiting = FALSE, !.area = "candle",
                        !.candles = WithCandle(player[b].candles, <<e.of, e.n>>)]]
  /\ UNCHANGED <<serverVars, strayVars, put>>

-----------------------------------------------------------------------------
(* The server (ControlReplayUseCase).                                      *)

\* A completed session answers next as it is.
LoadReplay(b, i) ==
  LET q == put[b][i] IN
    /\ q.step = "sent"
    /\ put' = [put EXCEPT ![b][i] =
         IF q.op = "next" /\ row[q.of].over
         THEN [q EXCEPT !.step = "committed", !.goal = row[q.of]]
         ELSE [q EXCEPT !.step = "loaded", !.goal = Goal(q.op, q.of, row[q.of])]]
    /\ UNCHANGED <<serverVars, strayVars, player, socketVars>>

Locked(s) ==
  \/ \E l \in late : l.of = s
  \/ \E b \in Browsers, i \in Slots :
       put[b][i].of = s /\ put[b][i].step \in {"framed", "announced"}

AnnounceFrame(b, i) ==
  LET q == put[b][i] IN
    /\ q.step = "loaded" /\ q.op = "next" /\ ~Locked(q.of)
    /\ put' = [put EXCEPT ![b][i].step = IF q.goal.over THEN "framed" ELSE "announced"]
    /\ Announce(Event("replay.frame_advanced", q.of, q.goal.frame))
    /\ UNCHANGED <<serverVars, strayVars, player>>

AnnounceOver(b, i) ==
  LET q == put[b][i] IN
    /\ \/ q.step = "framed"
       \/ q.step = "loaded" /\ q.op = "finish" /\ ~Locked(q.of)
    /\ put' = [put EXCEPT ![b][i].step = "announced"]
    /\ Announce(Event("replay.completed", q.of, 0))
    /\ UNCHANGED <<serverVars, strayVars, player>>

CommitReplay(b, i) ==
  LET q == put[b][i] IN
    /\ q.step = "announced"
    /\ row' = [row EXCEPT ![q.of] = q.goal]
    /\ put' = [put EXCEPT ![b][i].step = "committed"]
    /\ UNCHANGED <<late, refusals, strayVars, player, socketVars>>

CommitLate(l) ==
  /\ row' = [row EXCEPT ![l.of] = l.goal]
  /\ late' = late \ {l}
  /\ UNCHANGED <<put, refusals, strayVars, player, socketVars>>

\* A request fails on the server at any point, or its answer is lost after the commit.
Refuse(b, i) ==
  /\ put[b][i].step \notin {"none", "failed"}
  /\ refusals < MaxRefusals
  /\ refusals' = refusals + 1
  /\ put' = [put EXCEPT ![b][i].step = "failed"]
  /\ UNCHANGED <<row, late, strayVars, player, socketVars>>

\* Its commit fails when it has been answered.
RefuseLate(l) ==
  /\ refusals < MaxRefusals
  /\ refusals' = refusals + 1
  /\ late' = late \ {l}
  /\ UNCHANGED <<row, put, strayVars, player, socketVars>>

ReplayNext ==
  \/ \E b \in Browsers :
       \/ PressNext(b) \/ PressFinish(b) \/ FallbackTimer(b) \/ HearReplay(b)
       \/ \E s \in Replays : CreateReplay(b, s)
       \/ \E i \in Slots :
            \/ ReplayAnswer(b, i) \/ AnswerUnheard(b, i) \/ BreakOff(b, i)
            \/ LoadReplay(b, i) \/ AnnounceFrame(b, i) \/ AnnounceOver(b, i)
            \/ CommitReplay(b, i) \/ Refuse(b, i)
  \/ \E l \in late : CommitLate(l) \/ RefuseLate(l)
=============================================================================
