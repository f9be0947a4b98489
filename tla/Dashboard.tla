------------------------------ MODULE Dashboard ------------------------------
(***************************************************************************)
(* Several open dashboards and the parts of the server that talk to them:  *)
(* the chat, the trades and analysis pages, prices and trends of the       *)
(* market page, the briefing and the replay.  They share the socket, the   *)
(* quotes and nothing else, so a behaviour has one of them open.           *)
(***************************************************************************)
EXTENDS ChatStream, LivePages, Briefing, ReplayPage

marketVars == <<feedVars, deskVars, briefingVars>>

vars == <<socketVars, chatVars, pageVars, marketVars, replayVars>>

(* What matters to one page only has one value on the others.              *)
Init ==
  /\ page \in Pages
  /\ SocketInit /\ ChatInit /\ PagesInit /\ ReplayInit
  /\ FeedInit /\ DeskInit /\ BriefingInit
  /\ page \notin {"market", "trends"} => prompt
  /\ page # "analysis" => answer = CHOOSE f \in Answers : TRUE

Next ==
  \/ /\ \E b \in Browsers : Open(b) \/ Subscribe(b) \/ Lose(b)
     /\ UNCHANGED <<chatVars, pageVars, marketVars, replayVars>>
  \/ /\ page = "chat" /\ ChatNext
     /\ UNCHANGED <<pageVars, marketVars, replayVars>>
  \/ /\ page \in {"trades", "analysis"} /\ PagesNext
     /\ UNCHANGED <<chatVars, marketVars, replayVars>>
  \/ /\ page \in {"market", "trends", "briefing"}
     /\ \/ FeedNext /\ UNCHANGED <<deskVars, briefingVars>>
        \/ DeskNext /\ UNCHANGED briefingVars
        \/ BriefingNext
     /\ UNCHANGED <<chatVars, pageVars, replayVars>>
  \/ /\ page = "replay" /\ ReplayNext
     /\ UNCHANGED <<chatVars, pageVars, marketVars>>

Spec == Init /\ [][Next]_vars

(* On the pages that ask by themselves the timer fires again and again,    *)
(* and of the requests that are open always one gets ahead, be it the same *)
(* that is left behind for ever.  Nothing is assumed of users, sockets or  *)
(* events, nor of the other pages.                                         *)
Timer ==
  \/ /\ page = "trades" /\ \E b \in Audience[page] : Poll(b)
     /\ UNCHANGED <<chatVars, marketVars, replayVars>>
  \/ /\ page = "market" /\ \E b \in Audience[page] : AskQuotes(b)
     /\ UNCHANGED <<chatVars, pageVars, briefingVars, replayVars>>

Progress ==
  \/ /\ page = "trades" /\ \E b \in Audience[page], r \in Requests : Serve(b, r) \/ Show(b, r)
     /\ UNCHANGED <<chatVars, marketVars, replayVars>>
  \/ /\ page = "market" /\ \E b \in Audience[page], r \in Lines : Read(b, r) \/ Arrive(b, r)
     /\ UNCHANGED <<chatVars, pageVars, briefingVars, replayVars>>

FairSpec == Spec /\ WF_vars(Timer) /\ WF_vars(Progress)

-----------------------------------------------------------------------------
Events == {"ai.token", "ai.stream_end", "trade.closed", "analysis.completed",
           "market.ticker_updated", "replay.frame_advanced", "replay.completed"}

Message ==
  [event : Events, of : Questions \cup Analyses \cup Replays \cup {NONE}, n : Nat]

TypeOK ==
  /\ page \in Pages
  /\ link \in [Browsers -> {"closed", "open", "subscribed"}]
  /\ inbox \in [Browsers -> Seq(Message)]
  /\ task \in [Questions -> {"none", "posted", "streaming", "ending", "over"}]
  /\ sent \in [Questions -> 0 .. MaxTokens]
  /\ waiting \in [Questions -> {"nothing", "chat", "analysis"}]
  /\ bubble \in [Browsers -> Questions \cup {NONE}]
  /\ view \in [Questions -> {"none", "stream", "typing", "answered", "error"}]
  /\ analysis \in [Analyses -> {"none", "asked", "announced", "committed", "failed"}]
  /\ parsed \in [Analyses -> {NONE} \cup Parsed]
  /\ running \subseteq Analyses
  /\ list \in [Browsers -> (SUBSET Changes) \cup {ERROR}]
  /\ \A b \in Browsers : screen[b] # Blank => parsed[screen[b].id] # NONE
  /\ stored \in 0 .. MaxTicks
  /\ price \in [Browsers -> 0 .. MaxTicks]
  /\ \A b \in Browsers :
       /\ selected[b] \in Symbols /\ grid[b].of \in Symbols \cup {NONE}
       /\ Len(grid[b].trends) = (IF grid[b].of = NONE THEN 0 ELSE Cardinality(Timeframes))
       /\ Len(quotes[b]) \in {0, Cardinality(Symbols)}
       /\ \A r \in Lines : line[b][r].got # <<>> => line[b][r].want # NONE
  /\ player \in [Browsers -> Players]
  /\ gone \subseteq Browsers \X Slots /\ (gone # {} => strayed)
  /\ \A q \in Questions : text[q] # <<>> => view[q] = "stream"
  /\ \A b \in Browsers : bubble[b] # NONE => Asker[bubble[b]] = b /\ view[bubble[b]] = "stream"

(* While one question is asked at a time, whoever asks it, and nothing is  *)
(* lost, every bubble holds tokens of its own question only, and from its  *)
(* first token on the whole answer when the stream is over.  Whatever is   *)
(* asked and lost, no token of a question comes after a later one.         *)
OwnAnswer ==
  \A q \in Questions :
    LET heard == {text[q][i].n : i \in 1 .. Len(text[q])}
    IN  /\ \A i, j \in 1 .. Len(text[q]) :
             i <= j /\ text[q][i].of = text[q][j].of => text[q][i].n <= text[q][j].n
        /\ Patient /\ losses = 0 =>
             /\ \A i \in 1 .. Len(text[q]) : text[q][i].of = q
             /\ task[q] = "over" /\ text[q] # <<>> /\ inbox[Asker[q]] = <<>> =>
                  heard = text[q][1].n .. sent[q]

(* An analysis looks the same whether the answer to its request is shown   *)
(* or what the page reads again from the database, as often as it does:    *)
(* nothing of what the parser made of the AI's text is lost on the way     *)
(* into the row and back, nor added to it.                                 *)
ReloadKeeps ==
  \A b \in Browsers :
    LET s == screen[b] IN
      s # Blank =>
        /\ s.suggestion = parsed[s.id].suggestion
        /\ s.score = Shown(parsed[s.id].score)
        /\ s.trend = parsed[s.id].trend.direction
        /\ parsed[s.id].reasoning => s.reasoning = s.id
        /\ parsed[s.id].risks => s.risks = s.id

(* The pages that ask again and again do not trust the events, which come  *)
(* before the change can be read: whatever events are lost, requests fail  *)
(* and answers are overtaken, in the end the trades page shows the trades  *)
(* as they are, and the market page what Yahoo says, the last word of the  *)
(* bridge included.                                                        *)
PagesSettle ==
  <>[](\A b \in Audience[page] :
         /\ page = "trades" => list[b] = Committed
         /\ page = "market" =>
              /\ price[b] = 0 /\ quotes[b] # <<>>
              /\ \A i \in 1 .. Len(quotes[b]) : quotes[b][i] \in Quotes(yahoo, SymbolOrder[i]))

CanDeal(q, slack) ==
  /\ q.bid <= q.ask
  /\ q.bid - slack <= q.price /\ q.price <= q.ask + slack
  /\ Distance(q.ask - q.bid, q.spread) <= q.unit

(* As long as every post of the bridge is answered in time, no screen goes *)
(* back to an older tick, and what is announced is never ahead of what is  *)
(* stored.  Every quote is one at which one could deal: the price between  *)
(* bid and ask, and those the spread apart, but for the last decimal kept. *)
(* So is what the sidebar shows, where a tick has its price with fewer     *)
(* decimals than bid and ask: there it may be off by half of its last one. *)
PricesAreSound ==
  /\ prompt =>
       /\ announced <= stored
       /\ \A b \in Browsers : page = "market" =>
            \A i \in 1 .. Len(inbox[b]) :
              /\ price[b] <= inbox[b][i].n
              /\ \A j \in 1 .. i : inbox[b][j].n <= inbox[b][i].n
  /\ \A b \in Browsers :
       /\ \A i \in 1 .. Len(quotes[b]) : CanDeal(quotes[b][i], 0)
       /\ \A box \in Boxed(b) : CanDeal(box, box.slack)

(* Trends and levels are shown for the asset they were made for: the       *)
(* trends once the answer is there, if the user waits for one before he    *)
(* selects the next asset and none fails; the levels under a text in which *)
(* every asset has a section, that names no other, with a level in it.     *)
ShownIsOwn ==
  \A b \in Browsers :
    /\ prompt /\ silences = 0 /\ InFlight(b, Symbols) = {} /\ grid[b].of # NONE =>
         grid[b].of = selected[b]
    /\ LET written == report[b].text
           Sectioned(sym) ==
             \E i \in 1 .. Len(written) :
               /\ written[i].assets = {sym} /\ written[i].reach
               /\ \E k \in Kinds : ParseLevel(written[i][k]) # "none"
               /\ \A j \in 1 .. Len(written) : sym \in written[j].assets => j = i
       IN  (\A sym \in Covered : Sectioned(sym)) =>
             \A sym \in Covered, k \in Kinds :
               LET level == report[b].levels[sym][k] IN level # NoLevel => sym \in level.of

(* A page whose replay is the only one draws every frame once and in       *)
(* order, whatever is lost or repeated and whatever fails on the server,   *)
(* as long as no connection breaks off while the server has yet to         *)
(* announce the frame: then the viewer may be two frames ahead when it     *)
(* does.  None is left out unless an event is lost.  When all has come to  *)
(* rest and nothing has failed, the page shows the frame the server is at  *)
(* and lets the viewer go on exactly if the replay is not over; and it     *)
(* waits for no candle any more, the last frame's excepted.                *)
ReplayIsFollowed ==
  \A b \in Browsers :
    LET p == player[b] IN
      p.session # NONE /\ (\A s \in Replays : row[s] # NoReplay => s = p.session) =>
        /\ ~strayed => \A i \in 2 .. Len(p.candles) :
             /\ p.candles[i][2] > p.candles[i - 1][2]
             /\ losses = 0 => p.candles[i][2] = p.candles[i - 1][2] + 1
        /\ Careful /\ AtRest(b) /\ refusals = 0 =>
             /\ p.shown = row[p.session]
             /\ p.next = ~p.shown.over /\ p.finish = ~p.shown.over
             /\ p.area = "spinner" => p.shown.over

-----------------------------------------------------------------------------
(* What the code says and does not do.                                     *)

(* Without that condition the candles go back in time.                     *)
CandlesGoForward ==
  \A b \in Browsers : \A i \in 2 .. Len(player[b].candles) :
    player[b].candles[i][1] = player[b].candles[i - 1][1] =>
      player[b].candles[i][2] > player[b].candles[i - 1][2]

(* chat.py:25, "A final `ai.stream_end` event signals completion": the end *)
(* of another question's stream closes the bubble.                         *)
EndSignalsCompletion ==
  losses = 0 =>
    \A q \in Questions :
      /\ view[q] = "stream" /\ text[q] # <<>> /\ bubble[Asker[q]] = NONE
      => text[q][Len(text[q])].n = sent[q] /\ task[q] = "over"

(* chart_analysis.py:15 asks the AI for a section TENDENCIA: its trend is  *)
(* what an analysis shows.                                                 *)
TrendIsKept ==
  \A b \in Browsers :
    LET a == screen[b].id IN
      a # NONE /\ "TENDENCIA" \in DOMAIN answer[a].sections =>
        parsed[a].trend = ParseTrend(answer[a].sections["TENDENCIA"])

(* chart_analysis.py:28, "[OPERAR / AGUARDAR / ...]" and below it the      *)
(* reason: a reason that mentions OPERAR turns "wait" into "go".           *)
WaitIsNeverGo ==
  \A b \in Browsers :
    LET a == screen[b].id IN
      a # NONE /\ answer[a].choice = "AGUARDAR" => parsed[a].suggestion # "OPERAR"

(* domain/analysis/value_objects.py:10, a score lies between 0 and 100:    *)
(* the pages multiply it by 100 once more.                                 *)
ShownScoreIsPercent ==
  \A b \in Browsers : screen[b].score <= 100

(* app.js:1078, "3s fallback: WS never fired": at the last frame, and when *)
(* the request fails, no timer is started and the page waits for ever.     *)
SpinnerEnds ==
  \A b \in Browsers : AtRest(b) => player[b].area # "spinner"

(* README.md:67, a viewer steps through the frames of the replay: a candle *)
(* of another one, for which the page no longer stands, is drawn as well.  *)
ChartIsOwn ==
  \A b \in Browsers :
    \A i \in 1 .. Len(player[b].candles) : player[b].candles[i][1] = player[b].session

(* generate_briefing.py:85, "extract support/resistance per asset": without*)
(* a section of an asset the whole text is searched.                       *)
LevelsAreOwn ==
  \A b \in Browsers, sym \in Covered, k \in Kinds :
    LET level == report[b].levels[sym][k] IN level # NoLevel => sym \in level.of

(* app.js:579, the trends of the asset that has just been selected: with   *)
(* two answers on their way, or one that fails, they are another's.        *)
GridIsSelected ==
  \A b \in Browsers :
    InFlight(b, Symbols) = {} /\ grid[b].of # NONE => grid[b].of = selected[b]

(* app.js:345, the reasons of the analysis that is shown: one without any  *)
(* leaves those of the last on the screen.                                 *)
ScreenIsOneAnalysis ==
  \A b \in Browsers :
    screen[b].reasoning \in {NONE, screen[b].id} /\ screen[b].risks \in {NONE, screen[b].id}
=============================================================================
