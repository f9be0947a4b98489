--------------------------- MODULE DashboardProofs ---------------------------
(***************************************************************************)
(* Safety of the dashboard's pages, for any number of browsers, questions, *)
(* analyses, ticks and replays, whatever is lost on the way.               *)
(***************************************************************************)
EXTENDS Dashboard, FiniteSetTheorems, SequenceTheorems, TLAPS

-----------------------------------------------------------------------------
(* The inductive invariant: the types, and what each page relies on.       *)

SocketTyped ==
  /\ page \in Pages
  /\ link \in [Browsers -> {"closed", "open", "subscribed"}]
  /\ inbox \in [Browsers -> Seq(Message)]
  /\ losses \in Nat

-----------------------------------------------------------------------------
(* Chat.                                                                   *)

ChatTyped ==
  /\ task \in [Questions -> {"none", "posted", "streaming", "ending", "over"}]
  /\ sent \in [Questions -> 0 .. MaxTokens]
  /\ waiting \in [Questions -> {"nothing", "chat", "analysis"}]
  /\ bubble \in [Browsers -> Questions \cup {NONE}]
  /\ view \in [Questions -> {"none", "stream", "typing", "answered", "error"}]
  /\ text \in [Questions -> Seq(Message)]

\* A bubble stands below a question of its browser, and only there are tokens.
Bubbles ==
  /\ \A q \in Questions :
       /\ text[q] # <<>> => view[q] = "stream" /\ page = "chat"
       /\ waiting[q] = "analysis" => view[q] = "typing"
       /\ view[q] = "none" => task[q] = "none"
       /\ task[q] \in {"none", "posted"} => sent[q] = 0
  /\ \A b \in Browsers : bubble[b] # NONE => Asker[bubble[b]] = b /\ view[bubble[b]] = "stream"

IsToken(e) == e.event = "ai.token"

\* A message of the chat: tokens are counted from 1, and told is how many there are.
OfChat(e, told) ==
  /\ e.of \in Questions
  /\ e.event \in {"ai.token", "ai.stream_end"}
  /\ IsToken(e) => 0 < e.n /\ e.n <= told[e.of]

\* Of the same question e is not after f.
NotAfter(e, f) == IsToken(e) /\ IsToken(f) /\ e.of = f.of => e.n <= f.n

\* The tokens of a question come in order,
Coming ==
  \A b \in Browsers : \A i \in 1 .. Len(inbox[b]) :
    /\ OfChat(inbox[b][i], sent)
    /\ \A j \in i .. Len(inbox[b]) : NotAfter(inbox[b][i], inbox[b][j])

\* are written in order,
Written ==
  \A q \in Questions : \A i \in 1 .. Len(text[q]) :
    /\ OfChat(text[q][i], sent) /\ IsToken(text[q][i])
    /\ \A j \in i .. Len(text[q]) : NotAfter(text[q][i], text[q][j])

\* and those in a bubble came before those on their way to it.
Before ==
  \A b \in Browsers : bubble[b] # NONE =>
    \A i \in 1 .. Len(text[bubble[b]]), j \in 1 .. Len(inbox[b]) :
      NotAfter(text[bubble[b]][i], inbox[b][j])

Streams == page = "chat" => Coming /\ Written /\ Before

\* Something of q is still going on.
Live(q) ==
  \/ task[q] \notin {"none", "over"} \/ waiting[q] # "nothing"
  \/ \E b \in Browsers : \E i \in 1 .. Len(inbox[b]) : inbox[b][i].of = q

Numbers(s) == {s[i].n : i \in 1 .. Len(s)}

TokensOnTheWay(b) ==
  {inbox[b][i].n : i \in {j \in 1 .. Len(inbox[b]) : IsToken(inbox[b][j])}}

OneLives == \A q, r \in Questions : Live(q) /\ Live(r) => q = r

EndsComeLast ==
  \A b \in Browsers : \A i \in 1 .. Len(inbox[b]) :
    inbox[b][i].event = "ai.stream_end" =>
      /\ task[inbox[b][i].of] = "over"
      /\ \A j \in i .. Len(inbox[b]) : inbox[b][j].event = "ai.stream_end"

\* An open bubble will hear the end.
WillEnd(b) ==
  /\ link[b] = "subscribed"
  /\ \/ task[bubble[b]] \in {"posted", "streaming", "ending"}
     \/ \E i \in 1 .. Len(inbox[b]) :
          inbox[b][i].event = "ai.stream_end" /\ inbox[b][i].of = bubble[b]

\* No token is missing.
Whole(q) ==
  /\ \A i \in 1 .. Len(text[q]) : text[q][i].of = q
  /\ view[q] = "stream" =>
       IF bubble[Asker[q]] = q
       THEN Numbers(text[q]) \cup TokensOnTheWay(Asker[q]) = 1 .. sent[q]
       ELSE Numbers(text[q]) = 1 .. sent[q] /\ task[q] = "over"

\* Where users are patient and nothing is lost, one question is live at a time.
Undisturbed == page = "chat" /\ Patient /\ losses = 0

Alone ==
  Undisturbed =>
    /\ OneLives /\ EndsComeLast
    /\ \A b \in Browsers : bubble[b] # NONE => WillEnd(b)
    /\ \A q \in Questions : Whole(q)

ChatInv == ChatTyped /\ Bubbles /\ Streams /\ Alone

-----------------------------------------------------------------------------
(* Trades and analyses.                                                    *)

Fetches ==
  [step : {"free", "asked", "answered", "failed"},
   want : Analyses \cup {"trades", NONE}, got : SUBSET Changes]

PagesTyped ==
  /\ answer \in Answers
  /\ analysis \in [Analyses -> {"none", "asked", "announced", "committed", "failed"}]
  /\ parsed \in [Analyses -> {NONE} \cup Parsed]
  /\ running \subseteq Analyses
  /\ fetch \in [Browsers -> [Requests -> Fetches]]
  /\ list \in [Browsers -> (SUBSET Changes) \cup {ERROR}]
  /\ screen = [b \in Browsers |-> screen[b]]

\* What is announced has been parsed.
Parsing == \A a \in Analyses : analysis[a] \in {"announced", "committed"} => parsed[a] \in Parsed

\* A request is for something, and an answer is read from what is committed.
FetchIsRight(f) ==
  /\ f.step # "free" => f.want # NONE
  /\ f.step = "answered" /\ f.want # "trades" => analysis[f.want] = "committed"

Fetching == \A b \in Browsers, r \in Requests : FetchIsRight(fetch[b][r])

\* An event of an analysis is about one.
OfPages(e) == e.event = "analysis.completed" => e.of \in Analyses

Noticing ==
  page \in {"trades", "analysis"} =>
    \A b \in Browsers : \A i \in 1 .. Len(inbox[b]) : OfPages(inbox[b][i])

\* s shows what the parser made of its analysis.
Renders(s) ==
  /\ s.id \in Analyses /\ analysis[s.id] \notin {"none", "asked"} /\ parsed[s.id] \in Parsed
  /\ s.suggestion = parsed[s.id].suggestion
  /\ s.score = Shown(parsed[s.id].score)
  /\ s.trend = parsed[s.id].trend.direction
  /\ parsed[s.id].reasoning => s.reasoning = s.id
  /\ parsed[s.id].risks => s.risks = s.id

Rendering == \A b \in Browsers : screen[b] = Blank \/ Renders(screen[b])

PagesInv == PagesTyped /\ Parsing /\ Fetching /\ Noticing /\ Rendering

-----------------------------------------------------------------------------
(* Prices, trends and briefings.                                           *)

IsSound(q) ==
  /\ q.bid <= q.price /\ q.price <= q.ask
  /\ Distance(q.ask - q.bid, q.spread) <= q.unit

SoundQuotes ==
  {q \in [price : Int, bid : Int, ask : Int, spread : Int, unit : Int] : IsSound(q)}

Directions == {"BULL", "BEAR", "LATE"}

FeedTyped ==
  /\ prompt \in BOOLEAN
  /\ tick \in 0 .. MaxTicks
  /\ ingest \in [Ticks -> {"none", "posted", "stored", "over"}]
  /\ stored \in 0 .. MaxTicks
  /\ announced \in 0 .. MaxTicks
  /\ price \in [Browsers -> 0 .. MaxTicks]

\* Where posts are prompt the ticks come one by one: only the last is on its way, and
\* what is stored is stored by it or by one before.
Ticking ==
  /\ \A n \in Ticks : ingest[n] # "none" => n <= tick
  /\ page = "market" => \A b \in Browsers : \A i \in 1 .. Len(inbox[b]) :
       inbox[b][i].n <= MaxTicks
  /\ prompt =>
       /\ \A n \in Ticks : n < tick => ingest[n] = "over"
       /\ \A n \in Ticks : ingest[n] = "stored" => stored = n
       /\ announced <= stored /\ stored <= tick
       /\ page = "market" => \A b \in Browsers :
            /\ price[b] <= announced
            /\ \A i \in 1 .. Len(inbox[b]) :
                 /\ price[b] <= inbox[b][i].n /\ inbox[b][i].n <= announced
                 /\ \A j \in 1 .. i : inbox[b][j].n <= inbox[b][i].n

\* What a request has read so far.
Got(want, got) ==
  /\ want = NONE => got = <<>>
  /\ want = QUOTES => got \in Seq(SoundQuotes) /\ Len(got) <= Len(SymbolOrder)
  /\ want \in Symbols => got \in Seq(Directions) /\ Len(got) <= Len(TimeframeOrder)
  /\ want = BRIEFING => got = <<>> \/ \E written \in Texts : got = <<written>>

\* A request of a page.
LineTyped(l) ==
  /\ l = [want |-> l.want, got |-> l.got]
  /\ l.want \in Symbols \cup {NONE, QUOTES, BRIEFING}
  /\ Got(l.want, l.got)

DeskTyped ==
  /\ yahoo \in Feeds \cup {DOWN}
  /\ silences \in Nat
  /\ selected \in [Browsers -> Symbols]
  /\ quotes \in [Browsers -> Seq(SoundQuotes)]
  /\ grid \in [Browsers -> [of : Symbols \cup {NONE}, trends : Seq(Directions)]]
  /\ line = [b \in Browsers |-> [r \in Lines |-> line[b][r]]]
  /\ \A b \in Browsers :
       /\ Len(quotes[b]) \in {0, Cardinality(Symbols)}
       /\ Len(grid[b].trends) = (IF grid[b].of = NONE THEN 0 ELSE Cardinality(Timeframes))
       /\ \A r \in Lines : LineTyped(line[b][r])

\* A user who waits has one request for trends open, for the asset he selected.
Selecting ==
  prompt /\ silences = 0 =>
    \A b \in Browsers :
      /\ \A r \in InFlight(b, Symbols) :
           line[b][r].want = selected[b] /\ InFlight(b, Symbols) = {r}
      /\ InFlight(b, Symbols) = {} => grid[b].of \in {NONE, selected[b]}

\* The levels are those of the text, with or without a quote at hand.
Reporting ==
  /\ report = [b \in Browsers |->
                 [text |-> report[b].text, levels |-> report[b].levels]]
  /\ \A b \in Browsers :
       \/ report[b].text = <<>>
       \/ report[b].text \in Texts /\ \E quoted \in BOOLEAN :
            report[b].levels =
              [sym \in Covered |-> ShownLevels(report[b].text, sym, quoted)]

MarketInv == FeedTyped /\ Ticking /\ DeskTyped /\ Selecting /\ Reporting

-----------------------------------------------------------------------------
(* Replays.                                                                *)

Points == [frame : Int, over : BOOLEAN]

Puts ==
  [step : {"none", "sent", "loaded", "framed", "announced", "committed", "failed"},
   op : {"next", "finish"}, of : Replays \cup {NONE}, goal : Points]

\* What a page has given up has strayed, unless it had been announced, and that is a
\* failure.
Straying ==
  /\ gone \subseteq Browsers \X Slots /\ strayed \in BOOLEAN
  /\ gone # {} => strayed
  /\ strayed => refusals # 0

ReplayTyped ==
  /\ Straying
  /\ row \in [Replays -> Points]
  /\ put \in [Browsers -> [Slots -> Puts]]
  /\ late \subseteq [of : Replays, goal : Points]
  /\ refusals \in Nat
  /\ player \in [Browsers -> Players]

IsFrameOf(n, s) == n \in 0 .. Frames[s] - 1

\* A request is for a session, and once it is loaded it has a frame to go to.
PutIsRight(q) ==
  IF q.step = "none" THEN q = NoPut
  ELSE q.of \in Replays /\ (q.step \notin {"sent", "failed"} => IsFrameOf(q.goal.frame, q.of))

Asking == \A b \in Browsers, i \in Slots : PutIsRight(put[b][i])

Standing ==
  /\ \A s \in Replays : row[s] = NoReplay \/ IsFrameOf(row[s].frame, s)
  /\ \A l \in late : row[l.of] # NoReplay /\ IsFrameOf(l.goal.frame, l.of)

Used(b, i) == put[b][i].step # "none"

Knows(b, s) ==
  \/ player[b].session = s
  \/ \E i \in Slots : Used(b, i) /\ put[b][i].of = s

\* A session is known to one page only, if to any, and is there.
Knowing ==
  /\ \A b \in Browsers, s \in Replays : Knows(b, s) => row[s] # NoReplay
  /\ \A b, c \in Browsers, s \in Replays : Knows(b, s) /\ Knows(c, s) => b = c

\* A page without a session has asked for nothing and waits for nothing.
Unopened ==
  \A b \in Browsers : player[b].session = NONE =>
    /\ ~player[b].next /\ ~player[b].finish /\ ~player[b].awaiting
    /\ player[b].timers = 0 /\ player[b].area # "spinner"
    /\ \A i \in Slots : ~Used(b, i)

OfReplay(e) ==
  /\ e.event \in {"replay.frame_advanced", "replay.completed"}
  /\ e.of \in Replays /\ row[e.of] # NoReplay

Telling ==
  page = "replay" => \A b \in Browsers : \A i \in 1 .. Len(inbox[b]) : OfReplay(inbox[b][i])

\* The page's session is the only one, and none of its requests has strayed.
Only(b) ==
  /\ page = "replay" /\ player[b].session # NONE /\ ~strayed
  /\ \A s \in Replays : row[s] # NoReplay => s = player[b].session

\* The frames up to m have been announced: the session stands there or one before.
StandsAt(b, m) ==
  LET at == row[player[b].session] IN at.over \/ (at.frame <= m /\ m <= at.frame + 1)

LateAt(m) ==
  /\ \A l \in late : l.goal.over \/ l.goal.frame = m
  /\ \A k, l \in late : k = l

Locking(b, i) == put[b][i].step \in {"framed", "announced"}

\* Of the page's requests one is for a frame, m or the next, and one has the lock.
AsksAt(b, i, m) ==
  LET q == put[b][i]
      at == row[player[b].session]
  IN  /\ q.op = "finish" => /\ q.step # "framed"
                            /\ q.step \in {"loaded", "announced", "committed"} => q.goal.over
      /\ q.op = "next" /\ Used(b, i) =>
           /\ ~player[b].next
           /\ \A j \in Slots : put[b][j].op = "next" /\ Used(b, j) => j = i
      /\ q.op = "next" /\ q.step = "loaded" =>
           \/ q.goal.frame = m
           \/ q.goal.frame = m + 1 /\ (at.over \/ at.frame = m)
      /\ q.op = "next" /\ Locking(b, i) => q.goal.frame = m
      /\ Locking(b, i) => late = {} /\ \A j \in Slots : Locking(b, j) => j = i

Announced(b, m) == StandsAt(b, m) /\ LateAt(m) /\ \A i \in Slots : AsksAt(b, i, m)

IsFrame(e) == e.event = "replay.frame_advanced"

FramesOnTheWay(b) == {i \in 1 .. Len(inbox[b]) : IsFrame(inbox[b][i])}

LastDrawn(b) == player[b].candles[Len(player[b].candles)][2]

\* The candles are those of the session in order, then come those on their way.
Drawn(b, m) ==
  LET p == player[b] IN
    /\ \A i \in 1 .. Len(p.candles) :
         /\ p.candles[i][1] = p.session /\ p.candles[i][2] <= LastDrawn(b)
         /\ i # 1 => p.candles[i][2] > p.candles[i - 1][2]
    /\ p.candles # <<>> => LastDrawn(b) <= m
    /\ \A i \in FramesOnTheWay(b) :
         /\ inbox[b][i].n <= m
         /\ p.candles # <<>> => LastDrawn(b) <= inbox[b][i].n
         /\ \A j \in FramesOnTheWay(b) : i < j => inbox[b][i].n <= inbox[b][j].n

Comes(b, n) == \E j \in FramesOnTheWay(b) : inbox[b][j].n = n

\* Unless something was lost, none between them is missing.
Gapless(b, m) ==
  LET p == player[b] IN
    losses = 0 =>
      /\ p.candles # <<>> \/ FramesOnTheWay(b) # {} => link[b] = "subscribed"
      /\ \A i \in 2 .. Len(p.candles) : p.candles[i][2] = p.candles[i - 1][2] + 1
      /\ p.candles # <<>> => \A n \in LastDrawn(b) + 1 .. m : Comes(b, n)
      /\ \A i \in FramesOnTheWay(b) : \A n \in inbox[b][i].n .. m : Comes(b, n)

Follows(b) ==
  \E m \in 0 .. Frames[player[b].session] - 1 : Announced(b, m) /\ Drawn(b, m) /\ Gapless(b, m)

Following == \A b \in Browsers : Only(b) => Follows(b)

Completing(b) == \E i \in 1 .. Len(inbox[b]) : inbox[b][i].event = "replay.completed"

\* What is known of the request a page has open, where there is only one at a time.
OneOpen(b) ==
  \A i \in Slots : Used(b, i) =>
    LET q == put[b][i]
        p == player[b]
    IN  /\ \A j \in Slots : Used(b, j) => j = i
        /\ q.step # "failed" /\ ~p.shown.over
        /\ q.op = "finish" \/ q.step \in {"framed", "committed"} => late = {}
        /\ q.step = "framed" => q.goal.over
        /\ IF q.step = "committed" THEN q.goal = row[p.session]
           ELSE late = {} => p.shown = row[p.session]

\* The page shows where the session will be when all of it is committed.
ShowsAhead(b) ==
  LET p == player[b]
      at == row[p.session]
  IN  /\ \A l \in late : p.shown = l.goal /\ ~at.over
      /\ late = {} /\ (\A i \in Slots : ~Used(b, i)) => p.shown = at

\* Its buttons are as the session is, unless the session's end has been announced
\* and not been answered.
Ending(b) ==
  \E i \in Slots : put[b][i].step \in {"announced", "committed"} /\ put[b][i].goal.over

ButtonsAre(b) ==
  LET p == player[b] IN
    ~Ending(b) =>
      /\ p.finish <=> ~p.shown.over
      /\ p.shown.over \/ ~Completing(b)
      /\ p.next <=> (~p.shown.over /\ \A i \in Slots : Used(b, i) => put[b][i].op # "next")

\* It waits for a candle no longer than the request and the timer last.
WaitEnds(b) ==
  LET p == player[b] IN
    /\ p.area = "spinner" => p.awaiting \/ p.shown.over
    /\ p.awaiting => \/ \E i \in Slots : Used(b, i) /\ put[b][i].op = "next"
                     \/ p.timers > 0 \/ p.shown.over

Cares(b) == OneOpen(b) /\ ShowsAhead(b) /\ ButtonsAre(b) /\ WaitEnds(b)

Caring == \A b \in Browsers : Only(b) /\ Careful /\ refusals = 0 => Cares(b)

ReplayInv ==
  /\ ReplayTyped /\ Asking /\ Standing /\ Knowing /\ Unopened /\ Telling
  /\ Following /\ Caring

\* Sessions are there on the replay page only.
Unvisited == page # "replay" => \A b \in Browsers : player[b].session = NONE

IInv == SocketTyped /\ ChatInv /\ PagesInv /\ MarketInv /\ ReplayInv /\ Unvisited
-----------------------------------------------------------------------------
(* The socket.                                                             *)

LEMMA EventIs ==
  ASSUME NEW name \in Events, NEW of \in Questions \cup Analyses \cup Replays \cup {NONE},
         NEW n \in Nat
  PROVE  /\ Event(name, of, n) \in Message
         /\ Event(name, of, n).event = name
         /\ Event(name, of, n).of = of
         /\ Event(name, of, n).n = n
  BY DEF Event, Message

\* The messages on their way to b are those that were, and copies of e after them.
Longer(b, e) ==
  /\ Len(inbox[b]) <= Len(inbox'[b])
  /\ \A i \in 1 .. Len(inbox[b]) : inbox'[b][i] = inbox[b][i]
  /\ \A i \in Len(inbox[b]) + 1 .. Len(inbox'[b]) : inbox'[b][i] = e
  /\ losses' = losses /\ link[b] = "subscribed" => Len(inbox[b]) < Len(inbox'[b])
  /\ link[b] # "subscribed" => inbox'[b] = inbox[b]

\* They are the last of those that were.
Shorter(b) ==
  \E k \in 0 .. Len(inbox[b]) :
    /\ Len(inbox'[b]) = Len(inbox[b]) - k
    /\ \A i \in 1 .. Len(inbox'[b]) : inbox'[b][i] = inbox[b][i + k]

LEMMA InboxIs ==
  ASSUME SocketTyped, NEW b \in Browsers
  PROVE  /\ inbox[b] \in Seq(Message) /\ Len(inbox[b]) \in Nat
         /\ \A i \in 1 .. Len(inbox[b]) : inbox[b][i] \in Message /\ inbox[b][i].n \in Nat
         /\ inbox[b] = <<>> <=> Len(inbox[b]) = 0
  <1>1. inbox[b] \in Seq(Message)
    BY DEF SocketTyped
  <1>2. Len(inbox[b]) \in Nat /\ \A i \in 1 .. Len(inbox[b]) : inbox[b][i] \in Message
    BY <1>1, LenProperties, ElementOfSeq
  <1>3. \A m \in Message : m.n \in Nat
    BY DEF Message
  <1>4. inbox[b] = <<>> <=> Len(inbox[b]) = 0
    BY <1>1, EmptySeq
  <1> QED BY <1>1, <1>2, <1>3, <1>4

LEMMA AnnounceIs ==
  ASSUME SocketTyped, NEW e \in Message, Announce(e)
  PROVE  /\ SocketTyped' /\ page' = page /\ link' = link /\ losses <= losses'
         /\ \A b \in Browsers : Longer(b, e)
  <1>1. CASE Drop
    <2>1. SocketTyped' /\ page' = page /\ link' = link /\ losses <= losses' /\ losses' # losses
          /\ inbox' = inbox
      BY <1>1 DEF Drop, SocketTyped
    <2>2. ASSUME NEW b \in Browsers PROVE Longer(b, e)
      <3>1. Len(inbox[b]) \in Nat
        BY InboxIs
      <3> QED BY <2>1, <3>1 DEF Longer
    <2> QED BY <2>1, <2>2
  <1>2. CASE Deliver(e)
    <2>1. PICK copies \in Copies[page] :
            inbox' = [b \in Browsers |->
              IF b \in Listening THEN inbox[b] \o [i \in 1 .. copies |-> e] ELSE inbox[b]]
      BY <1>2 DEF Deliver
    <2>2. copies \in Nat \ {0}
      BY <2>1, SocketAssumption DEF SocketTyped
    <2>3. page' = page /\ link' = link /\ losses' = losses
      BY <1>2 DEF Deliver
    <2> DEFINE new == [i \in 1 .. copies |-> e]
    <2>4. new \in Seq(Message) /\ Len(new) = copies /\ \A i \in 1 .. copies : new[i] = e
      <3>1. new \in Seq(Message)
        BY <2>2, SeqDef
      <3> QED BY <2>2, <3>1, LenProperties
    <2> HIDE DEF new
    <2>5. ASSUME NEW b \in Browsers PROVE inbox'[b] \in Seq(Message) /\ Longer(b, e)
      <3>1. inbox[b] \in Seq(Message) /\ Len(inbox[b]) \in Nat
        BY InboxIs
      <3>2. CASE b \in Listening
        <4>1. inbox'[b] = inbox[b] \o new
          BY <2>1, <3>2 DEF new
        <4> DEFINE whole == inbox[b] \o new
        <4>0. /\ whole \in Seq(Message)
              /\ Len(whole) = Len(inbox[b]) + Len(new)
              /\ \A i \in 1 .. Len(inbox[b]) + Len(new) : whole[i] =
                   IF i <= Len(inbox[b]) THEN inbox[b][i] ELSE new[i - Len(inbox[b])]
          BY <2>4, <3>1, ConcatProperties
        <4> HIDE DEF whole
        <4>2. /\ inbox'[b] \in Seq(Message)
              /\ Len(inbox'[b]) = Len(inbox[b]) + copies
              /\ \A i \in 1 .. Len(inbox[b]) + copies : inbox'[b][i] =
                   IF i <= Len(inbox[b]) THEN inbox[b][i] ELSE new[i - Len(inbox[b])]
          BY <2>4, <4>0, <4>1 DEF whole
        <4>3. ASSUME NEW i \in Len(inbox[b]) + 1 .. Len(inbox'[b]) PROVE inbox'[b][i] = e
          <5>1. i - Len(inbox[b]) \in 1 .. copies /\ ~ (i <= Len(inbox[b]))
                /\ i \in 1 .. Len(inbox[b]) + copies
            BY <2>2, <3>1, <4>2
          <5> QED BY <2>4, <4>2, <5>1
        <4>4. link[b] = "subscribed"
          BY <3>2 DEF Listening
        <4> QED BY <2>2, <2>3, <3>1, <4>2, <4>3, <4>4 DEF Longer
      <3>3. CASE b \notin Listening
        <4>1. inbox'[b] = inbox[b] /\ link[b] # "subscribed"
          BY <2>1, <3>3 DEF Listening
        <4> QED BY <3>1, <4>1 DEF Longer
      <3> QED BY <3>2, <3>3
    <2>6. inbox' \in [Browsers -> Seq(Message)]
      BY <2>1, <2>5
    <2> QED BY <2>3, <2>5, <2>6 DEF SocketTyped
  <1> QED BY <1>1, <1>2 DEF Announce

LEMMA TakeIs ==
  ASSUME SocketTyped, NEW b \in Browsers, Take(b)
  PROVE  /\ SocketTyped' /\ page' = page /\ link' = link /\ losses' = losses
         /\ \A c \in Browsers \ {b} : inbox'[c] = inbox[c]
         /\ Len(inbox[b]) \in Nat /\ Len(inbox[b]) # 0 /\ Len(inbox'[b]) = Len(inbox[b]) - 1
         /\ Head(inbox[b]) = inbox[b][1]
         /\ \A i \in 1 .. Len(inbox'[b]) : inbox'[b][i] = inbox[b][i + 1]
  <1>1. inbox[b] \in Seq(Message) /\ inbox[b] # <<>> /\ Len(inbox[b]) \in Nat /\ Len(inbox[b]) # 0
    BY InboxIs DEF Take
  <1>2. /\ Tail(inbox[b]) \in Seq(Message) /\ Len(Tail(inbox[b])) = Len(inbox[b]) - 1
        /\ \A i \in 1 .. Len(Tail(inbox[b])) : Tail(inbox[b])[i] = inbox[b][i + 1]
    BY <1>1, HeadTailProperties
  <1>3. inbox' = [inbox EXCEPT ![b] = Tail(inbox[b])] /\ inbox \in [Browsers -> Seq(Message)]
    BY DEF Take, SocketTyped
  <1>4. inbox' \in [Browsers -> Seq(Message)] /\ inbox'[b] = Tail(inbox[b])
        /\ \A c \in Browsers \ {b} : inbox'[c] = inbox[c]
    BY <1>2, <1>3
  <1>5. Head(inbox[b]) = inbox[b][1]
    BY <1>1
  <1> QED BY <1>1, <1>2, <1>4, <1>5 DEF Take, SocketTyped

\* The socket's own steps leave messages alone or, where something is lost, drop them.
LEMMA LinkIs ==
  ASSUME SocketTyped, NEW b \in Browsers, Open(b) \/ Subscribe(b) \/ Lose(b)
  PROVE  /\ SocketTyped' /\ page' = page
         /\ \/ /\ losses' = losses /\ inbox' = inbox
               /\ \A c \in Browsers : link[c] = "subscribed" => link'[c] = "subscribed"
            \/ /\ losses' = losses + 1 /\ link'[b] = "closed"
               /\ inbox'[b] = <<>> /\ Len(inbox'[b]) = 0
               /\ \A c \in Browsers \ {b} : inbox'[c] = inbox[c]
  <1>1. CASE Open(b) \/ Subscribe(b)
    BY <1>1 DEF Open, Subscribe, SocketTyped
  <1>2. CASE Lose(b)
    <2>1. <<>> \in Seq(Message) /\ Len(<<>>) = 0
      BY EmptySeq
    <2> QED BY <1>2, <2>1 DEF Lose, SocketTyped
  <1> QED BY <1>1, <1>2

LEMMA LinkShortens ==
  ASSUME SocketTyped, NEW b \in Browsers, Open(b) \/ Subscribe(b) \/ Lose(b)
  PROVE  \A c \in Browsers : inbox'[c] = inbox[c] \/ Len(inbox'[c]) = 0
  BY LinkIs

LEMMA TakeKeeps ==
  ASSUME SocketTyped, NEW b \in Browsers, Take(b), NEW c \in Browsers,
         NEW i \in 1 .. Len(inbox'[c])
  PROVE  \E j \in 1 .. Len(inbox[c]) :
           /\ inbox'[c][i] = inbox[c][j] /\ i <= j
           /\ c = b => j = i + 1
           /\ c # b => j = i
  <1>1. Len(inbox[b]) \in Nat /\ Len(inbox[c]) \in Nat
    BY InboxIs
  <1> QED BY <1>1, TakeIs, SMTT(30)

-----------------------------------------------------------------------------
(* Quotes.                                                                 *)

LEMMA RoundedIs ==
  ASSUME NEW n \in Int, NEW d \in Nat \ {0}, NEW q \in Rounded(n, d)
  PROVE  /\ q \in Int
         /\ 2 * (q * d) - 2 * n <= d /\ 2 * n - 2 * (q * d) <= d
  <1>1. n \div d \in Int
    OBVIOUS
  <1>2. q \in {n \div d, n \div d + 1} /\ 2 * Distance(n, q * d) <= d
    BY DEF Rounded
  <1>3. q \in Int
    <2> DEFINE m == n \div d
    <2>1. m \in Int /\ q \in {m, m + 1}
      BY <1>1, <1>2
    <2> HIDE DEF m
    <2> QED BY <2>1
  <1> DEFINE at == q * d
  <1>4. at \in Int
    BY <1>3
  <1>5. 2 * Distance(n, at) <= d
    BY <1>2
  <1> HIDE DEF at
  <1>6. 2 * at - 2 * n <= d /\ 2 * n - 2 * at <= d
    BY <1>4, <1>5 DEF Distance
  <1> QED BY <1>3, <1>6 DEF at

LEMMA AroundIsSound ==
  ASSUME NEW unit \in {10, 10000}, NEW at \in Int, NEW spread \in Nat,
         spread > 0 \/ at % unit = 0,
         NEW q \in Around(at, spread, unit)
  PROVE  q \in SoundQuotes
  <1>1. PICK last \in Rounded(at, unit), bid \in Rounded(2 * at - spread, 2 * unit),
             ask \in Rounded(2 * at + spread, 2 * unit) :
          q = [price |-> last * unit, bid |-> bid * unit, ask |-> ask * unit,
               spread |-> spread, unit |-> unit]
    BY DEF Around
  <1>2. 2 * at - spread \in Int /\ 2 * at + spread \in Int /\ 2 * unit \in {20, 20000}
    OBVIOUS
  <1>3. /\ last \in Int
        /\ 2 * (last * unit) - 2 * at <= unit /\ 2 * at - 2 * (last * unit) <= unit
    BY RoundedIs
  <1>4. /\ bid \in Int
        /\ 2 * (bid * (2 * unit)) - 2 * (2 * at - spread) <= 2 * unit
        /\ 2 * (2 * at - spread) - 2 * (bid * (2 * unit)) <= 2 * unit
    BY <1>2, RoundedIs
  <1>5. /\ ask \in Int
        /\ 2 * (ask * (2 * unit)) - 2 * (2 * at + spread) <= 2 * unit
        /\ 2 * (2 * at + spread) - 2 * (ask * (2 * unit)) <= 2 * unit
    BY <1>2, RoundedIs
  <1>6. bid <= last /\ last <= ask
    <2>1. CASE unit = 10
      BY <1>3, <1>4, <1>5, <2>1
    <2>2. CASE unit = 10000
      BY <1>3, <1>4, <1>5, <2>2
    <2> QED BY <2>1, <2>2
  <1>7. /\ bid * unit \in Int /\ last * unit \in Int /\ ask * unit \in Int
        /\ bid * unit <= last * unit /\ last * unit <= ask * unit
        /\ Distance(ask * unit - bid * unit, spread) <= unit
    <2>1. CASE unit = 10
      BY <1>3, <1>4, <1>5, <1>6, <2>1 DEF Distance
    <2>2. CASE unit = 10000
      BY <1>3, <1>4, <1>5, <1>6, <2>2 DEF Distance
    <2> QED BY <2>1, <2>2
  <1> QED BY <1>1, <1>3, <1>4, <1>5, <1>7 DEF IsSound, SoundQuotes

LEMMA QuotesAreSound ==
  ASSUME NEW sym \in Symbols, NEW feed \in Feeds \cup {DOWN}, NEW q \in Quotes(feed, sym)
  PROVE  q \in SoundQuotes
  <1>1. ASSUME NEW bar, bar.close \in Int, bar.close >= 50000, q \in YahooQuotes(bar)
        PROVE  q \in SoundQuotes
    <2>1. PICK s \in Rounded(bar.close, 50000) : q \in Around(bar.close, 10 * s, 10)
      BY <1>1 DEF YahooQuotes
    <2>2. s \in Int /\ s > 0
      BY <1>1, RoundedIs
    <2>3. 10 * s \in Nat /\ 10 * s > 0
      BY <2>2
    <2> QED BY <1>1, <2>1, <2>3, AroundIsSound
  <1>2. CASE q \in MockQuotes(sym)
    <2>1. Base[sym] \in Nat /\ Drifts \subseteq Int
      BY AdaptersAssumption
    <2>2. PICK s \in Rounded(Base[sym], 500000), close \in MockCloses(sym) :
            q \in Around(close, 100 * s, 10000)
      BY <1>2 DEF MockQuotes
    <2>3. s \in Int /\ s >= 0
      BY <2>1, RoundedIs
    <2>4. PICK open \in Rounded(Base[sym], 10000), drift \in Drifts :
            \E last \in Rounded(open * (1000 + drift), 1000) : close = 10000 * last
      BY <2>2 DEF MockCloses
    <2>5. open \in Int
      BY <2>1, RoundedIs
    <2>6. open * (1000 + drift) \in Int
      BY <2>1, <2>5
    <2> DEFINE walked == open * (1000 + drift)
    <2>7. PICK last \in Rounded(walked, 1000) : close = 10000 * last
      BY <2>4
    <2>9. last \in Int
      <3>1. walked \in Int
        BY <2>6
      <3> HIDE DEF walked
      <3> QED BY <2>7, <3>1, RoundedIs
    <2>8. close \in Int /\ close % 10000 = 0 /\ 100 * s \in Nat
      BY <2>3, <2>7, <2>9
    <2> QED BY <2>2, <2>8, AroundIsSound
  <1>3. CASE q \notin MockQuotes(sym)
    <2>1. Usable(feed, sym) /\ \E bar \in LastBar(feed[sym]["H1"]) : q \in YahooQuotes(bar)
      BY <1>3 DEF Quotes
    <2>2. feed \in Feeds \ {DOWN} /\ sym \in Symbols \cap OnYahoo
      BY <2>1 DEF Usable
    <2>3. PICK bar \in LastBar(feed[sym]["H1"]) : q \in YahooQuotes(bar)
      BY <2>1
    <2> DEFINE table == feed[sym]["H1"]
    <2>4. PICK i \in 1 .. Len(table) : bar = table[i]
      BY <2>3 DEF LastBar
    <2>5. table \in Seq(Rows) /\ table[i].close >= 50000
      BY <2>2, <2>4, DeskAssumption
    <2> HIDE DEF table
    <2>6. table[i] \in Rows
      BY <2>4, <2>5, ElementOfSeq
    <2>7. bar.close \in Int /\ bar.close >= 50000
      BY <2>4, <2>5, <2>6 DEF Rows
    <2> QED BY <1>1, <2>3, <2>7
  <1> QED BY <1>2, <1>3

\* What the sidebar shows of a tick can be dealt at, but for half of the price's last
\* decimal.
LEMMA TickBoxIsSound ==
  ASSUME NEW n \in Ticks, NEW box \in TickBox(Tape[n])
  PROVE  CanDeal(box, box.slack)
  <1> DEFINE p == Tape[n].price
             unit == ShownUnit(Tape[n].symbol)
  <1>1. p \in Nat /\ p % 10 = 0 /\ unit \in {10, 1000, 10000, 1000000}
    BY DeskAssumption DEF ShownUnit
  <1>2. PICK shown \in Rounded(p, unit), below \in Rounded(p, 100000),
             above \in Rounded(p, 100000), spread \in Rounded(2 * p, 100000) :
          box = [price |-> unit * shown, bid |-> p - 10 * below, ask |-> p + 10 * above,
                 spread |-> 10 * spread, slack |-> unit \div 2, unit |-> 10]
    BY DEF TickBox
  <1> HIDE DEF p, unit
  <1>3. /\ shown \in Int
        /\ 2 * (shown * unit) - 2 * p <= unit /\ 2 * p - 2 * (shown * unit) <= unit
    <2>1. p \in Int /\ unit \in Nat \ {0}
      BY <1>1
    <2> QED BY <2>1, RoundedIs, SMT
  <1>4. /\ below \in Int
        /\ 2 * (below * 100000) - 2 * p <= 100000 /\ 2 * p - 2 * (below * 100000) <= 100000
        /\ above \in Int
        /\ 2 * (above * 100000) - 2 * p <= 100000 /\ 2 * p - 2 * (above * 100000) <= 100000
    BY <1>1, RoundedIs
  <1>5. /\ spread \in Int
        /\ 2 * (spread * 100000) - 2 * (2 * p) <= 100000
        /\ 2 * (2 * p) - 2 * (spread * 100000) <= 100000
    <2>1. 2 * p \in Int
      BY <1>1
    <2> QED BY <2>1, RoundedIs
  <1>6. below >= 0 /\ above >= 0
    BY <1>1, <1>4
  <1>7. below + above - spread <= 1 /\ spread - (below + above) <= 1
    BY <1>1, <1>4, <1>5
  <1>8. p - (unit \div 2) <= unit * shown /\ unit * shown <= p + (unit \div 2)
    <2>1. CASE unit = 10
      BY <1>1, <1>3, <2>1
    <2>2. CASE unit = 1000
      BY <1>1, <1>3, <2>2
    <2>3. CASE unit = 10000
      BY <1>1, <1>3, <2>3
    <2>4. CASE unit = 1000000
      BY <1>1, <1>3, <2>4
    <2> QED BY <1>1, <2>1, <2>2, <2>3, <2>4
  <1>9. unit * shown \in Int /\ unit \div 2 \in Int
    BY <1>1, <1>3
  <1>10. /\ p - 10 * below <= p + 10 * above
         /\ p - 10 * below - (unit \div 2) <= unit * shown
         /\ unit * shown <= p + 10 * above + (unit \div 2)
    <2> DEFINE at == unit * shown
               half == unit \div 2
    <2>1. at \in Int /\ half \in Int /\ p - half <= at /\ at <= p + half
      BY <1>8, <1>9
    <2> HIDE DEF at, half
    <2>2. /\ p - 10 * below <= p + 10 * above
          /\ p - 10 * below - half <= at /\ at <= p + 10 * above + half
      BY <1>1, <1>4, <1>6, <2>1
    <2> QED BY <2>2 DEF at, half
  <1> DEFINE at == unit * shown
             bid == p - 10 * below
             ask == p + 10 * above
             apart == 10 * spread
             half == unit \div 2
  <1>11. /\ bid <= ask /\ bid - half <= at /\ at <= ask + half
         /\ Distance(ask - bid, apart) <= 10
    <2>1. bid <= ask /\ bid - half <= at /\ at <= ask + half
      BY <1>10, SMT
    <2>2. Distance(ask - bid, apart) <= 10
      BY <1>1, <1>4, <1>5, <1>7, SMT DEF Distance
    <2> QED BY <2>1, <2>2, SMT
  <1>12. /\ box.price = at /\ box.bid = bid /\ box.ask = ask
         /\ box.spread = apart /\ box.slack = half /\ box.unit = 10
    BY <1>2, SMT
  <1> HIDE DEF at, bid, ask, apart, half
  <1> QED BY <1>11, <1>12, SMT DEF CanDeal

\* Numbers in order are shown in order.
LEMMA FormatsKeepOrder ==
  ASSUME NEW numbers \in SUBSET Int, NEW d \in {10, 1000, 10000, 1000000},
         NEW f \in Formats(numbers, d), NEW n \in numbers, NEW m \in numbers, n <= m
  PROVE  f[n] <= f[m]
  <1>1. f[n] \in Rounded(n, d) /\ f[m] \in Rounded(m, d) /\ n \in Int /\ m \in Int
    BY DEF Formats
  <1>2. /\ f[n] \in Int /\ f[m] \in Int
        /\ 2 * (f[n] * d) - 2 * n <= d /\ 2 * m - 2 * (f[m] * d) <= d
    BY <1>1, RoundedIs
  <1> DEFINE x == f[n]
             y == f[m]
  <1>3. n = m => x = y
    OBVIOUS
  <1> HIDE DEF x, y
  <1>4. n < m => x <= y
    <2>1. x \in Int /\ y \in Int /\ 2 * (x * d) - 2 * n <= d /\ 2 * m - 2 * (y * d) <= d
      BY <1>2 DEF x, y
    <2>2. ASSUME n < m PROVE x * d - y * d < d
      <3>1. x * d \in Int /\ y * d \in Int
        BY <2>1
      <3> QED BY <1>1, <2>1, <2>2, <3>1
    <2>3. CASE d = 10
      BY <2>1, <2>2, <2>3
    <2>4. CASE d = 1000
      BY <2>1, <2>2, <2>4
    <2>5. CASE d = 10000
      BY <2>1, <2>2, <2>5
    <2>6. CASE d = 1000000
      BY <2>1, <2>2, <2>6
    <2> QED BY <2>3, <2>4, <2>5, <2>6
  <1>5. x <= y
    <2>1. x \in Int /\ y \in Int
      BY <1>2 DEF x, y
    <2> QED BY <1>1, <1>3, <1>4, <2>1
  <1> QED BY <1>5 DEF x, y

\* What it shows of a quote can be dealt at.
LEMMA QuoteBoxIsSound ==
  ASSUME NEW q \in SoundQuotes, NEW sym, NEW box \in QuoteBox(q, sym)
  PROVE  CanDeal(box, box.slack)
  <1> DEFINE unit == ShownUnit(sym)
             numbers == {q.price, q.bid, q.ask}
  <1>1. unit \in {10, 1000, 10000, 1000000}
    BY DEF ShownUnit
  <1>2. /\ q.price \in Int /\ q.bid \in Int /\ q.ask \in Int /\ q.spread \in Int
        /\ q.unit \in Int /\ q.bid <= q.price /\ q.price <= q.ask
        /\ Distance(q.ask - q.bid, q.spread) <= q.unit
    BY DEF SoundQuotes, IsSound
  <1>3. PICK f \in Formats(numbers, unit), spread \in Rounded(q.spread, 100) :
          box = [price |-> unit * f[q.price], bid |-> unit * f[q.bid], ask |-> unit * f[q.ask],
                 spread |-> 100 * spread, slack |-> 0, unit |-> q.unit + unit + 50]
    BY DEF QuoteBox
  <1>4. numbers \in SUBSET Int /\ q.price \in numbers /\ q.bid \in numbers /\ q.ask \in numbers
    BY <1>2
  <1> HIDE DEF unit, numbers
  <1>5. f[q.price] \in Rounded(q.price, unit) /\ f[q.bid] \in Rounded(q.bid, unit)
        /\ f[q.ask] \in Rounded(q.ask, unit)
    BY <1>3, <1>4 DEF Formats
  <1>6. f[q.bid] <= f[q.price] /\ f[q.price] <= f[q.ask]
    BY <1>1, <1>2, <1>3, <1>4, FormatsKeepOrder
  <1> DEFINE x == f[q.bid]
             y == f[q.price]
             z == f[q.ask]
  <1>7. /\ x \in Int /\ y \in Int /\ z \in Int
        /\ 2 * (x * unit) - 2 * q.bid <= unit /\ 2 * q.bid - 2 * (x * unit) <= unit
        /\ 2 * (z * unit) - 2 * q.ask <= unit /\ 2 * q.ask - 2 * (z * unit) <= unit
    BY <1>1, <1>2, <1>5, RoundedIs
  <1>8. /\ spread \in Int
        /\ 2 * (spread * 100) - 2 * q.spread <= 100 /\ 2 * q.spread - 2 * (spread * 100) <= 100
    BY <1>2, RoundedIs
  <1>9. x <= y /\ y <= z
    BY <1>6
  <1> HIDE DEF x, y, z
  <1>10. /\ unit * x \in Int /\ unit * y \in Int /\ unit * z \in Int
         /\ unit * x <= unit * y /\ unit * y <= unit * z
         /\ unit * x = x * unit /\ unit * z = z * unit
    BY <1>1, <1>7, <1>9
  <1> DEFINE bid == unit * x
             ask == unit * z
  <1>11. /\ bid \in Int /\ ask \in Int
         /\ 2 * bid - 2 * q.bid <= unit /\ 2 * q.bid - 2 * bid <= unit
         /\ 2 * ask - 2 * q.ask <= unit /\ 2 * q.ask - 2 * ask <= unit
    BY <1>7, <1>10
  <1> HIDE DEF bid, ask
  <1>12. Distance(ask - bid, 100 * spread) <= q.unit + unit + 50
    BY <1>1, <1>2, <1>8, <1>11 DEF Distance
  <1>13. /\ bid <= ask /\ bid - 0 <= unit * y /\ unit * y <= ask + 0
    BY <1>10 DEF bid, ask
  <1> QED BY <1>3, <1>12, <1>13 DEF CanDeal, bid, ask, x, y, z

LEMMA BoxedAreSound ==
  ASSUME SocketTyped, FeedTyped, DeskTyped, NEW b \in Browsers, NEW box \in Boxed(b),
         Len(SymbolOrder) = Cardinality(Symbols)
  PROVE  CanDeal(box, box.slack)
  <1>1. CASE price[b] # 0
    <2>1. price[b] \in Ticks
      BY <1>1, FeedAssumption DEF FeedTyped, Ticks
    <2>2. box \in TickBox(Tape[price[b]])
      BY <1>1 DEF Boxed
    <2> QED BY <2>1, <2>2, TickBoxIsSound
  <1>2. CASE price[b] = 0
    <2>1. quotes[b] # <<>> /\ \E i \in 1 .. Len(SymbolOrder) : box \in QuoteBox(quotes[b][i], Featured)
      BY <1>2 DEF Boxed
    <2>2. quotes[b] \in Seq(SoundQuotes) /\ Len(quotes[b]) \in {0, Cardinality(Symbols)}
      BY DEF DeskTyped
    <2>3. Len(quotes[b]) = Len(SymbolOrder)
      BY <2>1, <2>2, EmptySeq
    <2>4. PICK i \in 1 .. Len(quotes[b]) : box \in QuoteBox(quotes[b][i], Featured)
      BY <2>1, <2>3
    <2>5. quotes[b][i] \in SoundQuotes
      BY <2>2, <2>4, ElementOfSeq
    <2> QED BY <2>4, <2>5, QuoteBoxIsSound
  <1> QED BY <1>1, <1>2

\* Symbols and timeframes are gone through one by one.
LEMMA OrderIs ==
  ASSUME NEW S, IsFiniteSet(S)
  PROVE  SetToSeq(S) \in [1 .. Cardinality(S) -> S] /\ Len(SetToSeq(S)) = Cardinality(S)
  <1>1. Cardinality(S) \in Nat /\ ExistsBijection(1 .. Cardinality(S), S)
    BY FS_CardinalityType
  <1>2. PICK f \in Bijection(1 .. Cardinality(S), S) : TRUE
    BY <1>1 DEF ExistsBijection
  <1>3. f \in [1 .. Cardinality(S) -> S] /\ IsInjective(f)
    BY <1>2 DEF Bijection, Injection, IsInjective
  <1>4. SetToSeq(S) \in [1 .. Cardinality(S) -> S]
    BY <1>3 DEF SetToSeq
  <1>5. SetToSeq(S) \in Seq(S)
    BY <1>1, <1>4, SeqDef
  <1>6. DOMAIN SetToSeq(S) = 1 .. Len(SetToSeq(S)) /\ Len(SetToSeq(S)) \in Nat
    BY <1>5, LenProperties
  <1> QED BY <1>1, <1>4, <1>6

LEMMA OrdersAre ==
  /\ Len(SymbolOrder) = Cardinality(Symbols) /\ Len(SymbolOrder) \in Nat
  /\ \A i \in 1 .. Len(SymbolOrder) : SymbolOrder[i] \in Symbols
  /\ Len(TimeframeOrder) = Cardinality(Timeframes) /\ Len(TimeframeOrder) \in Nat
  <1>1. IsFiniteSet(Symbols) /\ IsFiniteSet(Timeframes)
    BY AdaptersAssumption
  <1>2. /\ Cardinality(Symbols) \in Nat /\ Cardinality(Timeframes) \in Nat
        /\ SymbolOrder \in [1 .. Cardinality(Symbols) -> Symbols]
        /\ Len(SymbolOrder) = Cardinality(Symbols)
        /\ Len(TimeframeOrder) = Cardinality(Timeframes)
    BY <1>1, OrderIs, FS_CardinalityType DEF SymbolOrder, TimeframeOrder
  <1> QED BY <1>2

LEMMA TrendsAre ==
  ASSUME NEW feed, NEW sym, NEW tf
  PROVE  Trends(feed, sym, tf) \subseteq Directions
  <1>1. \A first, last : Trend(first, last) \in Directions
    BY DEF Trend, Directions
  <1>2. MockTrends \subseteq Directions
    BY <1>1 DEF MockTrends
  <1>3. "LATE" \in Directions
    BY DEF Directions
  <1> QED BY <1>1, <1>2, <1>3 DEF Trends

-----------------------------------------------------------------------------
(* A request of the market page or the briefing changes.                   *)

\* The request r of b is for want now and has read got.
Becomes(b, r, want, got) ==
  line' = [line EXCEPT ![b][r] = [want |-> want, got |-> got]]

LEMMA LineIs ==
  ASSUME DeskTyped, NEW b \in Browsers, NEW r \in Lines
  PROVE  /\ line[b][r] = [want |-> line[b][r].want, got |-> line[b][r].got]
         /\ line[b][r].want \in Symbols \cup {NONE, QUOTES, BRIEFING}
         /\ Got(line[b][r].want, line[b][r].got)
  BY DEF DeskTyped, LineTyped

LEMMA NamesDiffer ==
  /\ NONE # QUOTES /\ NONE # BRIEFING /\ QUOTES # BRIEFING
  /\ NONE \notin Symbols /\ QUOTES \notin Symbols /\ BRIEFING \notin Symbols
  BY DeskAssumption, BriefingAssumption DEF QUOTES, BRIEFING

LEMMA BecomesIs ==
  ASSUME DeskTyped, NEW b \in Browsers, NEW r \in Lines, NEW want, NEW got,
         Becomes(b, r, want, got)
  PROVE  /\ \A c \in Browsers, s \in Lines :
              line'[c][s] = IF c = b /\ s = r THEN [want |-> want, got |-> got] ELSE line[c][s]
         /\ line' = [c \in Browsers |-> [s \in Lines |-> line'[c][s]]]
  <1>1. line = [c \in Browsers |-> [s \in Lines |-> line[c][s]]]
    BY DEF DeskTyped
  <1> QED BY <1>1 DEF Becomes

\* Then the requests of the page are typed again.
LEMMA BecomesTyped ==
  ASSUME DeskTyped, NEW b \in Browsers, NEW r \in Lines, NEW want, NEW got,
         Becomes(b, r, want, got),
         want \in Symbols \cup {NONE, QUOTES, BRIEFING}, Got(want, got),
         yahoo' \in Feeds \cup {DOWN}, silences' \in Nat,
         selected' \in [Browsers -> Symbols],
         quotes' \in [Browsers -> Seq(SoundQuotes)],
         grid' \in [Browsers -> [of : Symbols \cup {NONE}, trends : Seq(Directions)]],
         \A c \in Browsers :
           /\ Len(quotes'[c]) \in {0, Cardinality(Symbols)}
           /\ Len(grid'[c].trends) = (IF grid'[c].of = NONE THEN 0 ELSE Cardinality(Timeframes))
  PROVE  DeskTyped'
  <1>1. /\ \A c \in Browsers, s \in Lines :
             line'[c][s] = IF c = b /\ s = r THEN [want |-> want, got |-> got] ELSE line[c][s]
        /\ line' = [c \in Browsers |-> [s \in Lines |-> line'[c][s]]]
    BY BecomesIs
  <1>2. ASSUME NEW c \in Browsers, NEW s \in Lines PROVE LineTyped(line'[c][s])
    <2>1. CASE c = b /\ s = r
      <3> DEFINE l == [want |-> want, got |-> got]
      <3>1. l.want = want /\ l.got = got /\ line'[c][s] = l
        BY <1>1, <2>1
      <3> QED BY <3>1 DEF LineTyped
    <2>2. CASE ~ (c = b /\ s = r)
      BY <1>1, <2>2 DEF DeskTyped
    <2> QED BY <2>1, <2>2
  <1> QED BY <1>1, <1>2 DEF DeskTyped, LineTyped, Got, SymbolOrder, TimeframeOrder

\* It is in flight or not by what it is for; the others are as before.
LEMMA InFlightIs ==
  ASSUME DeskTyped, NEW b \in Browsers, NEW r \in Lines, NEW want, NEW got,
         Becomes(b, r, want, got), NEW wants
  PROVE  /\ \A c \in Browsers \ {b} :
              /\ InFlight(c, wants)' = InFlight(c, wants)
              /\ \A s \in Lines : line'[c][s] = line[c][s]
         /\ InFlight(b, wants)' = IF want \in wants THEN InFlight(b, wants) \cup {r}
                                  ELSE InFlight(b, wants) \ {r}
         /\ line'[b][r].want = want
         /\ \A s \in Lines \ {r} : line'[b][s] = line[b][s]
  <1>1. \A c \in Browsers, s \in Lines :
          line'[c][s] = IF c = b /\ s = r THEN [want |-> want, got |-> got] ELSE line[c][s]
    BY BecomesIs
  <1> QED BY <1>1 DEF InFlight

-----------------------------------------------------------------------------
(* The feed.                                                               *)

LEMMA MessagesKeepTicking ==
  ASSUME SocketTyped, FeedTyped, Ticking, page' = page,
         \A b \in Browsers : inbox'[b] = inbox[b] \/ Len(inbox'[b]) = 0,
         UNCHANGED feedVars
  PROVE  FeedTyped' /\ Ticking'
  <1>1. FeedTyped'
    BY DEF FeedTyped, feedVars
  <1>2. \A n \in Ticks : ingest'[n] # "none" => n <= tick'
    BY DEF Ticking, feedVars
  <1>3. ASSUME NEW b \in Browsers, NEW i \in 1 .. Len(inbox'[b])
        PROVE  inbox'[b] = inbox[b]
    BY <1>3
  <1>4. ASSUME page' = "market", NEW b \in Browsers, NEW i \in 1 .. Len(inbox'[b])
        PROVE  inbox'[b][i].n <= MaxTicks
    BY <1>3, <1>4 DEF Ticking
  <1>5. ASSUME prompt'
        PROVE  /\ \A n \in Ticks : n < tick' => ingest'[n] = "over"
               /\ \A n \in Ticks : ingest'[n] = "stored" => stored' = n
               /\ announced' <= stored' /\ stored' <= tick'
               /\ page' = "market" => \A b \in Browsers : price'[b] <= announced'
    BY <1>5 DEF Ticking, feedVars
  <1>6. ASSUME prompt', page' = "market", NEW b \in Browsers, NEW i \in 1 .. Len(inbox'[b])
        PROVE  /\ price'[b] <= inbox'[b][i].n /\ inbox'[b][i].n <= announced'
               /\ \A j \in 1 .. i : inbox'[b][j].n <= inbox'[b][i].n
    BY <1>3, <1>6 DEF Ticking, feedVars
  <1> QED BY <1>1, <1>2, <1>4, <1>5, <1>6 DEF Ticking

LEMMA PostKeeps ==
  ASSUME SocketTyped, FeedTyped, Ticking, Post
  PROVE  SocketTyped' /\ FeedTyped' /\ Ticking' /\ prompt' = prompt
  <1>1. tick \in 0 .. MaxTicks /\ tick < MaxTicks /\ tick' = tick + 1 /\ tick + 1 \in Ticks
        /\ ingest' = [ingest EXCEPT ![tick + 1] = "posted"]
        /\ MaxTicks \in Nat
    BY FeedAssumption DEF Post, FeedTyped, Ticks
  <1>2. UNCHANGED <<prompt, stored, announced, price>> /\ UNCHANGED socketVars
    BY DEF Post
  <1>3. SocketTyped' /\ FeedTyped'
    BY <1>1, <1>2 DEF SocketTyped, FeedTyped, socketVars
  <1>4. \A n \in Ticks : ingest'[n] # "none" => n <= tick'
    BY <1>1 DEF Ticking, FeedTyped, Ticks
  <1>5. ASSUME prompt
        PROVE  /\ \A n \in Ticks : n < tick' => ingest'[n] = "over"
               /\ \A n \in Ticks : ingest'[n] = "stored" => stored' = n
               /\ stored' <= tick'
    <2>1. \A n \in Ticks : n < tick => ingest[n] = "over"
      BY <1>5 DEF Ticking
    <2>2. tick # 0 => ingest[tick] = "over"
      BY <1>5 DEF Post
    <2>3. \A n \in Ticks : ingest[n] = "stored" => stored = n
      BY <1>5 DEF Ticking
    <2>4. stored <= tick /\ stored \in Nat
      BY <1>5, <1>1 DEF Ticking, FeedTyped
    <2>5. \A n \in Ticks : n < tick' => n < tick \/ n = tick
      BY <1>1 DEF Ticks
    <2>6. \A n \in Ticks : n # 0 /\ (n < tick' => n # tick + 1)
      BY <1>1 DEF Ticks
    <2>7. \A n \in Ticks : n # tick + 1 => ingest'[n] = ingest[n]
      BY <1>1 DEF FeedTyped
    <2>8. ingest'[tick + 1] = "posted"
      BY <1>1 DEF FeedTyped
    <2>9. \A n \in Ticks : ingest'[n] = "stored" => stored' = n
      BY <1>2, <2>3, <2>7, <2>8
    <2> QED BY <1>1, <1>2, <2>1, <2>2, <2>4, <2>5, <2>6, <2>7, <2>9
  <1>6. page' = page /\ inbox' = inbox
    BY <1>2 DEF socketVars
  <1> QED BY <1>2, <1>3, <1>4, <1>5, <1>6 DEF Ticking

LEMMA StoreKeeps ==
  ASSUME SocketTyped, FeedTyped, Ticking, NEW n \in Ticks, Store(n) \/ FailTick(n)
  PROVE  SocketTyped' /\ FeedTyped' /\ Ticking' /\ prompt' = prompt
  <1>1. /\ n \in 0 .. MaxTicks /\ n \in Nat
        /\ ingest[n] \in {"posted", "stored"} /\ tick' = tick /\ announced' = announced
        /\ price' = price /\ prompt' = prompt /\ UNCHANGED socketVars
        /\ \/ stored' = n /\ ingest[n] = "posted" /\ ingest' = [ingest EXCEPT ![n] = "stored"]
           \/ stored' = stored /\ ingest' = [ingest EXCEPT ![n] = "over"]
    BY FeedAssumption DEF Store, FailTick, Ticks
  <1>2. SocketTyped' /\ FeedTyped'
    BY <1>1 DEF SocketTyped, FeedTyped, socketVars
  <1>3. /\ \A m \in Ticks : m # n => ingest'[m] = ingest[m]
        /\ \/ ingest'[n] = "over" /\ stored' = stored
           \/ ingest'[n] = "stored" /\ stored' = n /\ ingest[n] = "posted"
    <2>1. CASE stored' = n /\ ingest[n] = "posted" /\ ingest' = [ingest EXCEPT ![n] = "stored"]
      BY <2>1 DEF FeedTyped
    <2>2. CASE stored' = stored /\ ingest' = [ingest EXCEPT ![n] = "over"]
      BY <2>2 DEF FeedTyped
    <2> QED BY <1>1, <2>1, <2>2
  <1>4. \A m \in Ticks : ingest'[m] # "none" => m <= tick'
    BY <1>1, <1>3 DEF Ticking
  <1>5. ASSUME prompt
        PROVE  /\ \A m \in Ticks : m < tick' => ingest'[m] = "over"
               /\ \A m \in Ticks : ingest'[m] = "stored" => stored' = m
               /\ announced' <= stored' /\ stored' <= tick'
    <2>1. n = tick
      <3>1. n <= tick /\ ~ (n < tick)
        BY <1>1, <1>5 DEF Ticking
      <3> QED BY <1>1, <3>1 DEF FeedTyped
    <2>2. \A m \in Ticks : m < tick => ingest[m] = "over" /\ m # n
      BY <1>5, <2>1 DEF Ticking, Ticks
    <2>3. \A m \in Ticks : ingest[m] = "stored" => stored = m
      BY <1>5 DEF Ticking
    <2>4. announced <= stored /\ stored <= tick /\ announced \in Nat /\ stored \in Nat
      BY <1>5, <1>1 DEF Ticking, FeedTyped
    <2>5. \A m \in Ticks : m # n /\ ingest[m] = "stored" => m < n
      BY <1>1, <2>1 DEF Ticking, Ticks, FeedTyped
    <2>6. \A m \in Ticks : m # n => ingest'[m] # "stored"
      BY <1>3, <2>1, <2>2, <2>5
    <2>7. announced' <= stored' /\ stored' <= tick'
      BY <1>1, <1>3, <2>1, <2>4
    <2> QED BY <1>1, <1>3, <2>2, <2>6, <2>7
  <1>6. page' = page /\ inbox' = inbox
    BY <1>1 DEF socketVars
  <1> QED BY <1>1, <1>2, <1>4, <1>5, <1>6 DEF Ticking

LEMMA AnnounceTickKeeps ==
  ASSUME SocketTyped, FeedTyped, Ticking, NEW n \in Ticks, AnnounceTick(n)
  PROVE  SocketTyped' /\ FeedTyped' /\ Ticking' /\ prompt' = prompt
  <1> DEFINE e == Event("market.ticker_updated", NONE, n)
  <1>1. e \in Message /\ e.n = n /\ n \in Nat /\ n \in 0 .. MaxTicks /\ n <= MaxTicks
    BY EventIs, FeedAssumption DEF Ticks, Events
  <1>2. Announce(e) /\ ingest[n] = "stored" /\ announced' = n
        /\ ingest' = [ingest EXCEPT ![n] = "over"]
        /\ UNCHANGED <<prompt, tick, stored, price>>
    BY DEF AnnounceTick
  <1> HIDE DEF e
  <1>3. SocketTyped' /\ page' = page /\ \A b \in Browsers : Longer(b, e)
    BY <1>1, <1>2, AnnounceIs
  <1>4. FeedTyped'
    BY <1>1, <1>2 DEF FeedTyped
  <1>5. ingest'[n] = "over" /\ \A m \in Ticks : m # n => ingest'[m] = ingest[m]
    BY <1>2 DEF FeedTyped
  <1>6. \A m \in Ticks : ingest'[m] # "none" => m <= tick'
    BY <1>2, <1>5 DEF Ticking
  <1>7. ASSUME page = "market", NEW b \in Browsers, NEW i \in 1 .. Len(inbox'[b])
        PROVE  inbox'[b][i] = e \/ (i \in 1 .. Len(inbox[b]) /\ inbox'[b][i] = inbox[b][i])
    <2>1. Len(inbox[b]) \in Nat
      BY InboxIs
    <2> QED BY <1>3, <1>7, <2>1 DEF Longer
  <1>8. ASSUME page = "market", NEW b \in Browsers, NEW i \in 1 .. Len(inbox'[b])
        PROVE  inbox'[b][i].n <= MaxTicks
    BY <1>1, <1>7, <1>8 DEF Ticking
  <1>9. ASSUME prompt
        PROVE  /\ \A m \in Ticks : m < tick' => ingest'[m] = "over"
               /\ \A m \in Ticks : ingest'[m] = "stored" => stored' = m
               /\ announced' <= stored' /\ stored' <= tick' /\ announced <= announced'
    <2>1. stored = n /\ announced <= stored /\ stored <= tick
      BY <1>2, <1>9 DEF Ticking
    <2> QED BY <1>1, <1>2, <1>5, <1>9, <2>1 DEF Ticking
  <1>10. ASSUME prompt, page = "market", NEW b \in Browsers
         PROVE  /\ price'[b] <= announced'
                /\ \A i \in 1 .. Len(inbox'[b]) :
                     /\ price'[b] <= inbox'[b][i].n /\ inbox'[b][i].n <= announced'
                     /\ \A j \in 1 .. i : inbox'[b][j].n <= inbox'[b][i].n
    <2>1. price[b] \in Nat /\ announced \in Nat /\ price[b] <= announced /\ announced <= n
      BY <1>1, <1>2, <1>9, <1>10 DEF FeedTyped, Ticking
    <2>2. Len(inbox[b]) \in Nat /\ \A i \in 1 .. Len(inbox[b]) : inbox[b][i].n \in Nat
      BY InboxIs
    <2>3. ASSUME NEW i \in 1 .. Len(inbox'[b])
          PROVE  inbox'[b][i].n \in Nat /\ price[b] <= inbox'[b][i].n /\ inbox'[b][i].n <= n
      <3>1. CASE inbox'[b][i] = e
        BY <1>1, <2>1, <3>1
      <3>2. CASE i \in 1 .. Len(inbox[b]) /\ inbox'[b][i] = inbox[b][i]
        <4>1. price[b] <= inbox[b][i].n /\ inbox[b][i].n <= announced
          BY <1>10, <3>2 DEF Ticking
        <4> QED BY <1>1, <2>1, <2>2, <3>2, <4>1
      <3> QED BY <1>7, <1>10, <3>1, <3>2
    <2>4. ASSUME NEW i \in 1 .. Len(inbox'[b]), NEW j \in 1 .. i
          PROVE  inbox'[b][j].n <= inbox'[b][i].n
      <3>0. j \in 1 .. Len(inbox'[b]) /\ j <= i
        OBVIOUS
      <3>1. CASE i \in 1 .. Len(inbox[b])
        <4>1. j \in 1 .. Len(inbox[b])
          BY <2>2, <3>0, <3>1
        <4>2. inbox'[b][i] = inbox[b][i] /\ inbox'[b][j] = inbox[b][j]
          BY <1>3, <3>1, <4>1 DEF Longer
        <4> QED BY <1>10, <3>1, <4>2 DEF Ticking
      <3>2. CASE i \notin 1 .. Len(inbox[b])
        <4>1. i \in Len(inbox[b]) + 1 .. Len(inbox'[b])
          BY <2>2, <3>2
        <4>2. inbox'[b][i] = e
          BY <1>3, <4>1 DEF Longer
        <4> QED BY <1>1, <2>3, <3>0, <4>2
      <3> QED BY <3>1, <3>2
    <2> QED BY <1>1, <1>2, <2>1, <2>3, <2>4
  <1> QED BY <1>2, <1>3, <1>4, <1>6, <1>8, <1>9, <1>10 DEF Ticking

LEMMA ShowTickKeeps ==
  ASSUME SocketTyped, FeedTyped, Ticking, NEW b \in Browsers, ShowTick(b)
  PROVE  SocketTyped' /\ FeedTyped' /\ Ticking' /\ prompt' = prompt
  <1>1. /\ page = "market" /\ Take(b) /\ price' = [price EXCEPT ![b] = Head(inbox[b]).n]
        /\ UNCHANGED <<prompt, tick, ingest, stored, announced>>
    BY DEF ShowTick
  <1>2. /\ SocketTyped' /\ page' = page
        /\ \A c \in Browsers \ {b} : inbox'[c] = inbox[c]
        /\ Len(inbox[b]) \in Nat /\ Len(inbox[b]) # 0 /\ Len(inbox'[b]) = Len(inbox[b]) - 1
        /\ Head(inbox[b]) = inbox[b][1]
        /\ \A i \in 1 .. Len(inbox'[b]) : inbox'[b][i] = inbox[b][i + 1]
    BY <1>1, TakeIs
  <1>3. 1 \in 1 .. Len(inbox[b]) /\ inbox[b][1].n \in Nat /\ inbox[b][1].n <= MaxTicks
    BY <1>1, <1>2, InboxIs DEF Ticking
  <1>4. FeedTyped' /\ price'[b] = inbox[b][1].n
        /\ \A c \in Browsers \ {b} : price'[c] = price[c]
    BY <1>1, <1>2, <1>3, FeedAssumption DEF FeedTyped
  <1>5. ASSUME NEW c \in Browsers, NEW i \in 1 .. Len(inbox'[c])
        PROVE  inbox'[c][i].n <= MaxTicks
    <2>1. PICK k \in 1 .. Len(inbox[c]) : inbox'[c][i] = inbox[c][k]
      BY <1>1, TakeKeeps
    <2> QED BY <1>1, <2>1 DEF Ticking
  <1>6. ASSUME prompt, NEW c \in Browsers
        PROVE  /\ price'[c] <= announced'
               /\ \A i \in 1 .. Len(inbox'[c]) :
                    /\ price'[c] <= inbox'[c][i].n /\ inbox'[c][i].n <= announced'
                    /\ \A j \in 1 .. i : inbox'[c][j].n <= inbox'[c][i].n
    <2>0. /\ price[c] <= announced
          /\ \A i \in 1 .. Len(inbox[c]) :
               /\ price[c] <= inbox[c][i].n /\ inbox[c][i].n <= announced
               /\ \A j \in 1 .. i : inbox[c][j].n <= inbox[c][i].n
      BY <1>1, <1>6 DEF Ticking
    <2>1. CASE c = b
      <3>1. price'[c] = inbox[c][1].n /\ inbox[c][1].n <= announced
        BY <1>3, <1>4, <2>0, <2>1
      <3>2. ASSUME NEW i \in 1 .. Len(inbox'[c])
            PROVE  /\ i + 1 \in 1 .. Len(inbox[c]) /\ inbox'[c][i] = inbox[c][i + 1]
                   /\ 1 \in 1 .. i + 1
                   /\ \A j \in 1 .. i : j \in 1 .. Len(inbox'[c]) /\ j + 1 \in 1 .. i + 1
        BY <1>2, <2>1
      <3>3. ASSUME NEW i \in 1 .. Len(inbox'[c]), NEW j \in 1 .. i
            PROVE  inbox'[c][j].n <= inbox'[c][i].n
        <4>1. inbox'[c][j] = inbox[c][j + 1]
          BY <3>2
        <4>2. inbox[c][j + 1].n <= inbox[c][i + 1].n
          BY <2>0, <3>2
        <4> QED BY <3>2, <4>1, <4>2
      <3>4. \A i \in 1 .. Len(inbox'[c]) :
              price'[c] <= inbox'[c][i].n /\ inbox'[c][i].n <= announced
        BY <2>0, <3>1, <3>2
      <3> QED BY <1>1, <3>1, <3>3, <3>4
    <2>2. CASE c # b
      BY <1>1, <1>2, <1>4, <2>0, <2>2
    <2> QED BY <2>1, <2>2
  <1> QED BY <1>1, <1>2, <1>4, <1>5, <1>6 DEF Ticking

\* A step of the feed leaves what the desk and the briefing rely on.
LEMMA FeedStep ==
  ASSUME SocketTyped, MarketInv, FeedNext, UNCHANGED <<deskVars, briefingVars>>
  PROVE  SocketTyped' /\ MarketInv'
  <1>1. SocketTyped' /\ FeedTyped' /\ Ticking' /\ prompt' = prompt
    BY PostKeeps, StoreKeeps, AnnounceTickKeeps, ShowTickKeeps DEF FeedNext, MarketInv
  <1>2. DeskTyped'
    BY DEF MarketInv, DeskTyped, LineTyped, Got, SymbolOrder, TimeframeOrder, deskVars
  <1>3. Selecting'
    BY <1>1 DEF MarketInv, Selecting, InFlight, deskVars
  <1>4. Reporting'
    BY DEF MarketInv, Reporting, briefingVars
  <1> QED BY <1>1, <1>2, <1>3, <1>4 DEF MarketInv

-----------------------------------------------------------------------------
(* The desk.                                                               *)

LEMMA RequestIs ==
  ASSUME DeskTyped, NEW b \in Browsers, NEW want, Request(b, want)
  PROVE  \E r \in Lines : line[b][r] = Idle /\ Becomes(b, r, want, <<>>)
  <1>1. PICK r \in Lines : line[b][r] = Idle /\ line' = [line EXCEPT ![b][r].want = want]
    BY DEF Request
  <1>2. [line[b][r] EXCEPT !.want = want] = [want |-> want, got |-> <<>>]
    BY <1>1 DEF Idle
  <1>3. Becomes(b, r, want, <<>>)
    BY <1>1, <1>2 DEF Becomes
  <1> QED BY <1>1, <1>3

LEMMA NothingRead ==
  ASSUME NEW want \in Symbols \cup {NONE, QUOTES, BRIEFING}
  PROVE  Got(want, <<>>)
  <1>1. <<>> \in Seq(SoundQuotes) /\ <<>> \in Seq(Directions) /\ Len(<<>>) = 0
    BY EmptySeq
  <1> QED BY <1>1, OrdersAre DEF Got

\* A step that is none of the feed's and forgets at most what the bridge has said.
LEMMA FeedRests ==
  ASSUME SocketTyped, FeedTyped, Ticking,
         UNCHANGED <<prompt, tick, ingest, stored, announced, socketVars>>,
         price' \in [Browsers -> 0 .. MaxTicks],
         \A c \in Browsers : price'[c] \in {0, price[c]}
  PROVE  SocketTyped' /\ FeedTyped' /\ Ticking'
  <1>1. SocketTyped' /\ FeedTyped'
    BY DEF SocketTyped, FeedTyped, socketVars
  <1>2. page' = page /\ inbox' = inbox
    BY DEF socketVars
  <1>3. ASSUME prompt, page = "market", NEW c \in Browsers
        PROVE  /\ price'[c] <= announced
               /\ \A i \in 1 .. Len(inbox[c]) : price'[c] <= inbox[c][i].n
    <2>1. price'[c] = price[c] \/ price'[c] = 0
      OBVIOUS
    <2>2. announced \in Nat /\ 0 <= announced
      BY DEF FeedTyped
    <2>3. \A i \in 1 .. Len(inbox[c]) : inbox[c][i].n \in Nat /\ 0 <= inbox[c][i].n
      BY InboxIs
    <2>4. price[c] <= announced /\ \A i \in 1 .. Len(inbox[c]) : price[c] <= inbox[c][i].n
      BY <1>3 DEF Ticking
    <2> QED BY <2>1, <2>2, <2>3, <2>4
  <1> QED BY <1>1, <1>2, <1>3 DEF Ticking

\* The user's requests for trends are as they were.
LEMMA SelectingRests ==
  ASSUME DeskTyped, Selecting, NEW b \in Browsers, NEW r \in Lines, NEW want, NEW got,
         Becomes(b, r, want, got), prompt' = prompt, silences' = silences,
         selected' = selected, grid' = grid,
         want = line[b][r].want \/ (want \notin Symbols /\ line[b][r].want \notin Symbols)
  PROVE  Selecting'
  <1>1. /\ \A c \in Browsers \ {b} :
             /\ InFlight(c, Symbols)' = InFlight(c, Symbols)
             /\ \A s \in Lines : line'[c][s] = line[c][s]
        /\ InFlight(b, Symbols)' = IF want \in Symbols THEN InFlight(b, Symbols) \cup {r}
                                   ELSE InFlight(b, Symbols) \ {r}
        /\ line'[b][r].want = want
        /\ \A s \in Lines \ {r} : line'[b][s] = line[b][s]
    BY InFlightIs
  <1>2. r \in InFlight(b, Symbols) <=> line[b][r].want \in Symbols
    BY DEF InFlight
  <1>3. InFlight(b, Symbols)' = InFlight(b, Symbols)
    BY <1>1, <1>2
  <1>4. ASSUME NEW c \in Browsers
        PROVE  /\ InFlight(c, Symbols)' = InFlight(c, Symbols)
               /\ \A s \in InFlight(c, Symbols) : line'[c][s].want = line[c][s].want
    <2>1. \A s \in InFlight(c, Symbols) : s \in Lines /\ line[c][s].want \in Symbols
      BY DEF InFlight
    <2>2. CASE c = b
      BY <1>1, <1>3, <2>1, <2>2
    <2>3. CASE c # b
      BY <1>1, <2>1, <2>3
    <2> QED BY <2>2, <2>3
  <1> QED BY <1>4 DEF Selecting

LEMMA MoveKeeps ==
  ASSUME SocketTyped, MarketInv, Move, UNCHANGED briefingVars
  PROVE  SocketTyped' /\ MarketInv'
  <1>1. /\ yahoo' \in Feeds /\ UNCHANGED <<quotes, selected, grid, line, silences, report>>
        /\ UNCHANGED <<prompt, tick, ingest, stored, announced, price, socketVars>>
    BY DEF Move, feedVars, briefingVars
  <1>2. SocketTyped' /\ FeedTyped' /\ Ticking'
    <2>1. price \in [Browsers -> 0 .. MaxTicks]
      BY DEF MarketInv, FeedTyped
    <2> QED BY <1>1, <2>1, FeedRests DEF MarketInv
  <1>3. DeskTyped'
    BY <1>1 DEF MarketInv, DeskTyped
  <1>4. Selecting'
    BY <1>1 DEF MarketInv, Selecting, InFlight
  <1>5. Reporting'
    BY <1>1 DEF MarketInv, Reporting
  <1> QED BY <1>2, <1>3, <1>4, <1>5 DEF MarketInv

LEMMA AskQuotesKeeps ==
  ASSUME SocketTyped, MarketInv, NEW b \in Browsers, AskQuotes(b), UNCHANGED briefingVars
  PROVE  SocketTyped' /\ MarketInv'
  <1>0. FeedTyped /\ Ticking /\ DeskTyped /\ Selecting /\ Reporting
    BY DEF MarketInv
  <1>1. /\ UNCHANGED <<yahoo, quotes, selected, grid, silences, report>>
        /\ UNCHANGED <<prompt, tick, ingest, stored, announced, price, socketVars>>
        /\ Request(b, QUOTES)
    BY DEF AskQuotes, feedVars, briefingVars
  <1>2. SocketTyped' /\ FeedTyped' /\ Ticking'
    <2>1. price \in [Browsers -> 0 .. MaxTicks]
      BY <1>0 DEF FeedTyped
    <2> QED BY <1>0, <1>1, <2>1, FeedRests
  <1>3. PICK r \in Lines : line[b][r] = Idle /\ Becomes(b, r, QUOTES, <<>>)
    BY <1>0, <1>1, RequestIs
  <1>4. line[b][r].want = NONE
    BY <1>3 DEF Idle
  <1>5. DeskTyped'
    <2>1. Got(QUOTES, <<>>)
      BY NothingRead
    <2> QED BY <1>0, <1>1, <1>3, <2>1, BecomesTyped DEF DeskTyped
  <1>6. Selecting'
    BY <1>0, <1>1, <1>3, <1>4, NamesDiffer, SelectingRests
  <1>7. Reporting'
    BY <1>0, <1>1 DEF Reporting
  <1> QED BY <1>2, <1>5, <1>6, <1>7 DEF MarketInv

LEMMA SelectKeeps ==
  ASSUME SocketTyped, MarketInv, NEW b \in Browsers, NEW sym \in Symbols, Select(b, sym),
         UNCHANGED briefingVars
  PROVE  SocketTyped' /\ MarketInv'
  <1>0. FeedTyped /\ Ticking /\ DeskTyped /\ Selecting /\ Reporting
    BY DEF MarketInv
  <1>1. /\ UNCHANGED <<yahoo, quotes, grid, silences, report>>
        /\ UNCHANGED <<prompt, tick, ingest, stored, announced, price, socketVars>>
        /\ selected' = [selected EXCEPT ![b] = sym]
        /\ prompt => InFlight(b, Symbols) = {}
        /\ Request(b, sym)
    BY DEF Select, feedVars, briefingVars
  <1>2. SocketTyped' /\ FeedTyped' /\ Ticking'
    <2>1. price \in [Browsers -> 0 .. MaxTicks]
      BY <1>0 DEF FeedTyped
    <2> QED BY <1>0, <1>1, <2>1, FeedRests
  <1>3. PICK r \in Lines : line[b][r] = Idle /\ Becomes(b, r, sym, <<>>)
    BY <1>0, <1>1, RequestIs
  <1>4. selected' \in [Browsers -> Symbols] /\ selected'[b] = sym
        /\ \A c \in Browsers \ {b} : selected'[c] = selected[c]
    BY <1>0, <1>1 DEF DeskTyped
  <1>5. DeskTyped'
    <2>1. Got(sym, <<>>)
      BY NothingRead
    <2> QED BY <1>0, <1>1, <1>3, <1>4, <2>1, BecomesTyped DEF DeskTyped
  <1>6. ASSUME prompt', silences' = 0, NEW c \in Browsers
        PROVE  /\ \A s \in InFlight(c, Symbols)' :
                    line'[c][s].want = selected'[c] /\ InFlight(c, Symbols)' = {s}
               /\ InFlight(c, Symbols)' = {} => grid'[c].of \in {NONE, selected'[c]}
    <2>1. /\ \A d \in Browsers \ {b} :
               /\ InFlight(d, Symbols)' = InFlight(d, Symbols)
               /\ \A s \in Lines : line'[d][s] = line[d][s]
          /\ InFlight(b, Symbols)' = IF sym \in Symbols THEN InFlight(b, Symbols) \cup {r}
                                     ELSE InFlight(b, Symbols) \ {r}
          /\ line'[b][r].want = sym
      BY <1>0, <1>3, InFlightIs
    <2>2. CASE c = b
      BY <1>1, <1>4, <1>6, <2>1, <2>2
    <2>3. CASE c # b
      <3>1. \A s \in InFlight(c, Symbols) : s \in Lines
        BY DEF InFlight
      <3> QED BY <1>0, <1>1, <1>4, <1>6, <2>1, <2>3, <3>1 DEF Selecting
    <2> QED BY <2>2, <2>3
  <1>7. Selecting'
    BY <1>6 DEF Selecting
  <1>8. Reporting'
    BY <1>0, <1>1 DEF Reporting
  <1> QED BY <1>2, <1>5, <1>7, <1>8 DEF MarketInv

LEMMA ReadKeeps ==
  ASSUME SocketTyped, MarketInv, NEW b \in Browsers, NEW r \in Lines, Read(b, r),
         UNCHANGED briefingVars
  PROVE  SocketTyped' /\ MarketInv'
  <1>0. FeedTyped /\ Ticking /\ DeskTyped /\ Selecting /\ Reporting
    BY DEF MarketInv
  <1> DEFINE want == line[b][r].want
             got == line[b][r].got
             n == Len(got) + 1
  <1>1. /\ UNCHANGED <<yahoo, quotes, selected, grid, silences, report>>
        /\ UNCHANGED <<prompt, tick, ingest, stored, announced, price, socketVars>>
        /\ want \in Symbols \cup {QUOTES} /\ n <= Total(want)
    BY DEF Read, feedVars, briefingVars, Reads
  <1>2. SocketTyped' /\ FeedTyped' /\ Ticking'
    <2>1. price \in [Browsers -> 0 .. MaxTicks]
      BY <1>0 DEF FeedTyped
    <2> QED BY <1>0, <1>1, <2>1, FeedRests
  <1>3. line[b][r] = [want |-> want, got |-> got] /\ Got(want, got)
    BY <1>0, LineIs
  <1>4. PICK x \in IF want = QUOTES THEN Quotes(yahoo, SymbolOrder[n])
                   ELSE Trends(yahoo, want, TimeframeOrder[n]) :
          line' = [line EXCEPT ![b][r].got = Append(@, x)]
    BY DEF Read
  <1>5. Becomes(b, r, want, Append(got, x))
    <2>1. line' = [line EXCEPT ![b][r] = [line[b][r] EXCEPT !.got = Append(got, x)]]
      BY <1>4
    <2> DEFINE longer == Append(got, x)
    <2> HIDE DEF longer
    <2>2. [line[b][r] EXCEPT !.got = longer] = [want |-> want, got |-> longer]
      BY <1>3
    <2>3. line' = [line EXCEPT ![b][r] = [line[b][r] EXCEPT !.got = longer]]
      BY <2>1 DEF longer
    <2>4. Becomes(b, r, want, longer)
      BY <2>2, <2>3 DEF Becomes
    <2> QED BY <2>4 DEF longer
  <1>6. Got(want, Append(got, x))
    <2>1. CASE want = QUOTES
      <3>1. got \in Seq(SoundQuotes) /\ n <= Len(SymbolOrder) /\ Len(got) \in Nat
            /\ n \in 1 .. Len(SymbolOrder)
        BY <1>1, <1>3, <2>1, OrdersAre, LenProperties DEF Got, Total
      <3>2. x \in SoundQuotes
        <4>1. SymbolOrder[n] \in Symbols /\ yahoo \in Feeds \cup {DOWN}
          BY <1>0, <3>1, OrdersAre DEF DeskTyped
        <4> QED BY <1>4, <2>1, <4>1, QuotesAreSound
      <3>3. Append(got, x) \in Seq(SoundQuotes) /\ Len(Append(got, x)) = Len(got) + 1
        BY <3>1, <3>2, AppendProperties
      <3> QED BY <2>1, <3>1, <3>3, NamesDiffer DEF Got
    <2>2. CASE want \in Symbols
      <3>1. got \in Seq(Directions) /\ n <= Len(TimeframeOrder)
        BY <1>1, <1>3, <2>2, NamesDiffer DEF Got, Total
      <3>2. x \in Directions
        BY <1>4, <2>2, NamesDiffer, TrendsAre
      <3>3. Append(got, x) \in Seq(Directions) /\ Len(Append(got, x)) = Len(got) + 1
        BY <3>1, <3>2, AppendProperties
      <3> QED BY <2>2, <3>1, <3>3, NamesDiffer DEF Got
    <2> QED BY <1>1, <2>1, <2>2
  <1> HIDE DEF n, got
  <1>7. DeskTyped'
    BY <1>0, <1>1, <1>5, <1>6, BecomesTyped DEF DeskTyped
  <1>8. Selecting'
    BY <1>0, <1>1, <1>5, SelectingRests
  <1>9. Reporting'
    BY <1>0, <1>1 DEF Reporting
  <1> QED BY <1>2, <1>7, <1>8, <1>9 DEF MarketInv

LEMMA ArriveKeeps ==
  ASSUME SocketTyped, MarketInv, NEW b \in Browsers, NEW r \in Lines, Arrive(b, r),
         UNCHANGED briefingVars
  PROVE  SocketTyped' /\ MarketInv'
  <1>0. FeedTyped /\ Ticking /\ DeskTyped /\ Selecting /\ Reporting
    BY DEF MarketInv
  <1> DEFINE want == line[b][r].want
             got == line[b][r].got
  <1>1. /\ UNCHANGED <<yahoo, selected, silences, report>>
        /\ UNCHANGED <<prompt, tick, ingest, stored, announced, socketVars>>
        /\ want \in Symbols \cup {QUOTES} /\ Len(got) = Total(want)
        /\ Becomes(b, r, NONE, <<>>)
    BY DEF Arrive, briefingVars, Reads, Becomes, Idle
  <1>2. Got(want, got)
    BY <1>0, LineIs
  <1>3. Got(NONE, <<>>)
    BY NothingRead
  <1>4. Reporting'
    BY <1>0, <1>1 DEF Reporting
  <1>5. CASE want = QUOTES
    <2>1. /\ quotes' = [quotes EXCEPT ![b] = got] /\ price' = [price EXCEPT ![b] = 0]
          /\ grid' = grid
      BY <1>5 DEF Arrive
    <2>2. got \in Seq(SoundQuotes) /\ Len(got) = Cardinality(Symbols)
      BY <1>1, <1>2, <1>5, OrdersAre DEF Got, Total
    <2>3. price' \in [Browsers -> 0 .. MaxTicks] /\ \A c \in Browsers : price'[c] \in {0, price[c]}
      BY <1>0, <2>1, FeedAssumption DEF FeedTyped
    <2>4. SocketTyped' /\ FeedTyped' /\ Ticking'
      BY <1>0, <1>1, <2>3, FeedRests
    <2> HIDE DEF got
    <2>5. quotes' \in [Browsers -> Seq(SoundQuotes)]
          /\ \A c \in Browsers : Len(quotes'[c]) \in {0, Cardinality(Symbols)}
      BY <1>0, <2>1, <2>2 DEF DeskTyped
    <2>6. DeskTyped'
      BY <1>0, <1>1, <1>3, <2>1, <2>5, BecomesTyped DEF DeskTyped
    <2>7. Selecting'
      BY <1>0, <1>1, <1>5, <2>1, NamesDiffer, SelectingRests
    <2> QED BY <1>4, <2>4, <2>6, <2>7 DEF MarketInv
  <1>6. CASE want \in Symbols
    <2>1. /\ grid' = [grid EXCEPT ![b] = [of |-> want, trends |-> got]]
          /\ quotes' = quotes /\ price' = price
      BY <1>6, NamesDiffer DEF Arrive
    <2>2. got \in Seq(Directions) /\ Len(got) = Cardinality(Timeframes)
      BY <1>1, <1>2, <1>6, OrdersAre, NamesDiffer DEF Got, Total
    <2>3. SocketTyped' /\ FeedTyped' /\ Ticking'
      <3>1. price \in [Browsers -> 0 .. MaxTicks]
        BY <1>0 DEF FeedTyped
      <3> QED BY <1>0, <1>1, <2>1, <3>1, FeedRests
    <2> HIDE DEF got
    <2>4. /\ grid' \in [Browsers -> [of : Symbols \cup {NONE}, trends : Seq(Directions)]]
          /\ grid'[b].of = want /\ grid'[b].trends = got
          /\ \A c \in Browsers \ {b} : grid'[c] = grid[c]
      <3> DEFINE g == [of |-> want, trends |-> got]
      <3>1. g \in [of : Symbols \cup {NONE}, trends : Seq(Directions)] /\ g.of = want
            /\ g.trends = got
        BY <1>6, <2>2
      <3>2. grid \in [Browsers -> [of : Symbols \cup {NONE}, trends : Seq(Directions)]]
        BY <1>0 DEF DeskTyped
      <3>3. grid' = [grid EXCEPT ![b] = g]
        BY <2>1
      <3> HIDE DEF g
      <3> QED BY <3>1, <3>2, <3>3
    <2>5. \A c \in Browsers : Len(grid'[c].trends) =
            (IF grid'[c].of = NONE THEN 0 ELSE Cardinality(Timeframes))
      BY <1>0, <1>6, <2>2, <2>4, NamesDiffer DEF DeskTyped
    <2>6. DeskTyped'
      BY <1>0, <1>1, <1>3, <2>1, <2>4, <2>5, BecomesTyped DEF DeskTyped
    <2>7. /\ \A c \in Browsers \ {b} :
               /\ InFlight(c, Symbols)' = InFlight(c, Symbols)
               /\ \A s \in Lines : line'[c][s] = line[c][s]
          /\ InFlight(b, Symbols)' = InFlight(b, Symbols) \ {r}
      BY <1>0, <1>1, NamesDiffer, InFlightIs
    <2>8. ASSUME prompt', silences' = 0, NEW c \in Browsers
          PROVE  /\ \A s \in InFlight(c, Symbols)' :
                      line'[c][s].want = selected'[c] /\ InFlight(c, Symbols)' = {s}
                 /\ InFlight(c, Symbols)' = {} => grid'[c].of \in {NONE, selected'[c]}
      <3>1. CASE c = b
        <4>1. r \in InFlight(b, Symbols)
          BY <1>6 DEF InFlight
        <4>2. want = selected[b] /\ InFlight(b, Symbols) = {r}
          BY <1>0, <1>1, <2>8, <4>1 DEF Selecting
        <4> QED BY <1>1, <2>4, <2>7, <3>1, <4>2
      <3>2. CASE c # b
        <4>1. \A s \in InFlight(c, Symbols) : s \in Lines
          BY DEF InFlight
        <4>2. /\ \A s \in InFlight(c, Symbols) :
                   line[c][s].want = selected[c] /\ InFlight(c, Symbols) = {s}
              /\ InFlight(c, Symbols) = {} => grid[c].of \in {NONE, selected[c]}
          BY <1>0, <1>1, <2>8 DEF Selecting
        <4>3. InFlight(c, Symbols)' = InFlight(c, Symbols) /\ selected'[c] = selected[c]
              /\ grid'[c] = grid[c] /\ \A s \in Lines : line'[c][s] = line[c][s]
          BY <1>1, <2>4, <2>7, <3>2
        <4> QED BY <4>1, <4>2, <4>3
      <3> QED BY <3>1, <3>2
    <2>9. Selecting'
      BY <2>8 DEF Selecting
    <2> QED BY <1>4, <2>3, <2>6, <2>9 DEF MarketInv
  <1> QED BY <1>1, <1>5, <1>6

\* A request that fails takes a silence.
LEMMA SilenceKeeps ==
  ASSUME SocketTyped, FeedTyped, Ticking, DeskTyped, NEW b \in Browsers, NEW r \in Lines,
         Becomes(b, r, NONE, <<>>), silences' = silences + 1,
         UNCHANGED <<yahoo, moves, quotes, selected, grid, feedVars, socketVars>>
  PROVE  SocketTyped' /\ FeedTyped' /\ Ticking' /\ DeskTyped' /\ Selecting'
  <1>1. SocketTyped' /\ FeedTyped' /\ Ticking'
    <2>1. price \in [Browsers -> 0 .. MaxTicks]
          /\ UNCHANGED <<prompt, tick, ingest, stored, announced, price>>
      BY DEF FeedTyped, feedVars
    <2> QED BY <2>1, FeedRests
  <1>2. silences' \in Nat /\ silences' # 0
    BY DEF DeskTyped
  <1>3. DeskTyped'
    <2>1. Got(NONE, <<>>)
      BY NothingRead
    <2> QED BY <1>2, <2>1, BecomesTyped DEF DeskTyped
  <1>4. Selecting'
    BY <1>2 DEF Selecting
  <1> QED BY <1>1, <1>3, <1>4

LEMMA FailSilentlyKeeps ==
  ASSUME SocketTyped, MarketInv, NEW b \in Browsers, NEW r \in Lines, FailSilently(b, r),
         UNCHANGED briefingVars
  PROVE  SocketTyped' /\ MarketInv'
  <1>1. /\ Becomes(b, r, NONE, <<>>) /\ silences' = silences + 1 /\ report' = report
        /\ UNCHANGED <<yahoo, moves, quotes, selected, grid, feedVars, socketVars>>
    BY DEF FailSilently, Becomes, Idle, briefingVars
  <1>2. SocketTyped' /\ FeedTyped' /\ Ticking' /\ DeskTyped' /\ Selecting'
    BY <1>1, SilenceKeeps DEF MarketInv
  <1>3. Reporting'
    BY <1>1 DEF MarketInv, Reporting
  <1> QED BY <1>2, <1>3 DEF MarketInv

LEMMA DeskStep ==
  ASSUME SocketTyped, MarketInv, DeskNext, UNCHANGED briefingVars
  PROVE  SocketTyped' /\ MarketInv'
  BY MoveKeeps, AskQuotesKeeps, SelectKeeps, ReadKeeps, ArriveKeeps, FailSilentlyKeeps
  DEF DeskNext

-----------------------------------------------------------------------------
(* The briefing.                                                           *)

LEMMA ReportRests ==
  ASSUME Reporting, NEW b \in Browsers,
         report' = report \/ report' = [report EXCEPT ![b].text = <<>>]
  PROVE  Reporting'
  <1>1. report = [c \in Browsers |-> [text |-> report[c].text, levels |-> report[c].levels]]
    BY DEF Reporting
  <1>2. CASE report' = report
    BY <1>2 DEF Reporting
  <1>3. CASE report' = [report EXCEPT ![b].text = <<>>]
    <2>1. [report[b] EXCEPT !.text = <<>>] = [text |-> <<>>, levels |-> report[b].levels]
      BY <1>1
    <2>2. report' = [report EXCEPT ![b] = [text |-> <<>>, levels |-> report[b].levels]]
      BY <1>3, <2>1
    <2>3. report'[b].text = <<>> /\ \A c \in Browsers \ {b} : report'[c] = report[c]
      BY <1>1, <2>2
    <2>4. report' = [c \in Browsers |-> [text |-> report'[c].text, levels |-> report'[c].levels]]
      BY <1>1, <2>2
    <2>5. ASSUME NEW c \in Browsers
          PROVE  \/ report'[c].text = <<>>
                 \/ report'[c].text \in Texts /\ \E quoted \in BOOLEAN :
                      report'[c].levels =
                        [sym \in Covered |-> ShownLevels(report'[c].text, sym, quoted)]
      <3>1. CASE c = b
        BY <2>3, <3>1
      <3>2. CASE c # b
        <4>1. report'[c] = report[c]
          BY <2>3, <3>2
        <4>2. \/ report[c].text = <<>>
              \/ report[c].text \in Texts /\ \E quoted \in BOOLEAN :
                   report[c].levels =
                     [sym \in Covered |-> ShownLevels(report[c].text, sym, quoted)]
          BY DEF Reporting
        <4> QED BY <4>1, <4>2
      <3> QED BY <3>1, <3>2
    <2> QED BY <2>4, <2>5 DEF Reporting
  <1> QED BY <1>2, <1>3

LEMMA AskBriefingKeeps ==
  ASSUME SocketTyped, MarketInv, NEW b \in Browsers, AskBriefing(b)
  PROVE  SocketTyped' /\ MarketInv'
  <1>0. FeedTyped /\ Ticking /\ DeskTyped /\ Selecting /\ Reporting
    BY DEF MarketInv
  <1>1. /\ UNCHANGED <<yahoo, quotes, selected, grid, silences>>
        /\ UNCHANGED <<prompt, tick, ingest, stored, announced, price, socketVars>>
        /\ Request(b, BRIEFING) /\ report' = [report EXCEPT ![b].text = <<>>]
    BY DEF AskBriefing, feedVars
  <1>2. SocketTyped' /\ FeedTyped' /\ Ticking'
    <2>1. price \in [Browsers -> 0 .. MaxTicks]
      BY <1>0 DEF FeedTyped
    <2> QED BY <1>0, <1>1, <2>1, FeedRests
  <1>3. PICK r \in Lines : line[b][r] = Idle /\ Becomes(b, r, BRIEFING, <<>>)
    BY <1>0, <1>1, RequestIs
  <1>4. line[b][r].want = NONE
    BY <1>3 DEF Idle
  <1>5. DeskTyped'
    <2>1. Got(BRIEFING, <<>>)
      BY NothingRead
    <2> QED BY <1>0, <1>1, <1>3, <2>1, BecomesTyped DEF DeskTyped
  <1>6. Selecting'
    BY <1>0, <1>1, <1>3, <1>4, NamesDiffer, SelectingRests
  <1>7. Reporting'
    BY <1>0, <1>1, ReportRests
  <1> QED BY <1>2, <1>5, <1>6, <1>7 DEF MarketInv

LEMMA GenerateKeeps ==
  ASSUME SocketTyped, MarketInv, NEW b \in Browsers, NEW r \in Lines, Generate(b, r)
  PROVE  SocketTyped' /\ MarketInv'
  <1>0. FeedTyped /\ Ticking /\ DeskTyped /\ Selecting /\ Reporting
    BY DEF MarketInv
  <1>1. /\ UNCHANGED <<yahoo, quotes, selected, grid, silences, report>>
        /\ UNCHANGED <<prompt, tick, ingest, stored, announced, price, socketVars>>
        /\ line[b][r].want = BRIEFING
        /\ \E text_ \in Texts : line' = [line EXCEPT ![b][r].got = <<text_>>]
    BY DEF Generate, feedVars
  <1>2. SocketTyped' /\ FeedTyped' /\ Ticking'
    <2>1. price \in [Browsers -> 0 .. MaxTicks]
      BY <1>0 DEF FeedTyped
    <2> QED BY <1>0, <1>1, <2>1, FeedRests
  <1>3. PICK written \in Texts : line' = [line EXCEPT ![b][r].got = <<written>>]
    BY <1>1
  <1>4. Becomes(b, r, BRIEFING, <<written>>)
    <2>1. line[b][r] = [want |-> line[b][r].want, got |-> line[b][r].got]
      BY <1>0, LineIs
    <2>2. [line[b][r] EXCEPT !.got = <<written>>] = [want |-> BRIEFING, got |-> <<written>>]
      BY <1>1, <2>1
    <2> QED BY <1>3, <2>2 DEF Becomes
  <1>5. DeskTyped'
    <2>1. Got(BRIEFING, <<written>>)
      BY NamesDiffer DEF Got
    <2> QED BY <1>0, <1>1, <1>4, <2>1, BecomesTyped DEF DeskTyped
  <1>6. Selecting'
    BY <1>0, <1>1, <1>4, NamesDiffer, SelectingRests
  <1>7. Reporting'
    BY <1>0, <1>1, ReportRests
  <1> QED BY <1>2, <1>5, <1>6, <1>7 DEF MarketInv

LEMMA ShowBriefingKeeps ==
  ASSUME SocketTyped, MarketInv, NEW b \in Browsers, NEW r \in Lines, ShowBriefing(b, r)
  PROVE  SocketTyped' /\ MarketInv'
  <1>0. FeedTyped /\ Ticking /\ DeskTyped /\ Selecting /\ Reporting
    BY DEF MarketInv
  <1> DEFINE written == line[b][r].got[1]
             quoted == quotes[b] # <<>>
             levels == [sym \in Covered |-> ShownLevels(written, sym, quoted)]
  <1>1. /\ UNCHANGED <<yahoo, quotes, selected, grid, silences>>
        /\ UNCHANGED <<prompt, tick, ingest, stored, announced, price, socketVars>>
        /\ line[b][r].want = BRIEFING /\ line[b][r].got # <<>>
        /\ Becomes(b, r, NONE, <<>>)
        /\ report' = [report EXCEPT ![b] = [text |-> written, levels |-> levels]]
    BY DEF ShowBriefing, feedVars, Becomes, Idle
  <1>2. SocketTyped' /\ FeedTyped' /\ Ticking'
    <2>1. price \in [Browsers -> 0 .. MaxTicks]
      BY <1>0 DEF FeedTyped
    <2> QED BY <1>0, <1>1, <2>1, FeedRests
  <1>3. DeskTyped'
    <2>1. Got(NONE, <<>>)
      BY NothingRead
    <2> QED BY <1>0, <1>1, <2>1, BecomesTyped DEF DeskTyped
  <1>4. Selecting'
    BY <1>0, <1>1, NamesDiffer, SelectingRests
  <1>5. written \in Texts
    <2>1. Got(BRIEFING, line[b][r].got)
      BY <1>0, <1>1, LineIs
    <2>2. PICK w \in Texts : line[b][r].got = <<w>>
      BY <1>1, <2>1 DEF Got
    <2> QED BY <2>2
  <1>6. Reporting'
    <2>1. report = [c \in Browsers |-> [text |-> report[c].text, levels |-> report[c].levels]]
      BY <1>0 DEF Reporting
    <2>2. quoted \in BOOLEAN
      OBVIOUS
    <2>3. levels = [sym \in Covered |-> ShownLevels(written, sym, quoted)]
      OBVIOUS
    <2> HIDE DEF written, quoted, levels
    <2>4. /\ report'[b].text = written /\ report'[b].levels = levels
          /\ \A c \in Browsers \ {b} : report'[c] = report[c]
          /\ report' = [c \in Browsers |-> [text |-> report'[c].text, levels |-> report'[c].levels]]
      BY <1>1, <2>1
    <2>5. ASSUME NEW c \in Browsers
          PROVE  \/ report'[c].text = <<>>
                 \/ report'[c].text \in Texts /\ \E near \in BOOLEAN :
                      report'[c].levels =
                        [sym \in Covered |-> ShownLevels(report'[c].text, sym, near)]
      <3>1. CASE c = b
        <4>1. \E near \in BOOLEAN :
                report'[c].levels = [sym \in Covered |-> ShownLevels(report'[c].text, sym, near)]
          BY <2>2, <2>3, <2>4, <3>1
        <4> QED BY <1>5, <2>4, <3>1, <4>1
      <3>2. CASE c # b
        BY <1>0, <2>4, <3>2 DEF Reporting
      <3> QED BY <3>1, <3>2
    <2> QED BY <2>4, <2>5 DEF Reporting
  <1> QED BY <1>2, <1>3, <1>4, <1>6 DEF MarketInv

LEMMA RefuseBriefingKeeps ==
  ASSUME SocketTyped, MarketInv, NEW b \in Browsers, NEW r \in Lines, RefuseBriefing(b, r)
  PROVE  SocketTyped' /\ MarketInv'
  <1>1. /\ Becomes(b, r, NONE, <<>>) /\ silences' = silences + 1
        /\ report' = [report EXCEPT ![b].text = <<>>]
        /\ UNCHANGED <<yahoo, moves, quotes, selected, grid, feedVars, socketVars>>
    BY DEF RefuseBriefing, Becomes, Idle
  <1>2. SocketTyped' /\ FeedTyped' /\ Ticking' /\ DeskTyped' /\ Selecting'
    BY <1>1, SilenceKeeps DEF MarketInv
  <1>3. Reporting'
    BY <1>1, ReportRests DEF MarketInv
  <1> QED BY <1>2, <1>3 DEF MarketInv

LEMMA BriefingStep ==
  ASSUME SocketTyped, MarketInv, BriefingNext
  PROVE  SocketTyped' /\ MarketInv'
  BY AskBriefingKeeps, GenerateKeeps, ShowBriefingKeeps, RefuseBriefingKeeps DEF BriefingNext

-----------------------------------------------------------------------------
(* What the market page and the briefing promise.                          *)

\* The least of a single number.
LEMMA OnlyOne ==
  ASSUME NEW i \in Int
  PROVE  Min({i}) = i
  <1>1. \E x \in {i} : \A y \in {i} : x <= y
    OBVIOUS
  <1> QED BY <1>1 DEF Min

\* Of a text in which every asset has a section the section's levels are shown.
LEMMA SectionIsShown ==
  ASSUME NEW written, NEW sym, NEW quoted \in BOOLEAN, NEW i \in 1 .. Len(written),
         written[i].assets = {sym}, written[i].reach,
         NEW stands \in Kinds, ParseLevel(written[i][stands]) # "none",
         \A j \in 1 .. Len(written) : sym \in written[j].assets => j = i,
         NEW k \in Kinds, ShownLevels(written, sym, quoted)[k] # NoLevel
  PROVE  sym \in ShownLevels(written, sym, quoted)[k].of
  <1> DEFINE own == {j \in 1 .. Len(written) : sym \in written[j].assets /\ written[j].reach}
             section == <<written[i]>>
  <1>1. own = {i} /\ Min({i}) = i
    BY OnlyOne
  <1>2. OwnSection(written, sym) = section
    BY <1>1 DEF OwnSection, FirstOf
  <1>3. Len(section) = 1 /\ section[1] = written[i] /\ 1 .. Len(section) = {1}
    OBVIOUS
  <1> HIDE DEF section
  <1>4. ASSUME NEW kind \in Kinds
        PROVE  LevelIn(section, kind) =
                 IF ParseLevel(written[i][kind]) # "none"
                 THEN [of |-> {sym}, as |-> ParseLevel(written[i][kind])] ELSE NoLevel
    <2> DEFINE found == {j \in 1 .. Len(section) : ParseLevel(section[j][kind]) # "none"}
    <2>1. CASE ParseLevel(written[i][kind]) # "none"
      <3>1. found = {1} /\ Min({1}) = 1
        BY <1>3, <2>1, OnlyOne
      <3> QED BY <1>3, <2>1, <3>1 DEF LevelIn
    <2>2. CASE ParseLevel(written[i][kind]) = "none"
      <3>1. found = {}
        BY <1>3, <2>2
      <3> QED BY <2>2, <3>1 DEF LevelIn
    <2> QED BY <2>1, <2>2
  <1>5. \A kind \in Kinds : KeyLevels(written, sym)[kind] = LevelIn(section, kind)
    BY <1>2 DEF KeyLevels
  <1>6. KeyLevels(written, sym)[stands] # NoLevel
    BY <1>4, <1>5 DEF NoLevel
  <1>7. ShownLevels(written, sym, quoted) = KeyLevels(written, sym)
    BY <1>6 DEF ShownLevels
  <1>8. KeyLevels(written, sym)[k] = [of |-> {sym}, as |-> ParseLevel(written[i][k])]
    BY <1>4, <1>5, <1>7
  <1> QED BY <1>7, <1>8

(* Prices are sound: they go forward on the screens as the bridge sends them, and *)
(* what is shown can be dealt at (post_ingest, get_quotes, updateOrderPanel).     *)
LEMMA MarketIsSound ==
  ASSUME SocketTyped, MarketInv
  PROVE  PricesAreSound
  <1>1. ASSUME prompt
        PROVE  /\ announced <= stored
               /\ \A b \in Browsers : page = "market" =>
                    \A i \in 1 .. Len(inbox[b]) :
                      /\ price[b] <= inbox[b][i].n
                      /\ \A j \in 1 .. i : inbox[b][j].n <= inbox[b][i].n
    BY <1>1 DEF MarketInv, Ticking
  <1>2. ASSUME NEW b \in Browsers, NEW i \in 1 .. Len(quotes[b])
        PROVE  CanDeal(quotes[b][i], 0)
    <2>1. quotes[b] \in Seq(SoundQuotes)
      BY DEF MarketInv, DeskTyped
    <2>2. quotes[b][i] \in SoundQuotes
      BY <2>1, ElementOfSeq
    <2>3. /\ quotes[b][i].bid \in Int /\ quotes[b][i].price \in Int /\ quotes[b][i].ask \in Int
          /\ IsSound(quotes[b][i])
      BY <2>2 DEF SoundQuotes
    <2> QED BY <2>3 DEF IsSound, CanDeal
  <1>3. ASSUME NEW b \in Browsers, NEW box \in Boxed(b)
        PROVE  CanDeal(box, box.slack)
    BY BoxedAreSound, OrdersAre DEF MarketInv
  <1> QED BY <1>1, <1>2, <1>3 DEF PricesAreSound

\* Trends and levels are those of the asset they stand under.
LEMMA MarketIsOwn ==
  ASSUME SocketTyped, MarketInv
  PROVE  ShownIsOwn
  <1>1. ASSUME NEW b \in Browsers, prompt, silences = 0, InFlight(b, Symbols) = {},
               grid[b].of # NONE
        PROVE  grid[b].of = selected[b]
    BY <1>1 DEF MarketInv, Selecting
  <1>2. ASSUME NEW b \in Browsers,
               \A sym \in Covered :
                 \E i \in 1 .. Len(report[b].text) :
                   /\ report[b].text[i].assets = {sym} /\ report[b].text[i].reach
                   /\ \E k \in Kinds : ParseLevel(report[b].text[i][k]) # "none"
                   /\ \A j \in 1 .. Len(report[b].text) : sym \in report[b].text[j].assets => j = i,
               NEW sym \in Covered, NEW k \in Kinds, report[b].levels[sym][k] # NoLevel
        PROVE  sym \in report[b].levels[sym][k].of
    <2> DEFINE written == report[b].text
    <2>1. PICK i \in 1 .. Len(written) :
            /\ written[i].assets = {sym} /\ written[i].reach
            /\ \E kind \in Kinds : ParseLevel(written[i][kind]) # "none"
            /\ \A j \in 1 .. Len(written) : sym \in written[j].assets => j = i
      BY <1>2
    <2>2. PICK stands \in Kinds : ParseLevel(written[i][stands]) # "none"
      BY <2>1
    <2>3. written # <<>>
      <3>1. Len(<<>>) = 0
        BY EmptySeq
      <3> QED BY <3>1
    <2>4. PICK quoted \in BOOLEAN :
            report[b].levels = [s \in Covered |-> ShownLevels(written, s, quoted)]
      BY <2>3 DEF MarketInv, Reporting
    <2>5. report[b].levels[sym] = ShownLevels(written, sym, quoted)
      BY <2>4
    <2>6. ShownLevels(written, sym, quoted)[k] # NoLevel
      BY <1>2, <2>5
    <2> HIDE DEF written
    <2>7. sym \in ShownLevels(written, sym, quoted)[k].of
      BY <2>1, <2>2, <2>6, SectionIsShown
    <2> QED BY <2>5, <2>7
  <1> QED BY <1>1, <1>2 DEF ShownIsOwn

\* On the other pages nothing of this changes.
LEMMA MarketElsewhere ==
  ASSUME SocketTyped, SocketTyped', MarketInv, page' = page, UNCHANGED marketVars,
         page = "market" =>
           \A b \in Browsers : inbox'[b] = inbox[b] \/ Len(inbox'[b]) = 0
  PROVE  MarketInv'
  <1>1. UNCHANGED <<feedVars, deskVars, briefingVars>>
    BY DEF marketVars
  <1>2. FeedTyped' /\ Ticking'
    <2>1. CASE page = "market"
      BY <1>1, <2>1, MessagesKeepTicking DEF MarketInv
    <2>2. CASE page # "market"
      BY <1>1, <2>2 DEF MarketInv, FeedTyped, Ticking, feedVars
    <2> QED BY <2>1, <2>2
  <1>3. DeskTyped'
    BY <1>1 DEF MarketInv, DeskTyped, deskVars
  <1>4. Selecting'
    BY <1>1 DEF MarketInv, Selecting, InFlight, deskVars, feedVars
  <1>5. Reporting'
    BY <1>1 DEF MarketInv, Reporting, briefingVars
  <1> QED BY <1>2, <1>3, <1>4, <1>5 DEF MarketInv

LEMMA MarketStarts ==
  ASSUME Init
  PROVE  MarketInv
  <1>1. FeedTyped /\ Ticking
    <2>1. \A b \in Browsers : Len(inbox[b]) = 0
      BY EmptySeq DEF Init, SocketInit
    <2> QED BY <2>1, FeedAssumption DEF Init, FeedInit, FeedTyped, Ticking, Ticks
  <1>2. DeskTyped
    <2>1. <<>> \in Seq(SoundQuotes) /\ <<>> \in Seq(Directions) /\ Len(<<>>) = 0
      BY EmptySeq
    <2>2. Got(NONE, <<>>)
      BY NothingRead
    <2>3. LineTyped(Idle)
      BY <2>2 DEF LineTyped, Idle
    <2> QED BY <2>1, <2>3, DeskAssumption DEF Init, DeskInit, DeskTyped
  <1>3. Selecting
    BY NamesDiffer DEF Init, DeskInit, Selecting, InFlight, Idle
  <1>4. Reporting
    BY DEF Init, BriefingInit, Reporting, NoReport
  <1> QED BY <1>1, <1>2, <1>3, <1>4 DEF MarketInv

-----------------------------------------------------------------------------
(* What the parser makes of an answer, and what is left of it on a page.   *)

LEMMA ParseIs ==
  ASSUME NEW f, f.score \in Nat, f.justified \in BOOLEAN
  PROVE  Parse(f) \in Parsed
  <1>1. ParseConfidence(f) \in 0 .. 100
    <2>1. ParseConfidence(f) \in {0, 100} \/ (f.score <= 100 /\ ParseConfidence(f) = f.score)
      BY DEF ParseConfidence
    <2> QED BY <2>1
  <1>2. \A n \in 0 .. 100 :
          Label(n) \in {"MUITO_ALTA", "ALTA", "MODERADA", "BAIXA", "MUITO_BAIXA"}
    BY DEF Label
  <1>3. \A words :
          /\ ParseTrend(words) \in [direction : {"BULLISH", "BEARISH", "LATERAL"},
                                    strength : {"FORTE", "MODERADA", "FRACA"}]
          /\ ParseSuggestion(words) \in {"OPERAR", "AGUARDAR", "NAO_OPERAR", "REVISAR_CONTEXTO"}
    BY DEF ParseTrend, ParseSuggestion
  <1> QED BY <1>1, <1>2, <1>3 DEF Parse, Parsed

LEMMA OutputIs ==
  ASSUME NEW p \in Parsed
  PROVE  /\ ToOutput(p).trend = p.trend.direction
         /\ ToOutput(p).suggestion = p.suggestion
         /\ ToOutput(p).score = p.score
         /\ ToOutput(p).reasoning = p.reasoning
         /\ ToOutput(p).risks = p.risks
  <1>1. p.suggestion # "NULL"
    BY DEF Parsed
  <1>2. p.score \in 0 .. 100
    BY DEF Parsed
  <1>3. p.score # -1
    BY <1>2
  <1> QED BY <1>1, <1>3 DEF ToOutput

\* Nothing of it is lost in the row.
LEMMA RowKeeps ==
  ASSUME NEW p \in Parsed
  PROVE  ToDomain(ToRow(p)) = p
  <1> DEFINE risks == IF p.risks THEN "their JSON" ELSE "NULL"
             row_ == [p EXCEPT !.risks = risks]
  <1>1. p = [trend |-> p.trend, suggestion |-> p.suggestion,
             score |-> p.score, label |-> p.label, justification |-> p.justification,
             reasoning |-> p.reasoning, risks |-> p.risks]
        /\ p.risks \in BOOLEAN /\ p.justification # ""
    BY DEF Parsed
  <1>2. ToRow(p) = row_
    BY DEF ToRow
  <1>3. (risks # "NULL") = p.risks
    BY <1>1
  <1> HIDE DEF risks
  <1>4. row_.justification = p.justification /\ row_.risks = risks
        /\ [row_ EXCEPT !.risks = (risks # "NULL")] = [p EXCEPT !.risks = (risks # "NULL")]
    BY <1>1
  <1>5. [row_ EXCEPT !.risks = (row_.risks # "NULL")] = p
    BY <1>1, <1>3, <1>4
  <1> HIDE DEF row_
  <1>6. ToDomain(row_) = p
    BY <1>1, <1>4, <1>5 DEF ToDomain
  <1> QED BY <1>2, <1>6

LEMMA RenderIs ==
  ASSUME NEW old, NEW a \in Analyses, parsed[a] \in Parsed, analysis[a] \notin {"none", "asked"}
  PROVE  Renders(Render(old, a, ToOutput(parsed[a])))
  BY OutputIs DEF Renders, Render

-----------------------------------------------------------------------------
(* Steps of the trades and the analysis page.                              *)

LEMMA FetchIs ==
  ASSUME PagesTyped, Fetching, NEW b \in Browsers, NEW r \in Requests, NEW f \in Fetches,
         fetch' = [fetch EXCEPT ![b][r] = f], analysis' = analysis, FetchIsRight(f)
  PROVE  fetch' \in [Browsers -> [Requests -> Fetches]] /\ Fetching'
  <1>1. fetch' \in [Browsers -> [Requests -> Fetches]]
        /\ \A c \in Browsers, s \in Requests :
             fetch'[c][s] = IF c = b /\ s = r THEN f ELSE fetch[c][s]
    BY DEF PagesTyped
  <1>2. ASSUME NEW c \in Browsers, NEW s \in Requests
        PROVE  FetchIsRight(fetch[c][s])' = FetchIsRight(fetch'[c][s])
    BY DEF FetchIsRight
  <1> QED BY <1>1 DEF Fetching, FetchIsRight

\* A request may be sent for the trades or for an analysis.
LEMMA GetKeeps ==
  ASSUME PagesTyped, Fetching, NEW b \in Browsers, NEW want \in Analyses \cup {"trades"},
         Get(b, want), analysis' = analysis
  PROVE  fetch' \in [Browsers -> [Requests -> Fetches]] /\ Fetching'
  <1>1. PICK r \in Requests :
          fetch' = [fetch EXCEPT ![b][r] = [Free EXCEPT !.step = "asked", !.want = want]]
    BY DEF Get
  <1> DEFINE f == [step |-> "asked", want |-> want, got |-> {}]
  <1>2. [Free EXCEPT !.step = "asked", !.want = want] = f
    <2>1. [Free EXCEPT !.step = "asked"] = [step |-> "asked", want |-> NONE, got |-> {}]
      BY DEF Free
    <2>2. [[step |-> "asked", want |-> NONE, got |-> {}] EXCEPT !.want = want] = f
      OBVIOUS
    <2> QED BY <2>1, <2>2
  <1>3. f \in Fetches /\ FetchIsRight(f)
    BY PagesAssumption DEF Fetches, FetchIsRight
  <1>4. fetch' = [fetch EXCEPT ![b][r] = f]
    BY <1>1, <1>2
  <1> HIDE DEF f
  <1> QED BY <1>3, <1>4, FetchIs

\* Messages on their way are those that were, or told of a trade or an analysis.
LEMMA NoticingKept ==
  ASSUME SocketTyped, Noticing, page' = page,
         NEW e \in Message, OfPages(e), \A b \in Browsers : Longer(b, e)
  PROVE  Noticing'
  <1>1. ASSUME page \in {"trades", "analysis"}, NEW b \in Browsers, NEW i \in 1 .. Len(inbox'[b])
        PROVE  OfPages(inbox'[b][i])
    <2>1. Len(inbox[b]) \in Nat
      BY InboxIs
    <2>2. i \in 1 .. Len(inbox[b]) \/ i \in Len(inbox[b]) + 1 .. Len(inbox'[b])
      BY <2>1
    <2>3. CASE i \in 1 .. Len(inbox[b])
      BY <1>1, <2>3 DEF Longer, Noticing
    <2>4. CASE i \in Len(inbox[b]) + 1 .. Len(inbox'[b])
      BY <2>4 DEF Longer
    <2> QED BY <2>2, <2>3, <2>4
  <1> QED BY <1>1 DEF Noticing, OfPages

LEMMA NoticingTaken ==
  ASSUME SocketTyped, Noticing, NEW b \in Browsers, Take(b), page \in {"trades", "analysis"}
  PROVE  Noticing' /\ OfPages(Head(inbox[b]))
  <1>1. ASSUME NEW c \in Browsers, NEW i \in 1 .. Len(inbox'[c]) PROVE OfPages(inbox'[c][i])
    <2>1. PICK j \in 1 .. Len(inbox[c]) : inbox'[c][i] = inbox[c][j]
      BY TakeKeeps
    <2> QED BY <2>1 DEF Noticing
  <1>2. page' = page /\ Head(inbox[b]) = inbox[b][1] /\ 1 \in 1 .. Len(inbox[b])
    BY TakeIs
  <1> QED BY <1>1, <1>2 DEF Noticing, OfPages

LEMMA AnnounceChangeKeeps ==
  ASSUME SocketTyped, PagesInv, NEW c \in Changes, AnnounceChange(c) \/ EndChange(c)
  PROVE  SocketTyped' /\ PagesInv'
  <1>1. UNCHANGED <<answer, parsed, running, analysis, fetch, list, screen>>
    BY DEF AnnounceChange, EndChange
  <1>2. SocketTyped' /\ Noticing'
    <2>1. CASE AnnounceChange(c)
      <3> DEFINE e == Event("trade.closed", NONE, 0)
      <3>1. e \in Message /\ OfPages(e)
        BY EventIs DEF Events, OfPages
      <3>2. Announce(e)
        BY <2>1 DEF AnnounceChange
      <3> HIDE DEF e
      <3> QED BY <3>1, <3>2, AnnounceIs, NoticingKept DEF PagesInv
    <2>2. CASE EndChange(c)
      BY <2>2 DEF EndChange, socketVars, SocketTyped, PagesInv, Noticing
    <2> QED BY <2>1, <2>2
  <1>3. PagesTyped' /\ Parsing' /\ Fetching' /\ Rendering'
    BY <1>1 DEF PagesInv, PagesTyped, Parsing, Fetching, FetchIsRight, Rendering, Renders
  <1> QED BY <1>2, <1>3 DEF PagesInv

\* The screens and the requests outlive a step of an analysis that is neither shown
\* nor read yet, or that is parsed.
LEMMA AnalysisKeeps ==
  ASSUME PagesInv, NEW a \in Analyses,
         NEW step \in {"asked", "announced", "committed", "failed"},
         analysis' = [analysis EXCEPT ![a] = step],
         analysis[a] # "committed", step = "asked" => analysis[a] = "none",
         \A other \in Analyses \ {a} : parsed'[other] = parsed[other],
         parsed'[a] = parsed[a] \/ analysis[a] = "asked",
         step \in {"announced", "committed"} => parsed'[a] \in Parsed,
         UNCHANGED <<fetch, screen>>
  PROVE  /\ analysis' \in [Analyses -> {"none", "asked", "announced", "committed", "failed"}]
         /\ Parsing' /\ Fetching' /\ Rendering'
  <1>1. /\ analysis' \in [Analyses -> {"none", "asked", "announced", "committed", "failed"}]
        /\ analysis'[a] = step /\ \A other \in Analyses \ {a} : analysis'[other] = analysis[other]
    BY DEF PagesInv, PagesTyped
  <1>2. Parsing'
    BY <1>1 DEF PagesInv, Parsing
  <1>3. Fetching'
    <2>1. ASSUME NEW b \in Browsers, NEW r \in Requests PROVE FetchIsRight(fetch[b][r])'
      <3>1. fetch[b][r].want \in Analyses \cup {"trades", NONE} /\ FetchIsRight(fetch[b][r])
        BY DEF PagesInv, PagesTyped, Fetching, Fetches
      <3> QED BY <1>1, <3>1 DEF FetchIsRight
    <2> QED BY <2>1 DEF Fetching
  <1>4. Rendering'
    <2>1. ASSUME NEW b \in Browsers, screen[b] # Blank PROVE Renders(screen[b])'
      <3>1. Renders(screen[b])
        BY <2>1 DEF PagesInv, Rendering
      <3> DEFINE s == screen[b]
      <3>2. s.id \in Analyses /\ analysis'[s.id] \notin {"none", "asked"}
            /\ parsed'[s.id] = parsed[s.id]
        BY <1>1, <3>1 DEF Renders
      <3> QED BY <3>1, <3>2 DEF Renders
    <2> QED BY <2>1 DEF Rendering
  <1> QED BY <1>1, <1>2, <1>3, <1>4

LEMMA RunAnalysisKeeps ==
  ASSUME SocketTyped, PagesInv, NEW a \in Analyses, RunAnalysis(a)
  PROVE  SocketTyped' /\ PagesInv'
  <1>1. /\ analysis[a] = "none" /\ analysis' = [analysis EXCEPT ![a] = "asked"]
        /\ running' = running \cup {a}
        /\ UNCHANGED <<answer, parsed, fetch, list, screen>> /\ UNCHANGED socketVars
    BY DEF RunAnalysis
  <1>2. /\ analysis' \in [Analyses -> {"none", "asked", "announced", "committed", "failed"}]
        /\ Parsing' /\ Fetching' /\ Rendering'
    BY <1>1, AnalysisKeeps
  <1> QED BY <1>1, <1>2 DEF PagesInv, PagesTyped, Noticing, SocketTyped, socketVars

LEMMA AnnounceAnalysisKeeps ==
  ASSUME SocketTyped, PagesInv, NEW a \in Analyses, AnnounceAnalysis(a)
  PROVE  SocketTyped' /\ PagesInv'
  <1> DEFINE e == Event("analysis.completed", a, 0)
             p == Parse(answer[a])
  <1>1. /\ analysis[a] = "asked" /\ analysis' = [analysis EXCEPT ![a] = "announced"]
        /\ parsed' = [parsed EXCEPT ![a] = p] /\ Announce(e)
        /\ UNCHANGED <<answer, running, fetch, list, screen>>
    BY DEF AnnounceAnalysis
  <1>2. e \in Message /\ OfPages(e)
    BY EventIs DEF Events, OfPages
  <1>3. p \in Parsed
    <2>1. answer \in Answers
      BY DEF PagesInv, PagesTyped
    <2> QED BY <2>1, PagesAssumption, ParseIs
  <1> HIDE DEF e, p
  <1>4. SocketTyped' /\ Noticing'
    BY <1>1, <1>2, AnnounceIs, NoticingKept DEF PagesInv
  <1>5. /\ parsed' \in [Analyses -> {NONE} \cup Parsed] /\ parsed'[a] = p
        /\ \A other \in Analyses \ {a} : parsed'[other] = parsed[other]
    BY <1>1, <1>3 DEF PagesInv, PagesTyped
  <1>6. /\ analysis' \in [Analyses -> {"none", "asked", "announced", "committed", "failed"}]
        /\ Parsing' /\ Fetching' /\ Rendering'
    BY <1>1, <1>3, <1>5, AnalysisKeeps
  <1>7. PagesTyped'
    BY <1>1, <1>5, <1>6 DEF PagesInv, PagesTyped
  <1> QED BY <1>4, <1>6, <1>7 DEF PagesInv

LEMMA EndAnalysisKeeps ==
  ASSUME SocketTyped, PagesInv, NEW a \in Analyses, EndAnalysis(a)
  PROVE  SocketTyped' /\ PagesInv'
  <1>1. UNCHANGED <<answer, parsed, running, fetch, list, screen>> /\ UNCHANGED socketVars
    BY DEF EndAnalysis
  <1>2. PICK step \in {"committed", "failed"} :
          /\ analysis' = [analysis EXCEPT ![a] = step]
          /\ analysis[a] \in {"asked", "announced"}
          /\ step = "committed" => analysis[a] = "announced"
    BY DEF EndAnalysis
  <1>3. step = "committed" => parsed[a] \in Parsed
    BY <1>2 DEF PagesInv, Parsing
  <1>4. /\ analysis' \in [Analyses -> {"none", "asked", "announced", "committed", "failed"}]
        /\ Parsing' /\ Fetching' /\ Rendering'
    BY <1>1, <1>2, <1>3, AnalysisKeeps
  <1> QED BY <1>1, <1>4 DEF PagesInv, PagesTyped, Noticing, SocketTyped, socketVars

\* What is shown on one screen changes.
LEMMA RenderingKept ==
  ASSUME PagesInv, NEW b \in Browsers, NEW s, screen' = [screen EXCEPT ![b] = s], Renders(s),
         analysis' = analysis, parsed' = parsed
  PROVE  screen' = [c \in Browsers |-> screen'[c]] /\ Rendering'
  <1>1. screen = [c \in Browsers |-> screen[c]]
    BY DEF PagesInv, PagesTyped
  <1>2. screen' = [c \in Browsers |-> screen'[c]] /\ screen'[b] = s
        /\ \A c \in Browsers \ {b} : screen'[c] = screen[c]
    BY <1>1
  <1>3. ASSUME NEW c \in Browsers PROVE screen'[c] = Blank \/ Renders(screen[c])'
    <2>1. CASE c = b
      BY <1>2, <2>1 DEF Renders
    <2>2. CASE c # b
      <3>1. screen[c] = Blank \/ Renders(screen[c])
        BY DEF PagesInv, Rendering
      <3> QED BY <1>2, <2>2, <3>1 DEF Renders
    <2> QED BY <2>1, <2>2
  <1> QED BY <1>2, <1>3 DEF Rendering

LEMMA RenderedKeeps ==
  ASSUME SocketTyped, PagesInv, NEW a \in Analyses, Rendered(a)
  PROVE  SocketTyped' /\ PagesInv'
  <1>1. /\ running' = running \ {a}
        /\ UNCHANGED <<answer, parsed, analysis, fetch, list>> /\ UNCHANGED socketVars
    BY DEF Rendered
  <1>2. screen' = [c \in Browsers |-> screen'[c]] /\ Rendering'
    <2>1. CASE UNCHANGED screen
      BY <1>1, <2>1 DEF PagesInv, PagesTyped, Rendering, Renders
    <2>2. CASE ~ UNCHANGED screen
      <3> DEFINE b == Runner[a]
                 s == Render(screen[b], a, ToOutput(parsed[a]))
      <3>1. analysis[a] \in {"announced", "committed"} /\ screen' = [screen EXCEPT ![b] = s]
        BY <2>2 DEF Rendered
      <3>2. b \in Browsers
        BY PagesAssumption
      <3>3. Renders(s)
        BY <3>1, RenderIs DEF PagesInv, Parsing
      <3> HIDE DEF s
      <3> QED BY <1>1, <3>1, <3>2, <3>3, RenderingKept
    <2> QED BY <2>1, <2>2
  <1>3. PagesTyped' /\ Parsing' /\ Fetching' /\ Noticing' /\ SocketTyped'
    BY <1>1, <1>2 DEF PagesInv, PagesTyped, Parsing, Fetching, FetchIsRight, Noticing,
                      SocketTyped, socketVars
  <1> QED BY <1>2, <1>3 DEF PagesInv

LEMMA NoticeKeeps ==
  ASSUME SocketTyped, PagesInv, NEW b \in Browsers, Notice(b)
  PROVE  SocketTyped' /\ PagesInv'
  <1> DEFINE e == Head(inbox[b])
             want == IF e.event = "analysis.completed" THEN e.of ELSE "trades"
  <1>1. /\ page \in {"trades", "analysis"} /\ Take(b) /\ Get(b, want)
        /\ UNCHANGED <<answer, parsed, running, analysis, list, screen>>
    BY DEF Notice
  <1>2. SocketTyped' /\ Noticing' /\ OfPages(e)
    BY <1>1, TakeIs, NoticingTaken DEF PagesInv
  <1>3. want \in Analyses \cup {"trades"}
    BY <1>2 DEF OfPages
  <1> HIDE DEF want
  <1>4. fetch' \in [Browsers -> [Requests -> Fetches]] /\ Fetching'
    BY <1>1, <1>3, GetKeeps DEF PagesInv
  <1> QED BY <1>1, <1>2, <1>4 DEF PagesInv, PagesTyped, Parsing, Rendering, Renders

LEMMA PollKeeps ==
  ASSUME SocketTyped, PagesInv, NEW b \in Browsers, Poll(b)
  PROVE  SocketTyped' /\ PagesInv'
  <1>1. UNCHANGED <<answer, parsed, running, analysis, list, screen>> /\ UNCHANGED socketVars
    BY DEF Poll
  <1>2. PICK want \in Analyses \cup {"trades"} : Get(b, want)
    <2>1. CASE Get(b, "trades")
      BY <2>1
    <2>2. CASE screen[b].id # NONE /\ Get(b, screen[b].id)
      <3>1. screen[b] # Blank
        <4>1. Blank.id = NONE
          BY DEF Blank
        <4> QED BY <2>2, <4>1
      <3>2. screen[b].id \in Analyses
        BY <3>1 DEF PagesInv, Rendering, Renders
      <3> QED BY <2>2, <3>2
    <2> QED BY <2>1, <2>2 DEF Poll
  <1>3. fetch' \in [Browsers -> [Requests -> Fetches]] /\ Fetching'
    BY <1>1, <1>2, GetKeeps DEF PagesInv
  <1>4. PagesTyped' /\ Parsing' /\ Rendering' /\ Noticing' /\ SocketTyped'
    BY <1>1, <1>3 DEF PagesInv, PagesTyped, Parsing, Rendering, Renders, Noticing, SocketTyped,
                      socketVars
  <1> QED BY <1>3, <1>4 DEF PagesInv

LEMMA ServeKeeps ==
  ASSUME SocketTyped, PagesInv, NEW b \in Browsers, NEW r \in Requests, Serve(b, r)
  PROVE  SocketTyped' /\ PagesInv'
  <1> DEFINE f == fetch[b][r]
  <1>1. /\ f.step = "asked"
        /\ UNCHANGED <<answer, parsed, running, analysis, list, screen>> /\ UNCHANGED socketVars
    BY DEF Serve
  <1>2. f \in Fetches /\ FetchIsRight(f)
    BY DEF PagesInv, PagesTyped, Fetching
  <1>3. f.want \in Analyses \cup {"trades"}
    BY <1>1, <1>2 DEF Fetches, FetchIsRight
  <1>4. PICK g \in Fetches : fetch' = [fetch EXCEPT ![b][r] = g] /\ FetchIsRight(g)
    <2>1. CASE fetch' = [fetch EXCEPT ![b][r].step = "failed"]
      <3> DEFINE g == [f EXCEPT !.step = "failed"]
      <3>1. g \in Fetches /\ FetchIsRight(g)
        BY <1>2, <1>3, PagesAssumption DEF Fetches, FetchIsRight
      <3> QED BY <2>1, <3>1
    <2>2. CASE fetch' = [fetch EXCEPT ![b][r] = Answered(@)]
      <3>1. Answered(f) \in Fetches /\ FetchIsRight(Answered(f))
        <4>1. Committed \subseteq Changes
          BY DEF Committed
        <4> QED BY <1>2, <1>3, <4>1, PagesAssumption DEF Fetches, FetchIsRight, Answered
      <3> QED BY <2>2, <3>1
    <2> QED BY <2>1, <2>2 DEF Serve
  <1>5. fetch' \in [Browsers -> [Requests -> Fetches]] /\ Fetching'
    BY <1>1, <1>4, FetchIs DEF PagesInv
  <1>6. PagesTyped' /\ Parsing' /\ Rendering' /\ Noticing' /\ SocketTyped'
    BY <1>1, <1>5 DEF PagesInv, PagesTyped, Parsing, Rendering, Renders, Noticing, SocketTyped,
                      socketVars
  <1> QED BY <1>5, <1>6 DEF PagesInv

LEMMA ShowKeeps ==
  ASSUME SocketTyped, PagesInv, NEW b \in Browsers, NEW r \in Requests, Show(b, r)
  PROVE  SocketTyped' /\ PagesInv'
  <1> DEFINE f == fetch[b][r]
             shown == f.want # "trades" /\ f.step = "answered"
             p == parsed[f.want]
             s == Render(screen[b], f.want, ToOutput(ToDomain(ToRow(p))))
  <1>1. /\ fetch' = [fetch EXCEPT ![b][r] = Free]
        /\ list' = IF f.want # "trades" THEN list
                   ELSE [list EXCEPT ![b] = IF f.step = "answered" THEN f.got ELSE ERROR]
        /\ screen' = IF shown THEN [screen EXCEPT ![b] = s] ELSE screen
        /\ UNCHANGED <<answer, parsed, running, analysis>> /\ UNCHANGED socketVars
    BY DEF Show
  <1>2. f \in Fetches /\ FetchIsRight(f)
    BY DEF PagesInv, PagesTyped, Fetching
  <1>3. Free \in Fetches /\ FetchIsRight(Free)
    BY DEF Fetches, Free, FetchIsRight
  <1>4. fetch' \in [Browsers -> [Requests -> Fetches]] /\ Fetching'
    BY <1>1, <1>3, FetchIs DEF PagesInv
  <1>5. list' \in [Browsers -> (SUBSET Changes) \cup {ERROR}]
    <2>1. f.got \in SUBSET Changes
      BY <1>2 DEF Fetches
    <2>2. list \in [Browsers -> (SUBSET Changes) \cup {ERROR}]
      BY DEF PagesInv, PagesTyped
    <2> QED BY <1>1, <2>1, <2>2
  <1>6. screen' = [c \in Browsers |-> screen'[c]] /\ Rendering'
    <2>1. CASE shown
      <3>1. f.want \in Analyses /\ analysis[f.want] = "committed"
        BY <1>2, <2>1 DEF Fetches, FetchIsRight
      <3>2. p \in Parsed
        BY <3>1 DEF PagesInv, Parsing
      <3>3. Renders(s)
        BY <3>1, <3>2, RowKeeps, RenderIs
      <3> HIDE DEF s
      <3> QED BY <1>1, <2>1, <3>3, RenderingKept
    <2>2. CASE ~shown
      BY <1>1, <2>2 DEF PagesInv, PagesTyped, Rendering, Renders
    <2> QED BY <2>1, <2>2
  <1>7. PagesTyped' /\ Parsing' /\ Noticing' /\ SocketTyped'
    BY <1>1, <1>4, <1>5, <1>6 DEF PagesInv, PagesTyped, Parsing, Noticing, SocketTyped,
                                  socketVars
  <1> QED BY <1>4, <1>6, <1>7 DEF PagesInv

LEMMA PagesStep ==
  ASSUME SocketTyped, PagesInv, PagesNext
  PROVE  SocketTyped' /\ PagesInv'
  BY AnnounceChangeKeeps, RunAnalysisKeeps, AnnounceAnalysisKeeps, EndAnalysisKeeps,
     RenderedKeeps, NoticeKeeps, PollKeeps, ServeKeeps, ShowKeeps
  DEF PagesNext

\* An analysis looks the same however often it is read again.
LEMMA PagesKeep ==
  ASSUME PagesInv
  PROVE  ReloadKeeps
  BY DEF PagesInv, Rendering, Renders, ReloadKeeps

\* On the other pages nothing of this changes.
LEMMA PagesElsewhere ==
  ASSUME SocketTyped, PagesInv, page' = page, UNCHANGED pageVars,
         page \in {"trades", "analysis"} =>
           \A b \in Browsers : inbox'[b] = inbox[b] \/ Len(inbox'[b]) = 0
  PROVE  PagesInv'
  <1>1. PagesTyped' /\ Parsing' /\ Fetching' /\ Rendering'
    BY DEF PagesInv, PagesTyped, Parsing, Fetching, FetchIsRight, Rendering, Renders, pageVars
  <1>2. ASSUME page \in {"trades", "analysis"}, NEW b \in Browsers, NEW i \in 1 .. Len(inbox'[b])
        PROVE  OfPages(inbox'[b][i])
    <2>1. inbox'[b] = inbox[b]
      BY <1>2
    <2> QED BY <1>2, <2>1 DEF PagesInv, Noticing
  <1>3. Noticing'
    BY <1>2 DEF Noticing, OfPages
  <1> QED BY <1>1, <1>3 DEF PagesInv

LEMMA PagesStart ==
  ASSUME Init
  PROVE  PagesInv
  <1>1. Free \in Fetches /\ FetchIsRight(Free)
    BY DEF Fetches, Free, FetchIsRight
  <1>2. \A b \in Browsers : Len(inbox[b]) = 0
    BY EmptySeq DEF Init, SocketInit
  <1> QED BY <1>1, <1>2
      DEF Init, PagesInit, PagesInv, PagesTyped, Parsing, Fetching, Noticing, Rendering

-----------------------------------------------------------------------------
(* The tokens of the chat stay in order.                                   *)

LEMMA TextIs ==
  ASSUME ChatTyped, NEW q \in Questions
  PROVE  /\ text[q] \in Seq(Message) /\ Len(text[q]) \in Nat
         /\ \A i \in 1 .. Len(text[q]) : text[q][i] \in Message /\ text[q][i].n \in Nat
         /\ text[q] = <<>> <=> Len(text[q]) = 0
  <1>1. text[q] \in Seq(Message)
    BY DEF ChatTyped
  <1>2. Len(text[q]) \in Nat /\ \A i \in 1 .. Len(text[q]) : text[q][i] \in Message
    BY <1>1, LenProperties, ElementOfSeq
  <1>3. \A m \in Message : m.n \in Nat
    BY DEF Message
  <1>4. text[q] = <<>> <=> Len(text[q]) = 0
    BY <1>1, EmptySeq
  <1> QED BY <1>1, <1>2, <1>3, <1>4

\* Nothing is told or heard: bubbles are opened empty, left or emptied.
LEMMA StreamsStill ==
  ASSUME SocketTyped, ChatTyped, Streams, page' = page, inbox' = inbox, sent' = sent,
         \A q \in Questions : text'[q] = text[q] \/ Len(text'[q]) = 0,
         \A b \in Browsers : \/ bubble'[b] \in {bubble[b], NONE}
                             \/ Len(text'[bubble'[b]]) = 0,
         bubble \in [Browsers -> Questions \cup {NONE}]
  PROVE  Streams'
  <1> SUFFICES ASSUME page = "chat" PROVE Coming' /\ Written' /\ Before'
    BY DEF Streams
  <1>1. Coming /\ Written /\ Before
    BY DEF Streams
  <1>2. Coming'
    BY <1>1 DEF Coming
  <1>3. ASSUME NEW q \in Questions, NEW i \in 1 .. Len(text'[q])
        PROVE  /\ OfChat(text'[q][i], sent') /\ IsToken(text'[q][i])
               /\ \A j \in i .. Len(text'[q]) : NotAfter(text'[q][i], text'[q][j])
    <2>1. text'[q] = text[q]
      BY <1>3
    <2> QED BY <1>1, <1>3, <2>1 DEF Written
  <1>4. Written'
    BY <1>3 DEF Written
  <1>5. ASSUME NEW b \in Browsers, bubble'[b] # NONE,
               NEW i \in 1 .. Len(text'[bubble'[b]]), NEW j \in 1 .. Len(inbox'[b])
        PROVE  NotAfter(text'[bubble'[b]][i], inbox'[b][j])
    <2>1. bubble'[b] = bubble[b] /\ bubble[b] \in Questions
      BY <1>5
    <2>2. text'[bubble[b]] = text[bubble[b]]
      BY <1>5, <2>1
    <2> QED BY <1>1, <1>5, <2>1, <2>2 DEF Before
  <1>6. Before'
    BY <1>5 DEF Before
  <1> QED BY <1>2, <1>4, <1>6

\* Something is told: it comes after all that has been told before.
LEMMA StreamsTold ==
  ASSUME SocketTyped, ChatTyped, Streams, page' = page, NEW e \in Message,
         \A b \in Browsers : Longer(b, e),
         text' = text, bubble' = bubble,
         \A q \in Questions : sent'[q] \in Nat /\ sent[q] <= sent'[q],
         e.of \in Questions, e.event \in {"ai.token", "ai.stream_end"},
         IsToken(e) => e.n = sent'[e.of] /\ sent'[e.of] > sent[e.of]
  PROVE  Streams'
  <1> SUFFICES ASSUME page = "chat" PROVE Coming' /\ Written' /\ Before'
    BY DEF Streams
  <1>1. Coming /\ Written /\ Before
    BY DEF Streams
  <1>2. \A q \in Questions : sent[q] \in Nat
    BY DEF ChatTyped
  <1>3. OfChat(e, sent')
    BY <1>2 DEF OfChat, IsToken
  <1>4. ASSUME NEW m \in Message, OfChat(m, sent)
        PROVE  OfChat(m, sent') /\ NotAfter(m, e)
    <2>1. m.n \in Nat
      BY DEF Message
    <2>2. IsToken(m) => 0 < m.n /\ m.n <= sent[m.of]
                          /\ sent[m.of] <= sent'[m.of] /\ m.of \in Questions
      BY <1>4 DEF OfChat
    <2>3. OfChat(m, sent')
      <3>1. IsToken(m) => m.n <= sent'[m.of]
        BY <1>2, <2>1, <2>2
      <3> QED BY <1>4, <2>2, <3>1 DEF OfChat, IsToken
    <2>4. ASSUME IsToken(m), IsToken(e), m.of = e.of PROVE m.n <= e.n
      BY <1>2, <2>1, <2>2, <2>4
    <2> QED BY <2>3, <2>4 DEF NotAfter
  <1>5. ASSUME NEW b \in Browsers, NEW i \in 1 .. Len(inbox'[b])
        PROVE  /\ inbox'[b][i] \in Message /\ OfChat(inbox'[b][i], sent')
               /\ NotAfter(inbox'[b][i], e)
               /\ \/ i \in 1 .. Len(inbox[b]) /\ inbox'[b][i] = inbox[b][i]
                  \/ i \in Len(inbox[b]) + 1 .. Len(inbox'[b]) /\ inbox'[b][i] = e
    <2>1. Len(inbox[b]) \in Nat /\ \A k \in 1 .. Len(inbox[b]) : inbox[b][k] \in Message
      BY InboxIs
    <2>2. CASE i \in 1 .. Len(inbox[b])
      <3>1. inbox'[b][i] = inbox[b][i]
        BY <2>2 DEF Longer
      <3>2. OfChat(inbox[b][i], sent) /\ inbox[b][i] \in Message
        BY <1>1, <2>1, <2>2 DEF Coming
      <3>3. OfChat(inbox[b][i], sent') /\ NotAfter(inbox[b][i], e)
        BY <1>4, <3>2
      <3> QED BY <2>2, <3>1, <3>2, <3>3
    <2>3. CASE i \notin 1 .. Len(inbox[b])
      <3>1. i \in Len(inbox[b]) + 1 .. Len(inbox'[b])
        BY <2>1, <2>3
      <3>2. inbox'[b][i] = e
        BY <3>1 DEF Longer
      <3>3. e.n \in Nat
        BY DEF Message
      <3> QED BY <1>3, <3>1, <3>2, <3>3 DEF NotAfter
    <2> QED BY <2>2, <2>3
  <1>6. ASSUME NEW b \in Browsers, NEW i \in 1 .. Len(inbox'[b]), NEW j \in i .. Len(inbox'[b])
        PROVE  NotAfter(inbox'[b][i], inbox'[b][j])
    <2>0. j \in 1 .. Len(inbox'[b]) /\ i <= j /\ Len(inbox[b]) \in Nat
      BY InboxIs
    <2>1. CASE j \in 1 .. Len(inbox[b]) /\ inbox'[b][j] = inbox[b][j]
      <3>1. i \in 1 .. Len(inbox[b]) /\ j \in i .. Len(inbox[b])
        BY <2>0, <2>1
      <3>2. inbox'[b][i] = inbox[b][i]
        BY <3>1 DEF Longer
      <3> QED BY <1>1, <2>1, <3>1, <3>2 DEF Coming
    <2>2. CASE inbox'[b][j] = e
      BY <1>5, <2>2
    <2> QED BY <1>5, <2>0, <2>1, <2>2
  <1>7. Coming'
    BY <1>5, <1>6 DEF Coming
  <1>8. Written'
    <2>1. ASSUME NEW q \in Questions, NEW i \in 1 .. Len(text[q]) PROVE OfChat(text[q][i], sent')
      <3>1. text[q][i] \in Message /\ OfChat(text[q][i], sent)
        BY <1>1, TextIs DEF Written
      <3> QED BY <1>4, <3>1
    <2> QED BY <1>1, <2>1 DEF Written
  <1>9. ASSUME NEW b \in Browsers, bubble[b] # NONE,
               NEW i \in 1 .. Len(text[bubble[b]]), NEW j \in 1 .. Len(inbox'[b])
        PROVE  NotAfter(text[bubble[b]][i], inbox'[b][j])
    <2>0. bubble[b] \in Questions
      BY <1>9 DEF ChatTyped
    <2>1. CASE j \in 1 .. Len(inbox[b]) /\ inbox'[b][j] = inbox[b][j]
      BY <1>1, <1>9, <2>1 DEF Before
    <2>2. CASE inbox'[b][j] = e
      <3>1. text[bubble[b]][i] \in Message /\ OfChat(text[bubble[b]][i], sent)
        BY <1>1, <1>9, <2>0, TextIs DEF Written
      <3> QED BY <1>4, <2>2, <3>1
    <2> QED BY <1>5, <2>1, <2>2
  <1>10. Before'
    BY <1>9 DEF Before
  <1> QED BY <1>7, <1>8, <1>10

\* What is heard has been told after all that is in the bubble.
LEMMA StreamsHeard ==
  ASSUME SocketTyped, ChatTyped, Bubbles, Streams, NEW b \in Browsers, Hear(b)
  PROVE  /\ Streams'
         /\ text' \in [Questions -> Seq(Message)]
         /\ \A q \in Questions : text'[q] # text[q] => bubble[b] = q
         /\ bubble[b] # NONE /\ IsToken(inbox[b][1]) =>
              /\ Len(text'[bubble[b]]) = Len(text[bubble[b]]) + 1
              /\ \A i \in 1 .. Len(text[bubble[b]]) : text'[bubble[b]][i] = text[bubble[b]][i]
              /\ text'[bubble[b]][Len(text[bubble[b]]) + 1] = inbox[b][1]
         /\ IF IsToken(inbox[b][1]) THEN bubble' = bubble
            ELSE text' = text /\ bubble' = [bubble EXCEPT ![b] = NONE]
  <1> DEFINE e == inbox[b][1]
             q == bubble[b]
             n == Len(text[q])
  <1>1. /\ page = "chat" /\ Take(b) /\ UNCHANGED <<task, sent, waiting, view>>
        /\ Head(inbox[b]) = e /\ page' = page
        /\ 1 \in 1 .. Len(inbox[b]) /\ e \in Message
    BY TakeIs, InboxIs DEF Hear
  <1>2. IF e.event = "ai.token"
        THEN /\ text' = IF q = NONE THEN text ELSE [text EXCEPT ![q] = Append(text[q], e)]
             /\ bubble' = bubble
        ELSE /\ bubble' = [bubble EXCEPT ![b] = NONE]
             /\ text' = text
    BY <1>1 DEF Hear
  <1>3. Coming /\ Written /\ Before
    BY <1>1 DEF Streams
  <1>4. OfChat(e, sent) /\ \A j \in 1 .. Len(inbox[b]) : NotAfter(e, inbox[b][j])
    BY <1>1, <1>3 DEF Coming
  <1>5. bubble \in [Browsers -> Questions \cup {NONE}] /\ text \in [Questions -> Seq(Message)]
    BY DEF ChatTyped
  <1> DEFINE longer == Append(text[q], e)
  <1>6. ASSUME q # NONE
        PROVE  /\ q \in Questions /\ n \in Nat /\ longer \in Seq(Message) /\ Len(longer) = n + 1
               /\ \A i \in 1 .. n : longer[i] = text[q][i]
               /\ longer[n + 1] = e
    <2>1. q \in Questions
      BY <1>5, <1>6
    <2>2. text[q] \in Seq(Message) /\ n \in Nat
      BY <2>1, TextIs
    <2> QED BY <1>1, <2>1, <2>2, AppendProperties
  <1> HIDE DEF longer
  <1>7. text' \in [Questions -> Seq(Message)]
        /\ (q # NONE /\ IsToken(e) => text'[q] = longer)
        /\ \A r \in Questions : (r # q \/ ~IsToken(e)) => text'[r] = text[r]
    BY <1>2, <1>5, <1>6 DEF IsToken, longer
  <1>8. Coming'
    <2>1. ASSUME NEW c \in Browsers, NEW i \in 1 .. Len(inbox'[c])
          PROVE  /\ OfChat(inbox'[c][i], sent')
                 /\ \A j \in i .. Len(inbox'[c]) : NotAfter(inbox'[c][i], inbox'[c][j])
      <3>1. Len(inbox[b]) \in Nat /\ Len(inbox[c]) \in Nat
        BY InboxIs
      <3>2. CASE c = b
        <4>1. /\ Len(inbox'[c]) = Len(inbox[c]) - 1
              /\ \A j \in 1 .. Len(inbox'[c]) : inbox'[c][j] = inbox[c][j + 1]
          BY <1>1, <3>2, TakeIs
        <4>2. i + 1 \in 1 .. Len(inbox[c])
          BY <3>1, <4>1
        <4>3. ASSUME NEW j \in i .. Len(inbox'[c])
              PROVE  NotAfter(inbox'[c][i], inbox'[c][j])
          <5>1. j \in 1 .. Len(inbox'[c]) /\ j + 1 \in i + 1 .. Len(inbox[c])
            BY <3>1, <4>1
          <5>2. NotAfter(inbox[c][i + 1], inbox[c][j + 1])
            BY <1>3, <4>2, <5>1 DEF Coming
          <5> QED BY <4>1, <5>1, <5>2
        <4> QED BY <1>1, <1>3, <4>1, <4>2, <4>3 DEF Coming
      <3>3. CASE c # b
        <4>1. inbox'[c] = inbox[c]
          BY <1>1, <3>3, TakeIs
        <4> QED BY <1>1, <1>3, <4>1 DEF Coming
      <3> QED BY <3>2, <3>3
    <2> QED BY <2>1 DEF Coming
  <1>9. Written'
    <2>1. ASSUME NEW r \in Questions, NEW i \in 1 .. Len(text'[r])
          PROVE  /\ OfChat(text'[r][i], sent') /\ IsToken(text'[r][i])
                 /\ \A j \in i .. Len(text'[r]) : NotAfter(text'[r][i], text'[r][j])
      <3>1. CASE r = q /\ IsToken(e)
        <4>0. q # NONE /\ text'[r] = longer /\ n \in Nat
          BY <1>6, <1>7, <3>1, ChatAssumption
        <4>1. ASSUME NEW k \in 1 .. n PROVE NotAfter(text[q][k], e)
          BY <1>1, <1>3, <4>0 DEF Before
        <4>2. NotAfter(e, e)
          BY <1>1, <1>4
        <4>3. ASSUME NEW j \in i .. Len(longer) PROVE NotAfter(longer[i], longer[j])
          <5>1. CASE j = n + 1
            BY <1>6, <4>0, <4>1, <4>2, <5>1
          <5>2. CASE j # n + 1
            <6>1. i \in 1 .. n /\ j \in i .. n /\ j \in 1 .. n
              BY <1>6, <4>0, <5>2
            <6> QED BY <1>3, <1>6, <4>0, <6>1 DEF Written
          <5> QED BY <5>1, <5>2
        <4>4. OfChat(longer[i], sent) /\ IsToken(longer[i])
          <5>1. CASE i = n + 1
            BY <1>4, <1>6, <3>1, <4>0, <5>1
          <5>2. CASE i # n + 1
            <6>1. i \in 1 .. n
              BY <1>6, <4>0, <5>2
            <6> QED BY <1>3, <1>6, <4>0, <6>1 DEF Written
          <5> QED BY <5>1, <5>2
        <4> QED BY <1>1, <4>0, <4>3, <4>4
      <3>2. CASE ~ (r = q /\ IsToken(e))
        <4>1. text'[r] = text[r]
          BY <1>7, <3>2
        <4> QED BY <1>1, <1>3, <4>1 DEF Written
      <3> QED BY <3>1, <3>2
    <2> QED BY <2>1 DEF Written
  <1>10. Before'
    <2>1. ASSUME NEW c \in Browsers, bubble'[c] # NONE,
                 NEW i \in 1 .. Len(text'[bubble'[c]]), NEW j \in 1 .. Len(inbox'[c])
          PROVE  NotAfter(text'[bubble'[c]][i], inbox'[c][j])
      <3>1. bubble'[c] = bubble[c] /\ bubble[c] \in Questions
        BY <1>2, <1>5, <2>1
      <3>2. PICK k \in 1 .. Len(inbox[c]) : inbox'[c][j] = inbox[c][k]
        BY <1>1, TakeKeeps
      <3>3. CASE c = b /\ IsToken(e)
        <4>1. q # NONE /\ text'[q] = longer /\ i \in 1 .. Len(longer) /\ n \in Nat
          BY <1>6, <1>7, <2>1, <3>1, <3>3
        <4>2. CASE i = n + 1
          BY <1>4, <1>6, <3>1, <3>2, <3>3, <4>1, <4>2
        <4>3. CASE i # n + 1
          <5>1. i \in 1 .. n
            BY <1>6, <4>1, <4>3
          <5>2. NotAfter(text[q][i], inbox[b][k])
            BY <1>3, <3>2, <3>3, <4>1, <5>1 DEF Before
          <5> QED BY <1>6, <3>1, <3>2, <3>3, <4>1, <5>1, <5>2
        <4> QED BY <4>2, <4>3
      <3>4. CASE ~ (c = b /\ IsToken(e))
        <4>1. text'[bubble[c]] = text[bubble[c]]
          <5>1. CASE c = b
            BY <1>7, <3>1, <3>4, <5>1
          <5>2. CASE c # b
            <6>1. bubble[c] # bubble[b]
              BY <3>1, <5>2, ChatAssumption DEF Bubbles
            <6> QED BY <1>7, <3>1, <6>1
          <5> QED BY <5>1, <5>2
        <4> QED BY <1>3, <2>1, <3>1, <3>2, <4>1 DEF Before
      <3> QED BY <3>3, <3>4
    <2> QED BY <2>1 DEF Before
  <1>11. Streams'
    BY <1>8, <1>9, <1>10 DEF Streams
  <1>12. \A r \in Questions : text'[r] # text[r] => q = r
    BY <1>7
  <1>13. q # NONE /\ IsToken(e) =>
           /\ Len(text'[q]) = n + 1
           /\ \A i \in 1 .. n : text'[q][i] = text[q][i]
           /\ text'[q][n + 1] = e
    BY <1>6, <1>7
  <1>14. IF IsToken(e) THEN bubble' = bubble
         ELSE text' = text /\ bubble' = [bubble EXCEPT ![b] = NONE]
    BY <1>2 DEF IsToken
  <1> QED BY <1>7, <1>11, <1>12, <1>13, <1>14

-----------------------------------------------------------------------------
(* Steps of the chat page.                                                 *)

LEMMA BrowserOf ==
  ASSUME ChatTyped, Bubbles, NEW q \in Questions
  PROVE  /\ Asker[q] \in Browsers /\ q # NONE
         /\ \A b \in Browsers : bubble[b] = q => b = Asker[q]
  BY ChatAssumption DEF Bubbles

\* A question whose bubble is open lives.
LEMMA OpenLives ==
  ASSUME ChatTyped, NEW b \in Browsers, bubble[b] # NONE, WillEnd(b)
  PROVE  bubble[b] \in Questions /\ Live(bubble[b])
  BY DEF ChatTyped, WillEnd, Live

LEMMA UndisturbedBefore ==
  ASSUME SocketTyped, Alone, page' = page, losses <= losses', Undisturbed'
  PROVE  /\ Undisturbed /\ losses' = losses /\ OneLives /\ EndsComeLast
         /\ \A b \in Browsers : bubble[b] # NONE => WillEnd(b)
         /\ \A q \in Questions : Whole(q)
  <1>1. losses \in Nat /\ losses' = 0
    BY DEF SocketTyped, Undisturbed
  <1>2. losses = 0
    BY <1>1
  <1> QED BY <1>1, <1>2 DEF Undisturbed, Alone

LEMMA NoNumbers ==
  /\ \A s : Len(s) = 0 => Numbers(s) = {}
  /\ 1 .. 0 = {}
  BY DEF Numbers

LEMMA AskKeeps ==
  ASSUME SocketTyped, ChatInv, NEW q \in Questions, Ask(q)
  PROVE  SocketTyped' /\ ChatInv'
  <1>0. ChatTyped /\ Bubbles /\ Streams /\ Alone
    BY DEF ChatInv
  <1> DEFINE b == Asker[q]
  <1>1. /\ page = "chat" /\ view[q] = "none" /\ sent' = sent /\ text' = text
        /\ page' = page /\ link' = link /\ inbox' = inbox /\ losses' = losses
        /\ Patient => Quiet /\ link[b] # "open"
        /\ \/ /\ link[b] # "closed" /\ bubble' = [bubble EXCEPT ![b] = q]
              /\ view' = [view EXCEPT ![q] = "stream"]
              /\ waiting' = [waiting EXCEPT ![q] = "chat"]
              /\ task' = [task EXCEPT ![q] = "posted"]
           \/ /\ view' = [view EXCEPT ![q] = "typing"]
              /\ waiting' = [waiting EXCEPT ![q] = "analysis"]
              /\ bubble' = bubble /\ task' = task
    BY DEF Ask, socketVars
  <1>2. /\ text[q] = <<>> /\ Len(text[q]) = 0 /\ task[q] = "none" /\ sent[q] = 0
        /\ b \in Browsers /\ q # NONE
    BY <1>0, <1>1, TextIs, BrowserOf DEF Bubbles
  <1>3. ChatTyped' /\ SocketTyped'
    BY <1>0, <1>1, <1>2, ZenonT(60) DEF ChatTyped, SocketTyped
  <1>4. /\ \A r \in Questions \ {q} :
             view'[r] = view[r] /\ waiting'[r] = waiting[r] /\ task'[r] = task[r]
        /\ \A c \in Browsers \ {b} : bubble'[c] = bubble[c]
        /\ \/ /\ link[b] # "closed" /\ bubble'[b] = q /\ view'[q] = "stream"
              /\ waiting'[q] = "chat" /\ task'[q] = "posted"
           \/ /\ view'[q] = "typing" /\ waiting'[q] = "analysis" /\ bubble'[b] = bubble[b]
              /\ task'[q] = "none"
    <2>1. CASE view' = [view EXCEPT ![q] = "typing"]
      BY <1>0, <1>1, <1>2, <2>1 DEF ChatTyped
    <2>2. CASE view' = [view EXCEPT ![q] = "stream"]
      BY <1>0, <1>1, <1>2, <2>2 DEF ChatTyped
    <2> QED BY <1>1, <2>1, <2>2
  <1>5. Bubbles'
    <2>1. ASSUME NEW r \in Questions
          PROVE  /\ text'[r] # <<>> => view'[r] = "stream" /\ page' = "chat"
                 /\ waiting'[r] = "analysis" => view'[r] = "typing"
                 /\ view'[r] = "none" => task'[r] = "none"
                 /\ task'[r] \in {"none", "posted"} => sent'[r] = 0
      BY <1>0, <1>1, <1>2, <1>4 DEF Bubbles
    <2>2. ASSUME NEW c \in Browsers, bubble'[c] # NONE
          PROVE  Asker[bubble'[c]] = c /\ view'[bubble'[c]] = "stream"
      <3>1. CASE bubble'[c] = bubble[c]
        <4>1. bubble[c] \in Questions /\ Asker[bubble[c]] = c /\ view[bubble[c]] = "stream"
          BY <1>0, <2>2, <3>1 DEF ChatTyped, Bubbles
        <4> QED BY <1>1, <1>4, <3>1, <4>1
      <3>2. CASE bubble'[c] # bubble[c]
        BY <1>4, <3>2
      <3> QED BY <3>1, <3>2
    <2> QED BY <2>1, <2>2 DEF Bubbles
  <1>6. Streams'
    <2>1. \A c \in Browsers : bubble'[c] \in {bubble[c], NONE} \/ Len(text'[bubble'[c]]) = 0
      BY <1>1, <1>2, <1>4
    <2> QED BY <1>0, <1>1, <2>1, StreamsStill DEF ChatTyped
  <1>7. ASSUME Undisturbed'
        PROVE  /\ OneLives' /\ EndsComeLast'
               /\ \A c \in Browsers : bubble'[c] # NONE => WillEnd(c)'
               /\ \A r \in Questions : Whole(r)'
    <2>0. losses \in Nat
      BY DEF SocketTyped
    <2>1. /\ Undisturbed /\ OneLives /\ EndsComeLast
          /\ \A c \in Browsers : bubble[c] # NONE => WillEnd(c)
          /\ \A r \in Questions : Whole(r)
      BY <1>0, <1>1, <1>7, <2>0, UndisturbedBefore
    <2>2. /\ Quiet /\ link[b] # "open"
      BY <1>1, <2>1 DEF Undisturbed
    <2>3. /\ \A c \in Browsers : inbox[c] = <<>> /\ Len(inbox[c]) = 0
          /\ \A r \in Questions : ~Live(r)
      <3>1. \A c \in Browsers : inbox[c] = <<>> /\ Len(inbox[c]) = 0
        BY <2>2, InboxIs DEF Quiet
      <3> QED BY <2>2, <3>1 DEF Quiet, Live
    <2>4. \A c \in Browsers : bubble[c] = NONE
      BY <1>0, <2>1, <2>3, OpenLives
    <2>5. \A c \in Browsers : Len(inbox'[c]) = 0
      BY <1>1, <2>3
    <2>6. \A r \in Questions \ {q} : ~Live(r)'
      BY <1>4, <2>3, <2>5 DEF Live
    <2>7. OneLives'
      BY <2>6 DEF OneLives
    <2>8. EndsComeLast'
      BY <2>5 DEF EndsComeLast
    <2>9. ASSUME NEW c \in Browsers, bubble'[c] # NONE PROVE WillEnd(c)'
      <3>1. c = b /\ bubble'[b] = q /\ link[b] = "subscribed" /\ task'[q] = "posted"
        BY <1>4, <2>2, <2>4, <2>9 DEF SocketTyped
      <3> QED BY <1>1, <3>1 DEF WillEnd
    <2>10. ASSUME NEW r \in Questions PROVE Whole(r)'
      <3>1. Whole(r)
        BY <2>1
      <3>2. CASE r = q
        <4>1. Numbers(text'[q]) = {} /\ 1 .. sent'[q] = {}
          BY <1>1, <1>2, NoNumbers
        <4>2. TokensOnTheWay(b)' = {}
          BY <1>2, <2>5 DEF TokensOnTheWay
        <4>3. view'[q] = "stream" => bubble'[Asker[q]] = q
          BY <1>4
        <4> QED BY <1>1, <1>2, <3>2, <4>1, <4>2, <4>3 DEF Whole
      <3>3. CASE r # q
        <4>1. bubble[Asker[r]] # r /\ bubble'[Asker[r]] # r
          BY <1>0, <1>4, <2>4, <3>3, BrowserOf
        <4> QED BY <1>1, <1>4, <3>1, <3>3, <4>1 DEF Whole
      <3> QED BY <3>2, <3>3
    <2> QED BY <2>7, <2>8, <2>9, <2>10
  <1>8. Alone'
    BY <1>7 DEF Alone
  <1> QED BY <1>3, <1>5, <1>6, <1>8 DEF ChatInv

\* The server goes on, or the browser hears that it has.
LEMMA AcceptKeeps ==
  ASSUME SocketTyped, ChatInv, NEW q \in Questions, Accept(q) \/ Accepted(q) \/ Stop(q)
  PROVE  SocketTyped' /\ ChatInv'
  <1>0. ChatTyped /\ Bubbles /\ Streams /\ Alone
    BY DEF ChatInv
  <1>1. /\ UNCHANGED <<sent, bubble, view, text>>
        /\ page' = page /\ link' = link /\ inbox' = inbox /\ losses' = losses
        /\ \/ /\ task[q] \in {"posted", "streaming"} /\ waiting' = waiting
              /\ \E step \in {"streaming", "ending"} : task' = [task EXCEPT ![q] = step]
           \/ /\ task' = task /\ waiting[q] = "chat" /\ waiting' = [waiting EXCEPT ![q] = "nothing"]
    BY DEF Accept, Accepted, Stop, socketVars
  <1>2. /\ task' \in [Questions -> {"none", "posted", "streaming", "ending", "over"}]
        /\ \A r \in Questions : task'[r] = task[r] \/
             (/\ r = q /\ task[r] \in {"posted", "streaming"}
              /\ task'[r] \in {"streaming", "ending"})
    <2>1. CASE task' = task
      BY <1>0, <2>1 DEF ChatTyped
    <2>2. CASE task' # task
      BY <1>0, <1>1, <2>2 DEF ChatTyped
    <2> QED BY <2>1, <2>2
  <1>3. /\ waiting' \in [Questions -> {"nothing", "chat", "analysis"}]
        /\ \A r \in Questions : waiting'[r] \in {waiting[r], "nothing"}
    BY <1>0, <1>1 DEF ChatTyped
  <1>4. SocketTyped' /\ ChatTyped'
    BY <1>0, <1>1, <1>2, <1>3 DEF SocketTyped, ChatTyped
  <1>5. Bubbles'
    <2>1. ASSUME NEW r \in Questions
          PROVE  /\ text'[r] # <<>> => view'[r] = "stream" /\ page' = "chat"
                 /\ waiting'[r] = "analysis" => view'[r] = "typing"
                 /\ view'[r] = "none" => task'[r] = "none"
                 /\ task'[r] \in {"none", "posted"} => sent'[r] = 0
      BY <1>0, <1>1, <1>2, <1>3 DEF Bubbles
    <2> QED BY <1>0, <1>1, <2>1 DEF Bubbles
  <1>6. Streams'
    BY <1>0, <1>1, StreamsStill DEF ChatTyped
  <1>7. ASSUME Undisturbed'
        PROVE  /\ OneLives' /\ EndsComeLast'
               /\ \A c \in Browsers : bubble'[c] # NONE => WillEnd(c)'
               /\ \A r \in Questions : Whole(r)'
    <2>0. losses \in Nat
      BY DEF SocketTyped
    <2>1. /\ Undisturbed /\ OneLives /\ EndsComeLast
          /\ \A c \in Browsers : bubble[c] # NONE => WillEnd(c)
          /\ \A r \in Questions : Whole(r)
      BY <1>0, <1>1, <1>7, <2>0, UndisturbedBefore
    <2>2. \A r \in Questions : Live(r)' => Live(r)
      BY <1>1, <1>2, <1>3 DEF Live
    <2>3. OneLives'
      BY <2>1, <2>2 DEF OneLives
    <2>4. EndsComeLast'
      <3>1. ASSUME NEW c \in Browsers, NEW i \in 1 .. Len(inbox[c]),
                   inbox[c][i].event = "ai.stream_end"
            PROVE  task'[inbox[c][i].of] = "over"
        <4>1. task[inbox[c][i].of] = "over" /\ inbox[c][i].of \in Questions
          BY <1>0, <2>1, <3>1 DEF EndsComeLast, Streams, Coming, OfChat, Undisturbed
        <4> QED BY <1>2, <4>1
      <3> QED BY <1>1, <2>1, <3>1 DEF EndsComeLast
    <2>5. ASSUME NEW c \in Browsers, bubble'[c] # NONE PROVE WillEnd(c)'
      <3>1. WillEnd(c) /\ bubble[c] \in Questions
        BY <1>0, <1>1, <2>1, <2>5, OpenLives
      <3> QED BY <1>1, <1>2, <3>1 DEF WillEnd
    <2>6. ASSUME NEW r \in Questions PROVE Whole(r)'
      <3>1. Whole(r)
        BY <2>1
      <3>2. task[r] = "over" => task'[r] = "over"
        BY <1>2
      <3>3. TokensOnTheWay(Asker[r])' = TokensOnTheWay(Asker[r])
        BY <1>1 DEF TokensOnTheWay
      <3> QED BY <1>1, <3>1, <3>2, <3>3 DEF Whole
    <2> QED BY <2>3, <2>4, <2>5, <2>6
  <1>8. Alone'
    BY <1>7 DEF Alone
  <1> QED BY <1>4, <1>5, <1>6, <1>8 DEF ChatInv

LEMMA FallBackKeeps ==
  ASSUME SocketTyped, ChatInv, NEW q \in Questions, FallBack(q) \/ FallbackEnds(q)
  PROVE  SocketTyped' /\ ChatInv'
  <1>0. ChatTyped /\ Bubbles /\ Streams /\ Alone
    BY DEF ChatInv
  <1> DEFINE b == Asker[q]
  <1>1. /\ UNCHANGED <<task, sent>> /\ waiting[q] # "nothing"
        /\ page' = page /\ link' = link /\ inbox' = inbox /\ losses' = losses
        /\ \/ /\ waiting' = [waiting EXCEPT ![q] = "analysis"]
              /\ bubble' = [bubble EXCEPT ![b] = NONE]
              /\ view' = [view EXCEPT ![q] = "typing"]
              /\ text' = [text EXCEPT ![q] = <<>>]
           \/ /\ waiting' = [waiting EXCEPT ![q] = "nothing"]
              /\ \E v \in {"answered", "error"} : view' = [view EXCEPT ![q] = v]
              /\ bubble' = bubble /\ text' = text /\ waiting[q] = "analysis"
    BY DEF FallBack, FallbackEnds, socketVars
  <1>2. b \in Browsers /\ q # NONE /\ \A c \in Browsers : bubble[c] = q => c = b
    BY <1>0, BrowserOf
  <1>3. <<>> \in Seq(Message) /\ Len(<<>>) = 0
    BY EmptySeq
  <1>4. /\ \A r \in Questions \ {q} :
             waiting'[r] = waiting[r] /\ view'[r] = view[r] /\ text'[r] = text[r]
        /\ \A c \in Browsers : bubble'[c] \in {bubble[c], NONE} /\ bubble'[c] # q
        /\ view'[q] \in {"typing", "answered", "error"} /\ text'[q] = <<>>
        /\ waiting'[q] \in {"analysis", "nothing"}
        /\ waiting'[q] = "analysis" => view'[q] = "typing"
        /\ ChatTyped'
    <2>1. CASE view' = [view EXCEPT ![q] = "typing"] /\ text' = [text EXCEPT ![q] = <<>>]
               /\ waiting' = [waiting EXCEPT ![q] = "analysis"]
               /\ bubble' = [bubble EXCEPT ![b] = NONE]
      <3>1. \A c \in Browsers : bubble'[c] \in {bubble[c], NONE} /\ bubble'[c] # q
        BY <1>0, <1>2, <2>1 DEF ChatTyped
      <3> QED BY <1>0, <1>1, <1>3, <2>1, <3>1 DEF ChatTyped
    <2>2. CASE /\ waiting' = [waiting EXCEPT ![q] = "nothing"] /\ bubble' = bubble /\ text' = text
               /\ waiting[q] = "analysis"
               /\ \E v \in {"answered", "error"} : view' = [view EXCEPT ![q] = v]
      <3>1. view[q] = "typing" /\ text[q] = <<>> /\ \A c \in Browsers : bubble[c] # q
        BY <1>0, <1>2, <2>2 DEF Bubbles
      <3> QED BY <1>0, <1>1, <2>2, <3>1 DEF ChatTyped
    <2> QED BY <1>1, <2>1, <2>2
  <1>5. Bubbles'
    <2>1. ASSUME NEW r \in Questions
          PROVE  /\ text'[r] # <<>> => view'[r] = "stream" /\ page' = "chat"
                 /\ waiting'[r] = "analysis" => view'[r] = "typing"
                 /\ view'[r] = "none" => task'[r] = "none"
                 /\ task'[r] \in {"none", "posted"} => sent'[r] = 0
      BY <1>0, <1>1, <1>4 DEF Bubbles
    <2>2. ASSUME NEW c \in Browsers, bubble'[c] # NONE
          PROVE  Asker[bubble'[c]] = c /\ view'[bubble'[c]] = "stream"
      <3>1. bubble'[c] = bubble[c] /\ bubble[c] # q /\ bubble[c] \in Questions
        BY <1>0, <1>4, <2>2 DEF ChatTyped
      <3> QED BY <1>0, <1>4, <2>2, <3>1 DEF Bubbles
    <2> QED BY <2>1, <2>2 DEF Bubbles
  <1>6. Streams'
    <2>1. \A r \in Questions : text'[r] = text[r] \/ Len(text'[r]) = 0
      BY <1>3, <1>4
    <2> QED BY <1>0, <1>1, <1>4, <2>1, StreamsStill DEF ChatTyped
  <1>7. ASSUME Undisturbed'
        PROVE  /\ OneLives' /\ EndsComeLast'
               /\ \A c \in Browsers : bubble'[c] # NONE => WillEnd(c)'
               /\ \A r \in Questions : Whole(r)'
    <2>0. losses \in Nat
      BY DEF SocketTyped
    <2>1. /\ Undisturbed /\ OneLives /\ EndsComeLast
          /\ \A c \in Browsers : bubble[c] # NONE => WillEnd(c)
          /\ \A r \in Questions : Whole(r)
      BY <1>0, <1>1, <1>7, <2>0, UndisturbedBefore
    <2>2. Live(q)
      BY <1>1 DEF Live
    <2>3. \A r \in Questions \ {q} : ~Live(r)
      BY <2>1, <2>2 DEF OneLives
    <2>4. \A r \in Questions \ {q} : ~Live(r)'
      BY <1>1, <1>4, <2>3 DEF Live
    <2>5. OneLives'
      BY <2>4 DEF OneLives
    <2>6. EndsComeLast'
      BY <1>1, <2>1 DEF EndsComeLast
    <2>7. \A c \in Browsers : bubble'[c] = NONE
      <3>1. ASSUME NEW c \in Browsers, bubble'[c] # NONE PROVE FALSE
        <4>1. bubble[c] # NONE /\ bubble[c] # q
          BY <1>4, <3>1
        <4> QED BY <1>0, <2>1, <2>3, <4>1, OpenLives
      <3> QED BY <3>1
    <2>8. ASSUME NEW r \in Questions PROVE Whole(r)'
      <3>1. CASE r = q
        BY <1>3, <1>4, <3>1 DEF Whole
      <3>2. CASE r # q
        <4>1. Whole(r) /\ bubble[Asker[r]] # r /\ bubble'[Asker[r]] # r
          BY <1>0, <2>1, <2>3, <2>7, <3>2, OpenLives, BrowserOf
        <4> QED BY <1>1, <1>4, <3>2, <4>1 DEF Whole
      <3> QED BY <3>1, <3>2
    <2> QED BY <2>5, <2>6, <2>7, <2>8
  <1>8. Alone'
    BY <1>7 DEF Alone
  <1>9. SocketTyped'
    BY <1>1 DEF SocketTyped
  <1> QED BY <1>4, <1>5, <1>6, <1>8, <1>9 DEF ChatInv

\* Of an undisturbed browser with an open bubble the message arrives.
LEMMA ToldArrives ==
  ASSUME SocketTyped, NEW b \in Browsers, NEW e \in Message, Longer(b, e)
  PROVE  /\ Numbers(inbox[b]) \subseteq Numbers(inbox'[b])
         /\ ~IsToken(e) => TokensOnTheWay(b)' = TokensOnTheWay(b)
         /\ IsToken(e) /\ Len(inbox[b]) < Len(inbox'[b]) =>
              TokensOnTheWay(b)' = TokensOnTheWay(b) \cup {e.n}
  <1>1. Len(inbox[b]) \in Nat /\ Len(inbox[b]) <= Len(inbox'[b])
    BY InboxIs DEF Longer
  <1>2. /\ \A i \in 1 .. Len(inbox[b]) : i \in 1 .. Len(inbox'[b]) /\ inbox'[b][i] = inbox[b][i]
        /\ \A i \in 1 .. Len(inbox'[b]) :
             i \in 1 .. Len(inbox[b])
             \/ (i \in Len(inbox[b]) + 1 .. Len(inbox'[b]) /\ inbox'[b][i] = e)
    BY <1>1 DEF Longer
  <1>3. Numbers(inbox[b]) \subseteq Numbers(inbox'[b])
    BY <1>2 DEF Numbers
  <1>4. /\ \A i \in 1 .. Len(inbox[b]) : IsToken(inbox[b][i]) =>
            inbox[b][i].n \in TokensOnTheWay(b)'
        /\ \A i \in 1 .. Len(inbox'[b]) : IsToken(inbox'[b][i]) =>
             \/ inbox'[b][i].n \in TokensOnTheWay(b)
             \/ IsToken(e) /\ inbox'[b][i].n = e.n
    BY <1>2 DEF TokensOnTheWay
  <1>5. TokensOnTheWay(b) \subseteq TokensOnTheWay(b)'
    BY <1>4 DEF TokensOnTheWay
  <1>6. TokensOnTheWay(b)' \subseteq TokensOnTheWay(b) \cup {e.n}
    BY <1>4 DEF TokensOnTheWay
  <1>7. ~IsToken(e) => TokensOnTheWay(b)' \subseteq TokensOnTheWay(b)
    BY <1>4 DEF TokensOnTheWay
  <1>8. ASSUME IsToken(e), Len(inbox[b]) < Len(inbox'[b]) PROVE e.n \in TokensOnTheWay(b)'
    <2>1. Len(inbox[b]) + 1 \in 1 .. Len(inbox'[b]) /\ inbox'[b][Len(inbox[b]) + 1] = e
      BY <1>1, <1>8 DEF Longer
    <2> QED BY <1>8, <2>1 DEF TokensOnTheWay
  <1> QED BY <1>3, <1>5, <1>6, <1>7, <1>8

LEMMA LiveTold ==
  ASSUME SocketTyped, NEW e \in Message, \A b \in Browsers : Longer(b, e),
         NEW q \in Questions, e.of = q, Live(q), waiting' = waiting,
         \A r \in Questions \ {q} : task'[r] = task[r]
  PROVE  \A r \in Questions : Live(r)' => Live(r)
  <1> SUFFICES ASSUME NEW r \in Questions, r # q, Live(r)' PROVE Live(r)
    OBVIOUS
  <1>1. CASE \E b \in Browsers : \E i \in 1 .. Len(inbox'[b]) : inbox'[b][i].of = r
    <2>0. PICK b \in Browsers : \E i \in 1 .. Len(inbox'[b]) : inbox'[b][i].of = r
      BY <1>1
    <2>1. PICK i \in 1 .. Len(inbox'[b]) : inbox'[b][i].of = r
      BY <2>0
    <2>2. Len(inbox[b]) \in Nat
      BY InboxIs
    <2>3. i \in 1 .. Len(inbox[b]) /\ inbox'[b][i] = inbox[b][i]
      BY <2>1, <2>2 DEF Longer
    <2> QED BY <2>1, <2>3 DEF Live
  <1>2. CASE task'[r] \notin {"none", "over"} \/ waiting'[r] # "nothing"
    BY <1>2 DEF Live
  <1> QED BY <1>1, <1>2 DEF Live

LEMMA EmitKeeps ==
  ASSUME SocketTyped, ChatInv, NEW q \in Questions, Emit(q), page = "chat"
  PROVE  SocketTyped' /\ ChatInv'
  <1>0. ChatTyped /\ Bubbles /\ Streams /\ Alone
    BY DEF ChatInv
  <1> DEFINE e == Event("ai.token", q, sent'[q])
             b == Asker[q]
  <1>1. /\ task[q] = "streaming" /\ sent[q] < MaxTokens
        /\ sent' = [sent EXCEPT ![q] = sent[q] + 1]
        /\ Announce(e) /\ UNCHANGED <<task, waiting, bubble, view, text>>
    BY DEF Emit
  <1>2. /\ sent[q] \in Nat /\ sent'[q] = sent[q] + 1 /\ sent'[q] \in Nat
        /\ sent' \in [Questions -> 0 .. MaxTokens]
        /\ \A r \in Questions : sent'[r] \in Nat /\ sent[r] \in Nat /\ sent[r] <= sent'[r]
        /\ \A r \in Questions \ {q} : sent'[r] = sent[r]
    BY <1>0, <1>1, ChatAssumption DEF ChatTyped
  <1>3. e \in Message /\ e.event = "ai.token" /\ e.of = q /\ e.n = sent'[q] /\ IsToken(e)
    BY <1>2, EventIs DEF Events, IsToken
  <1>4. b \in Browsers /\ q # NONE /\ \A c \in Browsers : bubble[c] = q => c = b
    BY <1>0, BrowserOf
  <1> HIDE DEF e
  <1>5. /\ SocketTyped' /\ page' = page /\ link' = link /\ losses <= losses'
        /\ \A c \in Browsers : Longer(c, e)
    BY <1>1, <1>3, AnnounceIs
  <1>6. ChatTyped'
    BY <1>0, <1>1, <1>2 DEF ChatTyped
  <1>7. Bubbles'
    <2>1. ASSUME NEW r \in Questions, task'[r] \in {"none", "posted"} PROVE sent'[r] = 0
      BY <1>0, <1>1, <1>2, <2>1 DEF Bubbles
    <2> QED BY <1>0, <1>1, <1>5, <2>1 DEF Bubbles
  <1>8. Streams'
    <2>1. IsToken(e) => e.n = sent'[e.of] /\ sent'[e.of] > sent[e.of]
      BY <1>2, <1>3
    <2> QED BY <1>0, <1>1, <1>2, <1>3, <1>5, <2>1, StreamsTold
  <1>9. ASSUME Undisturbed'
        PROVE  /\ OneLives' /\ EndsComeLast'
               /\ \A c \in Browsers : bubble'[c] # NONE => WillEnd(c)'
               /\ \A r \in Questions : Whole(r)'
    <2>1. /\ Undisturbed /\ losses' = losses /\ OneLives /\ EndsComeLast
          /\ \A c \in Browsers : bubble[c] # NONE => WillEnd(c)
          /\ \A r \in Questions : Whole(r)
      BY <1>0, <1>5, <1>9, UndisturbedBefore
    <2>2. Live(q) /\ \A r \in Questions \ {q} : ~Live(r)
      BY <1>1, <2>1 DEF OneLives, Live
    <2>3. OneLives'
      <3>1. \A r \in Questions : Live(r)' => Live(r)
        BY <1>1, <1>3, <1>5, <2>2, LiveTold
      <3> QED BY <2>1, <3>1 DEF OneLives
    <2>4. \A c \in Browsers : \A i \in 1 .. Len(inbox[c]) : inbox[c][i].event # "ai.stream_end"
      <3>1. ASSUME NEW c \in Browsers, NEW i \in 1 .. Len(inbox[c]),
                   inbox[c][i].event = "ai.stream_end"
            PROVE  FALSE
        <4>1. inbox[c][i].of \in Questions /\ task[inbox[c][i].of] = "over"
          BY <1>0, <2>1, <3>1 DEF Streams, Coming, OfChat, EndsComeLast
        <4>2. Live(inbox[c][i].of)
          BY <4>1 DEF Live
        <4>3. inbox[c][i].of = q
          BY <2>2, <4>1, <4>2
        <4> QED BY <1>1, <4>1, <4>3
      <3> QED BY <3>1
    <2>5. EndsComeLast'
      <3>1. ASSUME NEW c \in Browsers, NEW i \in 1 .. Len(inbox'[c])
            PROVE  inbox'[c][i].event # "ai.stream_end"
        <4>1. Len(inbox[c]) \in Nat
          BY InboxIs
        <4>2. CASE i \in 1 .. Len(inbox[c])
          BY <1>5, <2>4, <4>2 DEF Longer
        <4>3. CASE i \notin 1 .. Len(inbox[c])
          <5>1. inbox'[c][i] = e
            BY <1>5, <4>1, <4>3 DEF Longer
          <5> QED BY <1>3, <5>1
        <4> QED BY <4>2, <4>3
      <3> QED BY <3>1 DEF EndsComeLast
    <2>6. \A c \in Browsers : bubble[c] # NONE =>
            link[c] = "subscribed" /\ bubble[c] = q /\ c = b
      BY <1>0, <1>4, <2>1, <2>2, OpenLives DEF WillEnd
    <2>7. \A c \in Browsers : bubble'[c] # NONE => WillEnd(c)'
      BY <1>1, <1>5, <2>6 DEF WillEnd
    <2>8. ASSUME NEW r \in Questions PROVE Whole(r)'
      <3>1. Whole(r)
        BY <2>1
      <3>2. CASE r = q
        <4>1. CASE view[q] = "stream"
          <5>1. bubble[b] = q
            BY <1>1, <3>1, <3>2, <4>1 DEF Whole
          <5>2. Numbers(text[q]) \cup TokensOnTheWay(b) = 1 .. sent[q]
            BY <3>1, <3>2, <4>1, <5>1 DEF Whole
          <5>3. Len(inbox[b]) < Len(inbox'[b])
            BY <1>4, <1>5, <2>1, <2>6, <5>1 DEF Longer
          <5>4. TokensOnTheWay(b)' = TokensOnTheWay(b) \cup {sent[q] + 1}
            BY <1>2, <1>3, <1>4, <1>5, <5>3, ToldArrives
          <5>5. (1 .. sent[q]) \cup {sent[q] + 1} = 1 .. sent'[q]
            BY <1>2
          <5>6. Numbers(text[q]) \cup TokensOnTheWay(b)' = 1 .. sent'[q]
            BY <5>2, <5>4, <5>5
          <5> QED BY <1>1, <3>1, <3>2, <5>1, <5>6 DEF Whole
        <4>2. CASE view[q] # "stream"
          BY <1>1, <3>1, <3>2, <4>2 DEF Whole
        <4> QED BY <4>1, <4>2
      <3>3. CASE r # q
        <4>1. bubble[Asker[r]] # r
          BY <1>0, <2>6, <3>3, BrowserOf
        <4> QED BY <1>1, <1>2, <3>1, <3>3, <4>1 DEF Whole
      <3> QED BY <3>2, <3>3
    <2> QED BY <2>3, <2>5, <2>7, <2>8
  <1>10. Alone'
    BY <1>9 DEF Alone
  <1> QED BY <1>5, <1>6, <1>7, <1>8, <1>10 DEF ChatInv

LEMMA EndKeeps ==
  ASSUME SocketTyped, ChatInv, NEW q \in Questions, End(q), page = "chat"
  PROVE  SocketTyped' /\ ChatInv'
  <1>0. ChatTyped /\ Bubbles /\ Streams /\ Alone
    BY DEF ChatInv
  <1> DEFINE e == Event("ai.stream_end", q, 0)
             b == Asker[q]
  <1>1. /\ task[q] = "ending" /\ task' = [task EXCEPT ![q] = "over"]
        /\ Announce(e) /\ UNCHANGED <<sent, waiting, bubble, view, text>>
    BY DEF End
  <1>2. e \in Message /\ e.event = "ai.stream_end" /\ e.of = q /\ ~IsToken(e)
    BY EventIs DEF Events, IsToken
  <1>3. b \in Browsers /\ q # NONE /\ \A c \in Browsers : bubble[c] = q => c = b
    BY <1>0, BrowserOf
  <1> HIDE DEF e
  <1>4. /\ SocketTyped' /\ page' = page /\ link' = link /\ losses <= losses'
        /\ \A c \in Browsers : Longer(c, e)
    BY <1>1, <1>2, AnnounceIs
  <1>5. /\ task' \in [Questions -> {"none", "posted", "streaming", "ending", "over"}]
        /\ task'[q] = "over" /\ \A r \in Questions \ {q} : task'[r] = task[r]
    BY <1>0, <1>1 DEF ChatTyped
  <1>6. ChatTyped'
    BY <1>0, <1>1, <1>5 DEF ChatTyped
  <1>7. Bubbles'
    <2>1. ASSUME NEW r \in Questions
          PROVE  /\ view'[r] = "none" => task'[r] = "none"
                 /\ task'[r] \in {"none", "posted"} => sent'[r] = 0
      BY <1>0, <1>1, <1>5 DEF Bubbles
    <2> QED BY <1>0, <1>1, <1>4, <2>1 DEF Bubbles
  <1>8. Streams'
    <2>1. \A r \in Questions : sent'[r] \in Nat /\ sent[r] <= sent'[r]
      BY <1>0, <1>1 DEF ChatTyped
    <2> QED BY <1>0, <1>1, <1>2, <1>4, <2>1, StreamsTold
  <1>9. ASSUME Undisturbed'
        PROVE  /\ OneLives' /\ EndsComeLast'
               /\ \A c \in Browsers : bubble'[c] # NONE => WillEnd(c)'
               /\ \A r \in Questions : Whole(r)'
    <2>1. /\ Undisturbed /\ losses' = losses /\ OneLives /\ EndsComeLast
          /\ \A c \in Browsers : bubble[c] # NONE => WillEnd(c)
          /\ \A r \in Questions : Whole(r)
      BY <1>0, <1>4, <1>9, UndisturbedBefore
    <2>2. Live(q) /\ \A r \in Questions \ {q} : ~Live(r)
      BY <1>1, <2>1 DEF OneLives, Live
    <2>3. OneLives'
      <3>1. \A r \in Questions : Live(r)' => Live(r)
        BY <1>1, <1>2, <1>4, <1>5, <2>2, LiveTold
      <3> QED BY <2>1, <3>1 DEF OneLives
    <2>4. EndsComeLast'
      <3>1. ASSUME NEW c \in Browsers, NEW i \in 1 .. Len(inbox'[c]),
                   inbox'[c][i].event = "ai.stream_end"
            PROVE  /\ task'[inbox'[c][i].of] = "over"
                   /\ \A j \in i .. Len(inbox'[c]) : inbox'[c][j].event = "ai.stream_end"
        <4>1. Len(inbox[c]) \in Nat
          BY InboxIs
        <4>2. CASE i \in 1 .. Len(inbox[c])
          <5>1. inbox'[c][i] = inbox[c][i]
            BY <1>4, <4>2 DEF Longer
          <5>2. /\ task[inbox[c][i].of] = "over"
                /\ \A j \in i .. Len(inbox[c]) : inbox[c][j].event = "ai.stream_end"
            BY <2>1, <3>1, <4>2, <5>1 DEF EndsComeLast
          <5>3. inbox[c][i].of \in Questions
            BY <1>0, <2>1, <4>2 DEF Streams, Coming, OfChat, Undisturbed
          <5>4. task'[inbox'[c][i].of] = "over"
            BY <1>5, <5>1, <5>2, <5>3
          <5>5. ASSUME NEW j \in i .. Len(inbox'[c]) PROVE inbox'[c][j].event = "ai.stream_end"
            <6>1. CASE j \in i .. Len(inbox[c])
              <7>1. inbox'[c][j] = inbox[c][j]
                BY <1>4, <4>1, <4>2, <6>1 DEF Longer
              <7> QED BY <5>2, <6>1, <7>1
            <6>2. CASE j \notin i .. Len(inbox[c])
              <7>1. j \in Len(inbox[c]) + 1 .. Len(inbox'[c])
                BY <4>1, <4>2, <6>2
              <7>2. inbox'[c][j] = e
                BY <1>4, <7>1 DEF Longer
              <7> QED BY <1>2, <7>2
            <6> QED BY <6>1, <6>2
          <5> QED BY <5>4, <5>5
        <4>3. CASE i \notin 1 .. Len(inbox[c])
          <5>1. \A j \in i .. Len(inbox'[c]) : j \in Len(inbox[c]) + 1 .. Len(inbox'[c])
            BY <4>1, <4>3
          <5>2. \A j \in i .. Len(inbox'[c]) : inbox'[c][j] = e
            BY <1>4, <5>1 DEF Longer
          <5>3. inbox'[c][i] = e
            BY <4>1, <5>2
          <5> QED BY <1>2, <1>5, <5>2, <5>3
        <4> QED BY <4>2, <4>3
      <3> QED BY <3>1 DEF EndsComeLast
    <2>5. \A c \in Browsers : bubble[c] # NONE =>
            link[c] = "subscribed" /\ bubble[c] = q /\ c = b
      BY <1>0, <1>3, <2>1, <2>2, OpenLives DEF WillEnd
    <2>6. ASSUME NEW c \in Browsers, bubble'[c] # NONE PROVE WillEnd(c)'
      <3>1. link[c] = "subscribed" /\ bubble'[c] = q /\ Len(inbox[c]) \in Nat
        BY <1>1, <2>5, <2>6, InboxIs
      <3>2. Len(inbox[c]) + 1 \in Len(inbox[c]) + 1 .. Len(inbox'[c])
            /\ Len(inbox[c]) + 1 \in 1 .. Len(inbox'[c])
        BY <1>4, <2>1, <3>1 DEF Longer
      <3>3. inbox'[c][Len(inbox[c]) + 1] = e
        BY <1>4, <3>2 DEF Longer
      <3> QED BY <1>2, <1>4, <3>1, <3>2, <3>3 DEF WillEnd
    <2>7. ASSUME NEW r \in Questions PROVE Whole(r)'
      <3>1. Whole(r) /\ Asker[r] \in Browsers
        BY <1>0, <2>1, BrowserOf
      <3>2. TokensOnTheWay(Asker[r])' = TokensOnTheWay(Asker[r])
        BY <1>2, <1>4, <3>1, ToldArrives
      <3>3. task[r] = "over" => task'[r] = "over"
        BY <1>5
      <3> QED BY <1>1, <3>1, <3>2, <3>3 DEF Whole
    <2> QED BY <2>3, <2>4, <2>6, <2>7
  <1>10. Alone'
    BY <1>9 DEF Alone
  <1> QED BY <1>4, <1>6, <1>7, <1>8, <1>10 DEF ChatInv

LEMMA HearKeeps ==
  ASSUME SocketTyped, ChatInv, NEW b \in Browsers, Hear(b)
  PROVE  SocketTyped' /\ ChatInv'
  <1>0. ChatTyped /\ Bubbles /\ Streams /\ Alone
    BY DEF ChatInv
  <1> DEFINE e == inbox[b][1]
             q == bubble[b]
             n == Len(text[q])
  <1>1. /\ page = "chat" /\ Take(b) /\ UNCHANGED <<task, sent, waiting, view>>
    BY DEF Hear
  <1>2. /\ SocketTyped' /\ page' = page /\ link' = link /\ losses' = losses
        /\ \A c \in Browsers \ {b} : inbox'[c] = inbox[c]
        /\ Len(inbox[b]) \in Nat /\ Len(inbox[b]) # 0 /\ Len(inbox'[b]) = Len(inbox[b]) - 1
        /\ \A i \in 1 .. Len(inbox'[b]) : inbox'[b][i] = inbox[b][i + 1]
    BY <1>1, TakeIs
  <1>3. /\ Streams' /\ text' \in [Questions -> Seq(Message)]
        /\ \A r \in Questions : text'[r] # text[r] => q = r
        /\ q # NONE /\ IsToken(e) =>
             /\ Len(text'[q]) = n + 1
             /\ \A i \in 1 .. n : text'[q][i] = text[q][i]
             /\ text'[q][n + 1] = e
        /\ IF IsToken(e) THEN bubble' = bubble
           ELSE text' = text /\ bubble' = [bubble EXCEPT ![b] = NONE]
    BY <1>0, StreamsHeard
  <1>4. bubble' \in [Browsers -> Questions \cup {NONE}]
        /\ \A c \in Browsers : bubble'[c] \in {bubble[c], NONE} /\ (c # b => bubble'[c] = bubble[c])
    BY <1>0, <1>3 DEF ChatTyped
  <1>5. ChatTyped'
    BY <1>0, <1>1, <1>3, <1>4 DEF ChatTyped
  <1>6. Bubbles'
    <2>1. ASSUME NEW r \in Questions, text'[r] # <<>> PROVE view'[r] = "stream" /\ page' = "chat"
      BY <1>0, <1>1, <1>2, <1>3, <2>1, ChatAssumption DEF Bubbles
    <2>2. ASSUME NEW c \in Browsers, bubble'[c] # NONE
          PROVE  Asker[bubble'[c]] = c /\ view'[bubble'[c]] = "stream"
      BY <1>0, <1>1, <1>4, <2>2 DEF Bubbles
    <2> QED BY <1>0, <1>1, <2>1, <2>2 DEF Bubbles
  <1>7. ASSUME Undisturbed'
        PROVE  /\ OneLives' /\ EndsComeLast'
               /\ \A c \in Browsers : bubble'[c] # NONE => WillEnd(c)'
               /\ \A r \in Questions : Whole(r)'
    <2>0. losses \in Nat
      BY DEF SocketTyped
    <2>1. /\ Undisturbed /\ OneLives /\ EndsComeLast
          /\ \A c \in Browsers : bubble[c] # NONE => WillEnd(c)
          /\ \A r \in Questions : Whole(r)
      BY <1>0, <1>2, <1>7, <2>0, UndisturbedBefore
    <2>2. ASSUME NEW c \in Browsers, NEW i \in 1 .. Len(inbox'[c])
          PROVE  \E j \in 1 .. Len(inbox[c]) : inbox'[c][i] = inbox[c][j] /\
                   \A k \in i .. Len(inbox'[c]) :
                     \E l \in j .. Len(inbox[c]) : inbox'[c][k] = inbox[c][l]
      <3>1. CASE c = b
        <4>1. i + 1 \in 1 .. Len(inbox[c]) /\ inbox'[c][i] = inbox[c][i + 1]
          BY <1>2, <3>1
        <4>2. ASSUME NEW k \in i .. Len(inbox'[c])
              PROVE  k + 1 \in i + 1 .. Len(inbox[c]) /\ inbox'[c][k] = inbox[c][k + 1]
          BY <1>2, <3>1
        <4> QED BY <4>1, <4>2
      <3>2. CASE c # b
        <4>1. inbox'[c] = inbox[c]
          BY <1>2, <3>2
        <4> QED BY <4>1
      <3> QED BY <3>1, <3>2
    <2>3. OneLives'
      <3>1. \A r \in Questions : Live(r)' => Live(r)
        BY <1>1, <2>2 DEF Live
      <3> QED BY <2>1, <3>1 DEF OneLives
    <2>4. EndsComeLast'
      <3>1. ASSUME NEW c \in Browsers, NEW i \in 1 .. Len(inbox'[c]),
                   inbox'[c][i].event = "ai.stream_end"
            PROVE  /\ task[inbox'[c][i].of] = "over"
                   /\ \A k \in i .. Len(inbox'[c]) : inbox'[c][k].event = "ai.stream_end"
        <4>1. PICK j \in 1 .. Len(inbox[c]) : inbox'[c][i] = inbox[c][j] /\
                     \A k \in i .. Len(inbox'[c]) :
                       \E l \in j .. Len(inbox[c]) : inbox'[c][k] = inbox[c][l]
          BY <2>2
        <4>2. /\ task[inbox[c][j].of] = "over"
              /\ \A l \in j .. Len(inbox[c]) : inbox[c][l].event = "ai.stream_end"
          BY <2>1, <3>1, <4>1 DEF EndsComeLast
        <4> QED BY <4>1, <4>2
      <3> QED BY <1>1, <3>1 DEF EndsComeLast
    <2>5. 1 \in 1 .. Len(inbox[b]) /\ e.of \in Questions /\ Live(e.of)
          /\ e.event \in {"ai.token", "ai.stream_end"}
      <3>1. 1 \in 1 .. Len(inbox[b])
        BY <1>2
      <3>2. e.of \in Questions /\ e.event \in {"ai.token", "ai.stream_end"}
        BY <1>0, <1>1, <3>1 DEF Streams, Coming, OfChat
      <3> QED BY <3>1, <3>2 DEF Live
    <2>6. q # NONE => q \in Questions /\ e.of = q /\ Asker[q] = b /\ view[q] = "stream" /\ n \in Nat
      BY <1>0, <2>1, <2>5, OpenLives, TextIs DEF OneLives, Bubbles
    <2>7. ASSUME NEW c \in Browsers, bubble'[c] # NONE PROVE WillEnd(c)'
      <3>1. WillEnd(c) /\ bubble'[c] = bubble[c]
        BY <1>4, <2>1, <2>7
      <3>2. ASSUME NEW i \in 1 .. Len(inbox[c]),
                   inbox[c][i].event = "ai.stream_end", inbox[c][i].of = bubble[c]
            PROVE  \E k \in 1 .. Len(inbox'[c]) :
                     inbox'[c][k].event = "ai.stream_end" /\ inbox'[c][k].of = bubble[c]
        <4>1. CASE c = b
          <5>1. IsToken(e)
            BY <1>0, <1>3, <2>7, <4>1 DEF ChatTyped
          <5>2. i # 1
            BY <3>2, <4>1, <5>1 DEF IsToken
          <5>3. i - 1 \in 1 .. Len(inbox'[c]) /\ inbox'[c][i - 1] = inbox[c][i]
            BY <1>2, <4>1, <5>2
          <5> QED BY <3>2, <5>3
        <4>2. CASE c # b
          BY <1>2, <3>2, <4>2
        <4> QED BY <4>1, <4>2
      <3> QED BY <1>1, <1>2, <3>1, <3>2 DEF WillEnd
    <2>8. ASSUME NEW r \in Questions PROVE Whole(r)'
      <3>1. Whole(r) /\ Asker[r] \in Browsers
        BY <1>0, <2>1, BrowserOf
      <3>2. CASE r # q
        <4>1. text'[r] = text[r]
          BY <1>3, <3>2
        <4>2. bubble'[Asker[r]] = r <=> bubble[Asker[r]] = r
          BY <1>0, <1>4, <3>1, <3>2, BrowserOf
        <4>3. bubble[Asker[r]] = r => TokensOnTheWay(Asker[r])' = TokensOnTheWay(Asker[r])
          BY <1>2, <3>1, <3>2 DEF TokensOnTheWay
        <4> QED BY <1>1, <3>1, <4>1, <4>2, <4>3 DEF Whole
      <3>3. CASE r = q /\ IsToken(e)
        <4>0. q # NONE /\ q \in Questions /\ e.of = q /\ Asker[q] = b /\ n \in Nat /\ bubble'[b] = q
          BY <1>3, <2>6, <3>3, ChatAssumption
        <4>1. /\ Len(text'[q]) = n + 1
              /\ \A i \in 1 .. n : text'[q][i] = text[q][i]
              /\ text'[q][n + 1] = e
          BY <1>3, <3>3, <4>0
        <4>2. ASSUME NEW i \in 1 .. Len(text'[q]) PROVE text'[q][i].of = q
          <5>1. CASE i = n + 1
            BY <4>0, <4>1, <5>1
          <5>2. CASE i # n + 1
            <6>1. i \in 1 .. n
              BY <4>0, <4>1, <5>2
            <6> QED BY <3>1, <3>3, <4>1, <6>1 DEF Whole
          <5> QED BY <5>1, <5>2
        <4>3. Numbers(text'[q]) = Numbers(text[q]) \cup {e.n}
          <5>1. \A i \in 1 .. n : i \in 1 .. Len(text'[q]) /\ text'[q][i].n = text[q][i].n
            BY <4>0, <4>1
          <5>2. \A i \in 1 .. Len(text'[q]) : i \in 1 .. n \/ i = n + 1
            BY <4>0, <4>1
          <5>3. n + 1 \in 1 .. Len(text'[q])
            BY <4>0, <4>1
          <5>4. Numbers(text[q]) \subseteq Numbers(text'[q])
            BY <5>1 DEF Numbers
          <5>5. e.n \in Numbers(text'[q])
            BY <4>1, <5>3 DEF Numbers
          <5>6. Numbers(text'[q]) \subseteq Numbers(text[q]) \cup {e.n}
            <6>1. ASSUME NEW i \in 1 .. Len(text'[q])
                  PROVE  text'[q][i].n \in Numbers(text[q]) \cup {e.n}
              BY <4>1, <5>1, <5>2, <6>1 DEF Numbers
            <6> QED BY <6>1 DEF Numbers
          <5> QED BY <5>4, <5>5, <5>6
        <4>4. TokensOnTheWay(b) = TokensOnTheWay(b)' \cup {e.n}
          <5>1. \A i \in 1 .. Len(inbox'[b]) :
                  i + 1 \in 1 .. Len(inbox[b]) /\ inbox'[b][i] = inbox[b][i + 1]
            BY <1>2
          <5>2. \A i \in 1 .. Len(inbox[b]) : i = 1 \/ (i - 1 \in 1 .. Len(inbox'[b])
                                                       /\ inbox'[b][i - 1] = inbox[b][i])
            BY <1>2
          <5>3. TokensOnTheWay(b)' \subseteq TokensOnTheWay(b)
            BY <5>1 DEF TokensOnTheWay
          <5>4. e.n \in TokensOnTheWay(b)
            BY <2>5, <3>3 DEF TokensOnTheWay
          <5>5. TokensOnTheWay(b) \subseteq TokensOnTheWay(b)' \cup {e.n}
            BY <5>2 DEF TokensOnTheWay
          <5> QED BY <5>3, <5>4, <5>5
        <4>5. Numbers(text[q]) \cup TokensOnTheWay(b) = 1 .. sent[q]
          BY <2>6, <3>1, <3>3, <4>0 DEF Whole
        <4>6. Numbers(text'[q]) \cup TokensOnTheWay(b)' = 1 .. sent'[q]
          BY <1>1, <4>3, <4>4, <4>5
        <4> QED BY <1>1, <3>3, <4>0, <4>2, <4>6 DEF Whole
      <3>4. CASE r = q /\ ~IsToken(e)
        <4>0. q # NONE /\ e.of = q /\ Asker[q] = b /\ e.event = "ai.stream_end"
          BY <2>5, <2>6, <3>4, ChatAssumption DEF IsToken
        <4>1. text' = text /\ bubble'[b] = NONE
          BY <1>0, <1>3, <3>4 DEF ChatTyped
        <4>2. task[q] = "over" /\ \A j \in 1 .. Len(inbox[b]) : inbox[b][j].event = "ai.stream_end"
          BY <2>1, <2>5, <4>0 DEF EndsComeLast
        <4>3. TokensOnTheWay(b) = {}
          BY <4>2 DEF TokensOnTheWay, IsToken
        <4>4. Numbers(text[q]) = 1 .. sent[q]
          BY <2>6, <3>1, <3>4, <4>0, <4>3 DEF Whole
        <4> QED BY <1>1, <3>1, <3>4, <4>0, <4>1, <4>2, <4>4 DEF Whole
      <3> QED BY <3>2, <3>3, <3>4
    <2> QED BY <2>3, <2>4, <2>7, <2>8
  <1>8. Alone'
    BY <1>7 DEF Alone
  <1> QED BY <1>2, <1>3, <1>5, <1>6, <1>8 DEF ChatInv

LEMMA ChatStep ==
  ASSUME SocketTyped, ChatInv, ChatNext, page = "chat"
  PROVE  SocketTyped' /\ ChatInv'
  BY AskKeeps, AcceptKeeps, FallBackKeeps, EmitKeeps, EndKeeps, HearKeeps DEF ChatNext

\* What the chat shows is the answer to the question above it.
LEMMA ChatIsOwn ==
  ASSUME SocketTyped, ChatInv
  PROVE  OwnAnswer
  <1>0. ChatTyped /\ Bubbles /\ Streams /\ Alone
    BY DEF ChatInv
  <1> SUFFICES ASSUME NEW q \in Questions
               PROVE  /\ \A i, j \in 1 .. Len(text[q]) :
                           i <= j /\ text[q][i].of = text[q][j].of => text[q][i].n <= text[q][j].n
                      /\ Patient /\ losses = 0 =>
                           /\ \A i \in 1 .. Len(text[q]) : text[q][i].of = q
                           /\ task[q] = "over" /\ text[q] # <<>> /\ inbox[Asker[q]] = <<>> =>
                                Numbers(text[q]) = text[q][1].n .. sent[q]
    BY DEF OwnAnswer, Numbers
  <1>1. Len(text[q]) \in Nat /\ (text[q] = <<>> <=> Len(text[q]) = 0)
        /\ \A i \in 1 .. Len(text[q]) : text[q][i].n \in Nat
    BY <1>0, TextIs
  <1>2. \A i \in 1 .. Len(text[q]) : page = "chat" /\ view[q] = "stream"
    BY <1>0, <1>1 DEF Bubbles
  <1>3. ASSUME NEW i \in 1 .. Len(text[q]), NEW j \in 1 .. Len(text[q]),
               i <= j, text[q][i].of = text[q][j].of
        PROVE  text[q][i].n <= text[q][j].n
    <2>1. page = "chat" /\ j \in i .. Len(text[q])
      BY <1>1, <1>2, <1>3
    <2>2. NotAfter(text[q][i], text[q][j]) /\ IsToken(text[q][i]) /\ IsToken(text[q][j])
      BY <1>0, <2>1 DEF Streams, Written
    <2> QED BY <1>3, <2>2 DEF NotAfter
  <1>4. ASSUME Patient, losses = 0, NEW i \in 1 .. Len(text[q])
        PROVE  text[q][i].of = q
    BY <1>0, <1>2, <1>4 DEF Alone, Undisturbed, Whole
  <1>5. ASSUME Patient, losses = 0, task[q] = "over", text[q] # <<>>, inbox[Asker[q]] = <<>>
        PROVE  Numbers(text[q]) = text[q][1].n .. sent[q]
    <2>1. 1 \in 1 .. Len(text[q])
      BY <1>1, <1>5
    <2>2. page = "chat" /\ view[q] = "stream" /\ Whole(q) /\ Asker[q] \in Browsers
      BY <1>0, <1>2, <1>5, <2>1, BrowserOf DEF Alone, Undisturbed
    <2>3. TokensOnTheWay(Asker[q]) = {}
      <3>1. Len(inbox[Asker[q]]) = 0
        BY <1>5, <2>2, InboxIs
      <3> QED BY <3>1 DEF TokensOnTheWay
    <2>4. Numbers(text[q]) = 1 .. sent[q]
      BY <2>2, <2>3 DEF Whole
    <2>5. sent[q] \in Nat
      BY <1>0, ChatAssumption DEF ChatTyped
    <2>6. text[q][1].n \in Numbers(text[q]) /\ text[q][1].n \in 1 .. sent[q]
      BY <2>1, <2>4 DEF Numbers
    <2>7. 1 \in Numbers(text[q])
      BY <2>4, <2>5, <2>6
    <2>8. PICK k \in 1 .. Len(text[q]) : text[q][k].n = 1
      BY <2>7 DEF Numbers
    <2>9. text[q][1].of = text[q][k].of
      BY <1>4, <1>5, <2>1, <2>8
    <2>10. text[q][1].n <= text[q][k].n
      BY <1>3, <2>1, <2>8, <2>9
    <2>11. text[q][1].n = 1
      BY <2>5, <2>6, <2>8, <2>10
    <2> QED BY <2>4, <2>11
  <1> QED BY <1>3, <1>4, <1>5

\* On the other pages nothing of this changes.
LEMMA ChatElsewhere ==
  ASSUME ChatInv, page' = page, page # "chat", UNCHANGED chatVars
  PROVE  ChatInv'
  <1>1. UNCHANGED <<task, sent, waiting, bubble, view, text>>
    BY DEF chatVars
  <1>2. ChatTyped' /\ Bubbles'
    BY <1>1 DEF ChatInv, ChatTyped, Bubbles
  <1>3. Streams' /\ Alone'
    BY DEF Streams, Alone, Undisturbed
  <1> QED BY <1>2, <1>3 DEF ChatInv

\* Where no message comes or goes, nothing changes.
LEMMA ChatRests ==
  ASSUME ChatInv, page' = page, UNCHANGED chatVars, losses' = losses, inbox' = inbox,
         \A c \in Browsers : link[c] = "subscribed" => link'[c] = "subscribed"
  PROVE  ChatInv'
  <1>1. UNCHANGED <<task, sent, waiting, bubble, view, text>>
    BY DEF chatVars
  <1>2. ChatTyped /\ Bubbles /\ Streams /\ Alone
    BY DEF ChatInv
  <1>3. ChatTyped' /\ Bubbles'
    BY <1>1, <1>2 DEF ChatTyped, Bubbles
  <1>4. Streams'
    BY <1>1, <1>2 DEF Streams, Coming, Written, Before
  <1>5. ASSUME NEW c \in Browsers, WillEnd(c) PROVE WillEnd(c)'
    BY <1>1, <1>5 DEF WillEnd
  <1>6. ASSUME NEW q \in Questions, Whole(q) PROVE Whole(q)'
    BY <1>1, <1>6 DEF Whole, TokensOnTheWay
  <1>7. OneLives => OneLives'
    BY <1>1 DEF OneLives, Live
  <1>8. EndsComeLast => EndsComeLast'
    BY <1>1 DEF EndsComeLast
  <1>9. Alone'
    BY <1>1, <1>2, <1>5, <1>6, <1>7, <1>8 DEF Alone, Undisturbed
  <1> QED BY <1>3, <1>4, <1>9 DEF ChatInv

\* Messages that are gone are not missed: where one is lost nobody counts them.
LEMMA ChatLinked ==
  ASSUME SocketTyped, ChatInv, NEW b \in Browsers, Open(b) \/ Subscribe(b) \/ Lose(b),
         UNCHANGED chatVars
  PROVE  ChatInv'
  <1>0. ChatTyped /\ Bubbles /\ Streams /\ Alone
    BY DEF ChatInv
  <1>1. UNCHANGED <<task, sent, waiting, bubble, view, text>>
    BY DEF chatVars
  <1>2. page' = page
    BY LinkIs
  <1>3. ChatTyped' /\ Bubbles'
    BY <1>0, <1>1, <1>2 DEF ChatTyped, Bubbles
  <1>4. CASE /\ losses' = losses /\ inbox' = inbox
             /\ \A c \in Browsers : link[c] = "subscribed" => link'[c] = "subscribed"
    BY <1>2, <1>4, ChatRests
  <1>5. CASE /\ losses' = losses + 1 /\ inbox'[b] = <<>> /\ Len(inbox'[b]) = 0
             /\ \A c \in Browsers \ {b} : inbox'[c] = inbox[c]
    <2>1. Coming => Coming'
      BY <1>1, <1>5 DEF Coming
    <2>2. Written => Written'
      BY <1>1 DEF Written
    <2>3. Before => Before'
      BY <1>1, <1>5 DEF Before
    <2>4. losses \in Nat
      BY DEF SocketTyped
    <2>5. Streams' /\ Alone'
      BY <1>0, <1>2, <1>5, <2>1, <2>2, <2>3, <2>4 DEF Streams, Alone, Undisturbed
    <2> QED BY <1>3, <2>5 DEF ChatInv
  <1> QED BY <1>4, <1>5, LinkIs

LEMMA ChatStarts ==
  ASSUME Init
  PROVE  ChatInv
  <1>1. /\ task = [q \in Questions |-> "none"] /\ sent = [q \in Questions |-> 0]
        /\ waiting = [q \in Questions |-> "nothing"] /\ bubble = [b \in Browsers |-> NONE]
        /\ view = [q \in Questions |-> "none"] /\ text = [q \in Questions |-> <<>>]
        /\ inbox = [b \in Browsers |-> <<>>]
    BY DEF Init, ChatInit, SocketInit
  <1>2. <<>> \in Seq(Message) /\ Len(<<>>) = 0
    BY EmptySeq
  <1>3. ChatTyped
    BY <1>1, <1>2, ChatAssumption DEF ChatTyped
  <1>4. Bubbles
    BY <1>1 DEF Bubbles
  <1>5. Streams
    BY <1>1, <1>2 DEF Streams, Coming, Written, Before
  <1>6. Alone
    BY <1>1, <1>2 DEF Alone, OneLives, Live, EndsComeLast, WillEnd, Whole
  <1> QED BY <1>3, <1>4, <1>5, <1>6 DEF ChatInv

-----------------------------------------------------------------------------
(* Replays: what the parts of the invariant say together.                  *)

ReplayBase == ReplayTyped /\ Asking /\ Standing /\ Knowing /\ Unopened /\ Telling

LEMMA PlayerIs ==
  ASSUME ReplayTyped, NEW b \in Browsers
  PROVE  /\ player[b] \in Players
         /\ player[b].candles \in Seq(Replays \X Nat) /\ Len(player[b].candles) \in Nat
         /\ player[b].candles = <<>> <=> Len(player[b].candles) = 0
         /\ \A i \in 1 .. Len(player[b].candles) : player[b].candles[i][2] \in Nat
  <1>1. player[b] \in Players /\ player[b].candles \in Seq(Replays \X Nat)
    BY DEF ReplayTyped, Players
  <1>2. Len(player[b].candles) \in Nat
        /\ \A i \in 1 .. Len(player[b].candles) : player[b].candles[i] \in Replays \X Nat
    BY <1>1, LenProperties, ElementOfSeq
  <1>3. player[b].candles = <<>> <=> Len(player[b].candles) = 0
    BY <1>1, EmptySeq
  <1> QED BY <1>1, <1>2, <1>3

\* One player changes, one request changes.
LEMMA PlayerSet ==
  ASSUME ReplayTyped, NEW b \in Browsers, NEW p \in Players, player' = [player EXCEPT ![b] = p]
  PROVE  /\ player' \in [Browsers -> Players] /\ player'[b] = p
         /\ \A c \in Browsers \ {b} : player'[c] = player[c]
  BY DEF ReplayTyped

LEMMA PutSet ==
  ASSUME ReplayTyped, Asking, NEW b \in Browsers, NEW i \in Slots, NEW q \in Puts,
         put' = [put EXCEPT ![b][i] = q], PutIsRight(q)
  PROVE  /\ put' \in [Browsers -> [Slots -> Puts]] /\ put'[b][i] = q
         /\ \A c \in Browsers, j \in Slots : c # b \/ j # i => put'[c][j] = put[c][j]
         /\ Asking'
  <1>1. /\ put' \in [Browsers -> [Slots -> Puts]] /\ put'[b][i] = q
        /\ \A c \in Browsers, j \in Slots : c # b \/ j # i => put'[c][j] = put[c][j]
    BY DEF ReplayTyped
  <1>2. ASSUME NEW c \in Browsers, NEW j \in Slots PROVE PutIsRight(put'[c][j])
    <2>1. CASE c = b /\ j = i
      BY <1>1, <2>1
    <2>2. CASE c # b \/ j # i
      BY <1>1, <2>2 DEF Asking
    <2> QED BY <2>1, <2>2
  <1> QED BY <1>1, <1>2 DEF Asking, PutIsRight

\* A page knows the sessions it knew before.
LEMMA BaseKept ==
  ASSUME ReplayBase, ReplayTyped', Asking', Standing', Unopened', page' = page,
         \A c \in Browsers : player'[c].session = player[c].session,
         \A s \in Replays : row[s] # NoReplay => row'[s] # NoReplay,
         \A c \in Browsers, i \in Slots :
           put'[c][i].step # "none" => Knows(c, put'[c][i].of),
         page = "replay" =>
           \A c \in Browsers : \A i \in 1 .. Len(inbox'[c]) : OfReplay(inbox'[c][i])
  PROVE  ReplayBase'
  <1>1. \A c \in Browsers, s \in Replays : Knows(c, s)' => Knows(c, s)
    BY DEF Knows, Used
  <1>2. Knowing'
    BY <1>1 DEF ReplayBase, Knowing
  <1>3. Telling'
    BY DEF Telling, OfReplay
  <1> QED BY <1>2, <1>3 DEF ReplayBase

\* Where a page's session is the only one everything is about it.
LEMMA OnlyIs ==
  ASSUME ReplayBase, NEW b \in Browsers, Only(b)
  PROVE  /\ player[b].session \in Replays /\ player[b].session # NONE
         /\ row[player[b].session] # NoReplay
         /\ Frames[player[b].session] \in Nat \ {0}
         /\ IsFrameOf(row[player[b].session].frame, player[b].session)
         /\ \A c \in Browsers, i \in Slots : Used(c, i) =>
              c = b /\ put[c][i].of = player[b].session
         /\ \A l \in late : l.of = player[b].session
         /\ \A c \in Browsers : c # b => player[c].session = NONE
         /\ \A c \in Browsers : \A i \in 1 .. Len(inbox[c]) :
              inbox[c][i].of = player[b].session
  <1> DEFINE s == player[b].session
  <1>1. s \in Replays /\ s # NONE /\ Knows(b, s)
    BY PlayerIs DEF ReplayBase, Only, Players, Knows
  <1>2. row[s] # NoReplay /\ IsFrameOf(row[s].frame, s) /\ Frames[s] \in Nat \ {0}
    BY <1>1, PlayerAssumption DEF ReplayBase, Knowing, Standing
  <1>3. ASSUME NEW c \in Browsers, NEW r \in Replays, Knows(c, r)
        PROVE  c = b /\ r = s
    BY <1>1, <1>3 DEF ReplayBase, Knowing, Only
  <1>4. ASSUME NEW c \in Browsers, NEW i \in Slots, Used(c, i)
        PROVE  c = b /\ put[c][i].of = s
    <2>1. put[c][i].of \in Replays /\ Knows(c, put[c][i].of)
      BY <1>4 DEF ReplayBase, Asking, PutIsRight, Used, Knows
    <2> QED BY <1>3, <2>1
  <1>5. \A l \in late : l.of = s
    BY DEF ReplayBase, ReplayTyped, Standing, Only
  <1>6. ASSUME NEW c \in Browsers, c # b PROVE player[c].session = NONE
    <2>1. player[c].session \in Replays \cup {NONE}
      BY PlayerIs DEF ReplayBase, Players
    <2> QED BY <1>3, <1>6, <2>1 DEF Knows
  <1>7. \A c \in Browsers : \A i \in 1 .. Len(inbox[c]) : inbox[c][i].of = s
    BY DEF ReplayBase, Telling, OfReplay, Only
  <1> QED BY <1>1, <1>2, <1>4, <1>5, <1>6, <1>7

LEMMA OnlyBefore ==
  ASSUME NEW b \in Browsers, page' = page, strayed' = strayed,
         player'[b].session = player[b].session,
         \A s \in Replays : row[s] # NoReplay => row'[s] # NoReplay, Only(b)'
  PROVE  Only(b)
  BY DEF Only

\* A request that has the lock, or one answered before its commit, keeps the others out.
LEMMA LockedIs ==
  ASSUME ReplayBase, NEW b \in Browsers, Only(b), ~Locked(player[b].session)
  PROVE  late = {} /\ \A i \in Slots : ~Locking(b, i)
  <1>1. late = {}
    BY OnlyIs DEF Locked
  <1>2. ASSUME NEW i \in Slots, Locking(b, i) PROVE FALSE
    <2>1. Used(b, i)
      BY <1>2 DEF Locking, Used
    <2> QED BY <1>2, <2>1, OnlyIs DEF Locked, Locking
  <1> QED BY <1>1, <1>2

\* What is drawn and what comes is the same.
LEMMA DrawnStill ==
  ASSUME NEW b \in Browsers, NEW m, player'[b].candles = player[b].candles,
         player'[b].session = player[b].session, inbox'[b] = inbox[b], losses' = losses,
         link' = link
  PROVE  (Drawn(b, m) => Drawn(b, m)') /\ (Gapless(b, m) => Gapless(b, m)')
  <1>1. /\ FramesOnTheWay(b)' = FramesOnTheWay(b) /\ LastDrawn(b)' = LastDrawn(b)
        /\ \A n : Comes(b, n)' <=> Comes(b, n)
    BY DEF FramesOnTheWay, LastDrawn, Comes
  <1> QED BY <1>1 DEF Drawn, Gapless

LEMMA BaseOf ==
  ReplayInv <=> ReplayBase /\ Following /\ Caring
  BY DEF ReplayInv, ReplayBase

\* A step of the page of b or of one of its requests.
LEMMA OfOne ==
  ASSUME ReplayBase, NEW b \in Browsers, NEW c \in Browsers, Only(c),
         player[b].session # NONE \/ \E i \in Slots : Used(b, i)
  PROVE  c = b
  BY OnlyIs

-----------------------------------------------------------------------------
(* The buttons and the timer.                                              *)

LEMMA SentPut ==
  ASSUME NEW op, NEW s
  PROVE  [NoPut EXCEPT !.step = "sent", !.op = op, !.of = s] =
           [step |-> "sent", op |-> op, of |-> s, goal |-> NoReplay]
  <1> DEFINE x == [step |-> "none", op |-> "next", of |-> NONE, goal |-> NoReplay]
             y == [step |-> "sent", op |-> "next", of |-> NONE, goal |-> NoReplay]
             z == [step |-> "sent", op |-> op, of |-> NONE, goal |-> NoReplay]
  <1>1. NoPut = x
    BY DEF NoPut
  <1>2. [x EXCEPT !.step = "sent"] = y
    OBVIOUS
  <1>3. [y EXCEPT !.op = op] = z
    OBVIOUS
  <1>4. [z EXCEPT !.of = s] = [step |-> "sent", op |-> op, of |-> s, goal |-> NoReplay]
    OBVIOUS
  <1> HIDE DEF x, y, z
  <1>5. [NoPut EXCEPT !.step = "sent", !.op = op, !.of = s] = [z EXCEPT !.of = s]
    BY <1>1, <1>2, <1>3
  <1> QED BY <1>4, <1>5

\* A request is sent.
LEMMA SendIs ==
  ASSUME ReplayBase, NEW b \in Browsers, NEW op \in {"next", "finish"}, Send(b, op),
         player[b].session \in Replays
  PROVE  \E i \in Slots :
           /\ put[b][i] = NoPut /\ ~Used(b, i) /\ Used(b, i)'
           /\ put'[b][i].step = "sent" /\ put'[b][i].op = op
           /\ put'[b][i].of = player[b].session
           /\ put' \in [Browsers -> [Slots -> Puts]] /\ Asking'
           /\ \A c \in Browsers, j \in Slots : c # b \/ j # i => put'[c][j] = put[c][j]
  <1>1. PICK i \in Slots :
          /\ put[b][i] = NoPut
          /\ put' = [put EXCEPT ![b][i] =
                       [NoPut EXCEPT !.step = "sent", !.op = op, !.of = player[b].session]]
    BY DEF Send
  <1> DEFINE q == [step |-> "sent", op |-> op, of |-> player[b].session, goal |-> NoReplay]
  <1>2. [NoPut EXCEPT !.step = "sent", !.op = op, !.of = player[b].session] = q
    BY SentPut
  <1>3. put' = [put EXCEPT ![b][i] = q]
    BY <1>1, <1>2
  <1>4. q \in Puts /\ PutIsRight(q)
    BY DEF Puts, Points, NoReplay, PutIsRight
  <1>5. q.step = "sent" /\ q.op = op /\ q.of = player[b].session
    OBVIOUS
  <1> HIDE DEF q
  <1>6. put'[b][i] = q /\ put' \in [Browsers -> [Slots -> Puts]] /\ Asking'
        /\ \A c \in Browsers, j \in Slots : c # b \/ j # i => put'[c][j] = put[c][j]
    <2>1. ReplayTyped /\ Asking
      BY DEF ReplayBase
    <2> QED BY <1>3, <1>4, <2>1, PutSet, ZenonT(60)
  <1> QED BY <1>1, <1>5, <1>6 DEF Used, NoPut

LEMMA PressNextKeeps ==
  ASSUME SocketTyped, ReplayInv, page = "replay", NEW b \in Browsers, PressNext(b)
  PROVE  SocketTyped' /\ ReplayInv'
  <1>0. ReplayBase /\ Following /\ Caring
    BY BaseOf
  <1> DEFINE p == player[b]
             s == p.session
             n == [p EXCEPT !.next = FALSE, !.awaiting = TRUE, !.area = "spinner"]
  <1>1. /\ p.next /\ Send(b, "next") /\ player' = [player EXCEPT ![b] = n]
        /\ Careful => \A i \in Slots : put[b][i].op # "finish"
        /\ row' = row /\ late' = late /\ refusals' = refusals
        /\ gone' = gone /\ strayed' = strayed
        /\ page' = page /\ link' = link /\ inbox' = inbox /\ losses' = losses
    BY DEF PressNext, serverVars, strayVars, socketVars
  <1>2. p \in Players /\ s \in Replays /\ s # NONE
    BY <1>0, <1>1, PlayerIs DEF ReplayBase, Unopened, Players
  <1>3. n \in Players
    BY <1>2 DEF Players
  <1>4. /\ n.session = s /\ n.shown = p.shown /\ n.finish = p.finish /\ n.candles = p.candles
        /\ n.timers = p.timers /\ ~n.next /\ n.awaiting
    BY <1>2 DEF Players
  <1> HIDE DEF n
  <1>5. /\ player' \in [Browsers -> Players] /\ player'[b] = n
        /\ \A c \in Browsers \ {b} : player'[c] = player[c]
    BY <1>0, <1>1, <1>3, PlayerSet DEF ReplayBase
  <1>6. PICK i \in Slots :
          /\ put[b][i] = NoPut /\ ~Used(b, i) /\ Used(b, i)'
          /\ put'[b][i].step = "sent" /\ put'[b][i].op = "next" /\ put'[b][i].of = s
          /\ put' \in [Browsers -> [Slots -> Puts]] /\ Asking'
          /\ \A c \in Browsers, j \in Slots : c # b \/ j # i => put'[c][j] = put[c][j]
    BY <1>0, <1>1, <1>2, SendIs
  <1>7. SocketTyped'
    BY <1>1 DEF SocketTyped
  <1>8. ReplayBase'
    <2>1. ReplayTyped' /\ Standing'
      BY <1>0, <1>1, <1>5, <1>6 DEF ReplayBase, ReplayTyped, Straying, Standing
    <2>2. Unopened'
      BY <1>0, <1>2, <1>4, <1>5, <1>6 DEF ReplayBase, Unopened, Used
    <2>3. ASSUME NEW c \in Browsers, NEW j \in Slots, put'[c][j].step # "none"
          PROVE  Knows(c, put'[c][j].of)
      BY <1>6, <2>3 DEF Knows, Used
    <2>4. \A c \in Browsers : player'[c].session = player[c].session
      BY <1>4, <1>5
    <2>5. page = "replay" =>
            \A c \in Browsers : \A j \in 1 .. Len(inbox'[c]) : OfReplay(inbox'[c][j])
      BY <1>0, <1>1 DEF ReplayBase, Telling
    <2> QED BY <1>0, <1>1, <1>6, <2>1, <2>2, <2>3, <2>4, <2>5, BaseKept
  <1>9. ASSUME NEW d \in Browsers, Only(d)'
        PROVE  Follows(d)' /\ (Careful /\ refusals' = 0 => Cares(d)')
    <2>1. Only(b) /\ d = b
      <3>1. Only(d)
        BY <1>1, <1>4, <1>5, <1>9, OnlyBefore
      <3> QED BY <1>0, <1>2, <3>1, OfOne
    <2>2. PICK m \in 0 .. Frames[s] - 1 : Announced(b, m) /\ Drawn(b, m) /\ Gapless(b, m)
      BY <1>0, <2>1 DEF Following, Follows
    <2>3. StandsAt(b, m)' /\ LateAt(m)'
      BY <1>1, <1>4, <1>5, <2>2 DEF Announced, StandsAt, LateAt
    <2>4. ASSUME NEW j \in Slots PROVE AsksAt(b, j, m)'
      <3>1. AsksAt(b, j, m) /\ ~(put[b][j].op = "next" /\ Used(b, j))
        BY <1>1, <2>2 DEF Announced, AsksAt
      <3>2. \A k \in Slots : ~(put[b][k].op = "next" /\ Used(b, k))
        BY <1>1, <2>2 DEF Announced, AsksAt
      <3>3. \A k \in Slots : Locking(b, k)' <=> Locking(b, k)
        BY <1>6 DEF Locking, NoPut
      <3>4. CASE j = i
        BY <1>4, <1>5, <1>6, <3>2, <3>3, <3>4 DEF AsksAt, Used, Locking
      <3>5. CASE j # i
        <4>1. put'[b][j] = put[b][j]
          BY <1>6, <3>5
        <4> QED BY <1>1, <1>4, <1>5, <3>1, <3>3, <4>1 DEF AsksAt, Used, Locking
      <3> QED BY <3>4, <3>5
    <2>5. Drawn(b, m)' /\ Gapless(b, m)'
      BY <1>1, <1>4, <1>5, <2>2, DrawnStill
    <2>6. Follows(b)'
      BY <1>4, <1>5, <2>2, <2>3, <2>4, <2>5 DEF Follows, Announced
    <2>7. ASSUME Careful, refusals' = 0 PROVE Cares(b)'
      <3>1. OneOpen(b) /\ ShowsAhead(b) /\ ButtonsAre(b)
        BY <1>0, <1>1, <2>1, <2>7 DEF Caring, Cares
      <3>2. \A j \in Slots : ~Used(b, j)
        <4>1. \A j \in Slots : put[b][j].op = "next"
          BY <1>0, <1>1, <2>7 DEF ReplayBase, ReplayTyped, Puts
        <4> QED BY <1>1, <2>2, <4>1 DEF Announced, AsksAt
      <3>3. \A j \in Slots : Used(b, j)' => j = i
        BY <1>6, <3>2 DEF Used
      <3>4. ~Ending(b) /\ ~Ending(b)'
        BY <1>6, <3>2, <3>3 DEF Ending, Used
      <3>5. /\ p.finish /\ ~p.shown.over /\ ~Completing(b)
            /\ late = {} => p.shown = row[s]
            /\ \A l \in late : p.shown = l.goal /\ ~row[s].over
        BY <1>1, <3>1, <3>2, <3>4 DEF ButtonsAre, ShowsAhead
      <3>6. OneOpen(b)'
        BY <1>1, <1>4, <1>5, <1>6, <3>3, <3>5 DEF OneOpen
      <3>7. ShowsAhead(b)'
        BY <1>1, <1>4, <1>5, <1>6, <3>5 DEF ShowsAhead
      <3>8. ButtonsAre(b)'
        <4>1. ~player'[b].next /\ player'[b].finish /\ ~player'[b].shown.over
          BY <1>4, <1>5, <3>5
        <4>2. ~Completing(b)'
          BY <1>1, <3>5 DEF Completing
        <4> QED BY <1>6, <4>1, <4>2 DEF ButtonsAre
      <3>9. WaitEnds(b)'
        BY <1>4, <1>5, <1>6 DEF WaitEnds
      <3> QED BY <3>6, <3>7, <3>8, <3>9 DEF Cares
    <2> QED BY <2>1, <2>6, <2>7
  <1>10. Following' /\ Caring'
    BY <1>9 DEF Following, Caring
  <1> QED BY <1>7, <1>8, <1>10, BaseOf DEF ReplayInv, ReplayBase

LEMMA PressFinishKeeps ==
  ASSUME SocketTyped, ReplayInv, page = "replay", NEW b \in Browsers, PressFinish(b)
  PROVE  SocketTyped' /\ ReplayInv'
  <1>0. ReplayBase /\ Following /\ Caring
    BY BaseOf
  <1> DEFINE p == player[b]
             s == p.session
  <1>1. /\ p.finish /\ Send(b, "finish") /\ player' = player
        /\ Careful => AtRest(b)
        /\ row' = row /\ late' = late /\ refusals' = refusals
        /\ gone' = gone /\ strayed' = strayed
        /\ page' = page /\ link' = link /\ inbox' = inbox /\ losses' = losses
    BY DEF PressFinish, serverVars, strayVars, socketVars
  <1>2. p \in Players /\ s \in Replays /\ s # NONE
    BY <1>0, <1>1, PlayerIs DEF ReplayBase, Unopened, Players
  <1>3. PICK i \in Slots :
          /\ put[b][i] = NoPut /\ ~Used(b, i) /\ Used(b, i)'
          /\ put'[b][i].step = "sent" /\ put'[b][i].op = "finish" /\ put'[b][i].of = s
          /\ put' \in [Browsers -> [Slots -> Puts]] /\ Asking'
          /\ \A c \in Browsers, j \in Slots : c # b \/ j # i => put'[c][j] = put[c][j]
    BY <1>0, <1>1, <1>2, SendIs
  <1>4. SocketTyped'
    BY <1>1 DEF SocketTyped
  <1>5. ReplayBase'
    <2>1. ReplayTyped' /\ Standing' /\ Unopened'
      BY <1>0, <1>1, <1>2, <1>3 DEF ReplayBase, ReplayTyped, Straying, Standing, Unopened, Used
    <2>2. ASSUME NEW c \in Browsers, NEW j \in Slots, put'[c][j].step # "none"
          PROVE  Knows(c, put'[c][j].of)
      BY <1>3, <2>2 DEF Knows, Used
    <2>3. page = "replay" =>
            \A c \in Browsers : \A j \in 1 .. Len(inbox'[c]) : OfReplay(inbox'[c][j])
      BY <1>0, <1>1 DEF ReplayBase, Telling
    <2> QED BY <1>0, <1>1, <1>3, <2>1, <2>2, <2>3, BaseKept
  <1>6. ASSUME NEW d \in Browsers, Only(d)'
        PROVE  Follows(d)' /\ (Careful /\ refusals' = 0 => Cares(d)')
    <2>1. Only(b) /\ d = b
      <3>1. Only(d)
        BY <1>1, <1>6, OnlyBefore
      <3> QED BY <1>0, <1>2, <3>1, OfOne
    <2>2. PICK m \in 0 .. Frames[s] - 1 : Announced(b, m) /\ Drawn(b, m) /\ Gapless(b, m)
      BY <1>0, <2>1 DEF Following, Follows
    <2>3. StandsAt(b, m)' /\ LateAt(m)'
      BY <1>1, <2>2 DEF Announced, StandsAt, LateAt
    <2>4. ASSUME NEW j \in Slots PROVE AsksAt(b, j, m)'
      <3>1. AsksAt(b, j, m)
        BY <2>2 DEF Announced
      <3>2. \A k \in Slots : Locking(b, k)' <=> Locking(b, k)
        BY <1>3 DEF Locking, NoPut
      <3>3. CASE j = i
        BY <1>3, <3>2, <3>3 DEF AsksAt, Used, Locking
      <3>4. CASE j # i
        <4>1. put'[b][j] = put[b][j]
          BY <1>3, <3>4
        <4>2. \A k \in Slots :
                put'[b][k].op = "next" /\ Used(b, k)' => put[b][k].op = "next" /\ Used(b, k)
          BY <1>3 DEF Used
        <4> QED BY <1>1, <3>1, <3>2, <4>1, <4>2 DEF AsksAt, Used, Locking
      <3> QED BY <3>3, <3>4
    <2>5. Drawn(b, m)' /\ Gapless(b, m)'
      BY <1>1, <2>2, DrawnStill
    <2>6. Follows(b)'
      BY <1>1, <2>2, <2>3, <2>4, <2>5 DEF Follows, Announced
    <2>7. ASSUME Careful, refusals' = 0 PROVE Cares(b)'
      <3>1. OneOpen(b) /\ ShowsAhead(b) /\ ButtonsAre(b) /\ WaitEnds(b) /\ AtRest(b)
        BY <1>0, <1>1, <2>1, <2>7 DEF Caring, Cares
      <3>2. late = {} /\ \A j \in Slots : ~Used(b, j)
        BY <3>1 DEF AtRest, Used, NoPut
      <3>3. \A j \in Slots : Used(b, j)' => j = i
        BY <1>3, <3>2 DEF Used
      <3>4. ~Ending(b) /\ ~Ending(b)'
        BY <1>3, <3>2, <3>3 DEF Ending, Used
      <3>5. /\ ~p.shown.over /\ ~Completing(b) /\ p.next /\ p.shown = row[s]
        BY <1>1, <3>1, <3>2, <3>4 DEF ButtonsAre, ShowsAhead
      <3>6. OneOpen(b)'
        BY <1>1, <1>3, <3>2, <3>3, <3>5 DEF OneOpen
      <3>7. ShowsAhead(b)'
        BY <1>1, <1>3, <3>2, <3>5 DEF ShowsAhead
      <3>8. ButtonsAre(b)'
        <4>1. ~Completing(b)'
          BY <1>1, <3>5 DEF Completing
        <4> QED BY <1>1, <1>3, <3>3, <3>5, <4>1 DEF ButtonsAre
      <3>9. WaitEnds(b)'
        BY <1>1, <3>1, <3>2 DEF WaitEnds
      <3> QED BY <3>6, <3>7, <3>8, <3>9 DEF Cares
    <2> QED BY <2>1, <2>6, <2>7
  <1>7. Following' /\ Caring'
    BY <1>6 DEF Following, Caring
  <1> QED BY <1>4, <1>5, <1>7, BaseOf DEF ReplayInv, ReplayBase

\* What is known of the requests is the same.
LEMMA AsksStill ==
  ASSUME NEW b \in Browsers, NEW m, player'[b].session = player[b].session,
         player'[b].next => player[b].next, row' = row, put' = put, late' = late
  PROVE  Announced(b, m) => Announced(b, m)'
  <1>1. \A j \in Slots : AsksAt(b, j, m) => AsksAt(b, j, m)'
    BY DEF AsksAt, Used, Locking
  <1> QED BY <1>1 DEF Announced, StandsAt, LateAt

LEMMA FallbackTimerKeeps ==
  ASSUME SocketTyped, ReplayInv, page = "replay", NEW b \in Browsers, FallbackTimer(b)
  PROVE  SocketTyped' /\ ReplayInv'
  <1>0. ReplayBase /\ Following /\ Caring
    BY BaseOf
  <1> DEFINE p == player[b]
             s == p.session
             n == IF p.awaiting
                  THEN [p EXCEPT !.timers = @ - 1, !.awaiting = FALSE,
                                 !.area = IF p.candles # <<>> THEN "candle" ELSE "status"]
                  ELSE [p EXCEPT !.timers = @ - 1]
  <1>1. /\ p.timers > 0 /\ player' = [player EXCEPT ![b] = n]
        /\ row' = row /\ put' = put /\ late' = late /\ refusals' = refusals
        /\ gone' = gone /\ strayed' = strayed
        /\ page' = page /\ link' = link /\ inbox' = inbox /\ losses' = losses
    BY DEF FallbackTimer, serverVars, strayVars, socketVars
  <1>2. p \in Players /\ s \in Replays /\ s # NONE
    BY <1>0, <1>1, PlayerIs DEF ReplayBase, Unopened, Players
  <1>3. n \in Players
    <2>1. p.timers - 1 \in Nat
      BY <1>1, <1>2 DEF Players
    <2> QED BY <1>2, <2>1 DEF Players
  <1>4. /\ n.session = s /\ n.shown = p.shown /\ n.finish = p.finish /\ n.next = p.next
        /\ n.candles = p.candles /\ ~n.awaiting /\ (n.area = "spinner" => p.area = "spinner")
        /\ p.awaiting => n.area # "spinner"
    BY <1>2 DEF Players
  <1> HIDE DEF n
  <1>5. /\ player' \in [Browsers -> Players] /\ player'[b] = n
        /\ \A c \in Browsers \ {b} : player'[c] = player[c]
    BY <1>0, <1>1, <1>3, PlayerSet DEF ReplayBase
  <1>6. SocketTyped'
    BY <1>1 DEF SocketTyped
  <1>7. ReplayBase'
    <2>1. ReplayTyped' /\ Asking' /\ Standing'
      BY <1>0, <1>1, <1>5 DEF ReplayBase, ReplayTyped, Straying, Asking, Standing
    <2>2. Unopened'
      BY <1>0, <1>1, <1>2, <1>4, <1>5 DEF ReplayBase, Unopened, Used
    <2>3. ASSUME NEW c \in Browsers, NEW j \in Slots, put'[c][j].step # "none"
          PROVE  Knows(c, put'[c][j].of)
      BY <1>1, <2>3 DEF Knows, Used
    <2>4. \A c \in Browsers : player'[c].session = player[c].session
      BY <1>4, <1>5
    <2>5. page = "replay" =>
            \A c \in Browsers : \A j \in 1 .. Len(inbox'[c]) : OfReplay(inbox'[c][j])
      BY <1>0, <1>1 DEF ReplayBase, Telling
    <2> QED BY <1>0, <1>1, <2>1, <2>2, <2>3, <2>4, <2>5, BaseKept
  <1>8. ASSUME NEW d \in Browsers, Only(d)'
        PROVE  Follows(d)' /\ (Careful /\ refusals' = 0 => Cares(d)')
    <2>1. Only(b) /\ d = b
      <3>1. Only(d)
        BY <1>1, <1>4, <1>5, <1>8, OnlyBefore
      <3> QED BY <1>0, <1>2, <3>1, OfOne
    <2>2. PICK m \in 0 .. Frames[s] - 1 : Announced(b, m) /\ Drawn(b, m) /\ Gapless(b, m)
      BY <1>0, <2>1 DEF Following, Follows
    <2>3. Announced(b, m)' /\ Drawn(b, m)' /\ Gapless(b, m)'
      BY <1>1, <1>4, <1>5, <2>2, AsksStill, DrawnStill
    <2>4. Follows(b)'
      BY <1>4, <1>5, <2>2, <2>3 DEF Follows
    <2>5. ASSUME Careful, refusals' = 0 PROVE Cares(b)'
      <3>1. OneOpen(b) /\ ShowsAhead(b) /\ ButtonsAre(b) /\ WaitEnds(b)
        BY <1>0, <1>1, <2>1, <2>5 DEF Caring, Cares
      <3>2. OneOpen(b)'
        BY <1>1, <1>4, <1>5, <3>1 DEF OneOpen, Used
      <3>3. ShowsAhead(b)'
        BY <1>1, <1>4, <1>5, <3>1 DEF ShowsAhead, Used
      <3>4. ButtonsAre(b)'
        BY <1>1, <1>4, <1>5, <3>1 DEF ButtonsAre, Completing, Ending, Used
      <3>5. WaitEnds(b)'
        BY <1>1, <1>4, <1>5, <3>1 DEF WaitEnds
      <3> QED BY <3>2, <3>3, <3>4, <3>5 DEF Cares
    <2> QED BY <2>1, <2>4, <2>5
  <1>9. Following' /\ Caring'
    BY <1>8 DEF Following, Caring
  <1> QED BY <1>6, <1>7, <1>9, BaseOf DEF ReplayInv, ReplayBase

\* What an answer does to the page.
LEMMA AnswerIs ==
  ASSUME NEW p \in Players, NEW q \in Puts
  PROVE  LET n == AnswerShown(p, q) IN
           /\ n \in Players /\ n.session = p.session /\ n.candles = p.candles
           /\ q.step = "failed" =>
                /\ n.shown = p.shown /\ n.finish = p.finish
                /\ q.op # "next" => n.next = p.next
           /\ q.step # "failed" /\ q.op = "finish" =>
                n.shown = q.goal /\ ~n.next /\ ~n.finish
           /\ q.step # "failed" /\ q.op = "next" /\ q.goal.over =>
                /\ n.shown = q.goal /\ ~n.finish /\ ~n.awaiting /\ n.next = p.next
           /\ q.step # "failed" /\ q.op = "next" /\ ~q.goal.over =>
                /\ n.shown = q.goal /\ n.next /\ n.timers > 0
                /\ n.finish = p.finish /\ n.awaiting = p.awaiting /\ n.area = p.area
  <1> DEFINE n == AnswerShown(p, q)
  <1>0. q.op \in {"next", "finish"} /\ q.goal \in [frame : Int, over : BOOLEAN]
    BY DEF Puts, Points
  <1>1. CASE q.step = "failed" /\ q.op = "next"
    <2>1. n = [p EXCEPT !.awaiting = FALSE, !.next = TRUE]
      BY <1>1 DEF AnswerShown
    <2> QED BY <1>1, <2>1 DEF Players
  <1>2. CASE q.step = "failed" /\ q.op # "next"
    <2>1. n = p
      BY <1>2 DEF AnswerShown
    <2> QED BY <1>0, <1>2, <2>1 DEF Players
  <1>3. CASE q.step # "failed" /\ q.op = "finish"
    <2>1. n = [p EXCEPT !.shown = q.goal, !.next = FALSE, !.finish = FALSE]
      BY <1>3 DEF AnswerShown
    <2> QED BY <1>0, <1>3, <2>1 DEF Players
  <1>4. CASE q.step # "failed" /\ q.op = "next" /\ q.goal.over
    <2>1. n = [p EXCEPT !.shown = q.goal, !.awaiting = FALSE, !.finish = FALSE]
      BY <1>4 DEF AnswerShown
    <2> QED BY <1>0, <1>4, <2>1 DEF Players
  <1>5. CASE q.step # "failed" /\ q.op = "next" /\ ~q.goal.over
    <2>1. n = [p EXCEPT !.shown = q.goal, !.next = TRUE, !.timers = @ + 1]
      BY <1>5 DEF AnswerShown
    <2>2. p.timers + 1 \in Nat /\ p.timers + 1 > 0
      BY DEF Players
    <2> QED BY <1>0, <1>5, <2>1, <2>2 DEF Players
  <1> QED BY <1>0, <1>1, <1>2, <1>3, <1>4, <1>5

\* The page has nothing to do any more with a request, and is not changed but for its
\* buttons and what it says.
LeftWith(b, i, n) ==
  /\ Leave(b, i)
  /\ n \in Players /\ n.session = player[b].session /\ n.candles = player[b].candles
  /\ put[b][i].op # "next" => n.next = player[b].next \/ ~n.next
  /\ player' = [player EXCEPT ![b] = n]
  /\ row' = row /\ refusals' \in Nat /\ Straying'
  /\ page' = page /\ link' = link /\ inbox' = inbox /\ losses' = losses

LeftPut(b, i) == [of |-> put[b][i].of, goal |-> put[b][i].goal]

LEMMA LeftIs ==
  ASSUME ReplayBase, NEW b \in Browsers, NEW i \in Slots, NEW n, LeftWith(b, i, n)
  PROVE  /\ ReplayBase' /\ Used(b, i) /\ ~Used(b, i)' /\ put'[b][i] = NoPut
         /\ player'[b] = n /\ \A c \in Browsers \ {b} : player'[c] = player[c]
         /\ \A c \in Browsers, j \in Slots : c # b \/ j # i => put'[c][j] = put[c][j]
         /\ \A c \in Browsers, j \in Slots : Used(c, j)' => Used(c, j) /\ put'[c][j] = put[c][j]
         /\ put[b][i] \in Puts /\ put[b][i].step \in {"announced", "committed", "failed"}
         /\ put[b][i].op \in {"next", "finish"}
         /\ late' = IF put[b][i].step = "announced" THEN late \cup {LeftPut(b, i)} ELSE late
  <1> DEFINE p == player[b]
             s == p.session
             q == put[b][i]
             l == LeftPut(b, i)
  <1>1. /\ q.step \in {"announced", "committed", "failed"}
        /\ n \in Players /\ n.session = s /\ n.candles = p.candles
        /\ player' = [player EXCEPT ![b] = n] /\ put' = [put EXCEPT ![b][i] = NoPut]
        /\ late' = IF q.step = "announced" THEN late \cup {l} ELSE late
        /\ row' = row /\ refusals' \in Nat /\ Straying' /\ page' = page /\ inbox' = inbox
    BY DEF LeftWith, Leave, LeftPut
  <1>2. q \in Puts /\ Used(b, i) /\ q.op \in {"next", "finish"}
        /\ q.of \in Replays /\ (q.step = "announced" => IsFrameOf(q.goal.frame, q.of))
    BY <1>1 DEF ReplayBase, ReplayTyped, Puts, Asking, PutIsRight, Used
  <1>3. NoPut \in Puts /\ PutIsRight(NoPut) /\ NoPut.step = "none"
    BY DEF NoPut, Puts, PutIsRight, NoReplay, Points
  <1>4. /\ put' \in [Browsers -> [Slots -> Puts]] /\ put'[b][i] = NoPut /\ Asking'
        /\ \A c \in Browsers, j \in Slots : c # b \/ j # i => put'[c][j] = put[c][j]
        /\ ~Used(b, i)'
    <2>1. ReplayTyped /\ Asking
      BY DEF ReplayBase
    <2> QED BY <1>1, <1>3, <2>1, PutSet, ZenonT(60) DEF Used
  <1>6. /\ player' \in [Browsers -> Players] /\ player'[b] = n
        /\ \A c \in Browsers \ {b} : player'[c] = player[c]
    BY <1>1, PlayerSet DEF ReplayBase
  <1>8. row[q.of] # NoReplay
    BY <1>2 DEF ReplayBase, Knowing, Knows
  <1>9. \A c \in Browsers, j \in Slots : Used(c, j)' => Used(c, j) /\ put'[c][j] = put[c][j]
    BY <1>4 DEF Used
  <1>10. ReplayBase'
    <2>1. l \in [of : Replays, goal : Points] /\ l.of = q.of /\ l.goal = q.goal
      BY <1>2 DEF Puts, LeftPut
    <2>2. ReplayTyped' /\ Standing'
      BY <1>1, <1>2, <1>4, <1>6, <1>8, <2>1 DEF ReplayBase, ReplayTyped, Standing
    <2>3. Unopened'
      <3>1. s # NONE
        BY <1>2 DEF ReplayBase, Unopened
      <3> QED BY <1>1, <1>6, <1>9, <3>1 DEF ReplayBase, Unopened
    <2>4. ASSUME NEW c \in Browsers, NEW j \in Slots, put'[c][j].step # "none"
          PROVE  Knows(c, put'[c][j].of)
      BY <1>9, <2>4 DEF Knows, Used
    <2>5. \A c \in Browsers : player'[c].session = player[c].session
      BY <1>1, <1>6
    <2>6. page = "replay" =>
            \A c \in Browsers : \A j \in 1 .. Len(inbox'[c]) : OfReplay(inbox'[c][j])
      BY <1>1 DEF ReplayBase, Telling
    <2> QED BY <1>1, <1>4, <2>2, <2>3, <2>4, <2>5, <2>6, BaseKept
  <1> QED BY <1>1, <1>2, <1>4, <1>6, <1>9, <1>10

LEMMA LeftFollows ==
  ASSUME ReplayBase, NEW b \in Browsers, NEW i \in Slots, NEW n, LeftWith(b, i, n),
         Follows(b)
  PROVE  Follows(b)'
  <1> DEFINE p == player[b]
             s == p.session
             q == put[b][i]
             l == LeftPut(b, i)
  <1>1. /\ n.session = s /\ n.candles = p.candles
        /\ q.op # "next" => n.next = p.next \/ ~n.next
        /\ row' = row /\ link' = link /\ inbox' = inbox /\ losses' = losses
    BY DEF LeftWith
  <1>2. /\ Used(b, i) /\ ~Used(b, i)' /\ put'[b][i] = NoPut /\ player'[b] = n
        /\ \A j \in Slots \ {i} : put'[b][j] = put[b][j]
        /\ \A j \in Slots : Used(b, j)' => Used(b, j) /\ put'[b][j] = put[b][j]
        /\ late' = IF q.step = "announced" THEN late \cup {l} ELSE late
        /\ q.op \in {"next", "finish"}
    BY LeftIs
  <1>3. NoPut.step = "none" /\ l.goal = q.goal
    BY DEF NoPut, LeftPut
  <1> HIDE DEF l
  <1>4. PICK m \in 0 .. Frames[s] - 1 : Announced(b, m) /\ Drawn(b, m) /\ Gapless(b, m)
    BY DEF Follows
  <1>5. AsksAt(b, i, m) /\ StandsAt(b, m) /\ LateAt(m)
    BY <1>4 DEF Announced
  <1>6. StandsAt(b, m)'
    BY <1>1, <1>2, <1>5 DEF StandsAt
  <1>7. q.step = "announced" => late' = {l} /\ (l.goal.over \/ l.goal.frame = m)
    BY <1>2, <1>3, <1>5 DEF AsksAt, Locking
  <1>8. LateAt(m)'
    BY <1>2, <1>5, <1>7 DEF LateAt
  <1>9. ASSUME NEW j \in Slots PROVE AsksAt(b, j, m)'
    <2>1. AsksAt(b, j, m)
      BY <1>4 DEF Announced
    <2>2. CASE j = i
      BY <1>2, <1>3, <2>2 DEF AsksAt, Used, Locking
    <2>3. CASE j # i
      <3>1. put'[b][j] = put[b][j]
        BY <1>2, <2>3
      <3>2. \A k \in Slots : put'[b][k].op = "next" /\ Used(b, k)' =>
                               put[b][k].op = "next" /\ Used(b, k)
        BY <1>2
      <3>3. \A k \in Slots : Locking(b, k)' => Locking(b, k)
        BY <1>2, <1>3 DEF Locking
      <3>4. ASSUME put[b][j].op = "next", Used(b, j) PROVE ~n.next
        <4>1. ~p.next /\ q.op # "next"
          BY <1>2, <2>1, <2>3, <3>4 DEF AsksAt
        <4> QED BY <1>1, <4>1
      <3>5. Locking(b, j) => late' = {}
        <4>1. Locking(b, j) => late = {} /\ q.step # "announced"
          BY <2>1, <2>3 DEF AsksAt, Locking
        <4> QED BY <1>2, <4>1
      <3> QED BY <1>1, <1>2, <2>1, <3>1, <3>2, <3>3, <3>4, <3>5 DEF AsksAt, Used, Locking
    <2> QED BY <2>2, <2>3
  <1>10. Drawn(b, m)' /\ Gapless(b, m)'
    BY <1>1, <1>2, <1>4, DrawnStill
  <1> QED BY <1>1, <1>2, <1>4, <1>6, <1>8, <1>9, <1>10 DEF Follows, Announced

LEMMA ReplayAnswerKeeps ==
  ASSUME SocketTyped, ReplayInv, page = "replay", NEW b \in Browsers, NEW i \in Slots,
         ReplayAnswer(b, i)
  PROVE  SocketTyped' /\ ReplayInv'
  <1>0. ReplayBase /\ Following /\ Caring
    BY BaseOf
  <1> DEFINE p == player[b]
             s == p.session
             q == put[b][i]
             n == AnswerShown(p, q)
             l == LeftPut(b, i)
  <1>1. /\ Leave(b, i) /\ player' = [player EXCEPT ![b] = n]
        /\ row' = row /\ refusals' = refusals
        /\ gone' = gone /\ strayed' = strayed
        /\ page' = page /\ link' = link /\ inbox' = inbox /\ losses' = losses
    BY DEF ReplayAnswer, serverVars, strayVars, socketVars
  <1>2. q \in Puts /\ p \in Players /\ q.step \in {"announced", "committed", "failed"}
    <2>1. q \in Puts /\ q.step \in {"announced", "committed", "failed"}
      BY <1>0, <1>1 DEF ReplayBase, ReplayTyped, Leave
    <2> QED BY <1>0, <2>1, PlayerIs DEF ReplayBase
  <1>3. LeftWith(b, i, n)
    <2>1. n \in Players /\ n.session = s /\ n.candles = p.candles
      BY <1>2, AnswerIs
    <2>2. q.op # "next" => n.next = p.next \/ ~n.next
      <3>1. q.op \in {"next", "finish"}
        BY <1>2 DEF Puts
      <3> QED BY <1>2, <3>1, AnswerIs
    <2>3. refusals' \in Nat /\ Straying'
      BY <1>0, <1>1 DEF ReplayBase, ReplayTyped, Straying
    <2> QED BY <1>1, <2>1, <2>2, <2>3 DEF LeftWith
  <1>4. /\ ReplayBase' /\ Used(b, i) /\ ~Used(b, i)' /\ put'[b][i] = NoPut
        /\ player'[b] = n /\ \A c \in Browsers \ {b} : player'[c] = player[c]
        /\ \A c \in Browsers, j \in Slots : Used(c, j)' => Used(c, j) /\ put'[c][j] = put[c][j]
        /\ q.op \in {"next", "finish"}
        /\ late' = IF q.step = "announced" THEN late \cup {l} ELSE late
    BY <1>0, <1>3, LeftIs
  <1>5. n.session = s /\ n.candles = p.candles
    BY <1>2, AnswerIs
  <1>6. player'[b] = n
    BY <1>4
  <1>7. SocketTyped'
    BY <1>1 DEF SocketTyped
  <1>9. \A c \in Browsers, j \in Slots : Used(c, j)' => Used(c, j) /\ put'[c][j] = put[c][j]
    BY <1>4
  <1>10. l.goal = q.goal
    BY DEF LeftPut
  <1> HIDE DEF l
  <1>11. ASSUME NEW d \in Browsers, Only(d)'
         PROVE  Follows(d)' /\ (Careful /\ refusals' = 0 => Cares(d)')
    <2>1. Only(b) /\ d = b
      <3>1. Only(d)
        BY <1>1, <1>4, <1>5, <1>11, OnlyBefore
      <3> QED BY <1>0, <1>4, <3>1, OfOne
    <2>2. PICK m \in 0 .. Frames[s] - 1 : Announced(b, m) /\ Drawn(b, m) /\ Gapless(b, m)
      BY <1>0, <2>1 DEF Following, Follows
    <2>3. AsksAt(b, i, m) /\ StandsAt(b, m) /\ LateAt(m)
      BY <2>2 DEF Announced
    <2>5. q.step = "announced" => late = {} /\ late' = {l} /\ (l.goal.over \/ l.goal.frame = m)
      BY <1>4, <1>10, <2>3 DEF AsksAt, Locking
    <2>9. Follows(b)'
      BY <1>0, <1>3, <2>1, LeftFollows DEF Following
    <2>10. ASSUME Careful, refusals' = 0 PROVE Cares(b)'
      <3>1. OneOpen(b) /\ ShowsAhead(b) /\ ButtonsAre(b) /\ WaitEnds(b)
        BY <1>0, <1>1, <2>1, <2>10 DEF Caring, Cares
      <3>2. /\ \A j \in Slots : Used(b, j) => j = i
            /\ q.step # "failed" /\ ~p.shown.over
            /\ q.op = "finish" \/ q.step = "committed" => late = {}
            /\ IF q.step = "committed" THEN q.goal = row[s] ELSE late = {} => p.shown = row[s]
        BY <1>4, <3>1 DEF OneOpen
      <3>3. \A j \in Slots : ~Used(b, j)'
        BY <1>4, <1>9, <3>2
      <3>4. ~Ending(b)'
        BY <3>3 DEF Ending, Used
      <3>5. n.shown = q.goal
        BY <1>2, <1>4, <3>2, AnswerIs
      <3>6. OneOpen(b)'
        BY <3>3 DEF OneOpen
      <3>7. ShowsAhead(b)'
        <4>1. CASE q.step = "announced"
          <5>1. ~row[s].over
            BY <2>5, <3>2, <4>1
          <5>2. late' = {l} /\ l.goal = q.goal
            BY <1>10, <2>5, <4>1
          <5> QED BY <1>1, <1>5, <1>6, <3>5, <5>1, <5>2 DEF ShowsAhead
        <4>2. CASE q.step = "committed"
          BY <1>1, <1>4, <1>5, <1>6, <3>2, <3>5, <4>2 DEF ShowsAhead
        <4> QED BY <1>2, <3>2, <4>1, <4>2
      <3>8. q.op = "finish" => q.goal.over
        BY <1>2, <1>4, <2>3, <3>2 DEF AsksAt
      <3>9. CASE q.goal.over
        <4>1. ~n.next /\ ~n.finish /\ n.shown.over
          <5>1. q.op = "next" => ~p.next
            BY <1>4, <2>3 DEF AsksAt
          <5> QED BY <1>2, <1>4, <3>2, <3>5, <3>9, <5>1, AnswerIs
        <4> QED BY <1>6, <3>6, <3>7, <4>1 DEF Cares, ButtonsAre, WaitEnds
      <3>10. CASE ~q.goal.over
        <4>1. /\ q.op = "next" /\ n.next /\ n.timers > 0
              /\ n.finish = p.finish /\ n.awaiting = p.awaiting /\ n.area = p.area
          BY <1>2, <1>4, <3>2, <3>8, <3>10, AnswerIs
        <4>2. ~Ending(b)
          BY <3>2, <3>10 DEF Ending, Used
        <4>3. p.finish /\ ~Completing(b)
          BY <3>1, <3>2, <4>2 DEF ButtonsAre
        <4>4. ~Completing(b)'
          BY <1>1, <4>3 DEF Completing
        <4>5. ButtonsAre(b)'
          BY <1>6, <3>3, <3>5, <3>10, <4>1, <4>3, <4>4 DEF ButtonsAre
        <4>6. WaitEnds(b)'
          BY <1>6, <3>1, <3>2, <4>1 DEF WaitEnds
        <4> QED BY <3>6, <3>7, <4>5, <4>6 DEF Cares
      <3> QED BY <3>9, <3>10
    <2> QED BY <2>1, <2>9, <2>10
  <1>12. Following' /\ Caring'
    BY <1>11 DEF Following, Caring
  <1> QED BY <1>4, <1>7, <1>12, BaseOf DEF ReplayInv, ReplayBase

LEMMA AnswerUnheardKeeps ==
  ASSUME SocketTyped, ReplayInv, page = "replay", NEW b \in Browsers, NEW i \in Slots,
         AnswerUnheard(b, i)
  PROVE  SocketTyped' /\ ReplayInv'
  <1>0. ReplayBase
    BY BaseOf
  <1>1. /\ <<b, i>> \in gone /\ Leave(b, i) /\ gone' = gone \ {<<b, i>>}
        /\ row' = row /\ refusals' = refusals /\ strayed' = strayed /\ player' = player
        /\ page' = page /\ link' = link /\ inbox' = inbox /\ losses' = losses
    BY DEF AnswerUnheard, socketVars
  <1>2. refusals' \in Nat /\ refusals' # 0 /\ strayed' /\ Straying'
    BY <1>0, <1>1 DEF ReplayBase, ReplayTyped, Straying
  <1>3. LeftWith(b, i, player[b])
    <2>1. player[b] \in Players /\ player' = [player EXCEPT ![b] = player[b]]
      BY <1>0, <1>1 DEF ReplayBase, ReplayTyped
    <2> QED BY <1>1, <1>2, <2>1 DEF LeftWith
  <1>4. ReplayBase'
    BY <1>0, <1>3, LeftIs
  <1>5. SocketTyped'
    BY <1>1 DEF SocketTyped
  <1>6. Following' /\ Caring'
    BY <1>2 DEF Following, Caring, Only
  <1> QED BY <1>4, <1>5, <1>6, BaseOf DEF ReplayInv, ReplayBase

LEMMA BreakOffKeeps ==
  ASSUME SocketTyped, ReplayInv, page = "replay", NEW b \in Browsers, NEW i \in Slots,
         BreakOff(b, i)
  PROVE  SocketTyped' /\ ReplayInv'
  <1>0. ReplayBase /\ Following
    BY BaseOf
  <1> DEFINE p == player[b]
             q == put[b][i]
             f == [q EXCEPT !.step = "failed"]
             n == AnswerShown(p, f)
  <1>1. /\ refusals' = refusals + 1 /\ player' = [player EXCEPT ![b] = n] /\ row' = row
        /\ page' = page /\ link' = link /\ inbox' = inbox /\ losses' = losses
    BY DEF BreakOff, socketVars
  <1>2. \/ /\ q.step \in {"sent", "loaded", "framed"}
           /\ gone' = gone \cup {<<b, i>>} /\ strayed' = TRUE /\ put' = put /\ late' = late
        \/ Leave(b, i) /\ gone' = gone /\ strayed' = strayed
    BY DEF BreakOff, strayVars
  <1>3. p \in Players /\ q \in Puts
    BY <1>0 DEF ReplayBase, ReplayTyped
  <1>4. n \in Players /\ n.session = p.session /\ n.candles = p.candles
        /\ (q.op # "next" => n.next = p.next)
    <2>1. f \in Puts /\ f.step = "failed" /\ f.op = q.op
      BY <1>3 DEF Puts
    <2> HIDE DEF f
    <2>2. ASSUME NEW x \in Players, NEW r \in Puts, r.step = "failed"
          PROVE  /\ AnswerShown(x, r) \in Players
                 /\ AnswerShown(x, r).session = x.session
                 /\ AnswerShown(x, r).candles = x.candles
                 /\ r.op # "next" => AnswerShown(x, r).next = x.next
      BY <2>2, AnswerIs
    <2> QED BY <1>3, <2>1, <2>2
  <1> HIDE DEF n
  <1>5. refusals' \in Nat /\ refusals' # 0 /\ Straying'
    <2>1. refusals \in Nat /\ Straying
      BY <1>0 DEF ReplayBase, ReplayTyped
    <2>2. refusals' \in Nat /\ refusals' # 0
      BY <1>1, <2>1
    <2>3. CASE gone' = gone \cup {<<b, i>>} /\ strayed' = TRUE
      BY <2>1, <2>2, <2>3 DEF Straying
    <2>4. CASE gone' = gone /\ strayed' = strayed
      BY <2>1, <2>2, <2>4 DEF Straying
    <2> QED BY <1>2, <2>2, <2>3, <2>4
  <1>6. SocketTyped'
    BY <1>1 DEF SocketTyped
  <1>7. CASE /\ q.step \in {"sent", "loaded", "framed"}
             /\ strayed' = TRUE /\ put' = put /\ late' = late
    <2>1. /\ player' \in [Browsers -> Players] /\ player'[b] = n
          /\ \A c \in Browsers \ {b} : player'[c] = player[c]
      BY <1>0, <1>1, <1>4, PlayerSet DEF ReplayBase
    <2>2. \A c \in Browsers, j \in Slots : Used(c, j)' <=> Used(c, j)
      BY <1>7 DEF Used
    <2>3. Unopened'
      <3>1. p.session # NONE
        BY <1>0, <1>7 DEF ReplayBase, Unopened, Used
      <3> QED BY <1>0, <1>4, <2>1, <2>2, <3>1 DEF ReplayBase, Unopened
    <2>4. ReplayTyped' /\ Asking' /\ Standing'
      BY <1>0, <1>1, <1>5, <1>7, <2>1 DEF ReplayBase, ReplayTyped, Asking, Standing
    <2>5. \A c \in Browsers : player'[c].session = player[c].session
      BY <1>4, <2>1
    <2>6. \A c \in Browsers, j \in Slots : put'[c][j].step # "none" => Knows(c, put'[c][j].of)
      BY <1>7 DEF Knows, Used
    <2>7. \A c \in Browsers : \A k \in 1 .. Len(inbox'[c]) : OfReplay(inbox'[c][k])
      BY <1>0, <1>1 DEF ReplayBase, Telling
    <2>8. ReplayBase'
      BY <1>0, <1>1, <2>3, <2>4, <2>5, <2>6, <2>7, BaseKept
    <2>9. Following' /\ Caring'
      BY <1>7 DEF Following, Caring, Only
    <2> QED BY <1>6, <2>8, <2>9, BaseOf DEF ReplayInv, ReplayBase
  <1>8. CASE Leave(b, i) /\ strayed' = strayed
    <2>1. LeftWith(b, i, n)
      BY <1>1, <1>4, <1>5, <1>8 DEF LeftWith
    <2>2. ReplayBase' /\ Used(b, i) /\ player'[b] = n
          /\ \A c \in Browsers \ {b} : player'[c] = player[c]
      BY <1>0, <2>1, LeftIs
    <2>3. ASSUME NEW d \in Browsers, Only(d)' PROVE Follows(d)'
      <3>1. Only(d)
        BY <1>1, <1>4, <1>8, <2>2, <2>3, OnlyBefore
      <3>2. d = b
        BY <1>0, <2>2, <3>1, OfOne
      <3> QED BY <1>0, <2>1, <3>1, <3>2, LeftFollows DEF Following
    <2>4. Following' /\ Caring'
      BY <1>5, <2>3 DEF Following, Caring
    <2> QED BY <1>6, <2>2, <2>4, BaseOf DEF ReplayInv, ReplayBase
  <1> QED BY <1>2, <1>7, <1>8

-----------------------------------------------------------------------------
(* Events.                                                                 *)

\* w is candles, and c after them unless it is their last.
Extends(w, candles, c) ==
  \/ w = candles /\ Len(candles) # 0 /\ candles[Len(candles)] = c
  \/ /\ Len(w) = Len(candles) + 1
     /\ \A i \in 1 .. Len(candles) : w[i] = candles[i]
     /\ w[Len(candles) + 1] = c
     /\ Len(candles) # 0 => candles[Len(candles)] # c

LEMMA CandleIs ==
  ASSUME NEW S, NEW candles \in Seq(S), NEW c \in S
  PROVE  WithCandle(candles, c) \in Seq(S) /\ Extends(WithCandle(candles, c), candles, c)
  <1>0. Len(candles) \in Nat /\ (candles = <<>> <=> Len(candles) = 0)
    BY EmptySeq, LenProperties
  <1>1. CASE candles # <<>> /\ candles[Len(candles)] = c
    BY <1>0, <1>1 DEF WithCandle, Extends
  <1>2. CASE ~(candles # <<>> /\ candles[Len(candles)] = c)
    <2>1. WithCandle(candles, c) = Append(candles, c)
      BY <1>2 DEF WithCandle
    <2>2. /\ Append(candles, c) \in Seq(S)
          /\ Len(Append(candles, c)) = Len(candles) + 1
          /\ \A i \in 1 .. Len(candles) : Append(candles, c)[i] = candles[i]
          /\ Append(candles, c)[Len(candles) + 1] = c
      BY AppendProperties
    <2> QED BY <1>0, <1>2, <2>1, <2>2 DEF Extends
  <1> QED BY <1>1, <1>2

LEMMA CaresStill ==
  ASSUME NEW b \in Browsers, player'[b] = player[b], inbox'[b] = inbox[b],
         row' = row, put' = put, late' = late
  PROVE  Cares(b) => Cares(b)'
  BY DEF Cares, OneOpen, ShowsAhead, ButtonsAre, WaitEnds, Ending, Completing, Used

\* The first message on the way to b is taken.
LEMMA FramesTaken ==
  ASSUME SocketTyped, NEW b \in Browsers, Take(b)
  PROVE  /\ \A i \in FramesOnTheWay(b)' :
              i + 1 \in FramesOnTheWay(b) /\ inbox'[b][i] = inbox[b][i + 1]
         /\ \A i \in FramesOnTheWay(b) :
              i = 1 \/ (i - 1 \in FramesOnTheWay(b)' /\ inbox'[b][i - 1] = inbox[b][i])
         /\ Completing(b)' => Completing(b)
  <1>1. /\ Len(inbox[b]) \in Nat /\ Len(inbox[b]) # 0 /\ Len(inbox'[b]) = Len(inbox[b]) - 1
        /\ \A i \in 1 .. Len(inbox'[b]) : inbox'[b][i] = inbox[b][i + 1]
    BY TakeIs
  <1>2. \A i \in 1 .. Len(inbox'[b]) : i + 1 \in 1 .. Len(inbox[b])
    BY <1>1
  <1>3. ASSUME NEW i \in 1 .. Len(inbox[b]), i # 1
        PROVE  i - 1 \in 1 .. Len(inbox'[b]) /\ inbox'[b][i - 1] = inbox[b][i]
    <2>1. i - 1 \in 1 .. Len(inbox'[b]) /\ (i - 1) + 1 = i
      BY <1>1, <1>3
    <2> QED BY <1>1, <2>1
  <1> QED BY <1>1, <1>2, <1>3 DEF FramesOnTheWay, Completing

\* The end of the session is heard: what is drawn is the same.
LEMMA EndHeard ==
  ASSUME SocketTyped, NEW b \in Browsers, Take(b), ~IsFrame(inbox[b][1]), NEW m,
         player'[b].candles = player[b].candles, player'[b].session = player[b].session
  PROVE  (Drawn(b, m) => Drawn(b, m)') /\ (Gapless(b, m) => Gapless(b, m)')
  <1>0. losses' = losses /\ link' = link
    BY TakeIs
  <1>1. LastDrawn(b)' = LastDrawn(b) /\ 1 \notin FramesOnTheWay(b)
    BY DEF LastDrawn, FramesOnTheWay
  <1>2. \A i \in FramesOnTheWay(b)' : i \in Int
    BY FramesTaken, InboxIs DEF FramesOnTheWay
  <1>3. ASSUME Drawn(b, m) PROVE Drawn(b, m)'
    <2>1. ASSUME NEW i \in FramesOnTheWay(b)'
          PROVE  /\ inbox'[b][i].n <= m
                 /\ player[b].candles # <<>> => LastDrawn(b) <= inbox'[b][i].n
                 /\ \A j \in FramesOnTheWay(b)' : i < j => inbox'[b][i].n <= inbox'[b][j].n
      <3>1. i + 1 \in FramesOnTheWay(b) /\ inbox'[b][i] = inbox[b][i + 1]
        BY FramesTaken
      <3>2. \A j \in FramesOnTheWay(b)' :
              /\ i < j => i + 1 < j + 1
              /\ j + 1 \in FramesOnTheWay(b) /\ inbox'[b][j] = inbox[b][j + 1]
        BY <1>2, FramesTaken
      <3> QED BY <1>3, <3>1, <3>2 DEF Drawn
    <2> QED BY <1>1, <1>3, <2>1 DEF Drawn
  <1>4. ASSUME Gapless(b, m) PROVE Gapless(b, m)'
    <2>1. ASSUME NEW n, Comes(b, n) PROVE Comes(b, n)'
      <3>1. PICK j \in FramesOnTheWay(b) : inbox[b][j].n = n
        BY <2>1 DEF Comes
      <3>2. j - 1 \in FramesOnTheWay(b)' /\ inbox'[b][j - 1] = inbox[b][j]
        BY <1>1, <3>1, FramesTaken
      <3> QED BY <3>1, <3>2 DEF Comes
    <2>2. \A i \in FramesOnTheWay(b)' :
            i + 1 \in FramesOnTheWay(b) /\ inbox'[b][i] = inbox[b][i + 1]
      BY FramesTaken
    <2> QED BY <1>0, <1>1, <1>4, <2>1, <2>2 DEF Gapless
  <1> QED BY <1>3, <1>4

\* A frame is heard, and drawn unless it is the last.
LEMMA FrameHeard ==
  ASSUME SocketTyped, ReplayTyped, NEW b \in Browsers, Take(b), IsFrame(inbox[b][1]),
         NEW m \in Nat, NEW s \in Replays, player[b].session = s, inbox[b][1].of = s,
         player'[b].candles = WithCandle(player[b].candles, <<s, inbox[b][1].n>>),
         player'[b].session = s
  PROVE  /\ Drawn(b, m) => Drawn(b, m)'
         /\ Drawn(b, m) /\ Gapless(b, m) => Gapless(b, m)'
  <1> DEFINE e == inbox[b][1]
             cs == player[b].candles
             ds == player'[b].candles
             k == Len(cs)
  <1>0. losses' = losses /\ link' = link
    BY TakeIs
  <1>1. e.n \in Nat /\ 1 \in FramesOnTheWay(b)
    <2>1. 1 \in 1 .. Len(inbox[b])
      BY TakeIs
    <2> QED BY <2>1, InboxIs DEF FramesOnTheWay
  <1>2. k \in Nat /\ cs \in Seq(Replays \X Nat) /\ (cs = <<>> <=> k = 0)
        /\ \A i \in 1 .. k : cs[i][2] \in Nat
    BY PlayerIs
  <1>3. /\ ds \in Seq(Replays \X Nat)
        /\ \/ ds = cs /\ k # 0 /\ cs[k] = <<s, e.n>>
           \/ /\ Len(ds) = k + 1
              /\ \A i \in 1 .. k : ds[i] = cs[i]
              /\ ds[k + 1] = <<s, e.n>>
              /\ k # 0 => cs[k] # <<s, e.n>>
    <2> DEFINE c == <<s, e.n>>
               S == Replays \X Nat
    <2>1. c \in S /\ cs \in Seq(S)
      BY <1>1, <1>2
    <2>2. ds = WithCandle(cs, c)
      OBVIOUS
    <2> HIDE DEF c, cs, ds, S
    <2>3. ds \in Seq(S) /\ Extends(ds, cs, c)
      BY <2>1, <2>2, CandleIs
    <2> QED BY <2>3 DEF c, S, Extends
  <1>4. /\ \A i \in FramesOnTheWay(b)' :
             i + 1 \in FramesOnTheWay(b) /\ inbox'[b][i] = inbox[b][i + 1] /\ i \in Nat /\ i > 0
        /\ \A i \in FramesOnTheWay(b) :
             /\ i \in Nat /\ inbox[b][i].n \in Nat
             /\ i = 1 \/ (i - 1 \in FramesOnTheWay(b)' /\ inbox'[b][i - 1] = inbox[b][i])
    BY FramesTaken, InboxIs, SMTT(30) DEF FramesOnTheWay
  <1>5. LastDrawn(b)' = e.n /\ ds # <<>>
    <2>1. CASE ds = cs /\ k # 0 /\ cs[k] = <<s, e.n>>
      BY <1>2, <2>1 DEF LastDrawn
    <2>2. CASE Len(ds) = k + 1 /\ ds[k + 1] = <<s, e.n>>
      <3>1. Len(ds) # 0
        <4> HIDE DEF e, cs, ds, k
        <4> QED BY <1>2, <2>2
      <3>2. ds # <<>>
        BY <3>1, EmptySeq
      <3> QED BY <2>2, <3>2, SMTT(30) DEF LastDrawn
    <2> QED BY <1>3, <2>1, <2>2
  <1> HIDE DEF e, cs, ds, k
  <1>6. ASSUME Drawn(b, m)
        PROVE  /\ \A i \in 1 .. k : cs[i][1] = s /\ cs[i][2] <= LastDrawn(b)
               /\ \A i \in 2 .. k : cs[i][2] > cs[i - 1][2]
               /\ k # 0 => LastDrawn(b) = cs[k][2] /\ LastDrawn(b) \in Nat /\ LastDrawn(b) <= e.n
               /\ e.n <= m
               /\ \A i \in FramesOnTheWay(b) : e.n <= inbox[b][i].n /\ inbox[b][i].n <= m
               /\ \A i, j \in FramesOnTheWay(b) : i < j => inbox[b][i].n <= inbox[b][j].n
    <2>1. /\ \A i \in 1 .. k : cs[i][1] = s /\ cs[i][2] <= LastDrawn(b)
          /\ \A i \in 2 .. k : cs[i][2] > cs[i - 1][2]
      BY <1>2, <1>6 DEF Drawn, cs, k
    <2>2. k # 0 => LastDrawn(b) = cs[k][2] /\ LastDrawn(b) \in Nat
      BY <1>2 DEF LastDrawn, cs, k
    <2>3. (k # 0 => LastDrawn(b) <= e.n) /\ e.n <= m
      BY <1>1, <1>2, <1>6 DEF Drawn, e, cs
    <2>4. \A i, j \in FramesOnTheWay(b) : i < j => inbox[b][i].n <= inbox[b][j].n
      BY <1>6 DEF Drawn
    <2>5. ASSUME NEW i \in FramesOnTheWay(b) PROVE e.n <= inbox[b][i].n /\ inbox[b][i].n <= m
      <3>1. i \in Nat /\ (i = 1 \/ i > 1)
        BY <1>4, InboxIs DEF FramesOnTheWay
      <3>2. inbox[b][i].n <= m
        BY <1>6 DEF Drawn
      <3> QED BY <1>1, <2>4, <3>1, <3>2 DEF e
    <2> QED BY <2>1, <2>2, <2>3, <2>4, <2>5
  <1>7. ASSUME Drawn(b, m) PROVE Drawn(b, m)'
    <2>1. ASSUME NEW i \in 1 .. Len(ds)
          PROVE  ds[i][1] = s /\ ds[i][2] <= e.n /\ (i # 1 => ds[i][2] > ds[i - 1][2])
      <3>1. CASE ds = cs /\ k # 0
        <4>1. i \in 1 .. k /\ (i # 1 => i \in 2 .. k) /\ cs[i][2] \in Nat
          BY <1>2, <3>1 DEF k
        <4> QED BY <1>1, <1>6, <1>7, <3>1, <4>1
      <3>2. CASE /\ Len(ds) = k + 1
                 /\ \A j \in 1 .. k : ds[j] = cs[j]
                 /\ ds[k + 1] = <<s, e.n>>
                 /\ k # 0 => cs[k] # <<s, e.n>>
        <4>1. CASE i \in 1 .. k
          <5>1. (i # 1 => i \in 2 .. k /\ i - 1 \in 1 .. k) /\ cs[i][2] \in Nat
            BY <1>2, <4>1
          <5> QED BY <1>1, <1>6, <1>7, <3>2, <4>1, <5>1
        <4>2. CASE i = k + 1
          <5>1. ds[i] = <<s, e.n>>
            BY <3>2, <4>2
          <5>2. ASSUME i # 1 PROVE ds[i - 1][2] < e.n
            <6>1. k # 0 /\ k \in 1 .. k /\ i - 1 = k
              BY <1>2, <4>2, <5>2
            <6>2. ds[i - 1] = cs[k] /\ cs[k] # <<s, e.n>> /\ cs[k][1] = s /\ cs[k][2] <= e.n
                  /\ cs[k][2] \in Nat
              BY <1>2, <1>6, <1>7, <3>2, <6>1
            <6>3. cs[k] = <<cs[k][1], cs[k][2]>>
              BY <1>2, <6>1, ElementOfSeq DEF k
            <6> QED BY <1>1, <6>2, <6>3
          <5> QED BY <1>1, <5>1, <5>2
        <4> QED BY <1>2, <3>2, <4>1, <4>2
      <3> QED BY <1>3, <3>1, <3>2
    <2>2. ASSUME NEW i \in FramesOnTheWay(b)'
          PROVE  /\ inbox'[b][i].n <= m /\ e.n <= inbox'[b][i].n
                 /\ \A j \in FramesOnTheWay(b)' : i < j => inbox'[b][i].n <= inbox'[b][j].n
      <3>1. i + 1 \in FramesOnTheWay(b) /\ inbox'[b][i] = inbox[b][i + 1]
        BY <1>4
      <3>2. \A j \in FramesOnTheWay(b)' :
              /\ i < j => i + 1 < j + 1
              /\ j + 1 \in FramesOnTheWay(b) /\ inbox'[b][j] = inbox[b][j + 1]
        BY <1>4
      <3> QED BY <1>6, <1>7, <3>1, <3>2
    <2> QED BY <1>5, <1>6, <1>7, <2>1, <2>2 DEF Drawn, ds
  <1>8. ASSUME Drawn(b, m), Gapless(b, m), losses = 0
        PROVE  /\ link[b] = "subscribed"
               /\ \A i \in 2 .. k : cs[i][2] = cs[i - 1][2] + 1
               /\ k # 0 => \A n \in LastDrawn(b) + 1 .. m : Comes(b, n)
               /\ \A i \in FramesOnTheWay(b) : \A n \in inbox[b][i].n .. m : Comes(b, n)
    BY <1>1, <1>2, <1>8 DEF Gapless, cs, k
  <1>9. ASSUME NEW n \in Nat, Comes(b, n), n # e.n PROVE Comes(b, n)'
    <2>1. PICK j \in FramesOnTheWay(b) : inbox[b][j].n = n
      BY <1>9 DEF Comes
    <2>2. j - 1 \in FramesOnTheWay(b)' /\ inbox'[b][j - 1] = inbox[b][j]
      BY <1>4, <1>9, <2>1 DEF e
    <2> QED BY <2>1, <2>2 DEF Comes
  <1>10. ASSUME Drawn(b, m), Gapless(b, m), losses = 0
         PROVE  /\ \A i \in 2 .. Len(ds) : ds[i][2] = ds[i - 1][2] + 1
                /\ \A n \in e.n + 1 .. m : Comes(b, n)'
                /\ \A i \in FramesOnTheWay(b)' : \A n \in inbox'[b][i].n .. m : Comes(b, n)'
    <2>1. ASSUME NEW i \in 2 .. Len(ds) PROVE ds[i][2] = ds[i - 1][2] + 1
      <3>1. CASE ds = cs
        BY <1>8, <1>10, <3>1 DEF k
      <3>2. CASE /\ Len(ds) = k + 1
                 /\ \A j \in 1 .. k : ds[j] = cs[j]
                 /\ ds[k + 1] = <<s, e.n>>
                 /\ k # 0 => cs[k] # <<s, e.n>>
        <4>1. CASE i \in 2 .. k
          <5>1. i \in 1 .. k /\ i - 1 \in 1 .. k
            BY <1>2, <4>1
          <5> QED BY <1>8, <1>10, <3>2, <4>1, <5>1
        <4>2. CASE i = k + 1
          <5>1. k # 0 /\ k \in 1 .. k /\ i - 1 = k
            BY <1>2, <4>2
          <5>2. ds[i] = <<s, e.n>> /\ ds[i - 1] = cs[k]
            BY <3>2, <4>2, <5>1
          <5>3. cs[k][2] = LastDrawn(b) /\ LastDrawn(b) \in Nat /\ LastDrawn(b) <= e.n /\ e.n <= m
            BY <1>6, <1>10, <5>1
          <5>4. LastDrawn(b) # e.n
            <6>1. cs[k] = <<cs[k][1], cs[k][2]>> /\ cs[k][1] = s
              BY <1>2, <1>6, <1>10, <5>1, ElementOfSeq DEF k
            <6> QED BY <3>2, <5>1, <5>3, <6>1
          <5>5. LastDrawn(b) + 1 \in LastDrawn(b) + 1 .. m
            BY <1>1, <5>3, <5>4
          <5>6. Comes(b, LastDrawn(b) + 1)
            BY <1>8, <1>10, <5>1, <5>5
          <5>7. PICK j \in FramesOnTheWay(b) : inbox[b][j].n = LastDrawn(b) + 1
            BY <5>6 DEF Comes
          <5>8. e.n <= LastDrawn(b) + 1
            BY <1>6, <1>10, <5>7
          <5>9. e.n = LastDrawn(b) + 1
            BY <1>1, <5>3, <5>4, <5>8
          <5> QED BY <5>2, <5>3, <5>9
        <4> QED BY <1>2, <3>2, <4>1, <4>2
      <3> QED BY <1>3, <3>1, <3>2
    <2>2. ASSUME NEW n \in e.n + 1 .. m PROVE Comes(b, n)'
      <3>1. n \in inbox[b][1].n .. m /\ n \in Nat /\ n # e.n
        BY <1>1 DEF e
      <3>2. Comes(b, n)
        BY <1>1, <1>8, <1>10, <3>1
      <3> QED BY <1>9, <3>1, <3>2
    <2>3. ASSUME NEW i \in FramesOnTheWay(b)', NEW n \in inbox'[b][i].n .. m
          PROVE  Comes(b, n)'
      <3>1. i + 1 \in FramesOnTheWay(b) /\ inbox'[b][i] = inbox[b][i + 1]
            /\ inbox[b][i + 1].n \in Nat
        BY <1>4
      <3>2. n \in Nat /\ e.n <= inbox'[b][i].n /\ inbox'[b][i].n <= n
        BY <1>6, <1>10, <3>1
      <3>3. CASE n = e.n
        <4>1. inbox'[b][i].n = n
          BY <1>1, <3>1, <3>2, <3>3
        <4> QED BY <4>1 DEF Comes
      <3>4. CASE n # e.n
        <4>1. Comes(b, n)
          BY <1>8, <1>10, <3>1
        <4> QED BY <1>9, <3>2, <3>4, <4>1
      <3> QED BY <3>3, <3>4
    <2> QED BY <2>1, <2>2, <2>3
  <1>11. ASSUME Drawn(b, m), Gapless(b, m) PROVE Gapless(b, m)'
    BY <1>0, <1>5, <1>8, <1>10, <1>11 DEF Gapless, ds
  <1> QED BY <1>7, <1>11

LEMMA HearReplayKeeps ==
  ASSUME SocketTyped, ReplayInv, NEW b \in Browsers, HearReplay(b)
  PROVE  SocketTyped' /\ ReplayInv'
  <1>0. ReplayBase /\ Following /\ Caring
    BY BaseOf
  <1> DEFINE p == player[b]
             e == inbox[b][1]
             n == player'[b]
  <1>1. /\ page = "replay" /\ Take(b) /\ Head(inbox[b]) = e
        /\ row' = row /\ put' = put /\ late' = late /\ refusals' = refusals
        /\ gone' = gone /\ strayed' = strayed
    BY TakeIs DEF HearReplay, serverVars, strayVars
  <1>2. /\ SocketTyped' /\ page' = page /\ link' = link /\ losses' = losses
        /\ \A c \in Browsers \ {b} : inbox'[c] = inbox[c]
    BY <1>1, TakeIs
  <1>3. p \in Players /\ OfReplay(e) /\ e.n \in Nat /\ 1 \in 1 .. Len(inbox[b])
    <2>1. 1 \in 1 .. Len(inbox[b])
      BY <1>1, TakeIs
    <2> QED BY <1>0, <1>1, <2>1, InboxIs, PlayerIs DEF ReplayBase, Telling
  <1>4. /\ player' \in [Browsers -> Players] /\ n.session = p.session
        /\ \A c \in Browsers \ {b} : player'[c] = player[c]
        /\ n.shown = p.shown /\ n.timers = p.timers
        /\ IF IsFrame(e)
           THEN /\ n.next = p.next /\ n.finish = p.finish /\ ~n.awaiting /\ n.area = "candle"
                /\ n.candles = WithCandle(p.candles, <<e.of, e.n>>)
           ELSE /\ ~n.next /\ ~n.finish /\ n.awaiting = p.awaiting /\ n.area = p.area
                /\ n.candles = p.candles
    <2>0. player' = [player EXCEPT ![b] =
            IF e.event = "replay.completed" THEN [p EXCEPT !.next = FALSE, !.finish = FALSE]
            ELSE [p EXCEPT !.awaiting = FALSE, !.area = "candle",
                           !.candles = WithCandle(p.candles, <<e.of, e.n>>)]]
      BY <1>1 DEF HearReplay
    <2>1. CASE e.event = "replay.completed"
      <3> DEFINE x == [p EXCEPT !.next = FALSE, !.finish = FALSE]
      <3>1. player' = [player EXCEPT ![b] = x]
        BY <2>0, <2>1
      <3>2. x \in Players
        BY <1>3 DEF Players
      <3>3. /\ x.session = p.session /\ x.shown = p.shown /\ x.timers = p.timers
            /\ ~x.next /\ ~x.finish /\ x.awaiting = p.awaiting /\ x.area = p.area
            /\ x.candles = p.candles
        BY <1>3 DEF Players
      <3> HIDE DEF x
      <3> QED BY <1>0, <2>1, <3>1, <3>2, <3>3, PlayerSet DEF ReplayBase, IsFrame
    <2>2. CASE e.event # "replay.completed"
      <3> DEFINE c == WithCandle(p.candles, <<e.of, e.n>>)
                 x == [p EXCEPT !.awaiting = FALSE, !.area = "candle", !.candles = c]
      <3>1. player' = [player EXCEPT ![b] = x]
        BY <2>0, <2>2
      <3>2. c \in Seq(Replays \X Nat)
        <4>1. <<e.of, e.n>> \in Replays \X Nat /\ p.candles \in Seq(Replays \X Nat)
          BY <1>3 DEF OfReplay, Players
        <4> QED BY <4>1, CandleIs
      <3> HIDE DEF c
      <3>3. x \in Players
        BY <1>3, <3>2 DEF Players
      <3>4. /\ x.session = p.session /\ x.shown = p.shown /\ x.timers = p.timers
            /\ x.next = p.next /\ x.finish = p.finish /\ ~x.awaiting /\ x.area = "candle"
            /\ x.candles = c
        BY <1>3 DEF Players
      <3> HIDE DEF x
      <3>5. player'[b] = x /\ player' \in [Browsers -> Players]
            /\ \A d \in Browsers \ {b} : player'[d] = player[d]
        BY <1>0, <3>1, <3>3, PlayerSet DEF ReplayBase
      <3>6. IsFrame(e)
        BY <1>3, <2>2 DEF OfReplay, IsFrame
      <3> QED BY <3>4, <3>5, <3>6 DEF c
    <2> QED BY <2>1, <2>2
  <1> HIDE DEF n
  <1>5. ReplayBase'
    <2>1. ReplayTyped' /\ Asking' /\ Standing'
      BY <1>0, <1>1, <1>4 DEF ReplayBase, ReplayTyped, Straying, Asking, Standing
    <2>2. Unopened'
      <3>1. ASSUME p.session = NONE
            PROVE  ~n.next /\ ~n.finish /\ ~n.awaiting /\ n.timers = 0 /\ n.area # "spinner"
        BY <1>0, <1>4, <3>1 DEF ReplayBase, Unopened
      <3> QED BY <1>0, <1>1, <1>4, <3>1 DEF ReplayBase, Unopened, Used, n
    <2>3. ASSUME NEW c \in Browsers, NEW j \in Slots, put'[c][j].step # "none"
          PROVE  Knows(c, put'[c][j].of)
      BY <1>1, <2>3 DEF Knows, Used
    <2>4. \A c \in Browsers : player'[c].session = player[c].session
      BY <1>4 DEF n
    <2>5. \A c \in Browsers : \A j \in 1 .. Len(inbox'[c]) : OfReplay(inbox'[c][j])
      <3>1. ASSUME NEW c \in Browsers, NEW j \in 1 .. Len(inbox'[c])
            PROVE  OfReplay(inbox'[c][j])
        <4>1. PICK k \in 1 .. Len(inbox[c]) : inbox'[c][j] = inbox[c][k]
          BY <1>1, TakeKeeps
        <4> QED BY <1>0, <1>1, <4>1 DEF ReplayBase, Telling
      <3> QED BY <3>1
    <2> QED BY <1>0, <1>1, <1>2, <2>1, <2>2, <2>3, <2>4, <2>5, BaseKept
  <1>6. ASSUME NEW d \in Browsers, Only(d)'
        PROVE  Follows(d)' /\ (Careful /\ refusals' = 0 => Cares(d)')
    <2>0. player'[d].session = player[d].session /\ (player'[d].next => player[d].next)
      BY <1>4 DEF n
    <2>1. Only(d)
      BY <1>1, <1>2, <1>6, <2>0, OnlyBefore
    <2> DEFINE s == player[d].session
    <2>2. PICK m \in 0 .. Frames[s] - 1 : Announced(d, m) /\ Drawn(d, m) /\ Gapless(d, m)
      BY <1>0, <2>1 DEF Following, Follows
    <2>3. Announced(d, m)'
      BY <1>1, <2>0, <2>2, AsksStill
    <2>4. CASE d # b
      <3>1. player'[d] = player[d] /\ inbox'[d] = inbox[d]
        BY <1>2, <1>4, <2>4
      <3>2. Drawn(d, m)' /\ Gapless(d, m)'
        BY <1>2, <2>2, <3>1, DrawnStill
      <3>3. Careful /\ refusals' = 0 => Cares(d)'
        BY <1>0, <1>1, <2>1, <3>1, CaresStill DEF Caring
      <3> QED BY <2>0, <2>2, <2>3, <3>2, <3>3 DEF Follows
    <2>5. CASE d = b
      <3>1. s \in Replays /\ e.of = s /\ m \in Nat
        <4>1. s \in Replays /\ e.of = s /\ Frames[s] \in Nat
          BY <1>0, <1>3, <2>1, <2>5, OnlyIs
        <4> QED BY <2>2, <4>1
      <3>2. Drawn(b, m)' /\ Gapless(b, m)'
        <4>1. CASE IsFrame(e)
          <5>1. player'[b].candles = WithCandle(player[b].candles, <<s, e.n>>)
                /\ player'[b].session = s
            BY <1>4, <2>0, <2>5, <3>1, <4>1 DEF n
          <5> QED BY <1>0, <1>1, <2>2, <2>5, <3>1, <4>1, <5>1, FrameHeard DEF ReplayBase
        <4>2. CASE ~IsFrame(e)
          BY <1>1, <1>4, <2>2, <2>5, <4>2, EndHeard DEF n
        <4> QED BY <4>1, <4>2
      <3>3. Follows(b)'
        BY <2>0, <2>2, <2>3, <2>5, <3>2 DEF Follows
      <3>4. ASSUME Careful, refusals' = 0 PROVE Cares(b)'
        <4>1. OneOpen(b) /\ ShowsAhead(b) /\ ButtonsAre(b) /\ WaitEnds(b)
          BY <1>0, <1>1, <2>1, <2>5, <3>4 DEF Caring, Cares
        <4>2. OneOpen(b)'
          BY <1>1, <1>4, <4>1 DEF OneOpen, Used, n
        <4>3. ShowsAhead(b)'
          BY <1>1, <1>4, <4>1 DEF ShowsAhead, Used, n
        <4>4. Ending(b)' <=> Ending(b)
          BY <1>1 DEF Ending
        <4>5. Completing(b)' => Completing(b)
          BY <1>1, FramesTaken
        <4>6. ButtonsAre(b)'
          <5>1. CASE IsFrame(e)
            BY <1>1, <1>4, <4>1, <4>4, <4>5, <5>1 DEF ButtonsAre, Used, n
          <5>2. CASE ~IsFrame(e)
            <6>1. Completing(b)
              BY <1>3, <5>2 DEF OfReplay, IsFrame, Completing
            <6>2. ~Ending(b) => p.shown.over
              BY <4>1, <6>1 DEF ButtonsAre
            <6> QED BY <1>4, <4>4, <5>2, <6>2 DEF ButtonsAre, n
          <5> QED BY <5>1, <5>2
        <4>7. WaitEnds(b)'
          BY <1>1, <1>4, <4>1 DEF WaitEnds, Used, n
        <4> QED BY <4>2, <4>3, <4>6, <4>7 DEF Cares
      <3> QED BY <2>5, <3>3, <3>4
    <2> QED BY <2>4, <2>5
  <1>7. Following' /\ Caring'
    BY <1>6 DEF Following, Caring
  <1> QED BY <1>2, <1>5, <1>7, BaseOf DEF ReplayInv, ReplayBase

-----------------------------------------------------------------------------
(* The server.                                                             *)

LEMMA ServerKeeps ==
  ASSUME ReplayBase, NEW b \in Browsers, NEW i \in Slots, Used(b, i),
         NEW r \in Puts, r.step # "none", r.of = put[b][i].of, PutIsRight(r),
         put' = [put EXCEPT ![b][i] = r],
         player' = player, late' = late, page' = page, refusals' \in Nat,
         Straying', strayed' = strayed,
         row' \in [Replays -> Points],
         \A s \in Replays : row[s] # NoReplay => row'[s] # NoReplay,
         \A s \in Replays : row'[s] = row[s] \/ IsFrameOf(row'[s].frame, s),
         page = "replay" =>
           \A c \in Browsers : \A k \in 1 .. Len(inbox'[c]) : OfReplay(inbox'[c][k])
  PROVE  /\ ReplayBase' /\ put'[b][i] = r
         /\ \A c \in Browsers, j \in Slots :
              /\ c # b \/ j # i => put'[c][j] = put[c][j]
              /\ Used(c, j)' <=> Used(c, j)
         /\ \A d \in Browsers : Only(d)' => Only(b) /\ d = b
  <1>1. /\ put' \in [Browsers -> [Slots -> Puts]] /\ put'[b][i] = r
        /\ \A c \in Browsers, j \in Slots : c # b \/ j # i => put'[c][j] = put[c][j]
        /\ Asking'
    <2>1. ReplayTyped /\ Asking
      BY DEF ReplayBase
    <2> QED BY <2>1, PutSet
  <1>2. \A c \in Browsers, j \in Slots : Used(c, j)' <=> Used(c, j)
    BY <1>1 DEF Used
  <1>3. ReplayTyped'
    BY <1>1 DEF ReplayBase, ReplayTyped, Straying
  <1>4. Standing'
    BY DEF ReplayBase, ReplayTyped, Standing
  <1>5. Unopened'
    BY <1>2 DEF ReplayBase, Unopened
  <1>6. \A c \in Browsers, j \in Slots : put'[c][j].step # "none" => Knows(c, put'[c][j].of)
    BY <1>1, <1>2 DEF Knows, Used
  <1>7. ReplayBase'
    BY <1>1, <1>3, <1>4, <1>5, <1>6, BaseKept
  <1>8. ASSUME NEW d \in Browsers, Only(d)' PROVE Only(b) /\ d = b
    <2>1. Only(d)
      BY <1>8, OnlyBefore
    <2> QED BY <2>1, OfOne
  <1> QED BY <1>1, <1>2, <1>7, <1>8

LEMMA GoalIs ==
  ASSUME NEW op \in {"next", "finish"}, NEW s \in Replays, NEW at, IsFrameOf(at.frame, s)
  PROVE  /\ Goal(op, s, at) \in Points
         /\ IsFrameOf(Goal(op, s, at).frame, s)
         /\ op = "finish" => Goal(op, s, at).over
         /\ op = "next" => \/ Goal(op, s, at).frame = at.frame + 1
                           \/ Goal(op, s, at).frame = at.frame /\ at.frame = Frames[s] - 1
  <1> DEFINE last == Frames[s] - 1
             next == IF at.frame < last THEN at.frame + 1 ELSE last
  <1>1. Frames[s] \in Nat \ {0} /\ last \in Nat /\ at.frame \in 0 .. last
    BY PlayerAssumption DEF IsFrameOf
  <1>2. next \in 0 .. last /\ (next = at.frame + 1 \/ (next = at.frame /\ at.frame = last))
    BY <1>1
  <1>3. Goal(op, s, at) = IF op = "finish" THEN [frame |-> last, over |-> TRUE]
                          ELSE [frame |-> next, over |-> next = last]
    BY DEF Goal
  <1> HIDE DEF next
  <1>4. CASE op = "finish"
    <2>1. Goal(op, s, at) = [frame |-> last, over |-> TRUE]
      BY <1>3, <1>4
    <2>2. Goal(op, s, at) \in Points
      BY <1>1, <2>1 DEF Points
    <2>3. Goal(op, s, at).frame = last /\ Goal(op, s, at).over
      BY <2>1
    <2> QED BY <1>1, <1>4, <2>2, <2>3 DEF IsFrameOf
  <1>5. CASE op = "next"
    <2>1. Goal(op, s, at) = [frame |-> next, over |-> next = last]
      BY <1>3, <1>5
    <2>2. (next = last) \in BOOLEAN
      OBVIOUS
    <2>3. Goal(op, s, at).frame = next
      BY <2>1
    <2>4. Goal(op, s, at) \in Points
      BY <1>1, <1>2, <2>1, <2>2 DEF Points
    <2> QED BY <1>1, <1>2, <1>5, <2>3, <2>4 DEF IsFrameOf
  <1> QED BY <1>4, <1>5

LEMMA LoadReplayKeeps ==
  ASSUME SocketTyped, ReplayInv, page = "replay", NEW b \in Browsers, NEW i \in Slots,
         LoadReplay(b, i)
  PROVE  SocketTyped' /\ ReplayInv'
  <1>0. ReplayBase /\ Following /\ Caring
    BY BaseOf
  <1> DEFINE q == put[b][i]
             over == q.op = "next" /\ row[q.of].over
             at == row[q.of]
             r == IF over THEN [q EXCEPT !.step = "committed", !.goal = at]
                  ELSE [q EXCEPT !.step = "loaded", !.goal = Goal(q.op, q.of, at)]
  <1>1. /\ q.step = "sent" /\ put' = [put EXCEPT ![b][i] = r]
        /\ player' = player /\ row' = row /\ late' = late /\ refusals' = refusals
        /\ gone' = gone /\ strayed' = strayed
        /\ page' = page /\ link' = link /\ inbox' = inbox /\ losses' = losses
    BY DEF LoadReplay, serverVars, strayVars, socketVars
  <1>2. q \in Puts /\ Used(b, i) /\ q.op \in {"next", "finish"} /\ q.of \in Replays
    BY <1>0, <1>1 DEF ReplayBase, ReplayTyped, Puts, Asking, PutIsRight, Used
  <1>3. at \in Points /\ IsFrameOf(at.frame, q.of)
    <2>1. at # NoReplay
      BY <1>0, <1>2 DEF ReplayBase, Knowing, Knows
    <2> QED BY <1>0, <1>2, <2>1 DEF ReplayBase, ReplayTyped, Standing
  <1>4. /\ Goal(q.op, q.of, at) \in Points /\ IsFrameOf(Goal(q.op, q.of, at).frame, q.of)
        /\ q.op = "finish" => Goal(q.op, q.of, at).over
        /\ q.op = "next" =>
             \/ Goal(q.op, q.of, at).frame = at.frame + 1
             \/ Goal(q.op, q.of, at).frame = at.frame /\ at.frame = Frames[q.of] - 1
    BY <1>2, <1>3, GoalIs, SMTT(30)
  <1>5. /\ r \in Puts /\ r.of = q.of /\ r.op = q.op /\ IsFrameOf(r.goal.frame, q.of)
        /\ over => r.step = "committed" /\ r.goal = at
        /\ ~over => r.step = "loaded" /\ r.goal = Goal(q.op, q.of, at)
    <2>1. CASE over
      <3> DEFINE x == [q EXCEPT !.step = "committed", !.goal = at]
      <3>1. x \in Puts /\ x.of = q.of /\ x.op = q.op /\ x.step = "committed" /\ x.goal = at
        BY <1>2, <1>3 DEF Puts
      <3>2. r = x
        BY <2>1
      <3> HIDE DEF x, r
      <3> QED BY <1>3, <2>1, <3>1, <3>2
    <2>2. CASE ~over
      <3> DEFINE goal == Goal(q.op, q.of, at)
                 x == [q EXCEPT !.step = "loaded", !.goal = goal]
      <3>1. r = x
        BY <2>2
      <3>2. goal \in Points /\ IsFrameOf(goal.frame, q.of)
        BY <1>4
      <3> HIDE DEF goal
      <3>3. x \in Puts /\ x.of = q.of /\ x.op = q.op /\ x.step = "loaded" /\ x.goal = goal
        BY <1>2, <3>2 DEF Puts
      <3> HIDE DEF x, r
      <3> QED BY <2>2, <3>1, <3>2, <3>3 DEF goal
    <2> QED BY <2>1, <2>2
  <1> HIDE DEF r
  <1>6. PutIsRight(r) /\ r.step \in {"loaded", "committed"}
    BY <1>2, <1>5 DEF PutIsRight
  <1>7. /\ ReplayBase' /\ put'[b][i] = r
        /\ \A c \in Browsers, j \in Slots :
             /\ c # b \/ j # i => put'[c][j] = put[c][j]
             /\ Used(c, j)' <=> Used(c, j)
        /\ \A d \in Browsers : Only(d)' => Only(b) /\ d = b
    <2>1. \A c \in Browsers : \A k \in 1 .. Len(inbox'[c]) : OfReplay(inbox'[c][k])
      BY <1>0, <1>1 DEF ReplayBase, Telling
    <2>2. row' \in [Replays -> Points] /\ refusals' \in Nat /\ Straying'
      BY <1>0, <1>1 DEF ReplayBase, ReplayTyped, Straying
    <2> QED BY <1>0, <1>1, <1>2, <1>5, <1>6, <2>1, <2>2, ServerKeeps
  <1>8. SocketTyped'
    BY <1>1 DEF SocketTyped
  <1>9. ASSUME NEW d \in Browsers, Only(d)'
        PROVE  Follows(d)' /\ (Careful /\ refusals' = 0 => Cares(d)')
    <2> DEFINE p == player[b]
               s == p.session
    <2>1. Only(b) /\ d = b /\ q.of = s /\ Frames[s] \in Nat
      BY <1>0, <1>2, <1>7, <1>9, OnlyIs
    <2>2. PICK m \in 0 .. Frames[s] - 1 : Announced(b, m) /\ Drawn(b, m) /\ Gapless(b, m)
      BY <1>0, <2>1 DEF Following, Follows
    <2>3. StandsAt(b, m)' /\ LateAt(m)'
      BY <1>1, <2>2 DEF Announced, StandsAt, LateAt
    <2>4. \A k \in Slots : Locking(b, k)' <=> Locking(b, k)
      BY <1>1, <1>6, <1>7 DEF Locking
    <2>5. \A k \in Slots : put'[b][k].op = put[b][k].op
      BY <1>5, <1>7
    <2>6. ASSUME NEW j \in Slots PROVE AsksAt(b, j, m)'
      <3>1. AsksAt(b, j, m) /\ StandsAt(b, m)
        BY <2>2 DEF Announced
      <3>2. CASE j = i
        <4>1. r.op = "finish" => r.step # "framed" /\ r.goal.over
          BY <1>4, <1>5, <1>6
        <4>2. r.op = "next" /\ r.step = "loaded" =>
                r.goal.frame = m \/ (r.goal.frame = m + 1 /\ row[s].frame = m)
          <5>1. ASSUME r.op = "next", r.step = "loaded"
                PROVE  r.goal.frame = m \/ (r.goal.frame = m + 1 /\ row[s].frame = m)
            <6>1. ~at.over /\ r.goal = Goal(q.op, q.of, at) /\ q.op = "next"
              BY <1>5, <5>1
            <6>2. at.frame <= m /\ m <= at.frame + 1 /\ at = row[s]
              BY <2>1, <3>1, <6>1 DEF StandsAt
            <6>3. at.frame \in 0 .. Frames[s] - 1
              BY <1>3, <2>1 DEF IsFrameOf
            <6>4. r.goal.frame = at.frame + 1
                  \/ (r.goal.frame = at.frame /\ at.frame = Frames[s] - 1)
              BY <1>4, <2>1, <6>1
            <6> QED BY <2>1, <2>2, <6>2, <6>3, <6>4
          <5> QED BY <5>1
        <4> QED BY <1>1, <1>5, <1>6, <1>7, <2>4, <2>5, <3>1, <3>2, <4>1, <4>2 DEF AsksAt, Locking
      <3>3. CASE j # i
        <4>1. put'[b][j] = put[b][j]
          BY <1>7, <3>3
        <4> QED BY <1>1, <1>7, <2>4, <2>5, <3>1, <4>1 DEF AsksAt
      <3> QED BY <3>2, <3>3
    <2>7. Drawn(b, m)' /\ Gapless(b, m)'
      BY <1>1, <2>2, DrawnStill
    <2>8. Follows(b)'
      BY <1>1, <2>2, <2>3, <2>6, <2>7 DEF Follows, Announced
    <2>9. ASSUME Careful, refusals' = 0 PROVE Cares(b)'
      <3>1. OneOpen(b) /\ ShowsAhead(b) /\ ButtonsAre(b) /\ WaitEnds(b)
        BY <1>0, <1>1, <2>1, <2>9 DEF Caring, Cares
      <3>2. /\ \A j \in Slots : Used(b, j) => j = i
            /\ ~p.shown.over
            /\ q.op = "finish" => late = {}
            /\ late = {} => p.shown = row[s]
        BY <1>1, <1>2, <3>1 DEF OneOpen
      <3>3. ~over
        <4>1. late # {} => ~row[s].over
          BY <3>1 DEF ShowsAhead
        <4> QED BY <2>1, <3>2, <4>1
      <3>4. r.step = "loaded" /\ r.op = q.op
        BY <1>5, <3>3
      <3>5. OneOpen(b)'
        BY <1>1, <1>7, <3>2, <3>4 DEF OneOpen
      <3>6. ShowsAhead(b)'
        BY <1>1, <1>7, <3>1 DEF ShowsAhead
      <3>7. ~Ending(b) /\ ~Ending(b)'
        BY <1>1, <1>7, <3>2, <3>4 DEF Ending, Used
      <3>8. ButtonsAre(b)'
        BY <1>1, <1>7, <2>5, <3>1, <3>7 DEF ButtonsAre, Completing
      <3>9. WaitEnds(b)'
        BY <1>1, <1>7, <2>5, <3>1 DEF WaitEnds
      <3> QED BY <3>5, <3>6, <3>8, <3>9 DEF Cares
    <2> QED BY <2>1, <2>8, <2>9
  <1>10. Following' /\ Caring'
    BY <1>9 DEF Following, Caring
  <1> QED BY <1>7, <1>8, <1>10, BaseOf DEF ReplayInv, ReplayBase

\* A message is told.
LEMMA FramesTold ==
  ASSUME SocketTyped, NEW b \in Browsers, NEW e \in Message, Longer(b, e)
  PROVE  /\ \A i \in FramesOnTheWay(b) :
              i \in FramesOnTheWay(b)' /\ inbox'[b][i] = inbox[b][i] /\ i \in Nat
         /\ \A i \in FramesOnTheWay(b)' :
              /\ i \in Nat
              /\ \/ i \in FramesOnTheWay(b) /\ inbox'[b][i] = inbox[b][i]
                 \/ /\ IsFrame(e) /\ inbox'[b][i] = e /\ link[b] = "subscribed"
                    /\ \A j \in FramesOnTheWay(b) : j < i
         /\ Completing(b)' => Completing(b) \/ e.event = "replay.completed"
         /\ \A n : Comes(b, n) => Comes(b, n)'
         /\ IsFrame(e) /\ losses' = losses /\ link[b] = "subscribed" => Comes(b, e.n)'
  <1>1. Len(inbox[b]) \in Nat /\ Len(inbox[b]) <= Len(inbox'[b])
    BY InboxIs DEF Longer
  <1>2. ASSUME NEW i \in 1 .. Len(inbox'[b])
        PROVE  /\ i \in Nat
               /\ \/ i \in 1 .. Len(inbox[b]) /\ inbox'[b][i] = inbox[b][i]
                  \/ /\ i \in Len(inbox[b]) + 1 .. Len(inbox'[b]) /\ inbox'[b][i] = e
                     /\ link[b] = "subscribed"
    <2>1. CASE i \in 1 .. Len(inbox[b])
      BY <1>1, <2>1 DEF Longer
    <2>2. CASE i \notin 1 .. Len(inbox[b])
      <3>1. i \in Len(inbox[b]) + 1 .. Len(inbox'[b]) /\ inbox'[b] # inbox[b]
        BY <1>1, <2>2
      <3> QED BY <1>1, <3>1 DEF Longer
    <2> QED BY <2>1, <2>2
  <1>3. \A i \in 1 .. Len(inbox[b]) :
          i \in 1 .. Len(inbox'[b]) /\ inbox'[b][i] = inbox[b][i] /\ i \in Nat
    BY <1>1 DEF Longer
  <1>4. \A i \in FramesOnTheWay(b) :
          i \in FramesOnTheWay(b)' /\ inbox'[b][i] = inbox[b][i] /\ i \in Nat
    BY <1>3 DEF FramesOnTheWay
  <1>5. ASSUME NEW i \in FramesOnTheWay(b)'
        PROVE  /\ i \in Nat
               /\ \/ i \in FramesOnTheWay(b) /\ inbox'[b][i] = inbox[b][i]
                  \/ /\ IsFrame(e) /\ inbox'[b][i] = e /\ link[b] = "subscribed"
                     /\ \A j \in FramesOnTheWay(b) : j < i
    <2>1. i \in 1 .. Len(inbox'[b]) /\ IsFrame(inbox'[b][i])
      BY DEF FramesOnTheWay
    <2>2. CASE i \in Len(inbox[b]) + 1 .. Len(inbox'[b])
               /\ inbox'[b][i] = e /\ link[b] = "subscribed"
      <3>1. \A j \in FramesOnTheWay(b) : j < i
        BY <1>1, <2>2 DEF FramesOnTheWay
      <3> QED BY <1>2, <2>1, <2>2, <3>1
    <2> QED BY <1>2, <2>1, <2>2 DEF FramesOnTheWay
  <1>6. Completing(b)' => Completing(b) \/ e.event = "replay.completed"
    BY <1>2 DEF Completing
  <1>7. \A n : Comes(b, n) => Comes(b, n)'
    BY <1>4 DEF Comes
  <1>8. ASSUME IsFrame(e), losses' = losses, link[b] = "subscribed" PROVE Comes(b, e.n)'
    <2>1. Len(inbox[b]) + 1 \in 1 .. Len(inbox'[b]) /\ inbox'[b][Len(inbox[b]) + 1] = e
      BY <1>1, <1>8 DEF Longer
    <2> QED BY <1>8, <2>1 DEF Comes, FramesOnTheWay
  <1> QED BY <1>4, <1>5, <1>6, <1>7, <1>8

LEMMA DrawnTold ==
  ASSUME SocketTyped, ReplayTyped, NEW b \in Browsers, NEW e \in Message, Longer(b, e),
         player' = player, link' = link, losses <= losses', losses' \in Nat,
         NEW m \in Nat, NEW k \in {m, m + 1}, IF IsFrame(e) THEN e.n = k ELSE k = m
  PROVE  (Drawn(b, m) => Drawn(b, k)') /\ (Gapless(b, m) => Gapless(b, k)')
  <1>1. LastDrawn(b)' = LastDrawn(b) /\ k \in Nat /\ m <= k /\ (k = m \/ k = m + 1)
    BY DEF LastDrawn
  <1>2. /\ \A i \in FramesOnTheWay(b) :
             i \in FramesOnTheWay(b)' /\ inbox'[b][i] = inbox[b][i] /\ i \in Nat
        /\ \A i \in FramesOnTheWay(b)' :
             /\ i \in Nat
             /\ \/ i \in FramesOnTheWay(b) /\ inbox'[b][i] = inbox[b][i]
                \/ /\ IsFrame(e) /\ inbox'[b][i] = e /\ link[b] = "subscribed"
                   /\ \A j \in FramesOnTheWay(b) : j < i
        /\ \A n : Comes(b, n) => Comes(b, n)'
        /\ IsFrame(e) /\ losses' = losses /\ link[b] = "subscribed" => Comes(b, e.n)'
    BY FramesTold
  <1>3. /\ \A i \in FramesOnTheWay(b) : inbox[b][i].n \in Nat
        /\ player[b].candles # <<>> => LastDrawn(b) \in Nat
    <2>1. player[b].candles # <<>> => Len(player[b].candles) \in 1 .. Len(player[b].candles)
      BY PlayerIs
    <2> QED BY <2>1, InboxIs, PlayerIs DEF FramesOnTheWay, LastDrawn
  <1>4. ASSUME Drawn(b, m) PROVE Drawn(b, k)'
    <2>1. /\ player[b].candles # <<>> => LastDrawn(b) <= m
          /\ \A i \in FramesOnTheWay(b) :
               /\ inbox[b][i].n <= m
               /\ player[b].candles # <<>> => LastDrawn(b) <= inbox[b][i].n
               /\ \A j \in FramesOnTheWay(b) : i < j => inbox[b][i].n <= inbox[b][j].n
      BY <1>4 DEF Drawn
    <2>2. ASSUME NEW i \in FramesOnTheWay(b)'
          PROVE  /\ inbox'[b][i].n <= k
                 /\ player[b].candles # <<>> => LastDrawn(b) <= inbox'[b][i].n
                 /\ \A j \in FramesOnTheWay(b)' : i < j => inbox'[b][i].n <= inbox'[b][j].n
      <3>1. CASE i \in FramesOnTheWay(b) /\ inbox'[b][i] = inbox[b][i]
        <4>1. inbox[b][i].n <= m /\ inbox[b][i].n <= k /\ inbox[b][i].n \in Nat
          BY <1>1, <1>3, <2>1, <3>1
        <4>2. ASSUME NEW j \in FramesOnTheWay(b)', i < j PROVE inbox'[b][i].n <= inbox'[b][j].n
          <5>1. CASE j \in FramesOnTheWay(b) /\ inbox'[b][j] = inbox[b][j]
            BY <2>1, <3>1, <4>2, <5>1
          <5>2. CASE IsFrame(e) /\ inbox'[b][j] = e
            BY <3>1, <4>1, <5>2
          <5> QED BY <1>2, <5>1, <5>2
        <4> QED BY <2>1, <3>1, <4>1, <4>2
      <3>2. CASE IsFrame(e) /\ inbox'[b][i] = e /\ \A j \in FramesOnTheWay(b) : j < i
        <4>1. player[b].candles # <<>> => LastDrawn(b) <= k
          BY <1>1, <1>3, <2>1
        <4>2. ASSUME NEW j \in FramesOnTheWay(b)', i < j PROVE inbox'[b][j] = e
          BY <1>2, <3>2, <4>2
        <4> QED BY <1>1, <3>2, <4>1, <4>2
      <3> QED BY <1>2, <3>1, <3>2
    <2>3. player[b].candles # <<>> => LastDrawn(b) <= k
      BY <1>1, <1>3, <2>1
    <2> QED BY <1>1, <1>4, <2>2, <2>3 DEF Drawn
  <1>5. ASSUME Gapless(b, m), losses' = 0
        PROVE  /\ player[b].candles # <<>> \/ FramesOnTheWay(b)' # {} => link[b] = "subscribed"
               /\ \A i \in 2 .. Len(player[b].candles) :
                    player[b].candles[i][2] = player[b].candles[i - 1][2] + 1
               /\ player[b].candles # <<>> => \A n \in LastDrawn(b) + 1 .. k : Comes(b, n)'
               /\ \A i \in FramesOnTheWay(b)' : \A n \in inbox'[b][i].n .. k : Comes(b, n)'
    <2>1. losses = 0 /\ losses' = losses
      BY <1>5 DEF SocketTyped
    <2>2. /\ player[b].candles # <<>> \/ FramesOnTheWay(b) # {} => link[b] = "subscribed"
          /\ \A i \in 2 .. Len(player[b].candles) :
               player[b].candles[i][2] = player[b].candles[i - 1][2] + 1
          /\ player[b].candles # <<>> => \A n \in LastDrawn(b) + 1 .. m : Comes(b, n)
          /\ \A i \in FramesOnTheWay(b) : \A n \in inbox[b][i].n .. m : Comes(b, n)
      BY <1>5, <2>1 DEF Gapless
    <2>3. player[b].candles # <<>> \/ FramesOnTheWay(b)' # {} => link[b] = "subscribed"
      BY <1>2, <2>2
    <2>4. ASSUME NEW x \in Nat, NEW n \in x .. k, link[b] = "subscribed",
                 \A y \in x .. m : Comes(b, y)'
          PROVE  Comes(b, n)'
      <3>1. CASE n <= m
        BY <2>4, <3>1
      <3>2. CASE n > m
        <4>1. n = k /\ IsFrame(e) /\ e.n = k
          BY <1>1, <2>4, <3>2
        <4> QED BY <1>2, <2>1, <2>4, <4>1
      <3> QED BY <3>1, <3>2
    <2>5. ASSUME player[b].candles # <<>>, NEW n \in LastDrawn(b) + 1 .. k
          PROVE  Comes(b, n)'
      <3>1. LastDrawn(b) + 1 \in Nat /\ link[b] = "subscribed"
        BY <1>3, <2>2, <2>5
      <3>2. \A y \in LastDrawn(b) + 1 .. m : Comes(b, y)'
        BY <1>2, <2>2, <2>5
      <3> QED BY <2>4, <2>5, <3>1, <3>2
    <2>6. ASSUME NEW i \in FramesOnTheWay(b)', NEW n \in inbox'[b][i].n .. k
          PROVE  Comes(b, n)'
      <3>0. link[b] = "subscribed"
        BY <2>3, <2>6
      <3>1. CASE i \in FramesOnTheWay(b) /\ inbox'[b][i] = inbox[b][i]
        <4>1. inbox[b][i].n \in Nat
          BY <1>3, <3>1
        <4>2. \A y \in inbox[b][i].n .. m : Comes(b, y)'
          BY <1>2, <2>2, <3>1
        <4> QED BY <2>4, <2>6, <3>0, <3>1, <4>1, <4>2
      <3>2. CASE IsFrame(e) /\ inbox'[b][i] = e
        <4>1. n = k /\ e.n = k
          BY <1>1, <2>6, <3>2
        <4> QED BY <1>2, <2>1, <3>0, <3>2, <4>1
      <3> QED BY <1>2, <3>1, <3>2
    <2> QED BY <2>2, <2>3, <2>5, <2>6
  <1>6. ASSUME Gapless(b, m) PROVE Gapless(b, k)'
    BY <1>1, <1>5, <1>6 DEF Gapless
  <1> QED BY <1>4, <1>6

\* A request takes a step and keeps its goal.
LEMMA StepPut ==
  ASSUME ReplayTyped, Asking, NEW b \in Browsers, NEW i \in Slots, Used(b, i),
         NEW step \in {"framed", "announced", "committed", "failed"},
         put[b][i].step \in {"sent", "failed"} => step = "failed",
         put' = [put EXCEPT ![b][i].step = step]
  PROVE  \E r \in Puts :
           /\ put' = [put EXCEPT ![b][i] = r] /\ PutIsRight(r)
           /\ r.step = step /\ r.op = put[b][i].op
           /\ r.of = put[b][i].of /\ r.goal = put[b][i].goal
  <1> DEFINE q == put[b][i]
             r == [q EXCEPT !.step = step]
  <1>1. q \in Puts /\ PutIsRight(q) /\ q.step # "none"
    BY DEF ReplayTyped, Asking, Used
  <1>2. r \in Puts /\ r.step = step /\ r.op = q.op /\ r.of = q.of /\ r.goal = q.goal
    BY <1>1 DEF Puts
  <1>3. put' = [put EXCEPT ![b][i] = r]
    BY DEF ReplayTyped
  <1> HIDE DEF r
  <1>4. PutIsRight(r)
    BY <1>1, <1>2 DEF PutIsRight
  <1> QED BY <1>2, <1>3, <1>4

LEMMA RefuseKeeps ==
  ASSUME SocketTyped, ReplayInv, page = "replay", NEW b \in Browsers, NEW i \in Slots,
         Refuse(b, i)
  PROVE  SocketTyped' /\ ReplayInv'
  <1>0. ReplayBase /\ Following /\ Caring
    BY BaseOf
  <1> DEFINE q == put[b][i]
  <1>1. /\ q.step \notin {"none", "failed"} /\ put' = [put EXCEPT ![b][i].step = "failed"]
        /\ refusals' = refusals + 1
        /\ gone' = gone /\ strayed' = strayed
        /\ row' = row /\ player' = player /\ late' = late
        /\ page' = page /\ link' = link /\ inbox' = inbox /\ losses' = losses
    BY DEF Refuse, serverVars, strayVars, socketVars
  <1>2. Used(b, i)
    BY <1>1 DEF Used
  <1>3. PICK r \in Puts :
          /\ put' = [put EXCEPT ![b][i] = r] /\ PutIsRight(r)
          /\ r.step = "failed" /\ r.op = q.op /\ r.of = q.of /\ r.goal = q.goal
    <2>1. ReplayTyped /\ Asking
      BY <1>0 DEF ReplayBase
    <2> HIDE DEF q
    <2>2. \E r \in Puts :
            /\ put' = [put EXCEPT ![b][i] = r] /\ PutIsRight(r)
            /\ r.step = "failed" /\ r.op = put[b][i].op
            /\ r.of = put[b][i].of /\ r.goal = put[b][i].goal
      BY <1>1, <1>2, <2>1, StepPut DEF q
    <2> QED BY <2>2 DEF q
  <1>4. refusals \in Nat /\ refusals' \in Nat /\ refusals' # 0 /\ Straying'
    BY <1>0, <1>1 DEF ReplayBase, ReplayTyped, Straying
  <1>5. /\ ReplayBase' /\ put'[b][i] = r
        /\ \A c \in Browsers, j \in Slots :
             /\ c # b \/ j # i => put'[c][j] = put[c][j]
             /\ Used(c, j)' <=> Used(c, j)
        /\ \A d \in Browsers : Only(d)' => Only(b) /\ d = b
    <2>1. \A c \in Browsers : \A k \in 1 .. Len(inbox'[c]) : OfReplay(inbox'[c][k])
      BY <1>0, <1>1 DEF ReplayBase, Telling
    <2>2. row' \in [Replays -> Points]
      BY <1>0, <1>1 DEF ReplayBase, ReplayTyped
    <2> QED BY <1>0, <1>1, <1>2, <1>3, <1>4, <2>1, <2>2, ServerKeeps
  <1>6. SocketTyped'
    BY <1>1 DEF SocketTyped
  <1>7. ASSUME NEW d \in Browsers, Only(d)' PROVE Follows(d)'
    <2> DEFINE s == player[b].session
    <2>1. Only(b) /\ d = b
      BY <1>5, <1>7
    <2>2. PICK m \in 0 .. Frames[s] - 1 : Announced(b, m) /\ Drawn(b, m) /\ Gapless(b, m)
      BY <1>0, <2>1 DEF Following, Follows
    <2>3. StandsAt(b, m)' /\ LateAt(m)'
      BY <1>1, <2>2 DEF Announced, StandsAt, LateAt
    <2>4. \A k \in Slots : Locking(b, k)' => Locking(b, k)
      BY <1>3, <1>5 DEF Locking
    <2>5. \A k \in Slots : put'[b][k].op = put[b][k].op
      BY <1>3, <1>5
    <2>6. ASSUME NEW j \in Slots PROVE AsksAt(b, j, m)'
      <3>1. AsksAt(b, j, m)
        BY <2>2 DEF Announced
      <3>2. CASE j = i
        BY <1>1, <1>3, <1>5, <2>5, <3>1, <3>2 DEF AsksAt, Locking
      <3>3. CASE j # i
        <4>1. put'[b][j] = put[b][j]
          BY <1>5, <3>3
        <4> QED BY <1>1, <1>5, <2>4, <2>5, <3>1, <4>1 DEF AsksAt
      <3> QED BY <3>2, <3>3
    <2>7. Drawn(b, m)' /\ Gapless(b, m)'
      BY <1>1, <2>2, DrawnStill
    <2> QED BY <1>1, <2>1, <2>2, <2>3, <2>6, <2>7 DEF Follows, Announced
  <1>8. Following' /\ Caring'
    BY <1>4, <1>7 DEF Following, Caring
  <1> QED BY <1>5, <1>6, <1>8, BaseOf DEF ReplayInv, ReplayBase

LEMMA CommitReplayKeeps ==
  ASSUME SocketTyped, ReplayInv, page = "replay", NEW b \in Browsers, NEW i \in Slots,
         CommitReplay(b, i)
  PROVE  SocketTyped' /\ ReplayInv'
  <1>0. ReplayBase /\ Following /\ Caring
    BY BaseOf
  <1> DEFINE q == put[b][i]
  <1>1. /\ q.step = "announced" /\ put' = [put EXCEPT ![b][i].step = "committed"]
        /\ row' = [row EXCEPT ![q.of] = q.goal]
        /\ player' = player /\ late' = late /\ refusals' = refusals
        /\ gone' = gone /\ strayed' = strayed
        /\ page' = page /\ link' = link /\ inbox' = inbox /\ losses' = losses
    BY DEF CommitReplay, serverVars, strayVars, socketVars
  <1>2. /\ q \in Puts /\ Used(b, i) /\ Locking(b, i) /\ q.op \in {"next", "finish"}
        /\ q.of \in Replays /\ q.goal \in Points /\ IsFrameOf(q.goal.frame, q.of)
    BY <1>0, <1>1 DEF ReplayBase, ReplayTyped, Puts, Asking, PutIsRight, Used, Locking
  <1>3. PICK r \in Puts :
          /\ put' = [put EXCEPT ![b][i] = r] /\ PutIsRight(r)
          /\ r.step = "committed" /\ r.op = q.op /\ r.of = q.of /\ r.goal = q.goal
    <2>1. ReplayTyped /\ Asking
      BY <1>0 DEF ReplayBase
    <2> HIDE DEF q
    <2>2. \E r \in Puts :
            /\ put' = [put EXCEPT ![b][i] = r] /\ PutIsRight(r)
            /\ r.step = "committed" /\ r.op = put[b][i].op
            /\ r.of = put[b][i].of /\ r.goal = put[b][i].goal
      <3>1. Used(b, i) /\ put[b][i].step = "announced"
            /\ put' = [put EXCEPT ![b][i].step = "committed"]
        BY <1>1, <1>2 DEF q
      <3> QED BY <2>1, <3>1, StepPut
    <2> QED BY <2>2 DEF q
  <1>4. /\ row \in [Replays -> Points] /\ row' \in [Replays -> Points]
        /\ row'[q.of] = q.goal /\ \A s \in Replays \ {q.of} : row'[s] = row[s]
    BY <1>0, <1>1, <1>2 DEF ReplayBase, ReplayTyped
  <1>5. q.goal # NoReplay
    BY <1>2, PlayerAssumption DEF NoReplay, IsFrameOf
  <1>6. /\ ReplayBase' /\ put'[b][i] = r
        /\ \A c \in Browsers, j \in Slots :
             /\ c # b \/ j # i => put'[c][j] = put[c][j]
             /\ Used(c, j)' <=> Used(c, j)
        /\ \A d \in Browsers : Only(d)' => Only(b) /\ d = b
    <2>1. \A c \in Browsers : \A k \in 1 .. Len(inbox'[c]) : OfReplay(inbox'[c][k])
      <3>1. ASSUME NEW c \in Browsers, NEW k \in 1 .. Len(inbox'[c])
            PROVE  OfReplay(inbox[c][k])
        BY <1>0, <1>1 DEF ReplayBase, Telling
      <3> QED BY <1>1, <3>1
    <2>2. refusals' \in Nat /\ Straying' /\ strayed' = strayed
      BY <1>0, <1>1 DEF ReplayBase, ReplayTyped, Straying
    <2>3. /\ \A s \in Replays : row[s] # NoReplay => row'[s] # NoReplay
          /\ \A s \in Replays : row'[s] = row[s] \/ IsFrameOf(row'[s].frame, s)
      BY <1>2, <1>4, <1>5
    <2>4. /\ player' = player /\ late' = late /\ page' = page
          /\ r.step # "none" /\ r.of = put[b][i].of /\ Used(b, i)
      BY <1>1, <1>2, <1>3
    <2> QED BY <1>0, <1>3, <1>4, <2>1, <2>2, <2>3, <2>4, ServerKeeps
  <1>7. SocketTyped'
    BY <1>1 DEF SocketTyped
  <1>8. ASSUME NEW d \in Browsers, Only(d)'
        PROVE  Follows(d)' /\ (Careful /\ refusals' = 0 => Cares(d)')
    <2> DEFINE p == player[b]
               s == p.session
    <2>1. Only(b) /\ d = b /\ q.of = s /\ Frames[s] \in Nat
      BY <1>0, <1>2, <1>6, <1>8, OnlyIs
    <2>2. PICK m \in 0 .. Frames[s] - 1 : Announced(b, m) /\ Drawn(b, m) /\ Gapless(b, m)
      BY <1>0, <2>1 DEF Following, Follows
    <2>3. /\ late = {} /\ (\A j \in Slots : Locking(b, j) => j = i)
          /\ q.goal.over \/ q.goal.frame = m
          /\ q.op = "finish" => q.goal.over
          /\ q.op = "next" => ~p.next
                               /\ \A j \in Slots : put[b][j].op = "next" /\ Used(b, j) => j = i
      <3>1. AsksAt(b, i, m)
        BY <2>2 DEF Announced
      <3>2. late = {} /\ (\A j \in Slots : Locking(b, j) => j = i)
        BY <1>2, <3>1 DEF AsksAt
      <3>3. q.op = "finish" => q.goal.over
        BY <1>1, <3>1 DEF AsksAt
      <3>4. q.op = "next" => q.goal.frame = m
        BY <1>2, <3>1 DEF AsksAt
      <3>5. q.op = "next" => ~p.next
                             /\ \A j \in Slots : put[b][j].op = "next" /\ Used(b, j) => j = i
        BY <1>2, <3>1 DEF AsksAt
      <3> QED BY <1>2, <3>2, <3>3, <3>4, <3>5
    <2>4. StandsAt(b, m)' /\ LateAt(m)'
      BY <1>1, <1>4, <2>1, <2>2, <2>3 DEF StandsAt, LateAt
    <2>5. \A k \in Slots : ~Locking(b, k)'
      BY <1>3, <1>6, <2>3 DEF Locking
    <2>6. \A k \in Slots : put'[b][k].op = put[b][k].op
      BY <1>3, <1>6
    <2>7. ASSUME NEW j \in Slots PROVE AsksAt(b, j, m)'
      <3>1. AsksAt(b, j, m)
        BY <2>2 DEF Announced
      <3>2. CASE j = i
        BY <1>1, <1>3, <1>6, <2>3, <2>5, <2>6, <3>2 DEF AsksAt
      <3>3. CASE j # i
        <4>1. put'[b][j] = put[b][j] /\ ~Locking(b, j)
          BY <1>6, <2>3, <3>3
        <4>2. put[b][j].op = "next" /\ put[b][j].step = "loaded" => row'[s].over
          BY <1>2, <1>4, <2>1, <2>3, <3>3 DEF Used
        <4>3. put[b][j].op = "next" /\ put[b][j].step = "loaded" =>
                put[b][j].goal.frame = m \/ put[b][j].goal.frame = m + 1
          BY <3>1 DEF AsksAt
        <4> QED BY <1>1, <1>6, <2>5, <2>6, <3>1, <4>1, <4>2, <4>3 DEF AsksAt
      <3> QED BY <3>2, <3>3
    <2>8. Drawn(b, m)' /\ Gapless(b, m)'
      BY <1>1, <2>2, DrawnStill
    <2>9. Follows(b)'
      BY <1>1, <2>2, <2>4, <2>7, <2>8 DEF Follows, Announced
    <2>10. ASSUME Careful, refusals' = 0 PROVE Cares(b)'
      <3>1. OneOpen(b) /\ ButtonsAre(b) /\ WaitEnds(b)
        BY <1>0, <1>1, <2>1, <2>10 DEF Caring, Cares
      <3>2. (\A j \in Slots : Used(b, j) => j = i) /\ ~p.shown.over
        BY <1>2, <3>1 DEF OneOpen
      <3>3. OneOpen(b)'
        BY <1>1, <1>3, <1>4, <1>6, <2>1, <2>3, <3>2 DEF OneOpen
      <3>4. ShowsAhead(b)'
        BY <1>1, <1>2, <1>6, <2>3 DEF ShowsAhead
      <3>5. Ending(b)' <=> Ending(b)
        <4>1. Ending(b) <=> q.goal.over
          BY <1>1, <3>2 DEF Ending, Used
        <4>2. Ending(b)' <=> q.goal.over
          BY <1>3, <1>6, <3>2 DEF Ending, Used
        <4> QED BY <4>1, <4>2
      <3>6. ButtonsAre(b)'
        BY <1>1, <1>6, <2>6, <3>1, <3>5 DEF ButtonsAre, Completing
      <3>7. WaitEnds(b)'
        BY <1>1, <1>6, <2>6, <3>1 DEF WaitEnds
      <3> QED BY <3>3, <3>4, <3>6, <3>7 DEF Cares
    <2> QED BY <2>1, <2>9, <2>10
  <1>9. Following' /\ Caring'
    BY <1>8 DEF Following, Caring
  <1> QED BY <1>6, <1>7, <1>9, BaseOf DEF ReplayInv, ReplayBase

LEMMA CommitLateKeeps ==
  ASSUME SocketTyped, ReplayInv, page = "replay", NEW l \in late, CommitLate(l)
  PROVE  SocketTyped' /\ ReplayInv'
  <1>0. ReplayBase /\ Following /\ Caring
    BY BaseOf
  <1>1. /\ row' = [row EXCEPT ![l.of] = l.goal] /\ late' = late \ {l}
        /\ put' = put /\ player' = player /\ refusals' = refusals
        /\ gone' = gone /\ strayed' = strayed
        /\ page' = page /\ link' = link /\ inbox' = inbox /\ losses' = losses
    BY DEF CommitLate, serverVars, strayVars, socketVars
  <1>2. l.of \in Replays /\ l.goal \in Points /\ IsFrameOf(l.goal.frame, l.of)
    BY <1>0 DEF ReplayBase, ReplayTyped, Standing
  <1>3. /\ row \in [Replays -> Points] /\ row' \in [Replays -> Points]
        /\ row'[l.of] = l.goal /\ \A s \in Replays \ {l.of} : row'[s] = row[s]
    BY <1>0, <1>1, <1>2 DEF ReplayBase, ReplayTyped
  <1>4. l.goal # NoReplay
    BY <1>2, PlayerAssumption DEF NoReplay, IsFrameOf
  <1>5. \A s \in Replays : row[s] # NoReplay => row'[s] # NoReplay
    BY <1>3, <1>4
  <1>6. ReplayBase'
    <2>1. ReplayTyped'
      BY <1>0, <1>1, <1>3 DEF ReplayBase, ReplayTyped, Straying
    <2>2. Standing'
      BY <1>0, <1>1, <1>2, <1>3, <1>5 DEF ReplayBase, ReplayTyped, Standing
    <2>3. Asking' /\ Unopened'
      BY <1>0, <1>1 DEF ReplayBase, Asking, Unopened, Used
    <2>4. ASSUME NEW c \in Browsers, NEW j \in Slots, put'[c][j].step # "none"
          PROVE  Knows(c, put'[c][j].of)
      BY <1>1, <2>4 DEF Knows, Used
    <2>5. ASSUME NEW c \in Browsers, NEW k \in 1 .. Len(inbox'[c])
          PROVE  OfReplay(inbox[c][k])
      BY <1>0, <1>1 DEF ReplayBase, Telling
    <2>6. page = "replay" =>
            \A c \in Browsers : \A k \in 1 .. Len(inbox'[c]) : OfReplay(inbox'[c][k])
      BY <1>1, <2>5
    <2> QED BY <1>0, <1>1, <1>5, <2>1, <2>2, <2>3, <2>4, <2>6, BaseKept
  <1>7. SocketTyped'
    BY <1>1 DEF SocketTyped
  <1>8. ASSUME NEW b \in Browsers, Only(b)'
        PROVE  Follows(b)' /\ (Careful /\ refusals' = 0 => Cares(b)')
    <2> DEFINE p == player[b]
               s == p.session
    <2>1. Only(b) /\ l.of = s
      <3>1. Only(b)
        BY <1>1, <1>5, <1>8, OnlyBefore
      <3> QED BY <1>0, <3>1, OnlyIs
    <2>2. PICK m \in 0 .. Frames[s] - 1 : Announced(b, m) /\ Drawn(b, m) /\ Gapless(b, m)
      BY <1>0, <2>1 DEF Following, Follows
    <2>3. late' = {} /\ (l.goal.over \/ l.goal.frame = m)
      BY <1>1, <2>2 DEF Announced, LateAt
    <2>4. m \in Int /\ l.goal.frame \in Int
      BY <1>2 DEF Points
    <2>5. StandsAt(b, m)' /\ LateAt(m)'
      BY <1>1, <1>3, <2>1, <2>3, <2>4 DEF StandsAt, LateAt
    <2>6. ASSUME NEW j \in Slots PROVE AsksAt(b, j, m)'
      <3>1. AsksAt(b, j, m)
        BY <2>2 DEF Announced
      <3>2. row'[s].over \/ row'[s].frame = m
        BY <1>3, <2>1, <2>3
      <3> QED BY <1>1, <2>3, <3>1, <3>2 DEF AsksAt, Locking, Used
    <2>7. Drawn(b, m)' /\ Gapless(b, m)'
      BY <1>1, <2>2, DrawnStill
    <2>8. Follows(b)'
      BY <1>1, <2>2, <2>5, <2>6, <2>7 DEF Follows, Announced
    <2>9. ASSUME Careful, refusals' = 0 PROVE Cares(b)'
      <3>1. OneOpen(b) /\ ShowsAhead(b) /\ ButtonsAre(b) /\ WaitEnds(b)
        BY <1>0, <1>1, <2>1, <2>9 DEF Caring, Cares
      <3>2. p.shown = row'[s]
        BY <1>3, <2>1, <3>1 DEF ShowsAhead
      <3>3. late # {}
        OBVIOUS
      <3>4. OneOpen(b)'
        BY <1>1, <3>1, <3>2, <3>3 DEF OneOpen, Used
      <3>5. ShowsAhead(b)'
        BY <1>1, <2>3, <3>2 DEF ShowsAhead
      <3>6. ButtonsAre(b)'
        BY <1>1, <3>1 DEF ButtonsAre, Ending, Completing, Used
      <3>7. WaitEnds(b)'
        BY <1>1, <3>1 DEF WaitEnds, Used
      <3> QED BY <3>4, <3>5, <3>6, <3>7 DEF Cares
    <2> QED BY <2>8, <2>9
  <1>9. Following' /\ Caring'
    BY <1>8 DEF Following, Caring
  <1> QED BY <1>6, <1>7, <1>9, BaseOf DEF ReplayInv, ReplayBase

LEMMA RefuseLateKeeps ==
  ASSUME SocketTyped, ReplayInv, page = "replay", NEW l \in late, RefuseLate(l)
  PROVE  SocketTyped' /\ ReplayInv'
  <1>0. ReplayBase /\ Following
    BY BaseOf
  <1>1. /\ refusals' = refusals + 1 /\ late' = late \ {l}
        /\ row' = row /\ put' = put /\ player' = player
        /\ gone' = gone /\ strayed' = strayed
        /\ page' = page /\ link' = link /\ inbox' = inbox /\ losses' = losses
    BY DEF RefuseLate, strayVars, socketVars
  <1>2. refusals' \in Nat /\ refusals' # 0 /\ Straying'
    BY <1>0, <1>1 DEF ReplayBase, ReplayTyped, Straying
  <1>3. ReplayBase'
    <2>1. ReplayTyped' /\ Standing'
      BY <1>0, <1>1, <1>2 DEF ReplayBase, ReplayTyped, Standing
    <2>2. Asking' /\ Unopened'
      BY <1>0, <1>1 DEF ReplayBase, Asking, Unopened, Used
    <2>3. Knowing'
      BY <1>0, <1>1 DEF ReplayBase, Knowing, Knows, Used
    <2>4. Telling'
      BY <1>0, <1>1 DEF ReplayBase, Telling, OfReplay
    <2> QED BY <2>1, <2>2, <2>3, <2>4 DEF ReplayBase
  <1>4. SocketTyped'
    BY <1>1 DEF SocketTyped
  <1>5. ASSUME NEW b \in Browsers, Only(b)' PROVE Follows(b)'
    <2> DEFINE s == player[b].session
    <2>1. Only(b)
      BY <1>1, <1>5, OnlyBefore
    <2>2. PICK m \in 0 .. Frames[s] - 1 : Announced(b, m) /\ Drawn(b, m) /\ Gapless(b, m)
      BY <1>0, <2>1 DEF Following, Follows
    <2>3. late' = {}
      BY <1>1, <2>2 DEF Announced, LateAt
    <2>4. StandsAt(b, m)' /\ LateAt(m)'
      BY <1>1, <2>2, <2>3 DEF Announced, StandsAt, LateAt
    <2>5. ASSUME NEW j \in Slots PROVE AsksAt(b, j, m)'
      <3>1. AsksAt(b, j, m)
        BY <2>2 DEF Announced
      <3> QED BY <1>1, <2>3, <3>1 DEF AsksAt, Locking, Used
    <2>6. Drawn(b, m)' /\ Gapless(b, m)'
      BY <1>1, <2>2, DrawnStill
    <2> QED BY <1>1, <2>2, <2>4, <2>5, <2>6 DEF Follows, Announced
  <1>6. Following' /\ Caring'
    BY <1>2, <1>5 DEF Following, Caring
  <1> QED BY <1>3, <1>4, <1>6, BaseOf DEF ReplayInv, ReplayBase

LEMMA TellingTold ==
  ASSUME SocketTyped, ReplayBase, page = "replay", NEW e \in Message, OfReplay(e),
         \A c \in Browsers : Longer(c, e)
  PROVE  \A c \in Browsers : \A k \in 1 .. Len(inbox'[c]) : OfReplay(inbox'[c][k])
  <1>1. ASSUME NEW c \in Browsers, NEW k \in 1 .. Len(inbox'[c]) PROVE OfReplay(inbox'[c][k])
    <2>1. Len(inbox[c]) \in Nat
      BY InboxIs
    <2>2. CASE k \in 1 .. Len(inbox[c])
      <3>1. inbox'[c][k] = inbox[c][k]
        BY <2>2 DEF Longer
      <3>2. OfReplay(inbox[c][k])
        BY <2>2 DEF ReplayBase, Telling
      <3> QED BY <3>1, <3>2
    <2>3. CASE k \notin 1 .. Len(inbox[c])
      <3>1. k \in Len(inbox[c]) + 1 .. Len(inbox'[c])
        BY <2>1, <2>3
      <3>2. inbox'[c][k] = e
        BY <3>1 DEF Longer
      <3> QED BY <3>2
    <2> QED BY <2>2, <2>3
  <1> QED BY <1>1

\* The request that has come this far has the lock, or nobody has.
LEMMA LockIs ==
  ASSUME ReplayBase, NEW b \in Browsers, NEW i \in Slots, Only(b), NEW m, Announced(b, m),
         Used(b, i), put[b][i].step = "framed" \/ ~Locked(put[b][i].of)
  PROVE  late = {} /\ \A j \in Slots : Locking(b, j) => j = i
  <1>1. AsksAt(b, i, m)
    BY DEF Announced
  <1>2. CASE put[b][i].step = "framed"
    BY <1>1, <1>2 DEF AsksAt, Locking
  <1>3. CASE ~Locked(put[b][i].of)
    <2>1. put[b][i].of = player[b].session
      BY OnlyIs
    <2> QED BY <1>3, <2>1, LockedIs
  <1> QED BY <1>2, <1>3

LEMMA AnnounceOverKeeps ==
  ASSUME SocketTyped, ReplayInv, page = "replay", NEW b \in Browsers, NEW i \in Slots,
         AnnounceOver(b, i)
  PROVE  SocketTyped' /\ ReplayInv'
  <1>0. ReplayBase /\ Following /\ Caring
    BY BaseOf
  <1> DEFINE q == put[b][i]
             e == Event("replay.completed", q.of, 0)
  <1>1. /\ q.step = "framed" \/ (q.step = "loaded" /\ q.op = "finish")
        /\ q.step = "framed" \/ ~Locked(q.of)
        /\ put' = [put EXCEPT ![b][i].step = "announced"]
        /\ Announce(e)
        /\ row' = row /\ player' = player /\ late' = late /\ refusals' = refusals
        /\ gone' = gone /\ strayed' = strayed
    BY DEF AnnounceOver, serverVars, strayVars
  <1>2. /\ q \in Puts /\ Used(b, i) /\ q.op \in {"next", "finish"}
        /\ q.of \in Replays /\ row[q.of] # NoReplay
    BY <1>0, <1>1 DEF ReplayBase, ReplayTyped, Puts, Asking, PutIsRight, Used, Knowing, Knows
  <1>3. e \in Message /\ OfReplay(e) /\ e.event = "replay.completed" /\ ~IsFrame(e)
    <2>1. /\ e \in Message /\ e.event = "replay.completed" /\ e.of = q.of
      BY <1>2, EventIs DEF Events
    <2> HIDE DEF e
    <2> QED BY <1>2, <2>1 DEF OfReplay, IsFrame
  <1> HIDE DEF e
  <1>4. /\ SocketTyped' /\ page' = page /\ link' = link /\ losses <= losses'
        /\ \A c \in Browsers : Longer(c, e)
    BY <1>1, <1>3, AnnounceIs
  <1>5. PICK r \in Puts :
          /\ put' = [put EXCEPT ![b][i] = r] /\ PutIsRight(r)
          /\ r.step = "announced" /\ r.op = q.op /\ r.of = q.of /\ r.goal = q.goal
    <2>1. ReplayTyped /\ Asking
      BY <1>0 DEF ReplayBase
    <2> HIDE DEF q
    <2>2. Used(b, i) /\ put[b][i].step \in {"loaded", "framed"}
          /\ put' = [put EXCEPT ![b][i].step = "announced"]
      BY <1>1, <1>2 DEF q
    <2>3. \E r \in Puts :
            /\ put' = [put EXCEPT ![b][i] = r] /\ PutIsRight(r)
            /\ r.step = "announced" /\ r.op = put[b][i].op
            /\ r.of = put[b][i].of /\ r.goal = put[b][i].goal
      BY <2>1, <2>2, StepPut
    <2> QED BY <2>3 DEF q
  <1>6. /\ ReplayBase' /\ put'[b][i] = r
        /\ \A c \in Browsers, j \in Slots :
             /\ c # b \/ j # i => put'[c][j] = put[c][j]
             /\ Used(c, j)' <=> Used(c, j)
        /\ \A d \in Browsers : Only(d)' => Only(b) /\ d = b
    <2>1. \A c \in Browsers : \A k \in 1 .. Len(inbox'[c]) : OfReplay(inbox'[c][k])
      BY <1>0, <1>3, <1>4, TellingTold
    <2>2. /\ row' \in [Replays -> Points] /\ refusals' \in Nat
          /\ Straying' /\ strayed' = strayed
          /\ player' = player /\ late' = late /\ page' = page
          /\ r.step # "none" /\ r.of = put[b][i].of /\ Used(b, i)
      BY <1>0, <1>1, <1>2, <1>4, <1>5 DEF ReplayBase, ReplayTyped, Straying
    <2>3. /\ \A s \in Replays : row[s] # NoReplay => row'[s] # NoReplay
          /\ \A s \in Replays : row'[s] = row[s] \/ IsFrameOf(row'[s].frame, s)
      BY <1>1
    <2> QED BY <1>0, <1>5, <2>1, <2>2, <2>3, ServerKeeps
  <1>7. ASSUME NEW d \in Browsers, Only(d)'
        PROVE  Follows(d)' /\ (Careful /\ refusals' = 0 => Cares(d)')
    <2> DEFINE p == player[b]
               s == p.session
    <2>1. Only(b) /\ d = b /\ Frames[s] \in Nat
      BY <1>0, <1>6, <1>7, OnlyIs
    <2>2. PICK m \in 0 .. Frames[s] - 1 : Announced(b, m) /\ Drawn(b, m) /\ Gapless(b, m)
      BY <1>0, <2>1 DEF Following, Follows
    <2>3. late = {} /\ \A j \in Slots : Locking(b, j) => j = i
      BY <1>0, <1>1, <1>2, <2>1, <2>2, LockIs
    <2>4. StandsAt(b, m)' /\ LateAt(m)'
      BY <1>1, <2>2 DEF Announced, StandsAt, LateAt
    <2>5. \A k \in Slots : Locking(b, k)' => k = i
      BY <1>6, <2>3 DEF Locking
    <2>6. \A k \in Slots : put'[b][k].op = put[b][k].op
      BY <1>5, <1>6
    <2>7. ASSUME NEW j \in Slots PROVE AsksAt(b, j, m)'
      <3>1. AsksAt(b, j, m)
        BY <2>2 DEF Announced
      <3>2. CASE j = i
        <4>1. r.op = "finish" => r.goal.over
          BY <1>1, <1>5, <3>1, <3>2 DEF AsksAt
        <4>2. r.op = "next" => r.goal.frame = m
          BY <1>1, <1>5, <3>1, <3>2 DEF AsksAt, Locking
        <4> QED BY <1>1, <1>5, <1>6, <2>3, <2>5, <2>6, <3>1, <3>2, <4>1, <4>2 DEF AsksAt
      <3>3. CASE j # i
        <4>1. put'[b][j] = put[b][j] /\ ~Locking(b, j)'
          BY <1>6, <2>5, <3>3
        <4> QED BY <1>1, <1>6, <2>6, <3>1, <4>1 DEF AsksAt
      <3> QED BY <3>2, <3>3
    <2>8. Drawn(b, m)' /\ Gapless(b, m)'
      <3>1. m \in Nat /\ ReplayTyped /\ losses' \in Nat
        BY <1>0, <1>4 DEF ReplayBase, SocketTyped
      <3>2. m \in {m, m + 1}
        OBVIOUS
      <3> QED BY <1>1, <1>3, <1>4, <2>2, <3>1, <3>2, DrawnTold
    <2>9. Follows(b)'
      BY <1>1, <2>2, <2>4, <2>7, <2>8 DEF Follows, Announced
    <2>10. ASSUME Careful, refusals' = 0 PROVE Cares(b)'
      <3>1. OneOpen(b) /\ ShowsAhead(b) /\ WaitEnds(b)
        BY <1>0, <1>1, <2>1, <2>10 DEF Caring, Cares
      <3>2. /\ \A j \in Slots : Used(b, j) => j = i
            /\ ~p.shown.over /\ p.shown = row[s] /\ (q.step = "framed" => q.goal.over)
        BY <1>1, <1>2, <2>3, <3>1 DEF OneOpen
      <3>3. OneOpen(b)'
        BY <1>1, <1>5, <1>6, <2>3, <3>2 DEF OneOpen
      <3>4. ShowsAhead(b)'
        BY <1>1, <1>2, <1>6, <2>3 DEF ShowsAhead
      <3>5. Ending(b)'
        <4>1. AsksAt(b, i, m)
          BY <2>2 DEF Announced
        <4>2. q.goal.over
          BY <1>1, <3>2, <4>1 DEF AsksAt
        <4> QED BY <1>5, <1>6, <4>2 DEF Ending
      <3>6. ButtonsAre(b)'
        BY <3>5 DEF ButtonsAre
      <3>7. WaitEnds(b)'
        BY <1>1, <1>6, <2>6, <3>1 DEF WaitEnds
      <3> QED BY <3>3, <3>4, <3>6, <3>7 DEF Cares
    <2> QED BY <2>1, <2>9, <2>10
  <1>8. Following' /\ Caring'
    BY <1>7 DEF Following, Caring
  <1> QED BY <1>4, <1>6, <1>8, BaseOf DEF ReplayInv, ReplayBase

LEMMA AnnounceFrameKeeps ==
  ASSUME SocketTyped, ReplayInv, page = "replay", NEW b \in Browsers, NEW i \in Slots,
         AnnounceFrame(b, i)
  PROVE  SocketTyped' /\ ReplayInv'
  <1>0. ReplayBase /\ Following /\ Caring
    BY BaseOf
  <1> DEFINE q == put[b][i]
  <1>k. PICK k : k = q.goal.frame
    OBVIOUS
  <1>s. PICK step \in {"framed", "announced"} :
          step = IF q.goal.over THEN "framed" ELSE "announced"
    OBVIOUS
  <1> DEFINE e == Event("replay.frame_advanced", q.of, k)
  <1>1. /\ q.step = "loaded" /\ q.op = "next" /\ ~Locked(q.of)
        /\ put' = [put EXCEPT ![b][i].step = step]
        /\ Announce(e)
        /\ row' = row /\ player' = player /\ late' = late /\ refusals' = refusals
        /\ gone' = gone /\ strayed' = strayed
    BY <1>k, <1>s DEF AnnounceFrame, serverVars, strayVars
  <1>2. /\ q \in Puts /\ Used(b, i)
        /\ q.of \in Replays /\ row[q.of] # NoReplay /\ IsFrameOf(k, q.of) /\ k \in Nat
    <2>1. /\ q \in Puts /\ Used(b, i)
          /\ q.of \in Replays /\ row[q.of] # NoReplay /\ IsFrameOf(k, q.of)
      BY <1>0, <1>1, <1>k, SMTT(30) DEF ReplayBase, ReplayTyped, Asking, PutIsRight, Used, Knowing, Knows
    <2> QED BY <2>1 DEF IsFrameOf
  <1>3. e \in Message /\ OfReplay(e) /\ e.event # "replay.completed" /\ IsFrame(e) /\ e.n = k
    <2>1. /\ e \in Message /\ e.event = "replay.frame_advanced" /\ e.of = q.of /\ e.n = k
      BY <1>2, EventIs DEF Events
    <2> HIDE DEF e
    <2> QED BY <1>2, <2>1 DEF OfReplay, IsFrame
  <1> HIDE DEF e
  <1>4. /\ SocketTyped' /\ page' = page /\ link' = link /\ losses <= losses'
        /\ \A c \in Browsers : Longer(c, e)
    BY <1>1, <1>3, AnnounceIs
  <1>5. PICK r \in Puts :
          /\ put' = [put EXCEPT ![b][i] = r] /\ PutIsRight(r)
          /\ r.step = step /\ r.op = q.op /\ r.of = q.of /\ r.goal = q.goal
    <2>1. ReplayTyped /\ Asking
      BY <1>0 DEF ReplayBase
    <2> HIDE DEF q
    <2>3. Used(b, i) /\ put[b][i].step = "loaded"
          /\ put' = [put EXCEPT ![b][i].step = step]
      BY <1>1, <1>2 DEF q
    <2>4. \E r \in Puts :
            /\ put' = [put EXCEPT ![b][i] = r] /\ PutIsRight(r)
            /\ r.step = step /\ r.op = put[b][i].op
            /\ r.of = put[b][i].of /\ r.goal = put[b][i].goal
      <3>1. CASE step = "framed"
        <4>1. put' = [put EXCEPT ![b][i].step = "framed"]
          BY <2>3, <3>1
        <4>2. \E r \in Puts :
                /\ put' = [put EXCEPT ![b][i] = r] /\ PutIsRight(r)
                /\ r.step = "framed" /\ r.op = put[b][i].op
                /\ r.of = put[b][i].of /\ r.goal = put[b][i].goal
          <5>1. Used(b, i) /\ put[b][i].step = "loaded"
            BY <2>3
          <5> QED BY <2>1, <4>1, <5>1, StepPut
        <4> QED BY <3>1, <4>2
      <3>2. CASE step = "announced"
        <4>1. put' = [put EXCEPT ![b][i].step = "announced"]
          BY <2>3, <3>2
        <4>2. \E r \in Puts :
                /\ put' = [put EXCEPT ![b][i] = r] /\ PutIsRight(r)
                /\ r.step = "announced" /\ r.op = put[b][i].op
                /\ r.of = put[b][i].of /\ r.goal = put[b][i].goal
          <5>1. Used(b, i) /\ put[b][i].step = "loaded"
            BY <2>3
          <5> QED BY <2>1, <4>1, <5>1, StepPut
        <4> QED BY <3>2, <4>2
      <3> QED BY <3>1, <3>2
    <2> QED BY <2>4 DEF q
  <1>6. /\ ReplayBase' /\ put'[b][i] = r
        /\ \A c \in Browsers, j \in Slots :
             /\ c # b \/ j # i => put'[c][j] = put[c][j]
             /\ Used(c, j)' <=> Used(c, j)
        /\ \A d \in Browsers : Only(d)' => Only(b) /\ d = b
    <2>1. \A c \in Browsers : \A x \in 1 .. Len(inbox'[c]) : OfReplay(inbox'[c][x])
      BY <1>0, <1>3, <1>4, TellingTold
    <2>2. /\ row' \in [Replays -> Points] /\ refusals' \in Nat
          /\ Straying' /\ strayed' = strayed
          /\ player' = player /\ late' = late /\ page' = page
          /\ r.step # "none" /\ r.of = put[b][i].of /\ Used(b, i)
      BY <1>0, <1>1, <1>2, <1>4, <1>5 DEF ReplayBase, ReplayTyped, Straying
    <2>3. /\ \A s \in Replays : row[s] # NoReplay => row'[s] # NoReplay
          /\ \A s \in Replays : row'[s] = row[s] \/ IsFrameOf(row'[s].frame, s)
      BY <1>1
    <2> QED BY <1>0, <1>5, <2>1, <2>2, <2>3, ServerKeeps
  <1>7. ASSUME NEW d \in Browsers, Only(d)'
        PROVE  Follows(d)' /\ (Careful /\ refusals' = 0 => Cares(d)')
    <2> DEFINE p == player[b]
               s == p.session
               at == row[s]
    <2>1. Only(b) /\ d = b /\ q.of = s /\ Frames[s] \in Nat
      BY <1>0, <1>2, <1>6, <1>7, OnlyIs
    <2>2. PICK m \in 0 .. Frames[s] - 1 : Announced(b, m) /\ Drawn(b, m) /\ Gapless(b, m)
      BY <1>0, <2>1 DEF Following, Follows
    <2>3. late = {} /\ \A j \in Slots : Locking(b, j) => j = i
      BY <1>0, <1>1, <1>2, <2>1, <2>2, LockIs
    <2>4. /\ AsksAt(b, i, m) /\ ~p.next
          /\ k = m \/ (k = m + 1 /\ (at.over \/ at.frame = m))
          /\ \A j \in Slots : put[b][j].op = "next" /\ Used(b, j) => j = i
      <3>1. AsksAt(b, i, m)
        BY <2>2 DEF Announced
      <3> QED BY <1>1, <1>2, <1>k, <3>1 DEF AsksAt
    <2>5. k \in 0 .. Frames[s] - 1 /\ k \in Nat /\ m \in Nat /\ k \in {m, m + 1}
      BY <1>2, <2>1, <2>4 DEF IsFrameOf
    <2>6. StandsAt(b, k)' /\ LateAt(k)'
      <3>1. StandsAt(b, m)
        BY <2>2 DEF Announced
      <3> QED BY <1>1, <2>3, <2>4, <2>5, <3>1 DEF StandsAt, LateAt
    <2>7. \A j \in Slots : Locking(b, j)' => j = i
      BY <1>6, <2>3 DEF Locking
    <2>8. \A j \in Slots : put'[b][j].op = put[b][j].op
      BY <1>5, <1>6
    <2>9. ASSUME NEW j \in Slots PROVE AsksAt(b, j, k)'
      <3>1. CASE j = i
        <4>1. r.op = "next" /\ r.step # "loaded" /\ r.goal.frame = k
          BY <1>1, <1>5, <1>k, <1>s
        <4> QED BY <1>1, <1>6, <2>3, <2>4, <2>7, <2>8, <3>1, <4>1 DEF AsksAt
      <3>2. CASE j # i
        <4>1. put'[b][j] = put[b][j] /\ ~Locking(b, j)'
          BY <1>6, <2>7, <3>2
        <4>2. AsksAt(b, j, m)
          BY <2>2 DEF Announced
        <4>3. ~(put[b][j].op = "next" /\ Used(b, j))
          BY <2>4, <3>2
        <4> QED BY <1>1, <1>6, <4>1, <4>2, <4>3 DEF AsksAt, Used
      <3> QED BY <3>1, <3>2
    <2>10. Drawn(b, k)' /\ Gapless(b, k)'
      <3>1. ReplayTyped /\ losses' \in Nat
        BY <1>0, <1>4 DEF ReplayBase, SocketTyped
      <3> QED BY <1>1, <1>3, <1>4, <2>2, <2>5, <3>1, DrawnTold
    <2>11. Follows(b)'
      BY <1>1, <2>5, <2>6, <2>9, <2>10 DEF Follows, Announced
    <2>12. ASSUME Careful, refusals' = 0 PROVE Cares(b)'
      <3>1. OneOpen(b) /\ ShowsAhead(b) /\ ButtonsAre(b) /\ WaitEnds(b)
        BY <1>0, <1>1, <2>1, <2>12 DEF Caring, Cares
      <3>2. /\ \A j \in Slots : Used(b, j) => j = i
            /\ ~p.shown.over /\ p.shown = row[s]
        BY <1>1, <1>2, <2>3, <3>1 DEF OneOpen
      <3>3. OneOpen(b)'
        BY <1>1, <1>5, <1>6, <1>s, <2>3, <3>2 DEF OneOpen
      <3>4. ShowsAhead(b)'
        BY <1>1, <1>2, <1>6, <2>3 DEF ShowsAhead
      <3>5. ~Ending(b) /\ ~Ending(b)'
        BY <1>1, <1>5, <1>6, <1>s, <3>2 DEF Ending, Used
      <3>6. Completing(b)' => Completing(b)
        BY <1>3, <1>4, FramesTold
      <3>7. ButtonsAre(b)'
        BY <1>1, <1>6, <2>8, <3>1, <3>5, <3>6 DEF ButtonsAre
      <3>8. WaitEnds(b)'
        BY <1>1, <1>6, <2>8, <3>1 DEF WaitEnds
      <3> QED BY <3>3, <3>4, <3>7, <3>8 DEF Cares
    <2> QED BY <2>1, <2>11, <2>12
  <1>8. Following' /\ Caring'
    BY <1>7 DEF Following, Caring
  <1> QED BY <1>4, <1>6, <1>8, BaseOf DEF ReplayInv, ReplayBase

-----------------------------------------------------------------------------
(* A new session.                                                          *)

LEMMA CreateReplayKeeps ==
  ASSUME SocketTyped, ReplayInv, NEW b \in Browsers, NEW s \in Replays, CreateReplay(b, s)
  PROVE  SocketTyped' /\ ReplayInv'
  <1>0. ReplayBase /\ Following /\ Caring
    BY BaseOf
  <1> DEFINE p == player[b]
             start == [frame |-> 0, over |-> FALSE]
             n == [p EXCEPT !.session = s, !.shown = start, !.candles = <<>>,
                            !.next = TRUE, !.finish = TRUE]
  <1>1. /\ page = "replay" /\ row[s] = NoReplay
        /\ row' = [row EXCEPT ![s] = start]
        /\ put' = put /\ late' = late /\ refusals' = refusals
        /\ gone' = gone /\ strayed' = strayed
        /\ page' = page /\ link' = link /\ inbox' = inbox /\ losses' = losses
    BY DEF CreateReplay, serverVars, strayVars, socketVars
  <1>2. /\ row \in [Replays -> Points] /\ row' \in [Replays -> Points]
        /\ row'[s] = start /\ \A r \in Replays \ {s} : row'[r] = row[r]
    BY <1>0, <1>1 DEF ReplayBase, ReplayTyped, Points
  <1>3. player' = [player EXCEPT ![b] = n]
    BY <1>2 DEF CreateReplay
  <1>4. p \in Players
    BY <1>0, PlayerIs DEF ReplayBase
  <1>5. <<>> \in Seq(Replays \X Nat) /\ Len(<<>>) = 0 /\ s # NONE
    BY EmptySeq, PlayerAssumption
  <1>6. n \in Players
    <2>1. start \in [frame : Int, over : BOOLEAN]
      OBVIOUS
    <2> HIDE DEF start
    <2> QED BY <1>4, <1>5, <2>1 DEF Players
  <1>7. /\ n.session = s /\ n.shown = start /\ n.candles = <<>> /\ n.next /\ n.finish
        /\ n.awaiting = p.awaiting /\ n.timers = p.timers /\ n.area = p.area
    BY <1>4 DEF Players
  <1> HIDE DEF n
  <1>8. /\ player' \in [Browsers -> Players] /\ player'[b] = n
        /\ \A c \in Browsers \ {b} : player'[c] = player[c]
    BY <1>0, <1>3, <1>6, PlayerSet DEF ReplayBase
  <1>9. start.frame = 0 /\ ~start.over /\ start # NoReplay
    BY DEF NoReplay
  <1> HIDE DEF start
  <1>10. \A r \in Replays : row[r] # NoReplay => row'[r] = row[r] /\ r # s
    BY <1>1, <1>2
  <1>11. SocketTyped'
    BY <1>1 DEF SocketTyped
  <1>12. ReplayBase'
    <2>1. ReplayTyped'
      BY <1>0, <1>1, <1>2, <1>8 DEF ReplayBase, ReplayTyped, Straying
    <2>2. IsFrameOf(0, s)
      BY PlayerAssumption DEF IsFrameOf
    <2>3. Standing'
      <3>1. \A r \in Replays : row'[r] = NoReplay \/ IsFrameOf(row'[r].frame, r)
        BY <1>0, <1>2, <1>9, <2>2 DEF ReplayBase, Standing
      <3>2. ASSUME NEW l \in late PROVE row'[l.of] # NoReplay /\ IsFrameOf(l.goal.frame, l.of)
        <4>1. l.of \in Replays /\ row[l.of] # NoReplay /\ IsFrameOf(l.goal.frame, l.of)
          BY <1>0 DEF ReplayBase, ReplayTyped, Standing
        <4> QED BY <1>10, <4>1
      <3> QED BY <1>1, <3>1, <3>2 DEF Standing, IsFrameOf
    <2>4. Asking'
      BY <1>0, <1>1 DEF ReplayBase, Asking
    <2>5. Knowing'
      <3>1. ASSUME NEW c \in Browsers, NEW r \in Replays, Knows(c, r)'
            PROVE  (c = b /\ r = s) \/ (Knows(c, r) /\ r # s /\ row'[r] # NoReplay)
        <4>1. (c = b /\ r = s) \/ Knows(c, r)
          BY <1>1, <1>7, <1>8, <3>1 DEF Knows, Used
        <4>2. Knows(c, r) => row[r] # NoReplay
          BY <1>0 DEF ReplayBase, Knowing
        <4> QED BY <1>10, <4>1, <4>2
      <3>2. \A c \in Browsers, r \in Replays : Knows(c, r)' => row'[r] # NoReplay
        BY <1>2, <1>9, <3>1
      <3>3. ASSUME NEW c \in Browsers, NEW d \in Browsers, NEW r \in Replays,
                   Knows(c, r)', Knows(d, r)'
            PROVE  c = d
        BY <1>0, <3>1, <3>3 DEF ReplayBase, Knowing
      <3> QED BY <3>2, <3>3 DEF Knowing
    <2>6. Unopened'
      BY <1>0, <1>1, <1>5, <1>7, <1>8 DEF ReplayBase, Unopened, Used
    <2>7. Telling'
      <3>1. ASSUME NEW c \in Browsers, NEW k \in 1 .. Len(inbox[c])
            PROVE  OfReplay(inbox[c][k])
        BY <1>0, <1>1 DEF ReplayBase, Telling
      <3>2. ASSUME NEW c \in Browsers, NEW k \in 1 .. Len(inbox[c])
            PROVE  OfReplay(inbox[c][k])'
        BY <1>1, <1>10, <3>1 DEF OfReplay
      <3> QED BY <1>1, <3>2 DEF Telling
    <2> QED BY <2>1, <2>3, <2>4, <2>5, <2>6, <2>7 DEF ReplayBase
  <1>13. ASSUME NEW d \in Browsers, Only(d)'
         PROVE  Follows(d)' /\ (Careful /\ refusals' = 0 => Cares(d)')
    <2>1. d = b
      <3>1. row'[s] # NoReplay /\ player'[d].session # NONE
        BY <1>2, <1>9, <1>13 DEF Only
      <3>2. player'[d].session = s
        BY <1>13, <3>1 DEF Only
      <3>3. ~Knows(d, s)
        BY <1>0, <1>1 DEF ReplayBase, Knowing
      <3> QED BY <1>8, <3>2, <3>3 DEF Knows
    <2>2. \A r \in Replays : row[r] = NoReplay
      <3>1. \A r \in Replays : row'[r] # NoReplay => r = s
        BY <1>7, <1>8, <1>13, <2>1 DEF Only
      <3> QED BY <1>10, <3>1
    <2>3. \A c \in Browsers, r \in Replays : ~Knows(c, r)
      BY <1>0, <2>2 DEF ReplayBase, Knowing
    <2>4. p.session = NONE
      <3>1. p.session \in Replays \cup {NONE}
        BY <1>4 DEF Players
      <3> QED BY <2>3, <3>1 DEF Knows
    <2>5. ~p.awaiting /\ p.area # "spinner" /\ \A i \in Slots : ~Used(b, i)
      BY <1>0, <2>4 DEF ReplayBase, Unopened
    <2>6. late = {}
      BY <1>0, <2>2 DEF ReplayBase, ReplayTyped, Standing
    <2>7. \A i \in 1 .. Len(inbox[b]) : FALSE
      BY <1>0, <1>1, <2>2 DEF ReplayBase, Telling, OfReplay
    <2>8. \A i \in Slots : ~Used(b, i)' /\ ~Locking(b, i)'
          /\ put'[b][i].step = "none"
      BY <1>1, <2>5 DEF Used, Locking
    <2>9. FramesOnTheWay(b)' = {} /\ ~Completing(b)'
      BY <1>1, <2>7 DEF FramesOnTheWay, Completing
    <2>10. 0 \in 0 .. Frames[s] - 1
      BY PlayerAssumption
    <2>11. Announced(b, 0)'
      <3>1. StandsAt(b, 0)' /\ LateAt(0)'
        BY <1>1, <1>2, <1>7, <1>8, <1>9, <2>6 DEF StandsAt, LateAt
      <3>2. \A i \in Slots : AsksAt(b, i, 0)'
        BY <2>8 DEF AsksAt
      <3> QED BY <3>1, <3>2 DEF Announced
    <2>12. Drawn(b, 0)' /\ Gapless(b, 0)'
      BY <1>5, <1>7, <1>8, <2>9 DEF Drawn, Gapless
    <2>13. Follows(b)'
      BY <1>7, <1>8, <2>10, <2>11, <2>12 DEF Follows
    <2>14. Cares(b)'
      <3>1. OneOpen(b)'
        BY <2>8 DEF OneOpen
      <3>2. ShowsAhead(b)'
        BY <1>1, <1>2, <1>7, <1>8, <2>6 DEF ShowsAhead
      <3>3. ButtonsAre(b)'
        BY <1>7, <1>8, <1>9, <2>8, <2>9 DEF ButtonsAre
      <3>4. WaitEnds(b)'
        BY <1>7, <1>8, <2>5 DEF WaitEnds
      <3> QED BY <3>1, <3>2, <3>3, <3>4 DEF Cares
    <2> QED BY <2>1, <2>13, <2>14
  <1>14. Following' /\ Caring'
    BY <1>13 DEF Following, Caring
  <1> QED BY <1>11, <1>12, <1>14, BaseOf DEF ReplayInv, ReplayBase

-----------------------------------------------------------------------------
(* The replay page's part of the whole.                                    *)

LEMMA ReplayStep ==
  ASSUME SocketTyped, ReplayInv, page = "replay", ReplayNext
  PROVE  SocketTyped' /\ ReplayInv'
  <1>1. ASSUME NEW b \in Browsers,
               PressNext(b) \/ PressFinish(b) \/ FallbackTimer(b) \/ HearReplay(b)
        PROVE  SocketTyped' /\ ReplayInv'
    BY <1>1, PressNextKeeps, PressFinishKeeps, FallbackTimerKeeps, HearReplayKeeps
  <1>2. ASSUME NEW b \in Browsers, NEW s \in Replays, CreateReplay(b, s)
        PROVE  SocketTyped' /\ ReplayInv'
    BY <1>2, CreateReplayKeeps
  <1>3. ASSUME NEW b \in Browsers, NEW i \in Slots,
               ReplayAnswer(b, i) \/ AnswerUnheard(b, i) \/ BreakOff(b, i)
        PROVE  SocketTyped' /\ ReplayInv'
    BY <1>3, ReplayAnswerKeeps, AnswerUnheardKeeps, BreakOffKeeps
  <1>4. ASSUME NEW b \in Browsers, NEW i \in Slots,
               LoadReplay(b, i) \/ AnnounceFrame(b, i) \/ AnnounceOver(b, i)
                 \/ CommitReplay(b, i) \/ Refuse(b, i)
        PROVE  SocketTyped' /\ ReplayInv'
    BY <1>4, LoadReplayKeeps, AnnounceFrameKeeps, AnnounceOverKeeps, CommitReplayKeeps,
       RefuseKeeps
  <1>5. ASSUME NEW l \in late, CommitLate(l) \/ RefuseLate(l)
        PROVE  SocketTyped' /\ ReplayInv'
    BY <1>5, CommitLateKeeps, RefuseLateKeeps
  <1> QED BY <1>1, <1>2, <1>3, <1>4, <1>5 DEF ReplayNext

\* What the viewer sees of it.
LEMMA ReplayIsSeen ==
  ASSUME SocketTyped, ReplayInv, Unvisited
  PROVE  ReplayIsFollowed
  <1>0. ReplayBase /\ Following /\ Caring
    BY BaseOf
  <1> SUFFICES
        ASSUME NEW b \in Browsers, player[b].session # NONE,
               \A s \in Replays : row[s] # NoReplay => s = player[b].session
        PROVE  LET p == player[b] IN
                 /\ ~strayed => \A i \in 2 .. Len(p.candles) :
                      /\ p.candles[i][2] > p.candles[i - 1][2]
                      /\ losses = 0 => p.candles[i][2] = p.candles[i - 1][2] + 1
                 /\ Careful /\ AtRest(b) /\ refusals = 0 =>
                      /\ p.shown = row[p.session]
                      /\ p.next = ~p.shown.over /\ p.finish = ~p.shown.over
                      /\ p.area = "spinner" => p.shown.over
    BY DEF ReplayIsFollowed
  <1> DEFINE p == player[b]
  <1>1. ~strayed => Only(b)
    BY DEF Only, Unvisited
  <1>2. refusals = 0 => ~strayed
    BY <1>0 DEF ReplayBase, ReplayTyped, Straying
  <1>3. ASSUME ~strayed, NEW i \in 2 .. Len(p.candles)
        PROVE  /\ p.candles[i][2] > p.candles[i - 1][2]
               /\ losses = 0 => p.candles[i][2] = p.candles[i - 1][2] + 1
    <2>1. PICK m \in 0 .. Frames[p.session] - 1 : Drawn(b, m) /\ Gapless(b, m)
      BY <1>0, <1>1, <1>3 DEF Following, Follows
    <2>2. i \in 1 .. Len(p.candles) /\ i # 1
      OBVIOUS
    <2>3. p.candles[i][2] > p.candles[i - 1][2]
      BY <2>1, <2>2 DEF Drawn
    <2>4. losses = 0 => p.candles[i][2] = p.candles[i - 1][2] + 1
      BY <2>1 DEF Gapless
    <2> QED BY <2>3, <2>4
  <1>4. ASSUME Careful, AtRest(b), refusals = 0
        PROVE  /\ p.shown = row[p.session]
               /\ p.next = ~p.shown.over /\ p.finish = ~p.shown.over
               /\ p.area = "spinner" => p.shown.over
    <2>1. ShowsAhead(b) /\ ButtonsAre(b) /\ WaitEnds(b)
      BY <1>0, <1>1, <1>2, <1>4 DEF Caring, Cares
    <2>2. (\A i \in Slots : ~Used(b, i)) /\ late = {} /\ p.timers = 0
      BY <1>4 DEF AtRest, Used, NoPut
    <2>3. ~Ending(b)
      BY <2>2 DEF Ending, Used
    <2>4. p.shown = row[p.session]
      BY <2>1, <2>2 DEF ShowsAhead
    <2>5. (p.next <=> ~p.shown.over) /\ (p.finish <=> ~p.shown.over)
      BY <2>1, <2>2, <2>3 DEF ButtonsAre
    <2>6. p.next \in BOOLEAN /\ p.finish \in BOOLEAN
      BY <1>0, PlayerIs DEF ReplayBase, Players
    <2>7. p.next = ~p.shown.over /\ p.finish = ~p.shown.over
      BY <2>5, <2>6
    <2>8. p.area = "spinner" => p.shown.over
      BY <2>1, <2>2 DEF WaitEnds
    <2> QED BY <2>4, <2>7, <2>8
  <1> QED BY <1>3, <1>4

\* On the other pages nothing of this changes.
LEMMA ReplayElsewhere ==
  ASSUME ReplayInv, page' = page, page # "replay", UNCHANGED replayVars
  PROVE  ReplayInv'
  <1>0. row' = row /\ put' = put /\ late' = late /\ refusals' = refusals /\ player' = player
        /\ gone' = gone /\ strayed' = strayed
    BY DEF replayVars, serverVars, strayVars
  <1>1. ReplayTyped' /\ Asking' /\ Standing' /\ Unopened'
    BY <1>0 DEF ReplayInv, ReplayTyped, Straying, Asking, Standing, Unopened, Used
  <1>2. Knowing'
    BY <1>0 DEF ReplayInv, Knowing, Knows, Used
  <1>3. Telling' /\ Following' /\ Caring'
    BY DEF Telling, Following, Caring, Only
  <1> QED BY <1>1, <1>2, <1>3 DEF ReplayInv

\* Nor where messages are gone, for then one is lost and nobody counts them.
LEMMA ReplayRests ==
  ASSUME ReplayInv, page' = page, UNCHANGED replayVars,
         \A c \in Browsers : inbox'[c] = inbox[c] \/ Len(inbox'[c]) = 0,
         losses' = 0 => losses = 0 /\ inbox' = inbox,
         losses' = 0 => \A c \in Browsers : link[c] = "subscribed" => link'[c] = "subscribed"
  PROVE  ReplayInv'
  <1>0. ReplayBase /\ Following /\ Caring
    BY BaseOf
  <1>1. row' = row /\ put' = put /\ late' = late /\ refusals' = refusals /\ player' = player
        /\ gone' = gone /\ strayed' = strayed
    BY DEF replayVars, serverVars, strayVars
  <1>4. ReplayBase'
    <2>1. ReplayTyped' /\ Asking' /\ Standing' /\ Unopened'
      BY <1>0, <1>1 DEF ReplayBase, ReplayTyped, Straying, Asking, Standing, Unopened, Used
    <2>2. Knowing'
      BY <1>0, <1>1 DEF ReplayBase, Knowing, Knows, Used
    <2>3. ASSUME page = "replay", NEW c \in Browsers, NEW k \in 1 .. Len(inbox'[c])
          PROVE  OfReplay(inbox'[c][k])
      <3>1. inbox'[c] = inbox[c]
        BY <2>3
      <3> QED BY <1>0, <2>3, <3>1 DEF ReplayBase, Telling
    <2>4. Telling'
      BY <1>1, <2>3 DEF Telling, OfReplay
    <2> QED BY <2>1, <2>2, <2>4 DEF ReplayBase
  <1>5. ASSUME NEW d \in Browsers, Only(d)'
        PROVE  Follows(d)' /\ (Careful /\ refusals' = 0 => Cares(d)')
    <2>1. Only(d)
      BY <1>1, <1>5 DEF Only
    <2>2. PICK m \in 0 .. Frames[player[d].session] - 1 :
            Announced(d, m) /\ Drawn(d, m) /\ Gapless(d, m)
      BY <1>0, <2>1 DEF Following, Follows
    <2>3. Announced(d, m)'
      BY <1>1, <2>2, AsksStill
    <2>4. LastDrawn(d)' = LastDrawn(d)
      BY <1>1 DEF LastDrawn
    <2>5. Drawn(d, m)'
      <3>1. CASE inbox'[d] = inbox[d]
        <4>1. FramesOnTheWay(d)' = FramesOnTheWay(d)
          BY <3>1 DEF FramesOnTheWay
        <4> QED BY <1>1, <2>2, <2>4, <3>1, <4>1 DEF Drawn
      <3>2. CASE Len(inbox'[d]) = 0
        <4>1. FramesOnTheWay(d)' = {}
          BY <3>2 DEF FramesOnTheWay
        <4> QED BY <1>1, <2>2, <2>4, <4>1 DEF Drawn
      <3> QED BY <3>1, <3>2
    <2>6. Gapless(d, m)'
      <3>1. ASSUME losses' = 0
            PROVE  /\ losses = 0 /\ inbox' = inbox
                   /\ link[d] = "subscribed" => link'[d] = "subscribed"
        BY <3>1
      <3>2. ASSUME losses' = 0
            PROVE  /\ FramesOnTheWay(d)' = FramesOnTheWay(d)
                   /\ \A n : Comes(d, n)' <=> Comes(d, n)
        BY <3>1, <3>2 DEF FramesOnTheWay, Comes
      <3> QED BY <1>1, <2>2, <2>4, <3>1, <3>2 DEF Gapless
    <2>7. Follows(d)'
      BY <1>1, <2>2, <2>3, <2>5, <2>6 DEF Follows
    <2>8. ASSUME Careful, refusals' = 0 PROVE Cares(d)'
      <3>1. Cares(d)
        BY <1>0, <1>1, <2>1, <2>8 DEF Caring
      <3>2. CASE inbox'[d] = inbox[d]
        BY <1>1, <3>1, <3>2, CaresStill
      <3>3. CASE Len(inbox'[d]) = 0
        <4>1. ~Completing(d)'
          BY <3>3 DEF Completing
        <4>2. OneOpen(d)' /\ ShowsAhead(d)' /\ WaitEnds(d)'
          BY <1>1, <3>1 DEF Cares, OneOpen, ShowsAhead, WaitEnds, Used
        <4>3. ButtonsAre(d)'
          BY <1>1, <3>1, <4>1 DEF Cares, ButtonsAre, Ending, Used
        <4> QED BY <4>2, <4>3 DEF Cares
      <3> QED BY <3>2, <3>3
    <2> QED BY <2>7, <2>8
  <1>6. Following' /\ Caring'
    BY <1>5 DEF Following, Caring
  <1> QED BY <1>4, <1>6, BaseOf DEF ReplayInv, ReplayBase

LEMMA ReplayLinked ==
  ASSUME SocketTyped, ReplayInv, NEW b \in Browsers, Open(b) \/ Subscribe(b) \/ Lose(b),
         UNCHANGED replayVars
  PROVE  ReplayInv'
  <1>1. losses' = 0 => losses' # losses + 1
    BY DEF SocketTyped
  <1> QED BY <1>1, LinkIs, LinkShortens, ReplayRests

LEMMA ReplayStarts ==
  ASSUME Init
  PROVE  ReplayInv /\ Unvisited
  <1> DEFINE start == [session |-> NONE, shown |-> NoReplay, next |-> FALSE, finish |-> FALSE,
                       awaiting |-> FALSE, timers |-> 0, area |-> "empty", candles |-> <<>>]
  <1>1. /\ row = [s \in Replays |-> NoReplay]
        /\ put = [b \in Browsers |-> [i \in Slots |-> NoPut]]
        /\ late = {} /\ refusals = 0 /\ gone = {} /\ strayed = FALSE
        /\ player = [b \in Browsers |-> start]
        /\ inbox = [b \in Browsers |-> <<>>]
    BY DEF Init, ReplayInit, SocketInit
  <1>2. NoReplay \in Points /\ NoPut \in Puts /\ NoPut.step = "none"
    BY DEF NoReplay, NoPut, Points, Puts
  <1>3. start \in Players
    <2>1. NoReplay \in [frame : Int, over : BOOLEAN]
      BY <1>2 DEF Points
    <2>2. <<>> \in Seq(Replays \X Nat)
      BY EmptySeq
    <2> QED BY <2>1, <2>2 DEF Players
  <1>4. /\ start.session = NONE /\ ~start.next /\ ~start.finish /\ ~start.awaiting
        /\ start.timers = 0 /\ start.area # "spinner"
    OBVIOUS
  <1> HIDE DEF start
  <1>5. ReplayTyped
    BY <1>1, <1>2, <1>3 DEF ReplayTyped, Straying
  <1>6. \A b \in Browsers, i \in Slots : ~Used(b, i) /\ put[b][i] = NoPut
    BY <1>1, <1>2 DEF Used
  <1>7. Asking
    BY <1>2, <1>6 DEF Asking, PutIsRight
  <1>8. Standing
    BY <1>1 DEF Standing
  <1>9. \A b \in Browsers : player[b].session = NONE
    BY <1>1, <1>4
  <1>10. \A b \in Browsers, s \in Replays : ~Knows(b, s)
    BY <1>6, <1>9, PlayerAssumption DEF Knows
  <1>11. Knowing
    BY <1>10 DEF Knowing
  <1>12. Unopened
    BY <1>1, <1>4, <1>6 DEF Unopened
  <1>13. Telling
    BY <1>1 DEF Telling
  <1>14. Following /\ Caring /\ Unvisited
    BY <1>9 DEF Following, Caring, Only, Unvisited
  <1> QED BY <1>5, <1>7, <1>8, <1>11, <1>12, <1>13, <1>14 DEF ReplayInv

-----------------------------------------------------------------------------
(* The dashboard as a whole.                                               *)

LEMMA AnnounceStays ==
  ASSUME NEW e, Announce(e)
  PROVE  page' = page
  BY DEF Announce, Deliver, Drop

\* Nobody leaves the page he looks at.
LEMMA PageStays ==
  ASSUME Next
  PROVE  page' = page
  <1>1. ASSUME NEW b \in Browsers, Open(b) \/ Subscribe(b) \/ Lose(b) PROVE page' = page
    BY <1>1 DEF Open, Subscribe, Lose
  <1>2. ASSUME ChatNext PROVE page' = page
    BY <1>2, AnnounceStays
    DEF ChatNext, Ask, Accept, Accepted, FallBack, FallbackEnds, Emit, Stop, End, Hear, Take,
        socketVars
  <1>3. ASSUME PagesNext PROVE page' = page
    BY <1>3, AnnounceStays
    DEF PagesNext, AnnounceChange, EndChange, RunAnalysis, AnnounceAnalysis, EndAnalysis,
        Rendered, Notice, Poll, Serve, Show, Take, socketVars
  <1>4. ASSUME FeedNext PROVE page' = page
    BY <1>4, AnnounceStays
    DEF FeedNext, Post, Store, AnnounceTick, FailTick, ShowTick, Take, socketVars
  <1>5. ASSUME DeskNext PROVE page' = page
    BY <1>5 DEF DeskNext, Move, AskQuotes, Select, Read, Arrive, FailSilently, socketVars
  <1>6. ASSUME BriefingNext PROVE page' = page
    BY <1>6 DEF BriefingNext, AskBriefing, Generate, ShowBriefing, RefuseBriefing, socketVars
  <1>7. ASSUME ReplayNext PROVE page' = page
    <2>1. ASSUME NEW b \in Browsers, PressNext(b) \/ PressFinish(b) \/ FallbackTimer(b)
                                       \/ HearReplay(b)
          PROVE  page' = page
      BY <2>1 DEF PressNext, PressFinish, FallbackTimer, HearReplay, Take, socketVars
    <2>2. ASSUME NEW b \in Browsers, NEW s \in Replays, CreateReplay(b, s) PROVE page' = page
      BY <2>2 DEF CreateReplay, socketVars
    <2>3. ASSUME NEW b \in Browsers, NEW i \in Slots,
                 \/ ReplayAnswer(b, i) \/ AnswerUnheard(b, i) \/ BreakOff(b, i)
                 \/ LoadReplay(b, i) \/ CommitReplay(b, i) \/ Refuse(b, i)
          PROVE  page' = page
      BY <2>3
      DEF ReplayAnswer, AnswerUnheard, BreakOff, LoadReplay, CommitReplay, Refuse, socketVars
    <2>4. ASSUME NEW b \in Browsers, NEW i \in Slots, AnnounceFrame(b, i) \/ AnnounceOver(b, i)
          PROVE  page' = page
      BY <2>4, AnnounceStays DEF AnnounceFrame, AnnounceOver
    <2>5. ASSUME NEW l, CommitLate(l) \/ RefuseLate(l) PROVE page' = page
      BY <2>5 DEF CommitLate, RefuseLate, socketVars
    <2> QED BY <1>7, <2>1, <2>2, <2>3, <2>4, <2>5 DEF ReplayNext
  <1> QED BY <1>1, <1>2, <1>3, <1>4, <1>5, <1>6, <1>7 DEF Next

LEMMA InitIInv == Init => IInv
  <1> SUFFICES ASSUME Init PROVE IInv
    OBVIOUS
  <1>1. SocketTyped
    <2>1. <<>> \in Seq(Message)
      BY EmptySeq
    <2> QED BY <2>1 DEF Init, SocketInit, SocketTyped
  <1> QED BY <1>1, ChatStarts, PagesStart, MarketStarts, ReplayStarts DEF IInv

\* The socket opens, subscribes or is lost.
LEMMA LinkKeeps ==
  ASSUME IInv, NEW b \in Browsers, Open(b) \/ Subscribe(b) \/ Lose(b),
         UNCHANGED <<chatVars, pageVars, marketVars, replayVars>>
  PROVE  IInv'
  <1>1. /\ SocketTyped' /\ page' = page
        /\ \A c \in Browsers : inbox'[c] = inbox[c] \/ Len(inbox'[c]) = 0
    BY LinkIs, LinkShortens DEF IInv
  <1>2. /\ UNCHANGED chatVars /\ UNCHANGED pageVars
        /\ UNCHANGED marketVars /\ UNCHANGED replayVars
    OBVIOUS
  <1>3. ChatInv'
    BY <1>2, ChatLinked DEF IInv
  <1>4. PagesInv'
    BY <1>1, <1>2, PagesElsewhere DEF IInv
  <1>5. MarketInv'
    BY <1>1, <1>2, MarketElsewhere DEF IInv
  <1>6. ReplayInv'
    BY <1>2, ReplayLinked DEF IInv
  <1>7. Unvisited'
    BY <1>1, <1>2 DEF IInv, Unvisited, replayVars
  <1> QED BY <1>1, <1>3, <1>4, <1>5, <1>6, <1>7 DEF IInv

\* What a step on one page leaves alone keeps its part of the invariant.
LEMMA OthersKeep ==
  ASSUME IInv, SocketTyped', page' = page
  PROVE  /\ page # "chat" /\ UNCHANGED chatVars => ChatInv'
         /\ page \notin {"trades", "analysis"} /\ UNCHANGED pageVars => PagesInv'
         /\ page # "market" /\ UNCHANGED marketVars => MarketInv'
         /\ page # "replay" /\ UNCHANGED replayVars => ReplayInv'
         /\ UNCHANGED replayVars => Unvisited'
  <1>1. page # "chat" /\ UNCHANGED chatVars => ChatInv'
    BY ChatElsewhere DEF IInv
  <1>2. page \notin {"trades", "analysis"} /\ UNCHANGED pageVars => PagesInv'
    BY PagesElsewhere DEF IInv
  <1>3. page # "market" /\ UNCHANGED marketVars => MarketInv'
    BY MarketElsewhere DEF IInv
  <1>4. page # "replay" /\ UNCHANGED replayVars => ReplayInv'
    BY ReplayElsewhere DEF IInv
  <1>5. UNCHANGED replayVars => Unvisited'
    BY DEF IInv, Unvisited, replayVars
  <1> QED BY <1>1, <1>2, <1>3, <1>4, <1>5

LEMMA StepIInv == IInv /\ [Next]_vars => IInv'
  <1> SUFFICES ASSUME IInv, [Next]_vars PROVE IInv'
    OBVIOUS
  <1>0. SocketTyped /\ ChatInv /\ PagesInv /\ MarketInv /\ ReplayInv
    BY DEF IInv
  <1>1. ASSUME NEW b \in Browsers, Open(b) \/ Subscribe(b) \/ Lose(b),
               UNCHANGED <<chatVars, pageVars, marketVars, replayVars>>
        PROVE  IInv'
    BY <1>1, LinkKeeps
  <1>2. ASSUME Next, page = "chat", ChatNext, UNCHANGED <<pageVars, marketVars, replayVars>>
        PROVE  IInv'
    <2>1. SocketTyped' /\ ChatInv' /\ page' = page
      BY <1>0, <1>2, ChatStep, PageStays
    <2> QED BY <1>2, <2>1, OthersKeep DEF IInv
  <1>3. ASSUME Next, page \in {"trades", "analysis"}, PagesNext,
               UNCHANGED <<chatVars, marketVars, replayVars>>
        PROVE  IInv'
    <2>1. SocketTyped' /\ PagesInv' /\ page' = page
      BY <1>0, <1>3, PagesStep, PageStays
    <2> QED BY <1>3, <2>1, OthersKeep DEF IInv
  <1>4. ASSUME Next, page \in {"market", "trends", "briefing"},
               \/ FeedNext /\ UNCHANGED <<deskVars, briefingVars>>
               \/ DeskNext /\ UNCHANGED briefingVars
               \/ BriefingNext,
               UNCHANGED <<chatVars, pageVars, replayVars>>
        PROVE  IInv'
    <2>1. SocketTyped' /\ MarketInv' /\ page' = page
      BY <1>0, <1>4, FeedStep, DeskStep, BriefingStep, PageStays
    <2> QED BY <1>4, <2>1, OthersKeep DEF IInv
  <1>5. ASSUME Next, page = "replay", ReplayNext, UNCHANGED <<chatVars, pageVars, marketVars>>
        PROVE  IInv'
    <2>1. SocketTyped' /\ ReplayInv' /\ page' = page
      BY <1>0, <1>5, ReplayStep, PageStays
    <2>2. Unvisited'
      BY <1>5, <2>1 DEF Unvisited
    <2> QED BY <1>5, <2>1, <2>2, OthersKeep DEF IInv
  <1>6. ASSUME UNCHANGED vars PROVE IInv'
    <2>1. page' = page /\ link' = link /\ inbox' = inbox /\ losses' = losses
      BY <1>6 DEF vars, socketVars
    <2>2. UNCHANGED chatVars /\ UNCHANGED pageVars /\ UNCHANGED marketVars /\ UNCHANGED replayVars
      BY <1>6 DEF vars
    <2>3. SocketTyped'
      BY <1>0, <2>1 DEF SocketTyped
    <2>4. PagesInv' /\ MarketInv'
      BY <1>0, <2>1, <2>2, <2>3, PagesElsewhere, MarketElsewhere
    <2>5. ChatInv'
      BY <1>0, <2>1, <2>2, ChatRests
    <2>6. ReplayInv'
      BY <1>0, <2>1, <2>2, ReplayRests
    <2>7. Unvisited'
      BY <2>1, <2>2 DEF IInv, Unvisited, replayVars
    <2> QED BY <2>3, <2>4, <2>5, <2>6, <2>7 DEF IInv
  <1> QED BY <1>1, <1>2, <1>3, <1>4, <1>5, <1>6 DEF Next

\* The types the runs check.
LEMMA IInvTypes == IInv => TypeOK
  <1> SUFFICES ASSUME IInv PROVE TypeOK
    OBVIOUS
  <1>1. /\ page \in Pages
        /\ link \in [Browsers -> {"closed", "open", "subscribed"}]
        /\ inbox \in [Browsers -> Seq(Message)]
    BY DEF IInv, SocketTyped
  <1>2. /\ task \in [Questions -> {"none", "posted", "streaming", "ending", "over"}]
        /\ sent \in [Questions -> 0 .. MaxTokens]
        /\ waiting \in [Questions -> {"nothing", "chat", "analysis"}]
        /\ bubble \in [Browsers -> Questions \cup {NONE}]
        /\ view \in [Questions -> {"none", "stream", "typing", "answered", "error"}]
        /\ \A q \in Questions : text[q] # <<>> => view[q] = "stream"
        /\ \A b \in Browsers :
             bubble[b] # NONE => Asker[bubble[b]] = b /\ view[bubble[b]] = "stream"
    BY DEF IInv, ChatInv, ChatTyped, Bubbles
  <1>3. /\ analysis \in [Analyses -> {"none", "asked", "announced", "committed", "failed"}]
        /\ parsed \in [Analyses -> {NONE} \cup Parsed]
        /\ running \subseteq Analyses
        /\ list \in [Browsers -> (SUBSET Changes) \cup {ERROR}]
    BY DEF IInv, PagesInv, PagesTyped
  <1>4. \A b \in Browsers : screen[b] # Blank => parsed[screen[b].id] # NONE
    BY PagesAssumption DEF IInv, PagesInv, Rendering, Renders
  <1>5. stored \in 0 .. MaxTicks /\ price \in [Browsers -> 0 .. MaxTicks]
    BY DEF IInv, MarketInv, FeedTyped
  <1>6. ASSUME NEW b \in Browsers
        PROVE  /\ selected[b] \in Symbols /\ grid[b].of \in Symbols \cup {NONE}
               /\ Len(grid[b].trends) = (IF grid[b].of = NONE THEN 0 ELSE Cardinality(Timeframes))
               /\ Len(quotes[b]) \in {0, Cardinality(Symbols)}
               /\ \A r \in Lines : line[b][r].got # <<>> => line[b][r].want # NONE
    <2>1. DeskTyped
      BY DEF IInv, MarketInv
    <2>2. selected[b] \in Symbols /\ grid[b].of \in Symbols \cup {NONE}
      BY <2>1 DEF DeskTyped
    <2>3. \A r \in Lines : line[b][r].got # <<>> => line[b][r].want # NONE
      BY <2>1, LineIs DEF Got
    <2> QED BY <2>1, <2>2, <2>3 DEF DeskTyped
  <1>7. /\ player \in [Browsers -> Players]
        /\ gone \subseteq Browsers \X Slots /\ (gone # {} => strayed)
    BY DEF IInv, ReplayInv, ReplayTyped, Straying
  <1> QED BY <1>1, <1>2, <1>3, <1>4, <1>5, <1>6, <1>7 DEF TypeOK

-----------------------------------------------------------------------------
(* The theorems.                                                           *)

\* The invariant holds, whatever the users of the pages do, whatever the server answers
\* and in which order, and whatever the sockets lose, repeat or drop.
THEOREM Invariance == Spec => []IInv
  <1>1. Init => IInv
    BY InitIInv
  <1>2. IInv /\ [Next]_vars => IInv'
    BY StepIInv
  <1> QED BY <1>1, <1>2, PTL DEF Spec

\* The pages' state keeps its shape: a bubble is below a question of its own browser
\* (sendChatMsg), an analysis on the screen has been parsed, as many quotes and trends
\* are shown as were asked for.
THEOREM TypeCorrect == Spec => []TypeOK
  <1>1. IInv => TypeOK
    BY IInvTypes
  <1> QED BY <1>1, Invariance, PTL

\* app.js, onWsEvent, ai.token: while users are patient and nothing is lost every bubble
\* holds its own question's tokens, all of them at the end; and none ever comes late.
THEOREM OwnAnswers == Spec => []OwnAnswer
  <1>1. IInv => OwnAnswer
    BY ChatIsOwn DEF IInv
  <1> QED BY <1>1, Invariance, PTL

\* app.js, pollLatestAnalysis and runAnalysis: an analysis that is read again from the
\* database looks as it did when the request answered.
THEOREM ReloadsKeep == Spec => []ReloadKeeps
  <1>1. IInv => ReloadKeeps
    BY PagesKeep DEF IInv
  <1> QED BY <1>1, Invariance, PTL

\* ingest_market_data, get_quotes and the sidebar: with a prompt bridge no screen goes
\* back to an older tick, and at every quote that is shown one could deal.
THEOREM PricesSound == Spec => []PricesAreSound
  <1>1. IInv => PricesAreSound
    BY MarketIsSound DEF IInv
  <1> QED BY <1>1, Invariance, PTL

\* app.js, selectMktAsset and renderBriefing: trends and levels are shown for the asset
\* they were made for.
THEOREM ShownOwn == Spec => []ShownIsOwn
  <1>1. IInv => ShownIsOwn
    BY MarketIsOwn DEF IInv
  <1> QED BY <1>1, Invariance, PTL

\* app.js, replayNext, replayFinish and onWsEvent, with ControlReplayUseCase: the page
\* draws each frame once and in order, as long as no connection breaks off before its
\* frame is announced; leaves none out unless an event is lost; and at rest, when nothing
\* has failed, shows where the server is and lets the viewer go on exactly if there is more.
THEOREM Followed == Spec => []ReplayIsFollowed
  <1>1. IInv => ReplayIsFollowed
    BY ReplayIsSeen DEF IInv
  <1> QED BY <1>1, Invariance, PTL
=============================================================================
