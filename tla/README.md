# Oracle Trader Assist: models, checks and proofs

This directory holds TLA+ models of the Oracle Trader Assist server (`src/oracle`), the TLC
configurations that check them on small instances, and the theorems about them that TLAPS
proves for every instance. Every definition is written from the Python source; `PROJECT.json`
maps each one to the lines it stands for and lists the runs, the findings and the hazards.

How to run: `tlc -config <run>.cfg MC<Module>.tla` for a run, `tlapm <Module>Proofs.tla` for
the proofs.

## 1. The system

One FastAPI process (two in the production image) serves a browser frontend. PostgreSQL keeps
the state, Redis pub/sub carries the events, Claude writes texts, APScheduler starts jobs.

| Component | State it keeps | Operations | Correct means |
|---|---|---|---|
| Trading journal (`application/trade`, `domain/trade`, trade repository and router) | row per trade; memory record per reflection | record, close, reflect, lists | closed once and for ever; what readers see was announced; a shown reflection is remembered; a failed request leaves nothing |
| Replay (`application/replay`, `domain/replay`) | row per session: state, current frame, frames with commentary | create, next, finish, annotate | always on an existing frame; one step per `next`; finish is final; commentary survives |
| Context memory (`application/memory`, `domain/memory`) | sessions per asset with turns, token count, status; memory records | load or create, append, expire, search | one active session per asset; turns kept; expired stays expired; within its budget |
| Chart analysis (`application/analysis`, prompts, parser) | row per analysis | run, get, list | only completed analyses show, each leaves its turn and its event |
| Event bus and broadcaster (`infrastructure/redis`, `interface/websocket/broadcaster.py`) | one pub/sub subscription | publish, subscribe, route | events reach subscribed clients in order, once the subscription has them |
| WebSocket gateway (`interface/websocket/gateway.py`) | `_connections`, `_subscriptions` | connect, subscribe, unsubscribe, fan-out, heartbeat, disconnect | limit kept, places given back, fan-out complete |
| Cold start (`interface/websocket/cold_start.py`) | none | snapshot of a channel | snapshot plus stream miss nothing |
| Chat (`send_message.py`, `routers/chat.py`) | none on the server, the open bubble in the browser | stream | answers complete, tokens in the bubble of their question |
| Analytics (`application/analytics`, `domain/analytics`) | saved reports | performance of a period | the numbers are those of the trades |
| Checklist and trade rules (`domain/trade/services.py`, `value_objects.py`, `entities.py`, the filter of `app.js`) | none | validate, risk ratio, realised R | who follows the verdict cannot lose more than it promises; checklist and filter do not contradict each other |
| Scheduler and jobs (`infrastructure/scheduler`) | next fire times in memory | morning briefing, weekly summary, news refresh | each period summarised once |
| Market feed (`routers/market.py`, `scripts/mt5_bridge.py`) | last price of a symbol in Redis | ingest, broadcast, quotes, trends | the newest price wins; a quote can be dealt at; trends are those of the asset they stand under |
| Market adapters (`infrastructure/market`) | none | snapshots and histories of Yahoo, of the mock in its place | bad rows are left out, the mock stands in where Yahoo has nothing |
| News, calendar, AI, Telegram and TTS adapters | none | calls to outside services | failures are contained |
| Dashboard (`frontend/app.js`) | list of trades, analysis, prices, open bubble, replay chart and its buttons on the screen | connect, render, reload, poll, ask, step | what is shown becomes and stays what the server has |
| Briefing (`application/briefing`, `app.js`) | text and levels on the screen | generate, read levels out of the text | levels are those of the asset they are shown for |
| Application lifespan and migrations (`app.py`, `main.py`, `connection.py`, `src/migrations`) | schema and its version; tasks and connections of a process | start, upgrade, serve, stop | no half upgrade is seen, nobody serves without its tables, in the end all serve |
| Settings, logging, middleware, health | configuration | – | – |

How they interact. A REST handler gets one `AsyncSession` (`dependencies.py`, `get_db`): it
commits when the handler returns and rolls back when anything raises. Use cases write, flush,
and **publish on Redis before that commit**. Redis hands the event to the one
`EventBroadcaster`, which asks the gateway to send it to every client subscribed to the
channel and waits until all sends have ended. A client that subscribes is also sent a snapshot
that the gateway reads from the database with a session of its own.

What is hard about it:

* *Interleaving at every await.* Nothing locks a trade, a session or a replay between a
  handler's read and its write; `repository.update` reads the row a second time and the ORM
  writes only the columns that differ from that second read, so two writers can produce a row
  neither of them meant.
* *Failure between steps.* The AI, Redis, the database and the client can each fail at every
  await. The rollback takes back the rows, never an event.
* *Order of event, commit and snapshot.* A client can hear of a change before it can read it,
  or subscribe in between and hear of it never.
* *Fan-out to clients that come and go*, with three tasks per client sharing two dictionaries.
* *Time*: scheduled windows that overlap, and work that is lost when the process is down.

## 2. The models

(Bounds of the runs in section 3.)

### Trading journal: `TradeLifecycle`, `TradeJournal`, `TradeJournalProofs`, `MCTradeJournal`

`TradeJournal` has one database (`db`, `records`), what Redis was ever told (`events`), a row
lock per trade, and for each request its step `pc`, endpoint `op`, `trade`, domain object
`view` and second read `base`.

| Action | Code |
|---|---|
| `RecordSave` | `RecordTradeUseCase.execute` to the flush of the insert |
| `CloseLoad` | `CloseTradeUseCase.execute`: `get_by_id`, the two guards, the edits (no await between) |
| `ReflectLoad` | `ReflectOnTradeUseCase.execute`: `get_by_id` and guards; the AI answers some time later |
| `Reread` | `session.get` inside `PostgresTradeRepository.update` |
| `Write` | merge and flush: takes PostgreSQL's row lock; a reflection inserts its memory record |
| `Publish` | `RedisEventBus.publish` |
| `Commit`, `Abort` | the two ends of `get_db`; `Merge` is the UPDATE of the columns that differ |

The identity map holds rows weakly and `get_by_id` keeps only the domain object, so the second
`session.get` is a fresh SELECT; that is what makes `Reread` a step of its own. Prices, texts
and clock readings are named by the request that supplied them. `TradeLifecycle` is what a
reader relies on: a trade goes from absent to open to closed and never back, and is never seen
in a state that was not announced. `TradeJournal` implements it (`FollowsLifecycle`).

### Replay: `ReplayPlayback`, `ReplayControl`, `ReplayControlProofs`, `MCReplayControl`

The same request scheme over replay rows. `next` and `finish` decide a `goal` from their first
read; `update_state` assigns state and position, `save_frame_annotation` assigns the frames.
Frames are their number and the author of each commentary; the candles are left out.
`FrameCount` is `_generate_frames`; a range shorter than one interval yields no frame at all,
and `finish` then stores `current_frame = -1`, which `_to_domain` refuses from then on.
`crowd`, chosen once from `Crowds`, is how many requests are kept in flight. `ReplayPlayback` is
what one viewer expects; where `crowd` is 1 `ReplayControl` implements it (`FollowsPlayback`).
With several it does not (section 4).

### Event delivery: `Gateway`, `EventDelivery`, `EventDeliveryProofs`, `MCEventDelivery`

`Gateway` has the two dictionaries (`subscriptions`, whose domain is `_connections`), one
endpoint coroutine per client, its heartbeat, and the fan-out of one event: `targets` chosen
when the event is taken, `due` the sends not started, `draining` those awaiting the socket.
`EventDelivery` adds what drives it: writers that publish (perhaps twice: `retry_on_timeout` sends
a PUBLISH again whose answer was late) and later commit or roll back, and
the Redis subscription with its losses. What a client was sent is forgotten when it leaves;
`EventsInOrder` compares what it holds with `published`, Redis' own order. A message is abstracted to the set of changes it lets
a client know. Assumption: `WebSocket.accept` does not suspend before the client is
registered (true of the ASGI server's implementation used here); if it did, clients that
connect together could pass the limit check together.

### Context memory and analyses: `Conversation`, `ContextMemory`, `ContextMemoryProofs`, `MCContextMemory`

Sessions of one asset, appended to by `RunAnalysisUseCase`, created by whoever finds none,
expired by the memory router. A turn is the analysis it belongs to and counts one budget unit.
`Conversation` is the abstract memory of one asset; where `crowd` is 1
`ContextMemory` implements it (`FollowsConversation`).

### Trading day: `TradeRules`, `TradingDay`, `MCTradingDay`

`TradeRules` holds the pure rules: price geometry, ratio, realised R (rounded half to even), the
checklist and the dashboard's filter. `TradingDay` is a trader who follows one of the two
counsels, or none. `Record` does not ask the checklist, because `POST /trades` does not: what
the trader lets himself do is `Allows`. The page's list starts empty and stays so until
`loadTrades` is called by the trades page or after a change: neither `init` nor opening the
checklist loads it (`app.js:9`, `104`, `1319-1332`), so whoever loads the page anew on the checklist is told
OPERAR however many trades the day has. `Load` and `Reload` ask, `Arrive` puts the list of any answer that is
on its way, an overtaken one too, `LoadFails` keeps the list, `Reopen` empties it. `blind`
remembers whether the trader ever changed the journal before the list had come, or with another
answer on its way; only of who does not is the day's number of trades bounded. Server and browser
are taken to be in one time zone.

### Analytics: `Performance`, `PerformanceProofs`, `MCPerformance`

`Performance` extends `TradingDay`: the reports are computed from the same journal in which the
trader records and closes, by `GetPerformance`, at any moment. `ReportSpec` is both together, and
implements `TradingDay`'s `Spec`. The query has no `ORDER BY`, and PostgreSQL puts the new
version of an updated row wherever there is room, so `Reads` returns the rows in any order. A day is
the unit of time: a bounded period begins at the hour of the request, which the model does not have, so any of
the trades closed on its first day may be left out (`Early`). `Compute` and the operators
before it translate `_compute` with every rounding, in integers: R in hundredths, percentages
in tenths, averages and expectancy in thousandths. The reference definitions it is checked
against (`FiguresAreRight`) do not follow the code's loop.

### Jobs: `ScheduledJobs`, `ScheduledJobsProofs`, `MCScheduledJobs`

Each worker has a scheduler of its own. `due` is the next run time of the job in its memory,
`run` the run in progress. `Submit` is APScheduler waking up: it takes the latest run time that
has passed (the interval jobs coalesce, and a job whose run has not ended skips the next one),
`Begin` applies `misfire_grace_time`, `Build` reads the closed trades, `Publish` and `Notify`
are the event and the Telegram message. `StartUp` registers the jobs and computes their times
anew, so a time that passes while the process is down is gone; `GoDown` loses the run in
progress. `BeginClose` stamps `closed_at` and `EndClose` commits it later. The three jobs share
nothing, so a behaviour follows one of them. Time is in slots, days begin at midnight UTC as
`get_weekly` takes them. Left out: a second close of a trade, which rewrites `closed_at`
(`TradeJournal` has it); missing API keys, which only skip a step.

### Dashboard: `LiveSocket`, `ChatStream`, `AnalysisParser`, `LivePages`, `MarketFeed`, `MarketAdapters`, `MarketDesk`, `Briefing`, `ReplayPage`, `Dashboard`, `DashboardProofs`, `MCDashboard`

`Dashboard` puts the browser's half (`frontend/app.js`) next to the handlers it talks to.

| Module | State | Actions |
|---|---|---|
| `LiveSocket` | `link` and `inbox` of each browser | `Open`, `Subscribe`, `Lose`; `Announce` is a publish, as `EventDelivery` delivers it |
| `ChatStream` | `task` and `sent` on the server, `waiting`, `bubble`, `view`, `text` in the browser | `Ask`, `Accept`, `Accepted`, `FallBack` to `POST /analyses`, `Emit`, `Stop`, `End`, `Hear` |
| `AnalysisParser` | none | `Parse` is `parse_analysis_response`, with what its patterns miss; `ToRow`, `ToDomain`, `ToOutput` the way into the table and back; `Render` is `renderAnalysis` |
| `LivePages` | trades and analyses on the server, `fetch`, `list`, `screen` in the browser | announce before commit, `Serve`, `Notice`, `Poll`, `Show`: several requests of one page may be open and be answered in any order |
| `MarketFeed` | `tick` of the MT5 bridge, `stored`, `announced`, `price` | `Post`, `Store`, `AnnounceTick`, `ShowTick` |
| `MarketAdapters` | none | `Quotes` and `Trends`: what the Yahoo adapter, or the mock behind it, makes of a table of rows, with every rounding |
| `MarketDesk` | `yahoo` outside, `quotes`, `selected`, `grid` in the browser, `line` (its requests) | `AskQuotes`, `Select`, `Read` (one adapter call after the other), `Arrive`, `FailSilently`; `Move` changes what Yahoo says |
| `Briefing` | `report` in the browser | `AskBriefing`, `Generate`, `ShowBriefing`, `RefuseBriefing`; `KeyLevels` is `_extract_key_levels`, `ShownLevels` what `renderBriefing` puts in its place |
| `ReplayPage` | `row`, `put` (open requests), `late` (answered before their commit) on the server, `player` in the browser, `gone` (requests it has given up, on which the server still works) | `CreateReplay`, `PressNext`, `PressFinish`, `ReplayAnswer`, `BreakOff`, `FallbackTimer`, `HearReplay`; `LoadReplay`, `AnnounceFrame`, `AnnounceOver`, `CommitReplay`, `CommitLate`, `Refuse`, `RefuseLate`, `AnswerUnheard` |

The pages share the socket and the quotes and nothing else, so `page`, chosen once, is the one
looked at (the trends of the market page count as one of their own);
`Audience` says who has it open. An answer of the AI is reduced to the words the parser looks
for in each section and to how its numbers are written. The other texts of an analysis, the
charts and the forms are left out. A text of the briefing is a sequence of paragraphs: which assets
the first line names, what the two patterns see of it, how its levels are written. Prices are
integers of millionths, and `Rounded` allows both neighbours of a tie, since the floats are only
near the decimals that are written. What the sidebar shows is a set of boxes (`Boxed`): a tick's
price through `formatPrice`, in the decimals of its symbol (`ShownUnit`), next to a bid and an ask
worked out from the price with five decimals, and ten thousand times the spread (`TickBox`); a quote's
three prices all through `formatPrice`, and the spread as it is (`QuoteBox`). So a tick's price can
be shown outside its own bid and ask, by half of its last decimal (`slack`), and no more:
`PricesAreSound` says so. `ReplayPage` has a whole row written at the commit: what two
requests do to one row is `ReplayControl`'s subject. A request may fail on the server (`Refuse`, and
`RefuseLate` where the answer left before the commit), or in the browser only: `BreakOff` enables
`next` again while the handler goes on to its flush, its events and its commit. Then a second and a
third request can be announced first, and the page, which compares a frame with the last candle
only, draws the frame of the first after theirs. So `ReplayIsFollowed` promises the order as
long as no connection has broken off before its frame was announced (`strayed`), and
`CandlesGoForward` (section 4) is the order without that condition. `Careful` keeps the viewer from finishing or
starting a replay while something is still on its way; without it a `next` pressed during a
`finish` takes the session back while the page's buttons stay disabled.

### Start and stop: `Migrations`, `AppLifespan`, `AppLifespanProofs`, `MCAppLifespan`

`Migrations` has the five scripts under `src/migrations/versions`, each with the revision it
follows and its tables. `AppLifespan` has the committed `schema`, and for each process its
`phase`, the schema its transaction sees (`mine`) and what it has running (`open`).

| Action | Code |
|---|---|
| `Start` | `create_app` builds engine, session factory, Redis client |
| `ReadVersion`, `RunScript`, `CommitUpgrade` | `lifespan`'s `alembic upgrade head` and `env.py`: one transaction around all scripts |
| `Serve` | the broadcaster's task and the scheduler, whose failure is tolerated; requests are taken |
| `Stop`, `Close` | the part of `lifespan` after its `yield`, one resource after the other |
| `Crash` | the process dies, or its start fails |
| `Rollback` | `make migrate-down` |

`holder` is the process whose uncommitted tables the others wait for: PostgreSQL lets the second
creator of a relation wait for the end of the first, and fails it if that one commits. A process
that was up when a migration was taken back (`stale`) is promised nothing.

## 3. The runs

| Run | Module | Expect | Properties | What it shows |
|---|---|---|---|---|
| `trade_journal.cfg` | `MCTradeJournal` | pass | `TypeOK`, `NoSilentChange`, `ReflectionIsRemembered`, `OnlyCommittedShows`, `ClosedIsFinal`, `FollowsLifecycle`, `RequestsEnd` | Four concurrent requests on one trade, any mix of record, close and reflect, each of which may fail at any await: the journal keeps its promises to readers and listeners implements TradeLifecycle, and whoever waits for the row lock gets it, so that every request that reached its handler ends. |
| `trade_closed_once.cfg` | `MCTradeJournal` | violation | `ClosedOnce` | Two closes of one trade both pass the open guard on their own copies and both commit. |
| `replay_control.cfg` | `MCReplayControl` | pass | `TypeOK`, `StandsOnAFrame`, `NothingSilent`, `FollowsPlayback` | Five requests on one session whose range is refused, of one frame or of four, all in flight together or one at a time, each of which may fail at any await; one at a time they implement ReplayPlayback. |
| `event_delivery.cfg` | `MCEventDelivery` | pass | `TypeOK`, `EventsInOrder`, `LimitKept` | Two clients and room for one, which connect, subscribe, unsubscribe and leave at any time while two changes are published, one of them perhaps twice, and committed, the subscription is lost once and snapshots fail: the order of the events and the connection limit. |
| `event_delivery_progress.cfg` | `MCEventDelivery` | pass | `FanOutReachesAll`, `PlacesReturn`, `EventsArrive` | Room for both clients and one change: the fan-out forgets nobody, and under fairness of the broadcaster and of the endpoints: places are given back and received events arrive. |
| `delivery_missed_change.cfg` | `MCEventDelivery` | violation | `SnapshotPlusStream` | A client that subscribes between a change's event and its commit learns of the change neither from its snapshot nor from the stream, although nothing fails. |
| `context_memory.cfg` | `MCContextMemory` | pass | `TypeOK`, `OnlyWholeAnalyses`, `FollowsConversation` | Five requests on one asset, any mix of analyses, context loads and expiries, all in flight together or one at a time, each of which may fail at any await; one at a time they implement Conversation. |
| `performance.cfg` | `MCPerformance` | pass | `FiguresAreRight`, `ReportsRepeat`, `ReportsFitTheRules`, `AWinNeverLowersTheGrade` | A trader with or without the checklist, up to three trades over two midnights, and a report saved at any point, of a period or of all, the rows in every order: the metrics against reference definitions, a saved report against one computed afresh, the drawdown of a period against what the rules allow, the grade before and after a win. |
| `scheduled_jobs.cfg` | `MCScheduledJobs` | pass | `TypeOK`, `NoTradeBetween`, `AnnouncedOnce` | Each of the three jobs in two workers that start, stop and lag, over two weeks in which a trade is closed at any time and committed up to a slot later: no trade falls between two weekly summaries, no run is repeated by a restart. |
| `dashboard.cfg` | `MCDashboard` | pass | `TypeOK`, `OwnAnswer`, `PricesAreSound`, `ShownIsOwn`, `ReloadKeeps`, `ReplayIsFollowed`, `PagesSettle` | One page at a time in one or two browsers whose socket opens late, breaks and misses events, with publishes sent twice, posts that fail after they were taken and answers that are overtaken: patient users get their own complete answers, prices never go back and can be dealt at, but for the decimals a tick's price lacks, trends and levels are those of the asset they stand under, an analysis is the same when it is read again, a replay's candles come once and in order, unless a connection breaks off under a step that is not announced, and its buttons say what the server says, and the trades and quotes end up right although events come before the commit and requests overlap. |
| `trading_day.cfg` | `MCTradingDay` | pass | `DayIsBounded`, `CounselsAgree` | A trader with two trades open at a time over a midnight: what a day can cost him if he follows the checklist, long and short; and how many trades a day he opens if he follows the filter of a page that starts with an empty list, loads it with answers that fail or overtake each other and is opened again at any time, and whether the two counsels contradict each other. |
| `startup.cfg` | `MCAppLifespan` | pass | `TypeOK`, `WholeUpgrades`, `TablesAreThere`, `NewestServe` | Two processes of the newest image and one of the image before it start at once on an empty database, crash or stop twice at any step, and an operator takes one migration back: nobody sees half an upgrade or serves without its tables, and in the end the newest image serves. |

Bounds. Requests only ever arrive, act and end, so their number bounds every run.

* *Journal, replay, memory.* Two requests show each lost update; three are needed for a row torn
  between two writers that a third reads; the runs go to four and five. One trade, session or
  asset is enough because a request touches one row and rows share nothing but the events, which
  are keyed by row. Replay: `MaxFrames = 4`, `Interval = 2` and ranges of 0 (refused), 1 (no
  frame), 3 (one) and 9 (more than the maximum). Row locks: `TypeOK` says what keeps the waiting short, that
  the holder of a lock is past its write and waits for no other lock.
* *Delivery.* Two clients are the least that can hold each other up, two events the least that
  can be out of order; one repeat and one drop; `MaxMessages` bounds how long a client keeps
  subscribing. The progress run has one change and no drop, because it is about what must happen
  when nothing more happens.
* *Performance.* One plan, out at -1 R or at +1.5 R, three trades (the least at which an average,
  a drawdown and an order differ), two midnights, so that a trade can be older than the period of one
  day, one saved report; one loss a day and one open trade at a time, so that who follows the checklist
  comes to the limit; "win", "loss" and "breakeven" are whatever a user without a guide says.
  One asset: that the filter by asset picks the right trades is left to the theorems, which
  hold for any set of them.
* *Jobs.* A day of 4 slots and a week of 2 days: the least in which a summary may begin late, a
  commit may come late, and both may meet a midnight; `MaxTime = 10` lets two weekly summaries
  happen. Two workers, since all they share is the journal and the events.
* *Startup.* The five scripts as they are; two processes of the newest image, as the image
  starts them, and one of the image before it; two stops or crashes, so that a process can die in
  an upgrade and once more in the next; one rollback.
* *Dashboard.* One lost event or connection, publishes once or, on the trades and replay page where
  a repeat could show, twice; two tokens, two questions, two overlapping requests of a page
  (`Lines`), two ticks, one change of what Yahoo says, one request that fails silently.
  Two symbols: PETR4, which Yahoo has and the sidebar features, and WINQ, which it has not. The bridge
  posts a tick of PETR4 that lies halfway between two prices the sidebar can show, where its
  price leaves bid and ask, and one of EURUSD, which is shown with all its decimals. One step of the
  mock's walk (`Drifts`) keeps its random prices to a few, enough for every rounding; WINQ's price is
  taken a thousand times lower than the code's so that TLC's integers hold it.
  Texts of the briefing: as it should be, with both assets in a title, without a level, and
  without an asset. Two browsers where they hear each other (the
  chat), one where they do not. Replays of three frames (a first, one between, a last) and of one, one
  request that fails or whose connection breaks off, two open requests and any number of timers.
  The constraint `SmallReplay` stops there once a second replay is created after something
  failed or was lost, or something is lost after a connection broke off; of what follows
  `ReplayIsFollowed` says nothing, since sessions and failures are never undone. The pages of
  `PagesSettle` are not constrained. `Patient = TRUE`: a question is asked when nothing is going on;
  `Careful = TRUE`: a viewer finishes or starts a replay when nothing is on its way; what happens
  otherwise is in section 4.
* *Trading day.* Four trades, one more than the worst day of somebody with two open at a time;
  the limits are the code's, and the minutes are the edges of its windows. The filter's `DayLimit` is 3 instead of 5: one more than the two losses at which it stops, so that
  either can be reached first, with a trade to spare. Two different answers may be on their way at a
  time. The constraint `OnePlan` gives who follows the filter one plan for all trades: the filter
  looks at days and results, never at prices.

Symmetry is used for safety only, over requests, clients or workers that differ in name only.

Deadlock checking is off where the bounded requests simply run out; the liveness runs show
that nothing stops before.

Fairness. `FairSpec` assumes that the event loop keeps running a coroutine it has started and
that an awaited call returns or raises: Redis and the AI client have timeouts, a
PostgreSQL lock is released when its holder's transaction ends. In `Dashboard` the browser's
timers fire again on the pages that have one (`Timer`), and of a page's open requests always one
gets ahead (`Progress`), be it never the same. In `AppLifespan` every process does its own steps, and
one that has ended is started again: uvicorn's supervisor and Docker's `restart: unless-stopped` do
it. It is never assumed that a
request or a client arrives, that a call fails, that an event comes through, or that a user goes
on. The other specifications are checked for safety and state no fairness.

## 4. What the runs refute

Each finding in `PROJECT.json` has a run whose single property states what a comment, an
assertion or a document says, and which TLC violates:

* `trade_closed_once` / `ClosedOnce` (code bug, `application/trade/close_trade.py:21`): close_trade.py:21 checks the status on a copy of the row that update() (trade_repository.py:83-91) never compares again, so two concurrent closes of one trade both succeed, both publish trade.closed, and the row ends up with columns of either; close_trade.py:22 says a second close is refused: "Trade {data.trade_id} is already closed".
* `delivery_missed_change` / `SnapshotPlusStream` (code bug, `interface/api/dependencies.py:43`): The use cases publish before get_db commits (dependencies.py:43): a client that subscribes in between gets no event and a snapshot without the change, and nothing tells it later; docs/oracle_architecture_final.md:630 says "Ao reconectar → novo snapshot + continuação do stream".

The last section of most modules ("what the code says of itself and does not do") states
further sentences of the repository that TLC refutes when the definition is added to the component's
`.cfg`:

| Module | Definition | The sentence | What happens instead |
|---|---|---|---|
| `TradeJournal` | `ReflectOnlyReflects` | `docs/oracle_architecture_final.md:429`: "trade_repo.update_reflection" | the whole copy is merged back, so a reflection can undo columns of a close that committed during the AI call |
| `TradeJournal` | `OpenedWasRecorded` | `domain/trade/events.py:10`: "Fired immediately after a trade is recorded as open." | it is fired before the commit, which may fail |
| `ReplayControl` | `FinishTerminates` | `README.md:400`: "Terminate the replay session" | a `next` that read the session earlier takes it back |
| `ReplayControl` | `NextAdvancesOneFrame` | `README.md:398`: "Advance one frame" | two in flight announce the same frame |
| `ReplayControl` | `CommentsPersist` | `annotate_frame.py:13`: "Calls Claude for a frame commentary and persists it to the replay session." | the commentary of another frame that was stored meanwhile is overwritten |
| `ReplayControl` | `AllFramesConsumed` | `README.md:456`: "All frames consumed" | the first `next` goes to frame 1 and `create` publishes none, so `replay.completed` follows without frame 0 ever having been sent |
| `EventDelivery` | `SlowClientBlocksNobody` | `gateway.py:146`: "one slow client doesn't block others" | the next event waits until every send of the last has ended |
| `EventDelivery` | `SnapshotIsCurrent` | `cold_start.py:3`: "Called once per subscribe action so the client immediately sees current system state" | the snapshot may be overtaken by the events it does not contain |
| `ContextMemory` | `OneActiveSession` | `domain/memory/entities.py:43`: "One active session per asset" | two requests that find none both create one, and no constraint stops them |
| `ContextMemory` | `ExpiredStaysExpired` | `domain/memory/entities.py:44`: "Transitions to EXPIRED after inactivity or manual close" | an append that read the session before writes it back active |
| `ContextMemory` | `AppendKeepsTurns` | `save_context.py:16`: "Append a message to the given session and return updated output." | two appends in flight keep one of the turns |
| `ContextMemory` | `BudgetKept` | `README.md:78`: "trimmed automatically when context window budget is exceeded" | nothing trims |
| `Performance` | `DrawdownIsHistorical` | `domain/analytics/value_objects.py:55`: "Largest historical drawdown in R" | the rows come in any order, since the query has none |
| `Performance` | `AverageWinIsNotNegative` | `value_objects.py:37`: "average_win_r: float = Field(ge=0)" | a "win" closed below its entry makes every report of that period an error |
| `Performance` | `PositiveIsProfitable` | `value_objects.py:33`: "Positive EV means the strategy is mathematically profitable over time." | the rounded win rate gives a positive expectancy to a history that made nothing (exits at 6 and 12) |
| `Performance` | `ExpectancyIsAverage` | `value_objects.py:31`: "Statistical expectancy per trade, expressed in R multiples." | breakevens count as losses (with an exit at 10, the entry) |
| `ScheduledJobs` | `CountedOnce` | `weekly_summary_job.py:3`: "Queries analytics for the" / "previous week" | the window has no upper end: a trade of Monday morning is in two summaries |
| `ScheduledJobs` | `OneWorkerAnnounces` | `docker/Dockerfile:53`: "--workers 2" | each worker runs every job |
| `Dashboard` | `EndSignalsCompletion` | `chat.py:25`: "A final `ai.stream_end` event signals completion." | the end of another question's stream closes the bubble (with `Patient = FALSE`) |
| `Dashboard` | `TrendIsKept` | `chart_analysis.py:15`: "## TENDÊNCIA" | the parser's pattern for headings has no Ê, so the section is never found and every trend is LATERAL |
| `Dashboard` | `WaitIsNeverGo` | `chart_analysis.py:28`: "[OPERAR / AGUARDAR / NÃO OPERAR / REVISAR CONTEXTO]" | a reason that mentions OPERAR turns AGUARDAR into OPERAR |
| `Dashboard` | `ShownScoreIsPercent` | `domain/analysis/value_objects.py:10`: "Score 0–100" | the pages multiply it by 100 again |
| `Dashboard` | `SpinnerEnds` | `app.js:1078`: "3s fallback: WS never fired" | at the last frame, and when the request fails, no timer is started: if the event is lost the page waits for ever |
| `Dashboard` | `ChartIsOwn` | `README.md:67`: "step through OHLCV frames" | events carry no check of the session: those of a replay left behind are drawn in the new chart (with `Careful = FALSE`) |
| `Dashboard` | `CandlesGoForward` | `README.md:67`: "step through OHLCV frames" | the handler of a request whose connection broke off announces its frame after those of the next two, and it is drawn after them |
| `Dashboard` | `LevelsAreOwn` | `generate_briefing.py:85`: "extract support/resistance per asset" | for an asset without a section the whole text is searched, and another asset's level is found |
| `Dashboard` | `GridIsSelected` | `app.js:579`: the trends of the card that is selected | two answers may change places, and a request that fails leaves the last asset's trends |
| `Dashboard` | `ScreenIsOneAnalysis` | `app.js:345`: the reasons of the analysis that is shown | an analysis without reasons or risks leaves those of the last one on the screen |
| `ReplayControl` | `CurrentFrameIsIndex` | `domain/replay/entities.py:68`: "current_frame: int = Field(default=0, ge=0)" | the last index of a replay without frames is -1 |
| `AppLifespan` | `NoFailedStart` | `docs/oracle_architecture_final.md:735`: "Executadas automaticamente no startup em produção" | of the two workers that upgrade an empty database one fails, and has to be started again |
| `AppLifespan` | `AllServe` | every process that is started again serves in the end | once a newer image has upgraded, an older one does not know the version and never starts |
| `TradingDay` | `FilterSeesLosses` | `README.md:74`: "checks consecutive losses" | it counts the losses of trades opened today: two trades of yesterday lost today leave it at OPERAR |
| `TradingDay` | `EntryIsBlocked` | `README.md:72`: "blocks entry below threshold" | nothing asks the checklist when a trade is recorded |
| `TradingDay` | `RatioIsAcceptable` | `domain/trade/value_objects.py:30`: "minimum threshold of 2:1" | the checklist's minimum is 1.5 |

Other disagreements, seen while modelling and without a run of their own: the README's event
table names `trade.recorded` where the code publishes `trade.opened`; it gives `ai.stream_end` a
`session_id` that the code does not send; `README.md:228` names tables that no migration creates;
the README's confidence score lies between 0.0 and 1.0, the API's between 0 and 100; `domain/replay/contracts.py` says replay state lives
in Redis, it is in PostgreSQL; `scheduler.py` says "Redis jobstore" and builds a memory one;
`services.py:14` gives its hours in BRT and `datetime.now()` is the server's; `_to_output` in
`run_analysis.py` leaves out support, resistance and strength, so the page shows a dash for them.
With FastAPI 0.118 and later the code after `yield` in `get_db` runs after the response has been
sent; the models do not say when the reply leaves, so they cover both.

## 5. What is proved

`TradeJournalProofs` proves for every set of requests and trades, with no bound on either:

| Theorem | What it establishes |
|---|---|
| `Invariance` | the inductive invariant `IInv` holds in every reachable state |
| `TypeCorrect` | `TypeOK` |
| `NothingSilent` | `NoSilentChange`: what a reader sees in the database was announced by the request that wrote it |
| `ReflectionRemembered` | `ReflectionIsRemembered`: the reflection shown on a trade is the content of a memory record |
| `NoTraceOfOthers` | `OnlyCommittedShows`: requests that failed or still run show nowhere |
| `ClosedStaysClosed` | `ClosedIsFinal`: no trade disappears and no closed trade opens again |
| `ImplementsLifecycle` | `FollowsLifecycle`: `TradeJournal` implements `TradeLifecycle` |

The argument. None of the three invariants is inductive: whether a commit keeps them depends on
what the request carries in its copy of the row, which may be older than the row. `IInv` adds
five parts about the requests in flight. `Started`: a request has its endpoint and its trade from
its arrival on. `Creating`: a trade has one creator, and nobody else sees its row before the
commit. `Editing`: a close or a reflection works on a trade that exists and carries a closed one,
and a copy that read "closed" is still right because nothing opens a trade again. `Carrying`:
every author named in a copy is the request itself or has committed, and what a committed author
wrote has its event and its record. `Said`: a request past its publish was heard. With these the
merge of a stale copy over a newer row can only produce columns that were announced and
recorded, which is what `MergeColumns` turns into the three invariants. The proof of each part
has one step per action; the refinement reuses `IInv`, every action but the commit and the
publish being a stutter of the lifecycle. Assumed: only `NullAssumption`, the named `ASSUME` of
`TradeJournal`, which TLC evaluates in every run of it.

`ScheduledJobsProofs` proves for any number of workers and trades, any length of day and week,
and with no end of time (`MaxTime` is any number):

| Theorem | What it establishes |
|---|---|
| `Invariance` | the inductive invariant `IInv` holds in every reachable state |
| `TypeCorrect` | `TypeOK` |
| `NoTradeIsLost` | `NoTradeBetween`: a trade that became visible between the reads of two weeks' summaries is counted by the later one |
| `NothingAnnouncedTwice` | `AnnouncedOnce`: a worker never starts again a run it has announced, not even after a restart |
| `OnlyAnnouncedIsTold` | `ToldWhatWasAnnounced`: Telegram tells nothing that was not announced before |

The argument. That no trade falls between two summaries depends on when the first one read the
journal, and on midnight. `Stamped` bounds how old the `closed_at` of a close in flight can be.
`Planned` and `OnTime` fix the times of the job, `Punctual` says that a run begins within the
grace after its time, and `Complete` puts both together: a trade that a summary did not find
closed carries a `closed_at` at most `MaxCommit` before the summary's time. `Running` and
`Heard` carry this through a run and on into the events. Lemma `SummaryMidnight` is the
arithmetic: until the grace has passed, midnight lies exactly `SummaryAt` slots before the time
of the summary, so the next window opens at or before every such trade. Assumed is
`SchedulerAssumption`: a summary that begins late still begins on its Monday
(`SummaryAt + Grace < Day`), no close takes from Sunday midnight to the summary
(`MaxCommit <= SummaryAt`), and a week is made of whole days. The first is true of the cron time
and grace in `scheduler.py`, the second of any request a client waits for.

`AppLifespanProofs` proves for any number of processes, each with an image of its own, and with
no bound on crashes, stops and rollbacks (`MaxStops` and `MaxRollbacks` are any numbers):

| Theorem | What it establishes |
|---|---|
| `TypeCorrect` | `TypeOK` |
| `UpgradesAreWhole` | `WholeUpgrades`: the tables are those of the scripts up to the version, and until a rollback the version is the head of somebody's image |
| `ServesWithTables` | `TablesAreThere`: a process that serves finds every table of its image, unless one was taken back while it was up |

The argument. The committed database and what each upgrade sees are always at one of the six
stages of the chain (`Staged`, `Underway`); lemmas `StageUp` and `StageDown` show that a script
leads from stage to stage, and `StageIsConsistent` that a stage has exactly the tables of its
version. That a commit takes nothing away from a process that already serves needs two more
parts: the one upgrade with uncommitted tables holds at least what is committed (`Alone`), and
every other upgrade saw no more than is committed now, unless a rollback came (`Seen`). Lemma
`AtTheHead` does the rest: where no script of an image is left, the version is its head and all
its tables are there, which holds because an image contains every script its own scripts follow.
Assumed: that (`ImageAssumption`; an image is a copy of the source tree, which has every
script's predecessor), that the empty version is no revision (`NoneAssumption`), and numbers for the bounds.

`ReplayControlProofs` proves for every set of requests and every range, interval and limit of frames:

| Theorem | What it establishes |
|---|---|
| `Invariance` | the inductive invariant `IInv` holds in every reachable state |
| `TypeCorrect` | `TypeOK` |
| `OnAFrame` | `StandsOnAFrame`: a session whose range yields a frame always stands on one |
| `PublishedFirst` | `NothingSilent`: what a reader sees of a session was announced |
| `PlaybackFollowed` | `FollowsPlayback`: where one request runs at a time, `ReplayControl` implements `ReplayPlayback` |

The argument has the shape of the journal's, because the transactions do. `Started` and
`Creating` are the same. `Moving`: what a `next`, a `finish` or an annotation decided on fits the
frames of its session (a number that no commit changes), which is why a stale `next` can move a session
back but never off its frames, and a merge of two writers, which takes each column from one of
them, stands on a frame too. `Carrying`: every commentary in a copy is of a request that has committed and
announced it. `Said`: what is past its publish was heard. For the refinement the reads of a lone
request are those of the current row, and its commit is then the step of the viewer.
Assumed: `ReplayAssumption` (an interval and a limit that are not 0, and that no request is the
absent author).

`ContextMemoryProofs` proves for every finite set of requests and any budget:

| Theorem | What it establishes |
|---|---|
| `Invariance` | the inductive invariant `IInv` holds in every reachable state |
| `TypeCorrect` | `TypeOK` |
| `WholeAnalyses` | `OnlyWholeAnalyses`: an analysis that shows is complete and announced, and a turn stands once, in one session, for an analysis that shows |
| `ConversationFollowed` | `FollowsConversation`: where one request runs at a time, `ContextMemory` implements `Conversation` |

The argument. `Drafted` says at which step of its run a request has its analysis completed
and announced, the three statuses it writes on the way being in its transaction only. `Copied` is
about the turns: what a request read of its session are turns of committed analyses of that
session, and the only new one it adds is its own. `Whole` is the same of the rows. `Counted` says
that session ids are drawn in order, each by a request of its own, so a row nobody drew is empty
and the newest session is there to be found; that a bounded set of numbers has a largest rests
on the theorem that less-than on the naturals is well founded.
Assumed: `MemoryAssumption` (finitely many requests, none of which is the number 0).

`PerformanceProofs` proves for any journal, any geometry and limits, any number of days, and any order
in which the rows are read:

| Theorem | What it establishes |
|---|---|
| `Invariance`, `ReportsInvariance` | the inductive invariants `IInv` (of the trader and the page) and `ReportsInv` (with the reports) hold in every reachable state |
| `TypeCorrect`, `ReportsTypeCorrect` | `TypeOK`, `ReportsTyped` |
| `DayBounded` | `DayIsBounded`: whoever follows the verdict loses on no day more trades, nor more R, than its rules promise |
| `CounselsAgreed` | `CounselsAgree`: who changes nothing before the page's list has come keeps to the day's number of trades; whatever list the page has, where its filter says stop for the losses the checklist says so too, and where it says go the checklist has nothing against the hour |
| `ReportsOnlyRead` | `ReportSpec => Spec`: the trader's journal is not changed by reports, so what is proved of the trader holds beside them |
| `FiguresRight` | `FiguresAreRight`: the one pass finds the largest fall; the expectancy is the average R, up to its roundings |
| `ReportsRepeated` | `ReportsRepeat`: a report of the whole history can be had again, but for its drawdown |
| `RulesFitted` | `ReportsFitTheRules`: the drawdown a report shows for a period is within what the checklist lets its days cost |
| `GradeNeverLowered` | `AWinNeverLowersTheGrade`, an action property: a win no smaller than the average never lowers the grade |

The argument for the trader. `DayIsBounded` is not inductive: it speaks of trades that have been
closed, and the verdict is asked when they are opened. `Pending` counts both: the losses of today
and the trades open, each of which may become one, are together at most
`MaxDailyLosses - 1 + MaxOpen`; a verdict that admits a trade has counted fewer than
`MaxDailyLosses` losses, and the number open is under its own limit. `Stopped` says that nobody who
follows the verdict has a row with less than -1 R, nor one below 0 that is no loss; `Told` is what a row says
of the past: its plan was valid when it was admitted, it was closed after it was opened and not after
today. `Faithful` says that as long as nothing was changed before the list had come, everything on its
way to the page is the journal as it is, so the list that comes is; whoever counts in it before he adds a
trade adds none beyond the limit. `AllOlder` says of every other list, shown or on its way, that it is
the journal of some moment before: no longer, its rows opened on the same days, and those it has as closed unchanged
since. So the losses it counts were taken on the day, which is what the checklist looks at. `CounselsAgreed` has the hypothesis `MaxDailyLosses <= 2`: `updateFomoCount` in
`app.js` has the number 2 written out while the checklist has a constant of its own,
`_MAX_DAILY_LOSSES = 2`; with a larger constant the page would refuse what the checklist allows.

The argument for the reports.

* *Sums.* `Total` is a fold of the community modules, that is, a recursive function over a set.
  The provers take induction when it is put as "the smallest number for which it fails"
  (`SmallestOf`, from the theorem that less-than on the naturals is well founded): so it is
  proved that the function exists (`SummingExists`), that any member may be taken out first (`TotalRemove`),
  that a total splits over two parts (`TotalSplit`), is bounded by the number of its terms
  (`TotalBounded`) and is the same along any bijection (`TotalMoved`).
* *Any order.* `RowsAre` gives the bijection between rows and trades; from it every figure of a
  report but the drawdown depends on the set of its trades alone (`FiguresAre`). `Remembered`, the
  part of `ReportsInv` that makes `ReportsRepeat` inductive, says that a saved report keeps the figures of a set of
  trades that were closed, hence still are and have not changed (`ClosedStay`): as many trades now
  as then are the same trades.
* *Drawdown.* `PassFinds` is the loop invariant of `_compute_drawdown`: after k rows the running sum,
  the highest sum so far and the largest fall from an earlier to a later one. `DrawdownIsMax` draws
  from it that the fall is that of some rows in a row, of which `FallsBounded` counts the losses:
  at most one R each under `Stopped`. `SinceBounded` adds up `Pending` day by day over the period.
* *Roundings.* `RoundIs` bounds one rounding by half a unit, `RoundMonotone` says that rounding keeps
  the order of two fractions. `ExpectancyNear` carries the half units of the win rate, both averages and the
  result through the product to the bound of `FiguresAreRight`; `ShareRises`, `MeanRises` and
  `ValueRises` show that one win more lowers none of the three figures, which is all `_grade` looks at.

Assumed: `TradingAssumption`, `PerformanceAssumption` (the constants have the shape their comments
give them).

`EventDeliveryProofs` proves for any set of clients and changes and any number of messages, repeats
and drops:

| Theorem | What it establishes |
|---|---|
| `Invariance` | the inductive invariant `IInv` holds in every reachable state |
| `TypeCorrect` | `TypeOK` |
| `WithinLimit` | `LimitKept`: never more than `MAX_CONNECTIONS` clients are registered |
| `OrderKept` | `EventsInOrder`: what a client received is in Redis' order, each publish at most once |
| `AllReached` | `FanOutReachesAll`: when a fan-out has ended, everybody it was for and who is still there has the event |

The argument. `Divided` says that one number divides what was published: everything up to the
n-th publish has been taken by the broadcaster (or lost), what waits in the subscription comes
strictly after it, and every client's events are found, in order, among the first n, among the
first n - 1 for those whose send of the current event is still due. A fan-out moves n on only when the one before
has ended, which is the `await gather` of `broadcast_to_channel`; drop it and the invariant breaks
at the second event. `Strangers` and `HeldAreSnapshots` say that who is not connected is neither
registered nor addressed, and that what a heartbeat or a subscription sends is no event.
`Limited` needs that registering and counting are one step. Assumed: `GatewayAssumption`,
`DeliveryAssumption` (numbers).

`DashboardProofs` proves for any number of browsers, questions, analyses, ticks and replays, of any
length, and whatever sockets and requests lose:

| Theorem | What it establishes |
|---|---|
| `Invariance` | the inductive invariant `IInv` holds in every reachable state |
| `TypeCorrect` | `TypeOK` |
| `OwnAnswers` | `OwnAnswer`: a bubble has each question's tokens in order; a patient user's has all of its own and no others, if nothing is lost |
| `ReloadsKeep` | `ReloadKeeps`: an analysis that is read again looks as it did when the request answered |
| `PricesSound` | `PricesAreSound`: with a prompt bridge no screen goes back to an older tick; every quote can be dealt at, and so can what the sidebar shows, but for half of the last decimal of a tick's price |
| `ShownOwn` | `ShownIsOwn`: trends and levels are those of the asset they stand under |
| `Followed` | `ReplayIsFollowed`: candles once and in order as long as no connection breaks off before its frame is announced, none left out unless lost; at rest, if nothing failed, the page says what the server says |

The argument. The pages share the socket only, so `IInv` has a part per page, and one lemma per
action shows that it keeps the part of its page; `OthersKeep` and `LinkKeeps` say that the other
parts rest, and survive what a connection does.

* *Chat.* `Streams`: the tokens written and those on their way are one sequence, in which no token of a
  question comes before an earlier one, repeats excepted. That they are all there needs `Alone`: where users
  are patient, one question lives at a time (`OneLives`, which has to speak of the request, the
  task and the inboxes together), ends are the last thing in an inbox (`EndsComeLast`), and so an
  end closes no bubble but its own; what is in the bubble and on the way to it is `1 .. sent`
  (`Whole`). An open bubble will hear an end (`WillEnd`).
* *Analyses.* `Parsing`, `Fetching`, `Rendering`: what is announced was parsed, what a request was
  answered with is committed, and a screen shows the row's figures. Lemmas about `ToRow`,
  `ToDomain`, `ToOutput` carry a parsed analysis through the table and back.
* *Market.* `Ticking`: with a prompt bridge the ticks come one by one, so the tick in the store, the one
  announced, those on their way and the one on the screen are in this order. `SoundQuotes` is the
  arithmetic of the adapters: lemmas about `Rounded` bound each rounding by half a unit, for Yahoo's
  five decimals and for the mock's two, and `Got` carries them through a request that reads one
  symbol after the other. `TickBoxIsSound` and `QuoteBoxIsSound` do the same for the sidebar:
  the price of a tick moves by half of its last decimal at most, and one rounding of three prices
  (`FormatsKeepOrder`) keeps their order. `Selecting` is about the requests for trends, `Reporting` about the briefing.
* *Replay.* `Straying`: what a page has given up was not announced by then, and that is a failure. As
  long as there was none of it, `Follows` names, for the one session in use, a number `m`, the last frame announced, between
  the frame of the row and the one the open request goes to (`StandsAt`, `LateAt`, `AsksAt`: an
  answer can come before its commit, so the row may be one behind). `Drawn` and `Gapless` put the
  candles and the frames on their way in order below `m`, up to it unless an event was lost.
  `Caring` is what a careful viewer adds: one request open at a time, and buttons and waiting that
  fit what the server will say.

Assumed are the named assumptions of the modules: `SocketAssumption`, `ChatAssumption`, `PagesAssumption`,
`FeedAssumption`, `AdaptersAssumption`, `BriefingAssumption`, `PlayerAssumption` (the constants have
the shape their comments give them) and `DeskAssumption`, whose numbers come from the code: the
bridge rounds what it posts to five decimals, and an instrument with a ticker costs at least 0.05,
below which its spread of two basis points would round to nothing. `PricesAreSound` is what needs both.

What stays with TLC. What the response parser makes of a
text (its result is what `ReloadsKeep` starts from), and the claims of the code that runs refute (section 4). In `TradeJournal`,
`ReplayControl`, `ContextMemory`, `EventDelivery`, `AppLifespan` and `Dashboard` everything that
must happen in the end: liveness under fairness, and `ENABLED`, are beyond the prover.

## 6. Not modelled

* **Outside services** (Claude, news, calendar, Telegram, speech): the models let such a call
  answer, fail, or take any time; what it answers is a value without structure, except where the
  response parser or the briefing's levels are the subject. Of the market adapters `MT5Adapter`,
  `get_price`, `is_market_open` and the tick streams are called by no route.
* **Prompts, health, logging, middleware, settings**: no state that outlives a request.
  `compute_weighted_score` in `prompts/scoring` is called by nothing.
* **Migrations**: columns, indexes and the offline mode.
* **Dashboard**: layout, charts, forms, the performance page, the page's own list of 14 boxes with
  its score, and the position calculator. They read the screen and write the screen.
* **Texts of an analysis** other than trend, suggestion and confidence: reasons and risks
  are there or not, scenarios are passed on as they are. Its support and resistance are parsed and
  stored, and no output contains them.
* **Prices and texts** as data: a request names the value it supplied. The exceptions are the
  models whose subject is arithmetic. A setup name of 51 to 100 characters passes the request's
  validation and fails at the memory record; lengths are not modelled, the failure is one of
  `TradeJournal`'s aborts.
* **The connection pool**: no handler asks for a second connection while it holds one, so waiting
  for a connection adds a delay or a failure at an await, which every model has.
* **README fields**: the README lists `profit_factor` and `daily_pnl[]` in the performance report;
  no code computes them.

## 7. Plan

Done: all of it.

1. `TradeLifecycle`, `TradeJournal`, `TradeJournalProofs`: the component every other one reads.
2. `ReplayPlayback`, `ReplayControl`.
3. `Gateway`, `EventDelivery` (composes the gateway with the writers and the Redis subscription).
4. `Conversation`, `ContextMemory` (composes sessions and analyses).
5. `Performance`.
6. `TradeRules`, `TradingDay`: geometry, risk ratio, realised R, checklist, filter.
7. `ScheduledJobs`, `ScheduledJobsProofs`; `ChatStream`, `LivePages`, `MarketFeed`, `ReplayPage`, `Dashboard`.
8. `AnalysisParser`: the response parser of the analyses as operators.
9. `Migrations`, `AppLifespan`, `AppLifespanProofs`: start, upgrade and stop of the processes.
10. `MarketAdapters`, `MarketDesk`, `Briefing`, and the way of an analysis into the database and back.

11. `ReplayControlProofs`, `ContextMemoryProofs`, with the refinements of `ReplayPlayback` and `Conversation`.
12. `EventDeliveryProofs`, and the proofs of `TradingDay`, now in `PerformanceProofs`.
13. `DashboardProofs`: all safety invariants of `Dashboard`.
14. `Performance` composed with `TradingDay` (one journal for the trader and the reports), and
    `PerformanceProofs`: all properties of both.

Left for later: the weekly summary of `ScheduledJobs` on that same journal. It has one of its own
because its question is about commits and midnights, not about prices.
