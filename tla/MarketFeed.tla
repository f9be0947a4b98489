------------------------------ MODULE MarketFeed -----------------------------
(***************************************************************************)
(* Prices: the MT5 bridge posts one tick after the other; the server keeps *)
(* the last in Redis and announces it.                                     *)
(***************************************************************************)
EXTENDS LiveSocket

CONSTANTS MaxTicks      \* ticks the bridge sends (bound)

ASSUME FeedAssumption == MaxTicks \in Nat

Ticks == 1 .. MaxTicks

VARIABLES
  prompt,       \* whether every post is answered within the bridge's timeout
  tick,         \* the last tick the bridge has posted
  ingest,       \* how far the server is with each
  stored,       \* market:price
  announced,    \* the last tick published
  price         \* on each screen: a tick, or 0 for a quote

feedVars == <<prompt, tick, ingest, stored, announced, price>>

FeedInit ==
  /\ prompt \in BOOLEAN
  /\ tick = 0
  /\ ingest = [n \in Ticks |-> "none"]
  /\ stored = 0
  /\ announced = 0
  /\ price = [b \in Browsers |-> 0]

(* Defect: the bridge does not wait.                                       *)
PostAtOnce ==
  /\ page = "market" /\ tick < MaxTicks
  /\ tick' = tick + 1
  /\ ingest' = [ingest EXCEPT ![tick + 1] = "posted"]
  /\ UNCHANGED <<prompt, stored, announced, price, socketVars>>

(* main, post_ingest: the next tick follows the answer to the last or its  *)
(* timeout.                                                                *)
Post ==
  /\ page = "market" /\ tick < MaxTicks
  /\ prompt /\ tick # 0 => ingest[tick] = "over"
  /\ tick' = tick + 1
  /\ ingest' = [ingest EXCEPT ![tick + 1] = "posted"]
  /\ UNCHANGED <<prompt, stored, announced, price, socketVars>>

(* ingest_market_data                                                      *)
Store(n) ==
  /\ ingest[n] = "posted"
  /\ ingest' = [ingest EXCEPT ![n] = "stored"]
  /\ stored' = n
  /\ UNCHANGED <<prompt, tick, announced, price, socketVars>>

AnnounceTick(n) ==
  /\ ingest[n] = "stored"
  /\ ingest' = [ingest EXCEPT ![n] = "over"]
  /\ announced' = n
  /\ Announce(Event("market.ticker_updated", NONE, n))
  /\ UNCHANGED <<prompt, tick, stored, price>>

(* The post is refused, lost, or Redis fails.                              *)
FailTick(n) ==
  /\ ingest[n] \in {"posted", "stored"}
  /\ ingest' = [ingest EXCEPT ![n] = "over"]
  /\ UNCHANGED <<prompt, tick, stored, announced, price, socketVars>>

(* onWsEvent: market.ticker_updated.                                       *)
ShowTick(b) ==
  /\ page = "market" /\ Take(b)
  /\ price' = [price EXCEPT ![b] = Head(inbox[b]).n]
  /\ UNCHANGED <<prompt, tick, ingest, stored, announced>>

FeedNext ==
  \/ Post
  \/ \E n \in Ticks : Store(n) \/ AnnounceTick(n) \/ FailTick(n)
  \/ \E b \in Browsers : ShowTick(b)
=============================================================================
