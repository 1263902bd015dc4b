----------------------------- MODULE OracleFeed -----------------------------
(***************************************************************************)
(* Where the price in a validator's vote comes from: the sidecar            *)
(* (services/oracle), in which one goroutine per provider feeds the         *)
(* orchestrator, and the daemon (x/oracle/daemon), a goroutine of the chain *)
(* process that polls the sidecar into the cache that ExtendVote reads.     *)
(* Start and Stop are called by the goroutines of the application. A step   *)
(* is one critical section, one access to an unprotected field of Daemon,   *)
(* or one half of a call to the sidecar. lastUpdate is left out: only       *)
(* LastUpdate reads it, and nothing calls that.                             *)
(***************************************************************************)
EXTENDS Integers, FiniteSets, FiniteSetsExt, Sequences

CONSTANTS
  Providers,
  Quotes,                 \* what each provider may quote; 0: rounded down to nothing
  Pairs, Markets, PairOf, \* PairFromAssets of the assets of a market
  ChanCap,                \* capacity of priceCh
  SampleMaxAge, MinSources,       \* AggregateConfig
  RecomputeEvery,         \* aggregateInterval
  FetchTimeout, MaxAge,   \* Config of the daemon
  ScaleUp, ScaleDown,     \* powers of ten, one of them 1
  MaxUint32,
  MaxTime, MaxFetches     \* bounds: clock, batches of samples

ASSUME FeedAssumption ==
  /\ Quotes \in [Providers -> SUBSET Nat]
  /\ Markets \subseteq Nat \ {0} /\ PairOf \in [Markets -> Pairs]
  /\ {ChanCap, SampleMaxAge, RecomputeEvery, MaxAge, ScaleUp, ScaleDown} \subseteq Nat \ {0}
  /\ {MinSources, FetchTimeout, MaxUint32, MaxTime, MaxFetches} \subseteq Nat

VARIABLES
  now,
  priceCh,   \* the channel, and behind it the providers that wait for room in it
  latest,    \* per pair and provider: the last sample
  snapshot, updatedAt,
  listed,    \* markets of the chain
  crashed,   \* the chain process died of a panic
  d,         \* Daemon; client stands for client, cancelFn and doneCh, set and cleared together
  loop,      \* the goroutine run: where it is, and its locals
  resolver,  \* pairToIdx, 0: no such pair
  cache,     \* per market: price, UpdatedAt; history: the oldest sample behind it
  stop,      \* how far the Stop is that took the fields
  fetches,
  app        \* how far the application is with Start: "new", "starting" or "built"

feed == <<priceCh, latest, snapshot, updatedAt, fetches>>
daemon == <<crashed, d, loop, resolver, cache, stop, app>>
vars == <<now, feed, listed, daemon>>

NoSample == [value |-> 0, at |-> 0]
\* The price of a pair with its history: the time of the oldest sample in it.
NoPrice == [price |-> 0, since |-> 0]
NoEntry == [price |-> 0, at |-> 0, since |-> 0]

FreshDaemon ==
  [enabled |-> TRUE, started |-> FALSE, client |-> FALSE, cancelled |-> FALSE, done |-> FALSE,
   conn |-> FALSE]
NoLoop == [pc |-> "none", first |-> TRUE, doneCh |-> FALSE, called |-> 0, replied |-> FALSE,
           reply |-> [p \in Pairs |-> NoPrice], at |-> 0]

Init ==
  /\ now = 1 /\ priceCh = <<>>
  /\ latest = [q \in Pairs |-> [p \in Providers |-> NoSample]]
  /\ snapshot = [q \in Pairs |-> NoPrice] /\ updatedAt = now /\ fetches = 0
  /\ listed \in SUBSET Markets
  /\ crashed = FALSE /\ d \in {[FreshDaemon EXCEPT !.enabled = e] : e \in BOOLEAN}
  /\ loop = NoLoop /\ resolver = [p \in Pairs |-> 0] /\ cache = [m \in Markets |-> NoEntry]
  /\ stop = "idle" /\ app = "new"

-----------------------------------------------------------------------------
(* The sidecar. *)

\* fetchAndPush: the samples carry the time of the answer; a pair without a price that
\* can be parsed is left out. A fetch that fails does nothing, and so does a batch
\* without samples. The senders that wait for room in the channel queue behind it.
fetchAndPush(p) ==
  /\ fetches < MaxFetches /\ fetches' = fetches + 1
  /\ \A i \in ChanCap + 1 .. Len(priceCh) : priceCh[i].from # p
  /\ \E qs \in SUBSET Pairs \ {{}} : \E v \in [qs -> Quotes[p]] :
       priceCh' = Append(priceCh, [from |-> p, at |-> now, value |-> v])
  /\ UNCHANGED <<now, latest, snapshot, updatedAt, listed, daemon>>

\* One slot per pair and provider; a pair the provider had no price for keeps its slot.
ingest ==
  /\ priceCh # <<>> /\ priceCh' = Tail(priceCh)
  /\ LET b == Head(priceCh)
     IN latest' = [q \in Pairs |->
          IF q \notin DOMAIN b.value THEN latest[q]
          ELSE [latest[q] EXCEPT ![b.from] = [value |-> b.value[q], at |-> b.at]]]
  /\ UNCHANGED <<now, snapshot, updatedAt, fetches, listed, daemon>>

\* The lower of the two middle samples, if their number is even.
Median(vs, value) ==
  LET half == (Cardinality(vs) + 1) \div 2
  IN CHOOSE x \in {value[v] : v \in vs} :
       /\ Cardinality({v \in vs : value[v] <= x}) >= half
       /\ Cardinality({v \in vs : value[v] < x}) < half

\* Mutant: a sample stays in the median for ever.
FreshAlways(q) == {p \in Providers : latest[q][p].value > 0}

Fresh(q) == {p \in Providers : latest[q][p].value > 0 /\ now - latest[q][p].at <= SampleMaxAge}

Aggregate(q) ==
  LET fresh == Fresh(q)
      value == [p \in fresh |-> latest[q][p].value]
  IN IF fresh = {} \/ Cardinality(fresh) < MinSources THEN NoPrice
     ELSE [price |-> Median(fresh, value), since |-> Min({latest[q][p].at : p \in fresh})]

\* The tick of the orchestrator.
recomputeSnapshot ==
  /\ now - updatedAt = RecomputeEvery
  /\ snapshot' = [q \in Pairs |-> Aggregate(q)] /\ updatedAt' = now
  /\ UNCHANGED <<now, priceCh, latest, fetches, listed, daemon>>

\* The process ends, by a signal or a crash, and is started again. While it is down calls
\* fail, which they may do at any time.
SidecarRestarts ==
  /\ priceCh' = <<>> /\ latest' = [q \in Pairs |-> [p \in Providers |-> NoSample]]
  /\ snapshot' = [q \in Pairs |-> NoPrice] /\ updatedAt' = now
  /\ UNCHANGED <<now, fetches, listed, daemon>>

-----------------------------------------------------------------------------
(* The daemon: Start and Stop. *)

idle == UNCHANGED <<now, feed, listed>>

\* The application calls Start once, while it is built, and Stop when it is closed. (A
\* second Start finds started set and returns.)
Start ==
  /\ ~crashed /\ app = "new" /\ ~d.started
  /\ d' = [d EXCEPT !.started = TRUE] /\ app' = IF d.enabled THEN "starting" ELSE "built"
  /\ idle /\ UNCHANGED <<crashed, loop, resolver, cache, stop>>

\* Under mu. A client that cannot be made is no error.
StartRun ==
  /\ ~crashed /\ app = "starting" /\ app' = "built"
  /\ \/ /\ d' = [d EXCEPT !.client = TRUE, !.conn = TRUE]
        /\ loop' = [loop EXCEPT !.pc = "spawned"]
     \/ d' = [d EXCEPT !.started = FALSE] /\ UNCHANGED loop
  /\ idle /\ UNCHANGED <<crashed, resolver, cache, stop>>

\* The part of Stop under mu: it takes the fields and leaves nil.
Stop ==
  /\ ~crashed /\ app = "built" /\ d.client
  /\ d' = [d EXCEPT !.client = FALSE] /\ stop' = "cancel"
  /\ idle /\ UNCHANGED <<crashed, loop, resolver, cache, app>>

\* A Stop that finds nil waits for nobody.
StopNothing ==
  /\ ~crashed /\ app = "built" /\ ~d.client
  /\ d' = [d EXCEPT !.started = FALSE]
  /\ idle /\ UNCHANGED <<crashed, loop, resolver, cache, stop, app>>

StopCancel ==
  /\ ~crashed /\ stop = "cancel" /\ stop' = "wait"
  /\ d' = [d EXCEPT !.cancelled = TRUE]
  /\ idle /\ UNCHANGED <<crashed, loop, resolver, cache, app>>

StopReturn ==
  /\ ~crashed /\ stop = "wait" /\ d.done /\ stop' = "returned"
  /\ d' = [d EXCEPT !.started = FALSE, !.conn = FALSE]
  /\ idle /\ UNCHANGED <<crashed, loop, resolver, cache, app>>

-----------------------------------------------------------------------------
(* The goroutine of the daemon. It reads client and doneCh without mu, so that it may *)
(* still see a field that Stop has set to nil.                                        *)

Goes(pc) ==
  /\ loop' = [loop EXCEPT !.pc = pc]
  /\ UNCHANGED crashed

Panics ==
  /\ crashed' = TRUE /\ UNCHANGED loop

\* The deferred close takes its argument now.
runEnter ==
  /\ ~crashed /\ loop.pc = "spawned"
  /\ \E seen \in {d.client, TRUE} : loop' = [loop EXCEPT !.pc = "probe", !.doneCh = seen]
  /\ idle /\ UNCHANGED <<crashed, d, resolver, cache, stop, app>>

\* A method of a nil client panics at its first use of a field.
ProbeVersion ==
  /\ ~crashed /\ loop.pc = "probe"
  /\ Goes("probing") \/ (~d.client /\ Panics)
  /\ idle /\ UNCHANGED <<d, resolver, cache, stop, app>>

\* The answer, or its absence, is only logged.
ProbeReturns ==
  /\ ~crashed /\ loop.pc = "probing" /\ Goes("refresh")
  /\ idle /\ UNCHANGED <<d, resolver, cache, stop, app>>

\* Refresh walks the markets by index: of those with the same pair the last one stays.
\* An error leaves the maps as they are.
refreshResolver ==
  /\ ~crashed /\ loop.pc = "refresh" /\ Goes(IF loop.first THEN "poll" ELSE "select")
  /\ \/ resolver' = [q \in Pairs |-> Max({m \in listed : PairOf[m] = q} \cup {0})]
     \/ UNCHANGED resolver
  /\ idle /\ UNCHANGED <<d, cache, stop, app>>

poll ==
  /\ ~crashed /\ loop.pc = "poll"
  /\ \/ /\ loop' = [loop EXCEPT !.pc = "calling", !.first = FALSE, !.called = now]
        /\ UNCHANGED crashed
     \/ ~d.client /\ Panics
  /\ idle /\ UNCHANGED <<d, resolver, cache, stop, app>>

\* Server.Prices reads the snapshot.
Prices ==
  /\ ~crashed /\ loop.pc = "calling" /\ ~loop.replied
  /\ loop' = [loop EXCEPT !.replied = TRUE, !.reply = snapshot]
  /\ idle /\ UNCHANGED <<crashed, d, resolver, cache, stop, app>>

NoReply(l) == [l EXCEPT !.replied = FALSE, !.reply = [p \in Pairs |-> NoPrice], !.called = 0]

Quoted == {q \in Pairs : loop.reply[q] # NoPrice}

\* The time of all prices is that of the answer, whatever their own.
FetchPrices ==
  /\ ~crashed /\ loop.pc = "calling" /\ loop.replied /\ now - loop.called <= FetchTimeout
  /\ loop' = IF Quoted = {} THEN [NoReply(loop) EXCEPT !.pc = "select"]
             ELSE [loop EXCEPT !.pc = "storing", !.at = now]
  /\ idle /\ UNCHANGED <<crashed, d, resolver, cache, stop, app>>

\* Timeout, cancellation or no sidecar.
FetchFails ==
  /\ ~crashed /\ loop.pc = "calling"
  /\ loop' = [NoReply(loop) EXCEPT !.pc = "select"]
  /\ idle /\ UNCHANGED <<crashed, d, resolver, cache, stop, app>>

scalePrice(raw) == (raw * ScaleUp) \div ScaleDown

\* A pair without market, a price that does not fit or that is scaled to 0 is dropped.
Stores(q) == resolver[q] # 0 /\ scalePrice(loop.reply[q].price) \in 1..MaxUint32

\* The body of the loop over the quotes, which come in any order.
Store(q) ==
  /\ ~crashed /\ loop.pc = "storing" /\ q \in Quoted
  /\ cache' = IF ~Stores(q) THEN cache
              ELSE [cache EXCEPT ![resolver[q]] =
                      [price |-> scalePrice(loop.reply[q].price), at |-> loop.at,
                       since |-> loop.reply[q].since]]
  /\ loop' = IF Quoted = {q} THEN [NoReply(loop) EXCEPT !.pc = "select", !.at = 0]
             ELSE [loop EXCEPT !.reply[q] = NoPrice]
  /\ idle /\ UNCHANGED <<crashed, d, resolver, stop, app>>

\* The tickers.
Tick(pc) ==
  /\ ~crashed /\ loop.pc = "select" /\ Goes(pc)
  /\ idle /\ UNCHANGED <<d, resolver, cache, stop, app>>

\* Mutant: the goroutine ends without a sign.
DoneSilently == d

\* The deferred close.
Done == [d EXCEPT !.done = TRUE]

\* ctx.Done. To close a nil channel is a panic.
runReturn ==
  /\ ~crashed /\ loop.pc = "select" /\ d.cancelled
  /\ IF loop.doneCh THEN Goes("ended") /\ d' = Done ELSE Panics /\ UNCHANGED d
  /\ idle /\ UNCHANGED <<resolver, cache, stop, app>>

-----------------------------------------------------------------------------
(* Environment. *)

\* A market is created in a block.
List(m) ==
  /\ m \notin listed /\ listed' = listed \cup {m}
  /\ UNCHANGED <<now, feed, daemon>>

\* The chain process is started again after a panic or after its end.
Restart ==
  /\ crashed \/ stop = "returned"
  /\ crashed' = FALSE /\ d' = [FreshDaemon EXCEPT !.enabled = d.enabled] /\ loop' = NoLoop
  /\ resolver' = [p \in Pairs |-> 0] /\ cache' = [m \in Markets |-> NoEntry]
  /\ stop' = "idle" /\ app' = "new"
  /\ idle

\* The orchestrator's ticker is on time.
Advance ==
  /\ now < MaxTime /\ now' = now + 1
  /\ now - updatedAt < RecomputeEvery
  /\ UNCHANGED <<feed, listed, daemon>>

Sidecar ==
  \/ \E p \in Providers : fetchAndPush(p)
  \/ ingest \/ recomputeSnapshot \/ SidecarRestarts

Run ==
  \/ runEnter \/ ProbeVersion \/ ProbeReturns \/ refreshResolver \/ poll
  \/ Prices \/ FetchPrices \/ FetchFails \/ \E q \in Pairs : Store(q)
  \/ Tick("poll") \/ Tick("refresh") \/ runReturn

Next ==
  \/ Sidecar \/ Start \/ StartRun \/ Run \/ Restart \/ Advance
  \/ Stop \/ StopNothing \/ StopCancel \/ StopReturn
  \/ \E m \in Markets : List(m)

Spec == Init /\ [][Next]_vars

\* A goroutine that can go on does, a call to the sidecar ends (FetchTimeout), and a
\* select with several ready cases takes each of them in the long run.
FairSpec ==
  /\ Spec /\ WF_vars(StopCancel \/ StopReturn)
  /\ WF_vars(Run) /\ SF_vars(runReturn)

-----------------------------------------------------------------------------
(* Properties. *)

\* What ExtendVote finds in the cache.
ExtendVote == {m \in Markets : cache[m].price # 0 /\ now - cache[m].at <= MaxAge}

\* What a validator votes for a market rests on samples no older than the limits of
\* sidecar and daemon, one tick and one call together, although poll stamps every price
\* with the time of its own answer, a provider may wait for the channel, and the sidecar
\* serves its last snapshot whatever its age.
VotesBacked ==
  \A m \in ExtendVote :
    now - cache[m].since <= SampleMaxAge + RecomputeEvery + FetchTimeout + MaxAge

\* "Stop signals the goroutine to exit and blocks until the gRPC connection is closed":
\* every Stop returns, unless the process dies of a panic first, and once the Stop that
\* took the goroutine has returned, this has ended and the connection is closed. Nobody
\* waits for ever on doneCh, and nothing writes the cache after the end.
StopEndsTheDaemon ==
  /\ [](stop = "returned" /\ ~crashed => loop.pc = "ended" /\ ~d.conn)
  /\ stop = "cancel" ~> (stop = "returned" \/ crashed)
=============================================================================
