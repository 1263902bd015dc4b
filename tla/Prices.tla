------------------------------- MODULE Prices -------------------------------
(***************************************************************************)
(* How prices reach a perp market, block by block: the proposal that        *)
(* carries the vote extensions, PreBlock (x/oracle), BeginBlock             *)
(* (x/funding), governance messages and the expiry of markets at EndBlock   *)
(* (x/market).  A message that fails leaves no trace, so only successes are *)
(* steps.  Perp is the one perp market that is followed; the other markets  *)
(* have a lifecycle only.                                                   *)
(***************************************************************************)
EXTENDS Funding

CONSTANTS
  Markets, Perp,
  Commits,          \* the extended commits a proposer may hold
  Faulty,           \* validators whose votes are arbitrary
  Books,            \* the order books a block may begin with
  Genesis,          \* the markets there may be at first
  NewExpiries,      \* expiries governance may choose; 0 is none
  Seeds,            \* the ema and the refresh time a new market comes with
  Terms,            \* governance terms of funding
  ParamSets,        \* values of the params
  Gaps,             \* how far a block moves the clock
  MaxTime, MaxMsgs

Market == [status : {"none", "active", "expired"}, expiry : Nat]

\* An average of uint32 prices is one.
ASSUME PricesAssumption ==
  /\ Perp \in Markets /\ Markets \subseteq Nat /\ Faulty \subseteq Validators
  /\ Commits \subseteq [Validators -> Vote]
  /\ \A b \in Books :
       /\ ComputeImpactPrice(b.bids, FALSE) \in 0..MaxUint32
       /\ ComputeImpactPrice(b.asks, TRUE) \in 0..MaxUint32
  /\ Genesis \subseteq [Markets -> Market] /\ NewExpiries \subseteq Nat
  /\ Seeds \subseteq [ema : Int, refreshed : Nat]
  /\ Terms \subseteq [small : Nat, big : Nat, rate : Nat]
  /\ \A t \in Terms : t.small <= t.big
  /\ ParamSets \subseteq [budget : Nat, staleness : Nat, enabled : BOOLEAN]
  /\ Gaps \subseteq Nat \ {0} /\ {MaxTime, MaxMsgs} \subseteq Nat

VARIABLES
  now,          \* block time
  phase,        \* what the block does next
  proposal,     \* the commit of the proposer and whether it is in the block
  stored,       \* the oracle price of Perp
  details,      \* MarketDetails of Perp
  lastRound,    \* LastFundingRoundTimestamp
  markets, expiryIndex,
  params,
  msgs,         \* messages so far, up to MaxMsgs
  basis,        \* history: the oracle timestamp behind the mark
  bookRead      \* history: when a full book was read

market == <<markets, expiryIndex, params, msgs>>
history == <<basis, bookRead>>
vars == <<now, phase, proposal, stored, details, lastRound, market, history>>

\* MarketDetails of a new market: resetRuntimeDetails leaves two fields alone.
resetRuntimeDetails(seed, t) ==
  [mark |-> 0, index |-> 0, bid |-> 0, ask |-> 0, impact |-> 0, ema |-> seed.ema,
   refreshed |-> seed.refreshed, sampled |-> 0, sum |-> 0, n |-> 0, prefix |-> 0,
   small |-> t.small, big |-> t.big, rate |-> t.rate]

\* Auto-expiry is for active markets with an expiry.
Indexed(m) == m.status = "active" /\ m.expiry > 0

Unproposed == [commit |-> [v \in Validators |-> [committed |-> FALSE, index |-> 0, mark |-> 0]],
               injected |-> FALSE]

Init ==
  /\ now = 1 /\ phase = "propose" /\ proposal = Unproposed
  /\ stored = NoPrice
  /\ \E s \in Seeds, t \in Terms : details = resetRuntimeDetails(s, t)
  /\ lastRound = 0
  /\ markets \in Genesis
  /\ expiryIndex = {<<markets[m].expiry, m>> : m \in {k \in Markets : Indexed(markets[k])}}
  /\ params \in {p \in ParamSets : p.enabled}
  /\ msgs = 0 /\ basis = 0 /\ bookRead = 0

-----------------------------------------------------------------------------
(* The proposal and PreBlock. *)

\* The bundle goes first, unless it cannot be encoded or does not fit.
PrepareProposal(c, fits) ==
  /\ phase = "propose"
  /\ \A v \in Committed(c) : VerifyVoteExtension(c[v])
  /\ proposal' = IF params.enabled THEN [commit |-> c, injected |-> fits] ELSE Unproposed
  /\ phase' = "process"
  /\ UNCHANGED <<now, stored, details, lastRound, market, history>>

ProcessProposal ==
  params.enabled => proposal.injected /\ ValidateExtendedCommit(proposal.commit)

\* A rejected proposal costs a round; somebody else proposes.
Rejected ==
  /\ phase = "process"
  /\ ~ProcessProposal
  /\ proposal' = Unproposed
  /\ phase' = "propose"
  /\ UNCHANGED <<now, stored, details, lastRound, market, history>>

PreBlocker ==
  /\ phase = "process"
  /\ ProcessProposal
  /\ stored' = IF params.enabled
                 THEN SetPrice(stored, aggregateFromExtInfo(proposal.commit), now) ELSE stored
  /\ phase' = "begin"
  /\ UNCHANGED <<now, proposal, details, lastRound, market, history>>

-----------------------------------------------------------------------------
(* BeginBlock: the loop over active perp markets, then the funding round. *)

Active(m) == markets[m].status = "active"

BeginBlocker(b) ==
  /\ phase = "begin"
  /\ \E px \in {GetPrice(stored, now)},
        bid \in {ComputeImpactPrice(b.bids, FALSE)}, ask \in {ComputeImpactPrice(b.asks, TRUE)} :
       IF Active(Perp)
         THEN /\ \E d \in {processMarketSample(details, bid, ask, px, now)} :
                   details' = refreshMarkPrice(d, px, now)
              /\ basis' = IF px # NoPrice /\ details'.mark # 0 THEN px.time ELSE basis
              /\ bookRead' = IF SampleDue(details, now) /\ bid # 0 /\ ask # 0
                               THEN now ELSE bookRead
         ELSE UNCHANGED <<details, history>>
  /\ phase' = IF RoundDue(lastRound, now) THEN "settle" ELSE "deliver"
  /\ proposal' = Unproposed
  /\ UNCHANGED <<now, stored, lastRound, market>>

SettleAllMarkets ==
  /\ phase = "settle"
  /\ details' = IF Active(Perp) THEN settleMarket(details) ELSE details
  /\ lastRound' = now
  /\ phase' = "deliver"
  /\ UNCHANGED <<now, proposal, stored, market, history>>

-----------------------------------------------------------------------------
(* Governance. *)

Message == phase = "deliver" /\ msgs < MaxMsgs /\ msgs' = msgs + 1

\* The index entry a market should have.
Entry(m, r) == IF Indexed(r) THEN {<<r.expiry, m>>} ELSE {}

\* Mutant: the old entry goes only when the market loses its place.
updateMarketKeeps(m, new) ==
  (IF Indexed(new) THEN expiryIndex ELSE expiryIndex \ Entry(m, markets[m])) \cup Entry(m, new)

\* The index entry of a market moves with its status and expiry.
updateMarket(m, new) == (expiryIndex \ Entry(m, markets[m])) \cup Entry(m, new)

CreateMarket(m, expiry) ==
  /\ Message
  /\ markets[m].status = "none"
  /\ \E new \in {[status |-> "active", expiry |-> expiry]} :
       /\ markets' = [markets EXCEPT ![m] = new]
       /\ expiryIndex' = updateMarket(m, new)
  /\ IF m = Perp
       THEN \E s \in Seeds, t \in Terms : details' = resetRuntimeDetails(s, t)
       ELSE UNCHANGED details
  /\ UNCHANGED <<now, phase, proposal, stored, lastRound, params, history>>

\* Mutant: an expired market can be listed again.
UpdatableAlways(m, status, expiry) ==
  /\ markets[m].status # "none"
  /\ expiry > 0 => status = "active" /\ expiry > now

\* EXPIRED is terminal; a new expiry lies ahead and only an active market has one.
Updatable(m, status, expiry) ==
  /\ markets[m].status = "active"
  /\ expiry > 0 => status = "active" /\ expiry > now

UpdateMarket(m, status, expiry) ==
  /\ Message
  /\ Updatable(m, status, expiry)
  /\ \E new \in {[status |-> status, expiry |-> expiry]} :
       /\ markets' = [markets EXCEPT ![m] = new]
       /\ expiryIndex' = updateMarket(m, new)
  /\ UNCHANGED <<now, phase, proposal, stored, details, lastRound, params, history>>

\* Expired markets are not excluded.
UpdateMarketDetails(t) ==
  /\ Message
  /\ markets[Perp].status # "none"
  /\ details' = [details EXCEPT !.small = t.small, !.big = t.big, !.rate = t.rate]
  /\ UNCHANGED <<now, phase, proposal, stored, lastRound, markets, expiryIndex, params, history>>

\* MsgUpdateParams of x/market and of x/oracle.
UpdateParams(p) ==
  /\ Message
  /\ params' = p
  /\ UNCHANGED <<now, phase, proposal, stored, details, lastRound, markets, expiryIndex, history>>

-----------------------------------------------------------------------------
(* EndBlock and the next block. *)

EntryBefore(e, f) == e[1] < f[1] \/ (e[1] = f[1] /\ e[2] < f[2])

Due(t) == {e \in expiryIndex : e[1] <= t}

\* The entries the budget allows, in key order.  Every entry is of an active
\* market (ExpiryIndexExact), so the repair of other entries has nothing to do.
iterateExpired ==
  {e \in Due(now) : Cardinality({f \in Due(now) : EntryBefore(f, e)}) < params.budget}

\* applyMarketExit's errors are swallowed: the status stands whatever it does.
EndBlocker(gap) ==
  /\ phase = "deliver"
  /\ now + gap <= MaxTime
  /\ \E out \in {iterateExpired} :
       /\ markets' = [m \in Markets |->
                        IF \E e \in out : e[2] = m THEN [markets[m] EXCEPT !.status = "expired"]
                                                   ELSE markets[m]]
       /\ expiryIndex' = expiryIndex \ out
  /\ now' = now + gap
  /\ phase' = "propose"
  /\ UNCHANGED <<proposal, stored, details, lastRound, params, msgs, history>>

Next ==
  \/ \E c \in Commits, fits \in BOOLEAN : PrepareProposal(c, fits)
  \/ Rejected
  \/ PreBlocker
  \/ \E b \in Books : BeginBlocker(b)
  \/ SettleAllMarkets
  \/ \E m \in Markets, e \in NewExpiries :
       CreateMarket(m, e) \/ \E s \in {"active", "expired"} : UpdateMarket(m, s, e)
  \/ \E t \in Terms : UpdateMarketDetails(t)
  \/ \E p \in ParamSets : UpdateParams(p)
  \/ \E gap \in Gaps : EndBlocker(gap)

Spec == Init /\ [][Next]_vars

-----------------------------------------------------------------------------
(* Properties. *)

\* gateMarkPrice lets the mark through to its consumers.
gateMarkPrice ==
  /\ details.mark # 0
  /\ params.staleness > 0 =>
       details.refreshed # 0 /\ now - details.refreshed <= params.staleness

\* Every variable holds what its declaration says; a stored price is complete.
TypeOK ==
  /\ now \in Nat /\ phase \in {"propose", "process", "begin", "settle", "deliver"}
  /\ proposal \in [commit : [Validators -> Vote], injected : BOOLEAN]
  /\ stored \in OraclePrice /\ (stored.index = 0 <=> stored.mark = 0)
  /\ (stored.index = 0 <=> stored.time = 0)
  /\ details \in MarketDetails /\ details.small <= details.big
  /\ lastRound \in Nat /\ markets \in [Markets -> Market]
  /\ params \in ParamSets /\ msgs \in 0..MaxMsgs /\ basis \in Nat /\ bookRead \in Nat

\* As long as faulty validators hold less than half of the power that voted a
\* price, the index aggregateFromExtInfo writes is within the deviation
\* threshold of what honest validators voted, outlier pass included.
AggregateNearHonest ==
  LET all    == Samples(proposal.commit)
      honest == all \ Faulty
      index(v) == proposal.commit[v].index
  IN (/\ phase = "begin" /\ params.enabled /\ stored.time = now
      /\ 2 * PowerOf(all \cap Faulty) < PowerOf(all))
       => /\ \E v \in honest : stored.index * Bps <= index(v) * (Bps + DeviationThresholdBps)
          /\ \E v \in honest : stored.index * Bps >= index(v) * (Bps - DeviationThresholdBps)

\* The mark refreshMarkPrice writes lies between the oracle's mark and the
\* band around the index, whatever the order book, the stored average, the
\* collapse of the index or the fields a new market came with.
MarkNearOracle ==
  (phase \in {"settle", "deliver"} /\ Active(Perp) /\ details.mark # 0 /\ details.refreshed = now)
    => /\ \/ details.mark >= stored.index - Band(stored.index)
          \/ details.mark >= stored.mark
       /\ \/ details.mark <= stored.index + Band(stored.index)
          \/ details.mark <= stored.mark

\* A mark that passes gateMarkPrice rests on votes that are at most the age
\* limit of the oracle plus the staleness limit of the gate old.
GatedMarkFresh ==
  (gateMarkPrice /\ params.staleness > 0) => now - basis <= MaxAgeMs + params.staleness

\* The order-book price in the mark was read within the sampling interval,
\* also when the oracle was stale or a side of the book was empty since.
BookPriceFresh ==
  (phase \in {"settle", "deliver"} /\ details.refreshed = now /\ details.impact # 0 /\ Active(Perp))
    => now - bookRead < PremiumSampleInterval

\* The claim above settleMarket, "TotalPremiumSamples > 0 => at least one
\* in-window processMarketSample succeeded => d.MarkPrice > 0", and that the
\* mark a round is settled at was refreshed after the round before.
SampledMarketsMarked ==
  (details.n > 0 /\ Active(Perp)) => details.mark > 0 /\ details.refreshed > lastRound

\* The expiry index lists exactly the active markets with an expiry, after
\* any sequence of creations, updates and expiries.
ExpiryIndexExact ==
  expiryIndex = {<<markets[m].expiry, m>> : m \in {k \in Markets : Indexed(markets[k])}}

\* Shorts pay longs only after a round whose premiums were negative in sum,
\* whatever the interest correction does, and a round moves the prefix sum by
\* no more than the big clamp on the mark.
FundingFollowsPremium ==
  [][details'.prefix # details.prefix =>
       /\ details'.prefix < details.prefix => details.sum < 0
       /\ (details'.prefix - details.prefix) * FundingPeriodDivisor <= details.mark * details.big
       /\ (details.prefix - details'.prefix) * FundingPeriodDivisor <= details.mark * details.big]_vars

\* An expired market keeps its status, and neither its mark nor its funding
\* moves again.
ExpiredStay ==
  \A m \in Markets : markets[m].status = "expired" =>
    /\ markets'[m] = markets[m]
    /\ m = Perp => /\ details'.mark = details.mark /\ details'.ema = details.ema
                   /\ details'.prefix = details.prefix /\ details'.n = details.n
\* The rule above, for every step.
ExpiredMarketsStop == [][ExpiredStay]_vars
=============================================================================
