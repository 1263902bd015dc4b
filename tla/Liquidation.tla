---------------------------- MODULE Liquidation ----------------------------
(***************************************************************************)
(* Liquidations (x/liquidation): the messages Liquidate and Deleverage,    *)
(* the EndBlocker that closes insolvent positions against the insurance    *)
(* fund (LLP) or against ranked counterparties (ADL), and the exit of an   *)
(* expired market. Messages are atomic. The EndBlocker runs on the block   *)
(* context and goes on after an error, so what a failed fill has written   *)
(* stays. Account indexes are numbers: accounts are visited in their order.*)
(* The loops of the handlers are steps of a job; nothing runs in between.  *)
(***************************************************************************)
EXTENDS PerpTrade, SequencesExt

CONSTANTS
  Pools,                      \* pool accounts, the insurance fund among them
  MaxOrderPrice,
  LiquidationFee,             \* Market.LiquidationFee
  MaxAdlAttemptsPerBlock, MaxAdlCandidatesPerVictim, MaxFillsPerMsg,
  Books,                      \* ledgers with positions opened, to start from
  Offers,                     \* resting orders a liquidation may meet, best price first
  Bases,                      \* base amounts of messages
  Ticks,                      \* mark prices, 0 if stale, and funding rates of a block
  MaxBlocks, MaxMsgs          \* bounds: blocks, and messages in each

ASSUME LiquidationAssumption ==
  /\ Accounts \subseteq Nat /\ Markets \subseteq Nat
  /\ InsuranceFund \in Pools /\ Pools \subseteq Accounts \ {Treasury}
  /\ {MaxOrderPrice, MaxAdlCandidatesPerVictim, MaxFillsPerMsg} \subseteq Nat \ {0}
  /\ {LiquidationFee, MaxAdlAttemptsPerBlock, MaxBlocks, MaxMsgs} \subseteq Nat
  /\ Books \subseteq LedgerType
  /\ Ticks \subseteq [price: [Markets -> Nat], rate: [Markets -> Int]]

VARIABLES
  ledger,
  active,   \* the pools whose status is ACTIVE
  expired,  \* the markets that are EXPIRED
  phase,    \* "begin", "deliver" (messages), "match" (Liquidate), "exit", or the
            \* loops of the sweep: "sweep", "queue", "adl"
  job,      \* the locals of the handler that runs
  blocks, msgs

vars == <<ledger, active, expired, phase, job, blocks, msgs>>

\* todo: accounts, markets: ranked positions of the victim, queue: candidates or offers;
\* left: base amount to close, zero: zero price, attempts: fills left to the sweep,
\* saved: the ledger a failing message goes back to. History: fills done, and whether a
\* fill of the loop over queue was rejected.
Idle == [todo |-> <<>>, markets |-> <<>>, queue |-> <<>>, victim |-> Treasury, market |-> 0,
         long |-> FALSE, left |-> 0, zero |-> 0, attempts |-> 0, saved |-> 0, fills |-> 0, rejected |-> FALSE]

-----------------------------------------------------------------------------
(* Risk of a victim and of an absorber. *)

Size(l, a, m) == l.pos[a][m].size

\* The risk that governs a position: its own, or that of the cross account.
RiskFor(l, a, m) ==
  IF l.pos[a][m].isolated THEN ComputeIsolatedRisk(l, a, m) ELSE ComputeCrossRisk(l, a)
EnvelopeReadable(l, a, m) ==
  IF l.pos[a][m].isolated THEN Marked(l, m) ELSE CrossReadable(l, a)

healthEnvelopeFor(l, a, m) == HealthStatus(RiskFor(l, a, m))

\* FULL_LIQUIDATION or BANKRUPTCY.
Insolvent(l, a, m) == healthEnvelopeFor(l, a, m) \in {FullLiquidation, Bankruptcy}

\* GetLiquidationRiskSnapshot of an open position succeeds.
SnapshotReadable(l, a, m) == Marked(l, m) /\ CrossReadable(l, a)

\* pureComputeZeroPrice: closing at this price keeps the ratio of value to margin.
ZeroPrice(l, a, m) ==
  LET mark == l.mark[m]
      r == RiskFor(l, a, m)
      adjustment == Quo(mark * MaintenanceMarginFraction * r.tav, r.mmr * MarginTick)
      price == IF Size(l, a, m) < 0 THEN mark + adjustment ELSE mark - adjustment
  IN IF Size(l, a, m) = 0 \/ mark = 0 THEN 0
     ELSE IF r.mmr = 0 THEN mark
     ELSE Smaller(Larger(price, 1), MaxOrderPrice)

\* SimulateRiskAfterTakeover: the position is exchanged for the one after the fill;
\* the profit the fill realizes is left out.
SimulateRiskAfterTakeover(l, a, m, delta, price) ==
  LET p == l.pos[a][m]
      c == ApplyFill(p, delta, price)
      cur == ComputeCrossRisk(l, a)
      before == RiskOf(p, l.mark[m], 0)
      after == RiskOf([p EXCEPT !.size = c.size, !.entry = c.entry], l.mark[m], 0)
  IN [tav |-> cur.tav - before.tav + after.tav, imr |-> cur.imr - before.imr + after.imr]

-----------------------------------------------------------------------------
(* Fills that close a position. *)

\* A fill that closes base of a victim, the maker, against peer, without fees.
Close(l, victim, peer, m, price, base) ==
  [maker |-> victim, taker |-> peer, market |-> m, price |-> price, base |-> base,
   takerAsk |-> Size(l, victim, m) < 0, makerFee |-> 0, takerFee |-> 0, noFee |-> TRUE,
   noRiskCheck |-> FALSE, skipMaker |-> FALSE, skipTaker |-> FALSE,
   zeroPrice |-> 0, liquidationFeeBps |-> 0, recipient |-> Treasury]

-----------------------------------------------------------------------------
(* Deleverage, by message or for the insurance fund. *)

\* The checks before the fill.
Deleveragable(l, pools, victim, m, peer, base) ==
  /\ Size(l, victim, m) # 0
  /\ Marked(l, m) /\ EnvelopeReadable(l, victim, m) /\ Insolvent(l, victim, m)
  /\ peer # victim
  /\ base \in 1..Abs(Size(l, victim, m))
  /\ IF peer \in Pools THEN peer \in pools
     ELSE /\ Size(l, peer, m) # 0
          /\ (Size(l, peer, m) > 0) # (Size(l, victim, m) > 0)
          /\ base <= Abs(Size(l, peer, m))

\* Mutant: the risk check of the victim is skipped.
DeleverageFillUnchecked(l, victim, m, peer, base) ==
  [Close(l, victim, peer, m, ZeroPrice(l, victim, m), base)
     EXCEPT !.skipTaker = TRUE, !.skipMaker = TRUE]

DeleverageFill(l, victim, m, peer, base) ==
  [Close(l, victim, peer, m, ZeroPrice(l, victim, m), base) EXCEPT !.skipTaker = TRUE]

\* The check after the fill, of a user.
StaysHealthy(l, peer) ==
  peer \in Pools \/ (CrossReadable(l, peer) /\ HealthStatus(ComputeCrossRisk(l, peer)) = Healthy)

-----------------------------------------------------------------------------
(* Ranking. *)

ComputeLeverage(r) ==
  IF r.imr = 0 THEN 1 ELSE Quo(r.imr * MarginTick, Larger(r.collateral, 1))

\* Mutant: the queue takes counterparties at a loss.
BuildADLQueueAny(l, m, isLong) ==
  LET candidates == {a \in Accounts \ (Pools \cup {Treasury, InsuranceFund}) :
                       /\ Size(l, a, m) # 0 /\ (Size(l, a, m) > 0) = isLong
                       /\ SnapshotReadable(l, a, m)}
      ranked == SetToSortSeq(candidates, <)
      Candidate(a) == [account |-> a, size |-> Abs(Size(l, a, m)), zero |-> ZeroPrice(l, a, m)]
  IN [i \in 1..Smaller(Len(ranked), MaxAdlCandidatesPerVictim) |-> Candidate(ranked[i])]

\* BuildADLQueue: profitable users of the other side, by score, then by index.
BuildADLQueue(l, m, isLong) ==
  LET profit(a) == UnrealizedPnL(l.pos[a][m], l.mark[m])
      score(a) == ComputeLeverage(ComputeCrossRisk(l, a))
                    * Quo(profit(a) * MarginTick, Larger(Abs(l.pos[a][m].entry), 1))
      candidates == {a \in Accounts \ (Pools \cup {Treasury, InsuranceFund}) :
                       /\ Size(l, a, m) # 0 /\ (Size(l, a, m) > 0) = isLong
                       /\ SnapshotReadable(l, a, m)
                       /\ profit(a) > 0}
      ahead(a, b) == score(a) > score(b) \/ (score(a) = score(b) /\ a < b)
      ranked == SetToSortSeq(candidates, ahead)
      Candidate(a) == [account |-> a, size |-> Abs(Size(l, a, m)), zero |-> ZeroPrice(l, a, m)]
  IN [i \in 1..Smaller(Len(ranked), MaxAdlCandidatesPerVictim) |-> Candidate(ranked[i])]

\* rankVictimPositionsByUPnL: the worst first; nothing if a mark cannot be read.
rankVictimPositionsByUPnL(l, a) ==
  LET open == {m \in Markets : Size(l, a, m) # 0}
      profit(m) == UnrealizedPnL(l.pos[a][m], l.mark[m])
      worse(m, n) == profit(m) < profit(n) \/ (profit(m) = profit(n) /\ m < n)
  IN IF \E m \in open : ~Marked(l, m) THEN <<>> ELSE SetToSortSeq(open, worse)

\* The midpoint of two zero prices, rounded in favour of the victim.
ZeroPriceMid(a, b, victimIsLong) == (a + b + (IF victimIsLong THEN 1 ELSE 0)) \div 2

-----------------------------------------------------------------------------
(* Blocks and messages. *)

Init ==
  /\ ledger \in Books
  /\ active = Pools
  /\ expired = {}
  /\ phase = "begin"
  /\ job = Idle
  /\ blocks = 0 /\ msgs = 0

\* The mark of a market is refreshed or has become stale, as it does once the market
\* is expired; a funding round may close, at the mark it finds.
BeginBlock(tick) ==
  /\ phase = "begin" /\ blocks < MaxBlocks
  /\ LET live == Markets \ expired
         stale == {m \in live : tick.price[m] = 0}
         mark == [m \in Markets |-> IF m \in live \ stale THEN tick.price[m] ELSE ledger.mark[m]]
         Round(m) == IF m \in live THEN mark[m] * tick.rate[m] ELSE 0
     IN ledger' = [ledger EXCEPT !.mark = mark,
                                 !.prefix = [m \in Markets |-> @[m] + Round(m)],
                                 !.gated = stale \cup expired]
  /\ phase' = "deliver" /\ blocks' = blocks + 1 /\ msgs' = 0
  /\ UNCHANGED <<active, expired, job>>

Message == phase = "deliver" /\ msgs < MaxMsgs /\ msgs' = msgs + 1 /\ UNCHANGED <<expired, blocks>>

\* By the owner of peer, or by governance when peer is a pool.
Deleverage(victim, m, peer, base) ==
  /\ Message
  /\ Deleveragable(ledger, active, victim, m, peer, base)
  /\ \E o \in {Applied(ledger, DeleverageFill(ledger, victim, m, peer, base))} :
       /\ o.result = "ok"
       /\ StaysHealthy(o.ledger, peer)
       /\ ledger' = o.ledger
  /\ UNCHANGED <<active, phase, job>>

\* UpdatePublicPool to FROZEN: only an empty and healthy pool.
FreezePool(p) ==
  /\ Message
  /\ p \in active
  /\ \A m \in Markets : Size(ledger, p, m) = 0
  /\ HealthStatus(ComputeCrossRisk(ledger, p)) = Healthy
  /\ active' = active \ {p}
  /\ UNCHANGED <<ledger, phase, job>>

-----------------------------------------------------------------------------
(* Liquidate: a reduce-only order of the victim at its zero price, met by the *)
(* best offers of the book. Each fill has a cache context.                    *)

\* needsLiquidation: PARTIAL, FULL or BANKRUPTCY.
needsLiquidation(l, a, m) == healthEnvelopeFor(l, a, m) >= PartialLiquidation

\* The book serves the best price first: the highest bid, the lowest ask.
BestFirst(offers, isLong) ==
  \A i, j \in 1..Len(offers) :
    i < j => IF isLong THEN offers[i].price >= offers[j].price ELSE offers[i].price <= offers[j].price

Liquidate(victim, m, base, offers) ==
  /\ Message
  /\ Size(ledger, victim, m) # 0
  /\ Marked(ledger, m) /\ EnvelopeReadable(ledger, victim, m)
  /\ healthEnvelopeFor(ledger, victim, m) = PartialLiquidation
  /\ base \in 1..Abs(Size(ledger, victim, m))
  /\ BestFirst(offers, Size(ledger, victim, m) > 0)
  /\ phase' = "match"
  /\ job' = [Idle EXCEPT !.victim = victim, !.market = m, !.left = base, !.queue = offers,
                         !.zero = ZeroPrice(ledger, victim, m), !.saved = ledger]
  /\ UNCHANGED <<ledger, active>>

\* The victim is the taker.
LiquidationFill(l, victim, m, o, base, zero) ==
  [Close(l, victim, o.owner, m, o.price, base)
     EXCEPT !.maker = o.owner, !.taker = victim, !.takerAsk = Size(l, victim, m) > 0,
            !.noFee = FALSE, !.zeroPrice = zero, !.liquidationFeeBps = LiquidationFee,
            !.recipient = InsuranceFund]

\* nextMaker has an offer for the loop of matchLiquidation.
Reachable ==
  /\ job.queue # <<>> /\ job.left > 0 /\ job.fills < MaxFillsPerMsg
  /\ LET size == Size(ledger, job.victim, job.market)
         best == Head(job.queue)
     IN /\ size # 0 /\ best.owner # job.victim
        /\ IF size > 0 THEN job.zero <= best.price ELSE job.zero >= best.price

\* One offer: a maker at fault is evicted, a victim at fault ends the loop, another error
\* reverts the message; after a fill the loop ends once the victim has recovered. (The
\* risk check of the victim has read what needsLiquidation reads again.)
MatchOffer ==
  LET v == job.victim
      m == job.market
      best == Head(job.queue)
      base == Smaller(Smaller(job.left, best.base), Abs(Size(ledger, v, m)))
  IN /\ phase = "match" /\ Reachable
     /\ \E o \in {Applied(ledger, LiquidationFill(ledger, v, m, best, base, job.zero))} :
          \/ /\ o.result = "maker"
             /\ job' = [job EXCEPT !.queue = Tail(@)]
             /\ UNCHANGED <<ledger, phase>>
          \/ /\ o.result = "taker"
             /\ phase' = "deliver" /\ job' = Idle
             /\ UNCHANGED ledger
          \/ /\ o.result = "hard"
             /\ ledger' = job.saved /\ phase' = "deliver" /\ job' = Idle
          \/ /\ o.result = "ok"
             /\ ledger' = o.ledger
             /\ IF needsLiquidation(o.ledger, v, m)
                THEN /\ job' = [job EXCEPT !.queue = Tail(@), !.left = @ - base, !.fills = @ + 1]
                     /\ UNCHANGED phase
                ELSE phase' = "deliver" /\ job' = Idle
     /\ UNCHANGED <<active, expired, blocks, msgs>>

\* What is left of the order is discarded.
MatchDone ==
  /\ phase = "match" /\ ~Reachable
  /\ phase' = "deliver" /\ job' = Idle
  /\ UNCHANGED <<ledger, active, expired, blocks, msgs>>

-----------------------------------------------------------------------------
(* The block end: expired markets first, then the sweep. *)

\* IterateAccounts, but for the insurance fund.
AccountOrder == SetToSortSeq(Accounts \ {InsuranceFund}, <)

SweepJob == [Idle EXCEPT !.todo = AccountOrder, !.attempts = MaxAdlAttemptsPerBlock]

\* A market m that comes to expiry is closed if it ever had a mark price.
EndBlock(m) ==
  /\ phase = "deliver"
  /\ IF m \in Markets \ expired
     THEN /\ expired' = expired \cup {m}
          /\ IF ledger.mark[m] = 0 THEN phase' = "sweep" /\ job' = SweepJob
             ELSE phase' = "exit" /\ job' = [Idle EXCEPT !.todo = AccountOrder, !.market = m]
     ELSE phase' = "sweep" /\ job' = SweepJob /\ UNCHANGED expired
  /\ UNCHANGED <<ledger, active, blocks, msgs>>

\* Mutant: the risk of both sides is checked on exit.
ExitFillChecked(l, a, m) == Close(l, a, InsuranceFund, m, l.mark[m], Abs(Size(l, a, m)))

\* At the last mark price, however old.
ExitFill(l, a, m) ==
  [Close(l, a, InsuranceFund, m, l.mark[m], Abs(Size(l, a, m))) EXCEPT !.noRiskCheck = TRUE]

\* ApplyExitPosition, one account.
ApplyExitPosition ==
  /\ phase = "exit" /\ job.todo # <<>>
  /\ LET a == Head(job.todo)
     IN ledger' = IF Size(ledger, a, job.market) = 0 THEN ledger
                  ELSE Applied(ledger, ExitFill(ledger, a, job.market)).ledger
  /\ job' = [job EXCEPT !.todo = Tail(@)]
  /\ UNCHANGED <<active, expired, phase, blocks, msgs>>

ExitDone ==
  /\ phase = "exit" /\ job.todo = <<>>
  /\ phase' = "sweep" /\ job' = SweepJob
  /\ UNCHANGED <<ledger, active, expired, blocks, msgs>>


-----------------------------------------------------------------------------
(* The sweep. Its market is the head of job.markets. *)

\* processAccount: the next account with positions it can rank, or the end of the block.
NextVictim ==
  /\ phase = "sweep" /\ job.markets = <<>>
  /\ LET Ranked(a) == rankVictimPositionsByUPnL(ledger, a) # <<>>
     IN \E i \in {SelectInSeq(job.todo, Ranked)} :
          IF i = 0 \/ job.attempts = 0 THEN phase' = "begin" /\ job' = Idle
          ELSE /\ job' = [job EXCEPT !.todo = SubSeq(@, i + 1, Len(@)), !.victim = job.todo[i],
                                     !.markets = rankVictimPositionsByUPnL(ledger, job.todo[i])]
               /\ UNCHANGED phase
  /\ UNCHANGED <<ledger, active, expired, blocks, msgs>>

\* A position that is not insolvent is passed over; an unreadable health, or no attempt
\* left, ends the account.
PassOver ==
  /\ phase = "sweep" /\ job.markets # <<>>
  /\ LET m == Head(job.markets)
     IN \/ /\ job.attempts = 0 \/ ~EnvelopeReadable(ledger, job.victim, m)
           /\ job' = [job EXCEPT !.markets = <<>>]
        \/ /\ job.attempts > 0 /\ EnvelopeReadable(ledger, job.victim, m)
           /\ ~Insolvent(ledger, job.victim, m)
           /\ job' = [job EXCEPT !.markets = Tail(@)]
  /\ UNCHANGED <<ledger, active, expired, phase, blocks, msgs>>

Filled(j) == [j EXCEPT !.attempts = @ - 1]

\* The conditions under which the insurance fund is offered the whole position.
Absorbable(l, pools, victim, m) ==
  LET size == Size(l, victim, m)
  IN /\ InsuranceFund \in pools
     /\ size # 0 /\ SnapshotReadable(l, victim, m)
     /\ CrossReadable(l, InsuranceFund) /\ ~l.pos[InsuranceFund][m].isolated
     /\ LET post == SimulateRiskAfterTakeover(l, InsuranceFund, m, -size, ZeroPrice(l, victim, m))
        IN post.tav >= post.imr
     /\ Deleveragable(l, pools, victim, m, InsuranceFund, Abs(size))

\* A refusal, and a fill that failed, lead to autoADL.
tryLLPAbsorb ==
  LET v == job.victim
      m == Head(job.markets)
  IN /\ phase = "sweep" /\ job.markets # <<>> /\ job.attempts > 0
     /\ EnvelopeReadable(ledger, v, m) /\ Insolvent(ledger, v, m)
     /\ \/ /\ ~Absorbable(ledger, active, v, m)
           /\ phase' = "queue"
           /\ UNCHANGED <<ledger, job>>
        \/ /\ Absorbable(ledger, active, v, m)
           /\ \E o \in {Applied(ledger, DeleverageFill(ledger, v, m, InsuranceFund, Abs(Size(ledger, v, m))))} :
                /\ ledger' = o.ledger
                /\ \/ /\ o.result = "ok"
                      /\ job' = [Filled(job) EXCEPT !.markets = Tail(@)]
                      /\ UNCHANGED phase
                   \/ /\ o.result # "ok"
                      /\ phase' = "queue"
                      /\ UNCHANGED job
     /\ UNCHANGED <<active, expired, blocks, msgs>>

\* Mutant: a victim that has recovered is closed further.
StillOpen(l, a, m) == Size(l, a, m) # 0 /\ SnapshotReadable(l, a, m)

\* The check at the start and after each fill.
StillVictim(l, a, m) ==
  Size(l, a, m) # 0 /\ SnapshotReadable(l, a, m) /\ Insolvent(l, a, m)

\* autoADL up to its loop.
StartADL ==
  /\ phase = "queue"
  /\ LET v == job.victim
         m == Head(job.markets)
         size == Size(ledger, v, m)
     IN \/ /\ ~StillVictim(ledger, v, m)
           /\ phase' = "sweep"
           /\ job' = [job EXCEPT !.markets = Tail(@)]
        \/ /\ StillVictim(ledger, v, m)
           /\ phase' = "adl"
           /\ job' = [job EXCEPT !.queue = BuildADLQueue(ledger, m, size < 0), !.left = Abs(size),
                                 !.zero = ZeroPrice(ledger, v, m), !.long = size > 0,
                                 !.rejected = FALSE]
  /\ UNCHANGED <<ledger, active, expired, blocks, msgs>>

\* Mutant: the victim's remaining size is no bound.
ADLBaseAll(size, remaining) == size

\* The size of a fill, of what the candidate and the victim have.
ADLBase(size, remaining) == Smaller(size, remaining)

ADLRuns == phase = "adl" /\ job.queue # <<>> /\ job.attempts > 0 /\ job.left > 0

\* The zero prices of the victim and of a candidate do not overlap.
Apart(c) == IF job.long THEN job.zero > c.zero ELSE job.zero < c.zero

\* One candidate of autoADL. A fill that failed stays written, and the loop goes on with
\* the size and the zero price it had.
ADLStep ==
  LET v == job.victim
      m == Head(job.markets)
      c == Head(job.queue)
      price == ZeroPriceMid(job.zero, c.zero, job.long)
      fill == [Close(ledger, v, c.account, m, price, ADLBase(c.size, job.left))
                 EXCEPT !.takerAsk = ~job.long]
  IN /\ ADLRuns
     /\ \/ /\ Apart(c)
           /\ job' = [job EXCEPT !.queue = Tail(@)]
           /\ UNCHANGED ledger
        \/ /\ ~Apart(c)
           /\ \E o \in {Applied(ledger, fill)} :
                /\ ledger' = o.ledger
                /\ \/ /\ o.result # "ok"
                      /\ job' = [job EXCEPT !.queue = Tail(@), !.rejected = TRUE]
                   \/ /\ o.result = "ok" /\ ~StillVictim(o.ledger, v, m)
                      /\ job' = [Filled(job) EXCEPT !.queue = <<>>]
                   \/ /\ o.result = "ok" /\ StillVictim(o.ledger, v, m)
                      /\ job' = [Filled(job) EXCEPT !.queue = Tail(@),
                                                    !.left = Abs(Size(o.ledger, v, m)),
                                                    !.zero = ZeroPrice(o.ledger, v, m)]
     /\ UNCHANGED <<active, expired, phase, blocks, msgs>>

ADLDone ==
  /\ phase = "adl" /\ ~ADLRuns
  /\ phase' = "sweep"
  /\ job' = [job EXCEPT !.markets = Tail(@), !.queue = <<>>, !.left = 0, !.zero = 0,
                        !.long = FALSE, !.rejected = FALSE]
  /\ UNCHANGED <<ledger, active, expired, blocks, msgs>>

-----------------------------------------------------------------------------

NoMarket == -1

Next ==
  \/ \E tick \in Ticks : BeginBlock(tick)
  \/ \E victim \in Accounts, m \in Markets :
       \/ \E base \in Bases, offers \in Offers : Liquidate(victim, m, base, offers)
       \/ \E base \in Bases, peer \in Accounts : Deleverage(victim, m, peer, base)
  \/ \E p \in Pools : FreezePool(p)
  \/ MatchOffer \/ MatchDone
  \/ \E m \in Markets \cup {NoMarket} : EndBlock(m)
  \/ ApplyExitPosition \/ ExitDone
  \/ NextVictim \/ PassOver \/ tryLLPAbsorb \/ StartADL \/ ADLStep \/ ADLDone

Spec == Init /\ [][Next]_vars

-----------------------------------------------------------------------------
(* Properties. *)

\* A size goes towards zero and not beyond.
Shrinks(n, k) == Abs(k) <= Abs(n) /\ (k = 0 \/ IsSameSide(n, k))

\* An open position whose health can be read and asks for liquidation.
InLiquidation(l, a, m) ==
  Size(l, a, m) # 0 /\ Marked(l, m) /\ EnvelopeReadable(l, a, m) /\ needsLiquidation(l, a, m)

InMessage == {phase, phase'} \subseteq {"deliver", "match"}

\* The ledger as the running message found it.
Before == IF phase = "match" THEN job.saved ELSE ledger

\* Funding of the market settled, a message never leaves a user in liquidation with a
\* worse class of health (needsLiquidation: "the victim's health can only climb toward
\* HEALTHY inside the loop"). An isolated position that is closed has no health.
LiquidationHelps ==
  [][InMessage => \A a \in Accounts \ Pools, m \in Markets :
       LET before == SettlePositionFunding(Before, a, m)
           after == SettlePositionFunding(ledger', a, m)
       IN /\ InLiquidation(before, a, m)
          /\ Size(after, a, m) # 0 \/ ~after.pos[a][m].isolated
          => healthEnvelopeFor(after, a, m) <= healthEnvelopeFor(before, a, m)]_vars

\* The positions of a market cancel out and its open interest is the size of either
\* side, through messages, sweeps and exits, the writes of failed fills included.
OpenInterestExact ==
  \A m \in Markets :
    LET S(a) == Size(ledger, a, m)
        Magnitude(a) == Abs(Size(ledger, a, m))
    IN MapThenSumSet(S, Accounts) = 0 /\ MapThenSumSet(Magnitude, Accounts) = 2 * ledger.oi[m]

\* Nobody, the insurance fund included, holds a position in an expired market once its
\* exit is over: ApplyExitPosition closes the users one by one against the fund, and
\* what the fund has taken over before cancels out. A frozen pool holds none either:
\* Deleverage and tryLLPAbsorb ask for an ACTIVE pool.
NoStrandedPositions ==
  phase # "exit" =>
    /\ \A m \in expired : ledger.oi[m] = 0 /\ \A a \in Accounts : Size(ledger, a, m) = 0
    /\ \A p \in Pools \ active, m \in Markets : Size(ledger, p, m) = 0

InSweep == phase \in {"sweep", "queue", "adl"}

\* Unless a fill of the loop was rejected, the sweep touches a victim only while it is
\* insolvent: after each fill autoADL looks at the victim again.
RecoveredVictimsSpared ==
  [][InSweep /\ ~job.rejected /\ ledger' # ledger => Insolvent(ledger, job.victim, Head(job.markets))]_vars

\* A message never grows or flips a position in liquidation, whoever sends it and
\* whichever side the position is on: Liquidate and Deleverage cap the base amount at
\* the victim's size, and a maker in liquidation cannot pass the risk check with a
\* larger position. A block end only shrinks the positions of users, those of victims
\* and those of counterparties, unless a fill of the loop was rejected. (A rejected fill
\* stays written and autoADL goes on with the old size of the victim, so that the next
\* candidate may flip it.)
LiquidationOnlyShrinks ==
  [][\A a \in Accounts \ Pools, m \in Markets :
       /\ InMessage /\ InLiquidation(Before, a, m) => Shrinks(Size(Before, a, m), Size(ledger', a, m))
       /\ phase = "exit" \/ (InSweep /\ ~job.rejected) => Shrinks(Size(ledger, a, m), Size(ledger', a, m))]_vars

\* A sweep touches, beside the victim and the insurance fund, only positions that are in
\* profit and on the other side than the victim's at the start of its loop.
BystandersSpared ==
  [][InSweep => \A a \in Accounts \ {InsuranceFund}, m \in Markets :
       ledger'.pos[a][m] # ledger.pos[a][m] =>
         /\ m = Head(job.markets)
         /\ \/ a = job.victim
            \/ /\ UnrealizedPnL(ledger.pos[a][m], ledger.mark[m]) > 0
               /\ (Size(ledger, a, m) > 0) # job.long]_vars

\* The insurance fund, when it takes over a position and was healthy before, keeps its
\* initial margin: tryLLPAbsorb requires it of the simulated takeover.
TakeoverKeepsMargin ==
  [][/\ phase = "sweep" /\ ledger' # ledger
     /\ HealthStatus(ComputeCrossRisk(ledger, InsuranceFund)) = Healthy
     => HealthStatus(ComputeCrossRisk(ledger', InsuranceFund)) = Healthy]_vars
=============================================================================
