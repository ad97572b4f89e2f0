------------------------- MODULE RiskPipelineProofs -------------------------
(* Proofs about RiskPipeline, for every set of symbols, prices, sizes,      *)
(* capitals and equities and for every limit.                               *)
EXTENDS RiskPipeline, TLAPS

-----------------------------------------------------------------------------
(* Arithmetic.                                                             *)

\* A quotient rounded down, times its divisor, is at most the dividend.
LEMMA DivBounds ==
    ASSUME NEW a \in Nat, NEW b \in Nat \ {0}
    PROVE  a \div b \in Nat /\ (a \div b) * b <= a
OBVIOUS

\* Half a size is a size no larger.
LEMMA HalfIs ==
    ASSUME NEW a \in Nat
    PROVE  a \div 2 \in Nat /\ a \div 2 <= a
OBVIOUS

LEMMA ProductIsNat ==
    ASSUME NEW a \in Nat, NEW b \in Nat
    PROVE  a * b \in Nat
OBVIOUS

\* A smaller size costs less.
LEMMA ProductMono ==
    ASSUME NEW a \in Nat, NEW b \in Nat, NEW k \in Nat, a <= b
    PROVE  a * k <= b * k
OBVIOUS

LEMMA PctIsNat ==
    ASSUME NEW n \in Nat, NEW k \in Nat
    PROVE  Pct(n, k) \in Nat
<1>1. n * k \in Nat
    BY ProductIsNat
<1> QED BY <1>1, DivBounds DEF Pct

LEMMA LeastIs ==
    ASSUME NEW m \in Nat, NEW n \in Nat
    PROVE  Least(m, n) \in Nat /\ Least(m, n) <= n
BY DEF Least

-----------------------------------------------------------------------------
(* The books.                                                              *)

\* The exposure with n more on a symbol is inside both of its limits.
ExposureFits(p, s, n) ==
    /\ MaxLeverage > 0 => p.total["BUY"] + p.total["SELL"] + n <= MaxLeverage * p.equity
    /\ MaxSymbolGrossPct > 0 =>
          (p.gross["BUY"][s] + p.gross["SELL"][s] + n) * 100 <= MaxSymbolGrossPct * p.equity

LEMMA LimitsAreNat ==
    ASSUME NEW p \in PipelineType
    PROVE  MaxLeverage * p.equity \in Nat /\ MaxSymbolGrossPct * p.equity \in Nat
BY ProductIsNat, PipelineNatAssumption DEF PipelineType

\* What CheckOrder lets pass fits, and so does anything smaller.
LEMMA CheckOrderIs ==
    ASSUME NEW p \in PipelineType, NEW s \in Symbols, NEW n \in Nat, NEW m \in Nat,
           m <= n, CheckOrder(p, s, n) = "ok"
    PROVE  ExposureFits(p, s, m)
<1>1. /\ p.total["BUY"] \in Int /\ p.total["SELL"] \in Int
      /\ p.gross["BUY"][s] \in Nat /\ p.gross["SELL"][s] \in Nat
    BY DEF PipelineType, Sides
<1>2. MaxLeverage * p.equity \in Nat /\ MaxSymbolGrossPct * p.equity \in Nat
    BY LimitsAreNat
<1>3. ExposureFits(p, s, n)
    BY <1>1, <1>2 DEF CheckOrder, ExposureFits
<1> QED BY <1>1, <1>2, <1>3 DEF ExposureFits

\* Books r hold at least what books p hold, symbol by symbol and side by side.
Covers(p, r) ==
    \A s \in Symbols :
        /\ r.notional[s] >= p.notional[s]
        /\ \A d \in Sides : r.gross[d][s] >= p.gross[d][s]

LEMMA CoversItself ==
    ASSUME NEW p \in PipelineType
    PROVE  Covers(p, p)
<1>1. ASSUME NEW s \in Symbols
      PROVE  /\ p.notional[s] >= p.notional[s]
             /\ \A d \in Sides : p.gross[d][s] >= p.gross[d][s]
  <2>1. p.notional[s] \in Nat
      BY DEF PipelineType
  <2>2. ASSUME NEW d \in Sides PROVE p.gross[d][s] >= p.gross[d][s]
    <3>1. p.gross[d][s] \in Nat
        BY DEF PipelineType
    <3> QED BY <3>1
  <2> QED BY <2>1, <2>2
<1> QED BY <1>1, Zenon DEF Covers

\* A position is booked on its side and symbol, and nothing is taken off.
LEMMA AddPositionIs ==
    ASSUME NEW p \in PipelineType, NEW s \in Symbols, NEW d \in Sides, NEW n \in Nat
    PROVE  /\ AddPosition(p, s, d, n) \in PipelineType
           /\ AddPosition(p, s, d, n).notional = p.notional
           /\ ExposureFits(p, s, n) => ExposureFits(AddPosition(p, s, d, n), s, 0)
           /\ Covers(p, AddPosition(p, s, d, n))
           /\ AddPosition(p, s, d, n).gross[d][s] >= n
<1> DEFINE r == AddPosition(p, s, d, n)
<1>1. /\ p.notional \in [Symbols -> Nat] /\ p.total \in [Sides -> Int]
      /\ p.gross \in [Sides -> [Symbols -> Nat]] /\ p.equity \in Nat
    BY DEF PipelineType
<1>2. r = [notional |-> p.notional, equity |-> p.equity,
           total |-> [p.total EXCEPT ![d] = p.total[d] + n],
           gross |-> [p.gross EXCEPT ![d] = [p.gross[d] EXCEPT ![s] = p.gross[d][s] + n]]]
  <2>1. p = [notional |-> p.notional, total |-> p.total, gross |-> p.gross, equity |-> p.equity]
      BY DEF PipelineType
  <2>2. r = [p EXCEPT !.total = [p.total EXCEPT ![d] = p.total[d] + n],
                      !.gross = [p.gross EXCEPT ![d] = [p.gross[d] EXCEPT ![s] = p.gross[d][s] + n]]]
      BY <2>1, <1>1 DEF AddPosition
  <2> QED BY <2>1, <2>2
<1>3. r.total \in [Sides -> Int] /\ r.gross \in [Sides -> [Symbols -> Nat]]
    BY <1>1, <1>2
<1>4. r \in PipelineType
    BY <1>1, <1>2, <1>3 DEF PipelineType
<1>5. /\ r.total["BUY"] + r.total["SELL"] = p.total["BUY"] + p.total["SELL"] + n
      /\ r.gross["BUY"][s] + r.gross["SELL"][s] = p.gross["BUY"][s] + p.gross["SELL"][s] + n
    BY <1>1, <1>2 DEF Sides
<1>6. /\ p.total["BUY"] + p.total["SELL"] + n \in Int
      /\ p.gross["BUY"][s] + p.gross["SELL"][s] + n \in Nat
    BY <1>1 DEF Sides
<1>7. ExposureFits(p, s, n) => ExposureFits(r, s, 0)
    BY <1>2, <1>5, <1>6 DEF ExposureFits
<1>8. /\ \A z \in Symbols : p.notional[z] \in Nat /\ \A e \in Sides : p.gross[e][z] \in Nat
      /\ \A z \in Symbols : r.notional[z] = p.notional[z]
      /\ \A e \in Sides, z \in Symbols :
            r.gross[e][z] = IF e = d /\ z = s THEN p.gross[e][z] + n ELSE p.gross[e][z]
    BY <1>1, <1>2
<1> HIDE DEF r
<1>9. Covers(p, r) /\ r.gross[d][s] >= n
    BY <1>8 DEF Covers
<1> QED BY <1>2, <1>4, <1>7, <1>9 DEF r

\* A release touches the symbol of the trade and no other.
LEMMA ReleaseIs ==
    ASSUME NEW p \in PipelineType, NEW s \in Symbols, NEW d \in Sides,
           NEW qty \in Nat, NEW price \in Nat
    PROVE  /\ Release(p, s, d, qty, price) \in PipelineType
           /\ \A z \in Symbols \ {s} :
                 /\ Release(p, s, d, qty, price).notional[z] = p.notional[z]
                 /\ \A e \in Sides : Release(p, s, d, qty, price).gross[e][z] = p.gross[e][z]
<1> DEFINE n == qty * price
<1>1. n \in Nat
    BY ProductIsNat
<1> HIDE DEF n
<1>2. /\ p.notional \in [Symbols -> Nat] /\ p.total \in [Sides -> Int]
      /\ p.gross \in [Sides -> [Symbols -> Nat]] /\ p.equity \in Nat
    BY DEF PipelineType
<1>3. Floor0(p.notional[s] - n) \in Nat /\ Floor0(p.gross[d][s] - n) \in Nat
    BY <1>1, <1>2 DEF Floor0
<1>4. Release(p, s, d, qty, price)
        = [notional |-> [p.notional EXCEPT ![s] = Floor0(p.notional[s] - n)],
           equity |-> p.equity,
           total |-> [p.total EXCEPT ![d] = p.total[d] - n],
           gross |-> [p.gross EXCEPT ![d] = [p.gross[d] EXCEPT ![s] = Floor0(p.gross[d][s] - n)]]]
  <2> DEFINE b == [p EXCEPT !.notional = [p.notional EXCEPT ![s] = Floor0(p.notional[s] - n)]]
  <2>1. p = [notional |-> p.notional, total |-> p.total, gross |-> p.gross, equity |-> p.equity]
      BY DEF PipelineType
  <2>2. b = [notional |-> [p.notional EXCEPT ![s] = Floor0(p.notional[s] - n)],
             total |-> p.total, gross |-> p.gross, equity |-> p.equity]
      BY <2>1
  <2>3. Release(p, s, d, qty, price) = RemovePosition(b, s, d, n)
      BY <1>2, <2>1 DEF Release, n
  <2> HIDE DEF b
  <2>4. RemovePosition(b, s, d, n)
          = [b EXCEPT !.total = [b.total EXCEPT ![d] = b.total[d] - n],
                      !.gross = [b.gross EXCEPT ![d] =
                                   [b.gross[d] EXCEPT ![s] = Floor0(b.gross[d][s] - n)]]]
      BY <1>2, <2>2 DEF RemovePosition
  <2> QED BY <2>2, <2>3, <2>4
<1>5. /\ [p.notional EXCEPT ![s] = Floor0(p.notional[s] - n)] \in [Symbols -> Nat]
      /\ [p.total EXCEPT ![d] = p.total[d] - n] \in [Sides -> Int]
      /\ [p.gross[d] EXCEPT ![s] = Floor0(p.gross[d][s] - n)] \in [Symbols -> Nat]
    BY <1>1, <1>2, <1>3
<1> QED BY <1>2, <1>4, <1>5 DEF PipelineType

-----------------------------------------------------------------------------
(* ProcessSignal.                                                          *)

LEMMA GatesAreNat ==
    ASSUME NEW g \in Gates
    PROVE  g.granted \in Nat /\ g.firmCap \in Nat
BY PipelineNatAssumption DEF Gates, AllOpen

LEMMA SignalTypes ==
    ASSUME NEW q \in Signals
    PROVE  /\ q.sym \in Symbols /\ q.side \in Sides /\ q.capital \in Capitals
           /\ q.price \in Nat \ {0} /\ q.size \in Nat /\ q.capital \in Nat
BY PipelineNatAssumption DEF Signals

\* Steps 5 to 8 only shrink a size, and book what is left of it.
LEMMA AuthoriseIs ==
    ASSUME NEW p \in PipelineType, NEW q \in Signals, NEW g, NEW size \in Nat,
           g.granted \in Nat, g.firmCap \in Nat
    PROVE  /\ Authorise(p, q, g, size).pipe \in PipelineType
           /\ Covers(p, Authorise(p, q, g, size).pipe)
           /\ Authorise(p, q, g, size).approved =>
                /\ Authorise(p, q, g, size).size \in Nat
                /\ Authorise(p, q, g, size).size * q.price <= size * q.price
                /\ Authorise(p, q, g, size).pipe.notional = p.notional
                /\ ExposureFits(Authorise(p, q, g, size).pipe, q.sym, 0)
                /\ Authorise(p, q, g, size).pipe.gross[q.side][q.sym]
                      >= Authorise(p, q, g, size).size * q.price
<1> DEFINE why     == CheckOrder(p, q.sym, size * q.price)
           braked  == IF g.brake THEN size \div 2 ELSE size
           granted == Least(g.granted, braked)
           reduced == IF g.opposed THEN granted \div 2 ELSE granted
           final   == Least(g.firmCap, reduced)
           booked  == AddPosition(p, q.sym, q.side, final * q.price)
           r       == Authorise(p, q, g, size)
<1>1. g.granted \in Nat /\ g.firmCap \in Nat
    OBVIOUS
<1>2. /\ q.sym \in Symbols /\ q.side \in Sides /\ q.price \in Nat
    BY SignalTypes
<1>3. braked \in Nat /\ braked <= size
    BY HalfIs
<1>4. granted \in Nat /\ granted <= size
  <2> HIDE DEF braked
  <2>1. granted \in Nat /\ granted <= braked
      BY <1>1, <1>3, LeastIs
  <2> HIDE DEF granted
  <2> QED BY <1>3, <2>1
<1>5. reduced \in Nat /\ reduced <= size
  <2> HIDE DEF granted
  <2> QED BY <1>4, HalfIs
<1>6. final \in Nat /\ final <= size
  <2> HIDE DEF reduced
  <2>1. final \in Nat /\ final <= reduced
      BY <1>1, <1>5, LeastIs
  <2> HIDE DEF final
  <2> QED BY <1>5, <2>1
<1>7. /\ r = Reject(p, why) \/ r = Reject(p, "capital") \/ r = Reject(p, "correlation_penalty")
         \/ r = Reject(p, "per_strategy_drawdown")
         \/ /\ why = "ok"
            /\ r = [approved |-> TRUE, size |-> final, reason |-> "ok",
                    pipe |-> IF final > 0 THEN booked ELSE p]
    BY DEF Authorise
<1> HIDE DEF final, r, why, booked
<1>8. /\ final * q.price \in Nat /\ size * q.price \in Nat /\ 0 \in Nat
      /\ final * q.price <= size * q.price /\ 0 <= size * q.price
    BY <1>2, <1>6, ProductIsNat, ProductMono
<1>9. /\ booked \in PipelineType /\ booked.notional = p.notional
      /\ ExposureFits(p, q.sym, final * q.price) => ExposureFits(booked, q.sym, 0)
      /\ Covers(p, booked) /\ booked.gross[q.side][q.sym] >= final * q.price
    BY <1>2, <1>8, AddPositionIs DEF booked
<1>10. why = "ok" => ExposureFits(p, q.sym, final * q.price) /\ ExposureFits(p, q.sym, 0)
    BY <1>2, <1>8, CheckOrderIs DEF why
<1>11. /\ r.pipe \in PipelineType /\ (r.pipe = p \/ r.pipe = booked)
       /\ r.approved => /\ r.size = final /\ r.pipe.notional = p.notional
                        /\ r.pipe = IF final > 0 THEN booked ELSE p
                        /\ ExposureFits(r.pipe, q.sym, 0)
    BY <1>7, <1>9, <1>10 DEF Reject
<1>12. Covers(p, r.pipe)
    BY <1>9, <1>11, CoversItself
<1>13. r.approved => r.pipe.gross[q.side][q.sym] >= final * q.price
  <2>1. CASE final > 0
      BY <1>9, <1>11, <2>1
  <2>2. CASE ~(final > 0)
    <3>1. final * q.price = 0 /\ p.gross[q.side][q.sym] \in Nat
        BY <1>2, <1>6, <2>2 DEF PipelineType
    <3> QED BY <1>11, <2>2, <3>1
  <2> QED BY <2>1, <2>2
<1> QED BY <1>6, <1>8, <1>11, <1>12, <1>13 DEF r

\* The size that reaches the books respects both shares of the capital, and
\* its charge takes the symbol to its cap at most.
LEMMA ProcessSignalIs ==
    ASSUME NEW p \in PipelineType, NEW q \in Signals, NEW g,
           g.granted \in Nat, g.firmCap \in Nat
    PROVE  /\ ProcessSignal(p, q, g).pipe \in PipelineType
           /\ Covers(p, ProcessSignal(p, q, g).pipe)
           /\ ProcessSignal(p, q, g).approved =>
                /\ ProcessSignal(p, q, g).size \in Nat
                /\ Respects(ProcessSignal(p, q, g).size * q.price, Pct(q.capital, MaxPositionPct))
                /\ Respects(ProcessSignal(p, q, g).pipe.notional[q.sym],
                            Pct(q.capital, MaxTotalNotionalPct))
                /\ ExposureFits(ProcessSignal(p, q, g).pipe, q.sym, 0)
                /\ ProcessSignal(p, q, g).pipe.notional[q.sym]
                      >= ProcessSignal(p, q, g).size * q.price
                /\ ProcessSignal(p, q, g).pipe.gross[q.side][q.sym]
                      >= ProcessSignal(p, q, g).size * q.price
<1> DEFINE sized   == IF g.soft THEN q.size \div 2 ELSE q.size
           single  == PositionCap([q EXCEPT !.size = sized])
           over    == OverTotal(p, q, single)
           size    == IF over THEN Available(p, q) \div q.price ELSE single
           charged == [p EXCEPT !.notional[q.sym] = p.notional[q.sym] + size * q.price]
           most    == Pct(q.capital, MaxPositionPct)
           cap     == Pct(q.capital, MaxTotalNotionalPct)
           refused == \E why : ProcessSignal(p, q, g) = Reject(p, why)
<1>1. /\ q.sym \in Symbols /\ q.price \in Nat \ {0} /\ q.size \in Nat /\ q.capital \in Nat
    BY SignalTypes
<1>2. most \in Nat /\ cap \in Nat
    BY <1>1, PctIsNat, PipelineNatAssumption
<1>3. sized \in Nat
    BY <1>1, HalfIs
<1>4. \/ refused
      \/ /\ ~(over /\ Available(p, q) <= 0)
         /\ ProcessSignal(p, q, g) = Authorise(charged, q, g, size)
    BY DEF ProcessSignal
<1>5. single = IF most > 0 /\ sized * q.price > most THEN most \div q.price ELSE sized
    BY <1>1 DEF PositionCap, Signals
<1> HIDE DEF most, cap, sized, single
<1>6. single \in Nat /\ Respects(single * q.price, most)
  <2>1. most \div q.price \in Nat /\ (most \div q.price) * q.price <= most
      BY <1>1, <1>2, DivBounds
  <2> QED BY <1>1, <1>2, <1>3, <1>5, <2>1, ProductIsNat DEF Respects
<1>7. p.notional[q.sym] \in Nat /\ Available(p, q) = cap - p.notional[q.sym]
    BY <1>1 DEF Available, PipelineType, cap
<1>8. CASE refused
  <2>1. ProcessSignal(p, q, g).pipe = p /\ ~ProcessSignal(p, q, g).approved
      BY <1>8 DEF Reject
  <2> QED BY <2>1, CoversItself
<1>9. CASE /\ ~(over /\ Available(p, q) <= 0)
           /\ ProcessSignal(p, q, g) = Authorise(charged, q, g, size)
  <2>1. over <=> (cap > 0 /\ single * q.price > Available(p, q))
      BY DEF OverTotal, cap
  <2>2. /\ size \in Nat /\ size * q.price <= single * q.price
        /\ Respects(p.notional[q.sym] + size * q.price, cap)
    <3>1. CASE over
      <4>1. Available(p, q) \in Nat
          BY <1>2, <1>7, <1>9, <3>1
      <4>2. /\ Available(p, q) \div q.price \in Nat
            /\ (Available(p, q) \div q.price) * q.price <= Available(p, q)
          BY <1>1, <4>1, DivBounds
      <4>3. size = Available(p, q) \div q.price
          BY <3>1
      <4> HIDE DEF size
      <4>4. size \in Nat /\ size * q.price <= Available(p, q) /\ size * q.price \in Nat
          BY <1>1, <4>2, <4>3, ProductIsNat
      <4>5. single * q.price \in Nat /\ single * q.price > Available(p, q)
          BY <1>1, <1>6, <2>1, <3>1, ProductIsNat
      <4> QED BY <1>2, <1>7, <4>1, <4>4, <4>5 DEF Respects
    <3>2. CASE ~over
      <4>1. size = single
          BY <3>2
      <4>2. single * q.price \in Nat
          BY <1>1, <1>6, ProductIsNat
      <4>3. cap > 0 => single * q.price <= Available(p, q)
          BY <1>2, <1>7, <2>1, <3>2, <4>2
      <4> HIDE DEF size
      <4> QED BY <1>2, <1>6, <1>7, <4>1, <4>2, <4>3 DEF Respects
    <3> QED BY <3>1, <3>2
  <2> HIDE DEF size
  <2>3. size * q.price \in Nat /\ single * q.price \in Nat
      BY <1>1, <1>6, <2>2, ProductIsNat
  <2>4. charged \in PipelineType /\ charged.notional[q.sym] = p.notional[q.sym] + size * q.price
    <3>1. p = [notional |-> p.notional, total |-> p.total, gross |-> p.gross, equity |-> p.equity]
        BY DEF PipelineType
    <3>2. p.notional[q.sym] + size * q.price \in Nat /\ p.notional \in [Symbols -> Nat]
        BY <1>7, <2>3 DEF PipelineType
    <3>3. charged = [p EXCEPT !.notional =
                        [p.notional EXCEPT ![q.sym] = p.notional[q.sym] + size * q.price]]
        BY <3>1, <3>2
    <3>4. charged.notional = [p.notional EXCEPT ![q.sym] = p.notional[q.sym] + size * q.price]
        BY <3>1, <3>3
    <3>5. charged = [notional |-> charged.notional, total |-> p.total, gross |-> p.gross,
                     equity |-> p.equity]
        BY <3>1, <3>3
    <3>6. /\ charged.notional \in [Symbols -> Nat]
          /\ charged.notional[q.sym] = p.notional[q.sym] + size * q.price
        BY <1>1, <3>2, <3>4
    <3> HIDE DEF charged
    <3> QED BY <3>5, <3>6 DEF PipelineType
  <2>c. Covers(p, charged)
    <3>1. /\ charged.gross = p.gross
          /\ \A z \in Symbols : z # q.sym => charged.notional[z] = p.notional[z]
      <4>1. p.notional \in [Symbols -> Nat]
          BY DEF PipelineType
      <4>2. p = [notional |-> p.notional, total |-> p.total, gross |-> p.gross, equity |-> p.equity]
          BY DEF PipelineType
      <4>3. charged = [p EXCEPT !.notional =
                          [p.notional EXCEPT ![q.sym] = p.notional[q.sym] + size * q.price]]
          BY <4>1, <4>2
      <4> QED BY <4>1, <4>2, <4>3
    <3>2. /\ \A z \in Symbols : p.notional[z] \in Nat
          /\ \A z \in Symbols, d \in Sides : p.gross[d][z] \in Nat
        BY DEF PipelineType
    <3> HIDE DEF charged
    <3>3. ASSUME NEW z \in Symbols PROVE charged.notional[z] >= p.notional[z]
      <4>1. CASE z = q.sym
          BY <1>7, <2>3, <2>4, <4>1
      <4>2. CASE z # q.sym
        <5>1. charged.notional[z] = p.notional[z] /\ p.notional[z] \in Nat
            BY <3>1, <3>2, <4>2
        <5> QED BY <5>1
      <4> QED BY <4>1, <4>2
    <3> QED BY <3>1, <3>3, CoversItself DEF Covers
  <2> HIDE DEF charged
  <2> DEFINE r == Authorise(charged, q, g, size)
  <2>5. /\ r.pipe \in PipelineType /\ Covers(charged, r.pipe)
        /\ r.approved => /\ r.size \in Nat /\ r.size * q.price <= size * q.price
                         /\ r.pipe.gross[q.side][q.sym] >= r.size * q.price
                         /\ r.pipe.notional = charged.notional
                         /\ ExposureFits(r.pipe, q.sym, 0)
      BY <2>2, <2>4, AuthoriseIs
  <2>6. r = ProcessSignal(p, q, g)
      BY <1>9
  <2> HIDE DEF r
  <2>7. r.approved => Respects(r.size * q.price, most)
    <3>1. r.approved => r.size * q.price \in Nat
        BY <1>1, <2>5, ProductIsNat
    <3> QED BY <1>2, <1>6, <2>2, <2>3, <2>5, <3>1 DEF Respects
  <2>8. r.approved => Respects(r.pipe.notional[q.sym], cap)
      BY <2>2, <2>4, <2>5
  <2>9. r.approved => r.pipe.notional[q.sym] >= r.size * q.price
    <3>1. r.approved => r.size * q.price \in Nat
        BY <1>1, <2>5, ProductIsNat
    <3> QED BY <1>7, <2>3, <2>4, <2>5, <3>1
  <2>10. Covers(p, r.pipe)
    <3>1. /\ \A z \in Symbols : /\ p.notional[z] \in Nat /\ charged.notional[z] \in Nat
                                 /\ r.pipe.notional[z] \in Nat
          /\ \A z \in Symbols, d \in Sides : /\ p.gross[d][z] \in Nat /\ charged.gross[d][z] \in Nat
                                              /\ r.pipe.gross[d][z] \in Nat
        BY <2>4, <2>5 DEF PipelineType
    <3>2. ASSUME NEW z \in Symbols PROVE r.pipe.notional[z] >= p.notional[z]
      <4>1. charged.notional[z] >= p.notional[z] /\ r.pipe.notional[z] >= charged.notional[z]
          BY <2>c, <2>5, Zenon DEF Covers
      <4> QED BY <3>1, <4>1
    <3>3. ASSUME NEW z \in Symbols, NEW d \in Sides PROVE r.pipe.gross[d][z] >= p.gross[d][z]
      <4>1. charged.gross[d][z] >= p.gross[d][z] /\ r.pipe.gross[d][z] >= charged.gross[d][z]
          BY <2>c, <2>5, Zenon DEF Covers
      <4> QED BY <3>1, <4>1
    <3> QED BY <3>2, <3>3, Zenon DEF Covers
  <2> QED BY <2>5, <2>6, <2>7, <2>8, <2>9, <2>10 DEF most, cap
<1> QED BY <1>4, <1>8, <1>9

-----------------------------------------------------------------------------
(* The specification.                                                      *)

LEMMA InitTypeOK == Init => TypeOK
<1> SUFFICES ASSUME Init PROVE TypeOK
    OBVIOUS
<1>1. NewPipeline \in PipelineType
    BY DEF NewPipeline, PipelineType
<1> QED BY <1>1 DEF Init, TypeOK

LEMMA ApproveTypeOK ==
    ASSUME TypeOK, NEW i \in Slots, NEW q \in Signals, NEW g \in Gates, Approve(i, q, g)
    PROVE  TypeOK'
<1> DEFINE r == ProcessSignal(pipe, q, g)
<1>1. pipe \in PipelineType /\ positions \in [Slots -> PositionType \cup {None}]
    BY DEF TypeOK
<1>2. r.pipe \in PipelineType /\ (r.approved => r.size \in Nat)
    BY <1>1, GatesAreNat, ProcessSignalIs
<1>3. /\ pipe' = r.pipe /\ r.approved
      /\ positions' = [positions EXCEPT ![i] =
              [sym |-> q.sym, side |-> q.side, qty |-> r.size, price |-> q.price]]
    BY DEF Approve
<1> HIDE DEF r
<1>4. [sym |-> q.sym, side |-> q.side, qty |-> r.size, price |-> q.price] \in PositionType
    BY <1>2, <1>3, SignalTypes DEF PositionType
<1> QED BY <1>1, <1>2, <1>3, <1>4 DEF TypeOK

LEMMA NextTypeOK == TypeOK /\ [Next]_vars => TypeOK'
<1> SUFFICES ASSUME TypeOK, [Next]_vars PROVE TypeOK'
    OBVIOUS
<1>1. pipe \in PipelineType /\ positions \in [Slots -> PositionType \cup {None}]
    BY DEF TypeOK
<1>2. ASSUME NEW q \in Signals, NEW g \in Gates, Refuse(q, g) PROVE TypeOK'
    BY <1>1, <1>2, GatesAreNat, ProcessSignalIs DEF Refuse, TypeOK
<1>3. ASSUME NEW i \in Slots, NEW price \in Prices, ReconcileFill(i, price) PROVE TypeOK'
  <2>1. positions[i] \in PositionType /\ price \in Nat
      BY <1>1, <1>3, PipelineNatAssumption DEF ReconcileFill
  <2>2. /\ positions[i].sym \in Symbols /\ positions[i].side \in Sides /\ positions[i].qty \in Nat
      BY <2>1 DEF PositionType
  <2>3. Release(pipe, positions[i].sym, positions[i].side, positions[i].qty, price) \in PipelineType
      BY <1>1, <2>1, <2>2, ReleaseIs
  <2> QED BY <1>1, <1>3, <2>3 DEF ReconcileFill, TypeOK
<1>4. ASSUME NEW e \in Equities, SetEquity(e) PROVE TypeOK'
  <2>1. e \in Nat
      BY PipelineNatAssumption
  <2>2. SetEquityOf(pipe, e) \in PipelineType
      BY <1>1, <2>1 DEF SetEquityOf, PipelineType
  <2> QED BY <1>1, <1>4, <2>2 DEF SetEquity, TypeOK
<1>5. CASE UNCHANGED vars
    BY <1>1, <1>5 DEF vars, TypeOK
<1> QED BY <1>2, <1>3, <1>4, <1>5, ApproveTypeOK DEF Next

\* No symbol's booked notional or exposure is ever negative, and every
\* position is one a signal asked for (symbolNotional and the tracker's maps).
THEOREM PipelineTypeOK == Spec => []TypeOK
BY InitTypeOK, NextTypeOK, PTL DEF Spec

\* Only an approval opens a position.
LEMMA OnlyApproveOpens ==
    ASSUME TypeOK, [Next]_vars, NEW i \in Slots, positions[i] = None, positions'[i] # None
    PROVE  \E q \in Signals, g \in Gates : Approve(i, q, g)
<1>1. positions \in [Slots -> PositionType \cup {None}] /\ positions' # positions
    BY DEF TypeOK
<1>2. ASSUME NEW j \in Slots, NEW price \in Prices, ReconcileFill(j, price) PROVE FALSE
    BY <1>1, <1>2 DEF ReconcileFill
<1>3. ASSUME NEW q \in Signals, NEW g \in Gates, NEW j \in Slots, Approve(j, q, g) PROVE i = j
    BY <1>1, <1>3 DEF Approve
<1>4. PICK q \in Signals, g \in Gates, j \in Slots : Approve(j, q, g)
    BY <1>1, <1>2 DEF Next, vars, Refuse, SetEquity
<1> QED BY <1>3, <1>4

\* Every approval of ProcessSignal is inside the position cap, the symbol's
\* aggregate cap, the leverage limit and the symbol's gross exposure limit,
\* for all limits and prices and whatever the other gates answer.
THEOREM ApprovalsRespectLimits == Spec => ApprovalWithinLimits
<1>1. ASSUME TypeOK, [Next]_vars, NEW i \in Slots, positions[i] = None, positions'[i] # None
      PROVE  InsideLimits(pipe', positions'[i])
  <2>1. PICK q \in Signals, g \in Gates : Approve(i, q, g)
      BY <1>1, OnlyApproveOpens
  <2> DEFINE r == ProcessSignal(pipe, q, g)
             pos == positions'[i]
  <2>2. pipe \in PipelineType /\ positions \in [Slots -> PositionType \cup {None}]
      BY <1>1 DEF TypeOK
  <2>3. /\ pipe' = r.pipe /\ r.approved
        /\ pos = [sym |-> q.sym, side |-> q.side, qty |-> r.size, price |-> q.price]
      BY <2>1, <2>2 DEF Approve
  <2>4. /\ r.pipe \in PipelineType
        /\ Respects(r.size * q.price, Pct(q.capital, MaxPositionPct))
        /\ Respects(r.pipe.notional[q.sym], Pct(q.capital, MaxTotalNotionalPct))
        /\ ExposureFits(r.pipe, q.sym, 0)
      BY <2>2, <2>3, GatesAreNat, ProcessSignalIs
  <2> HIDE DEF r
  <2>5. /\ pos.sym = q.sym /\ pos.qty = r.size /\ pos.price = q.price
        /\ q.sym \in Symbols /\ q.capital \in Capitals
      BY <2>3, SignalTypes
  <2> HIDE DEF pos
  <2>6. /\ r.pipe.total["BUY"] \in Int /\ r.pipe.total["SELL"] \in Int
        /\ r.pipe.gross["BUY"][q.sym] \in Nat /\ r.pipe.gross["SELL"][q.sym] \in Nat
      BY <2>4, <2>5 DEF PipelineType, Sides
  <2>7. /\ MaxLeverage > 0 =>
              r.pipe.total["BUY"] + r.pipe.total["SELL"] <= MaxLeverage * r.pipe.equity
        /\ MaxSymbolGrossPct > 0 =>
              (r.pipe.gross["BUY"][q.sym] + r.pipe.gross["SELL"][q.sym]) * 100
                 <= MaxSymbolGrossPct * r.pipe.equity
      BY <2>4, <2>6 DEF ExposureFits
  <2>8. InsideLimits(r.pipe, pos)
      BY <2>4, <2>5, <2>7 DEF InsideLimits
  <2> QED BY <2>3, <2>8 DEF pos
<1>2. TypeOK /\ [Next]_vars =>
          [\A i \in Slots : positions[i] = None /\ positions'[i] # None =>
               InsideLimits(pipe', positions'[i])]_vars
    BY <1>1
<1> QED BY PipelineTypeOK, <1>2, PTL DEF Spec, ApprovalWithinLimits
=============================================================================
