-------------------------- MODULE CapitalPoolProofs --------------------------
(* Proofs about CapitalPool for every set of strategies, symbols, profiles  *)
(* and requests.                                                           *)
EXTENDS CapitalPool, FiniteSetTheorems, TLAPS

(***************************************************************************)
(* Facts about the operators.                                              *)
(***************************************************************************)

\* A computed size is a natural number, is 0 unless there is room under the
\* cap, and never takes the allocation above the cap.
LEMMA ComputeSizeFits ==
    ASSUME NEW att \in Nat, NEW base \in Nat, NEW alloc \in Nat
    PROVE  /\ ComputeSize(att, base, alloc) \in Nat
           /\ \/ ComputeSize(att, base, alloc) = 0
              \/ 100 * (alloc + ComputeSize(att, base, alloc)) <= base * TotalExpCapPct
<1> DEFINE capital == base * TotalExpCapPct
<1>1. capital \in Nat
  BY CapAssumption
<1> HIDE DEF capital
<1>2. /\ capital \div 100 \in Nat
      /\ 100 * (capital \div 100) <= capital
  BY <1>1
<1>3. ComputeSize(att, base, alloc)
         = LET room == capital \div 100 - alloc
           IN  IF att <= room THEN att ELSE IF room < 0 THEN 0 ELSE room
  BY DEF ComputeSize, capital
<1> QED
  BY <1>1, <1>2, <1>3 DEF capital

\* The history variable makes a position's identity a member of Positions.
LEMMA PositionIn ==
    ASSUME NEW s \in Strategies, NEW sym \in Symbols, NEW side \in Sides
    PROVE  <<s, sym, side>> \in Positions
BY DEF Positions

\* What an answered request does to the books: the exposure is approved, and
\* booked or (for an open position) not.
Granted(s, p, size) ==
    /\ held' = [held EXCEPT ![p] = @ + size]
    /\ \/ UNCHANGED <<allocated, open>>
       \/ /\ allocated' = [allocated EXCEPT ![s] = @ + size]
          /\ open' = [open EXCEPT ![p] = @ + size]

\* A request is answered with a size that fits under the cap.
LEMMA RequestGrants ==
    ASSUME TypeOK, NEW s \in Strategies, NEW sym \in Symbols, NEW side \in Sides,
           RequestExisting(s, sym, side) \/ RequestNew(s, sym, side)
    PROVE  \E size \in Nat :
              /\ Granted(s, <<s, sym, side>>, size)
              /\ \/ size = 0
                 \/ \E base \in BaseSizes :
                       100 * (allocated[s] + size) <= base * TotalExpCapPct
<1> DEFINE p == <<s, sym, side>>
<1>1. PICK answer \in SizesFor(s) : Granted(s, p, answer)
  BY DEF RequestExisting, RequestNew, stratVars, Granted
<1>2. PICK base \in BaseSizes : \E att \in 0..base : answer = ComputeSize(att, base, allocated[s])
  BY DEF SizesFor
<1>7. PICK att \in 0..base : answer = ComputeSize(att, base, allocated[s])
  BY <1>2
<1>3. base \in Nat
  BY BaseAssumption
<1>4. att \in Nat /\ allocated[s] \in Nat
  BY <1>3 DEF TypeOK
<1> DEFINE size == ComputeSize(att, base, allocated[s])
<1>5. /\ size \in Nat
      /\ size = 0 \/ 100 * (allocated[s] + size) <= base * TotalExpCapPct
  BY <1>3, <1>4, ComputeSizeFits
<1>6. Granted(s, p, size)
  BY <1>1, <1>7
<1> HIDE DEF size
<1> QED
  BY <1>5, <1>6

(***************************************************************************)
(* Type correctness.                                                       *)
(***************************************************************************)

\* A new pool has its types.
LEMMA InitType == Init => TypeOK
<1> SUFFICES ASSUME Init PROVE TypeOK
  OBVIOUS
<1>1. /\ balance \in Int /\ peak \in Int /\ poolDailyPnL \in Int
      /\ allocated \in [Strategies -> Nat] /\ dailyPnL \in [Strategies -> Int]
      /\ stratPeak \in [Strategies -> Int]
      /\ open \in [Positions -> Nat] /\ held \in [Positions -> Nat]
  BY StartAssumption DEF Init
<1> QED
  BY <1>1, Zenon DEF Init, TypeOK

\* Granted requests keep the types.
LEMMA RequestType ==
    ASSUME TypeOK, NEW s \in Strategies, NEW sym \in Symbols, NEW side \in Sides,
           RequestExisting(s, sym, side) \/ RequestNew(s, sym, side)
    PROVE  TypeOK'
<1> DEFINE p == <<s, sym, side>>
<1>0. p \in Positions
  BY PositionIn
<1>1. PICK size \in Nat : Granted(s, p, size)
  BY RequestGrants
<1>4. /\ allocated' \in [Strategies -> Nat]
      /\ open' \in [Positions -> Nat] /\ held' \in [Positions -> Nat]
  BY <1>0, <1>1 DEF TypeOK, Granted
<1>5. PeakOf(s) \in Int
  BY DEF PeakOf, TypeOK
<1>6. known' \subseteq Strategies /\ stratPeak' \in [Strategies -> Int]
  BY <1>5 DEF RequestExisting, RequestNew, Register, TypeOK, stratVars
<1> QED
  BY <1>4, <1>6, Zenon DEF RequestExisting, RequestNew, TypeOK, poolVars, stratVars

\* Refused requests keep the types.
LEMMA RefusalType ==
    ASSUME TypeOK, NEW s \in Strategies,
           \/ RequestViolated(s)
           \/ \E sym \in Symbols, side \in Sides : RequestRefused(s, sym, side)
    PROVE  TypeOK'
<1>1. PeakOf(s) \in Int
  BY DEF PeakOf, TypeOK
<1>2. known' \subseteq Strategies /\ stratPeak' \in [Strategies -> Int]
  BY <1>1 DEF RequestViolated, RequestRefused, Register, TypeOK
<1>3. suspended' \in [Strategies -> BOOLEAN]
  BY Zenon DEF RequestViolated, RequestRefused, TypeOK
<1> QED
  BY <1>2, <1>3, Zenon DEF RequestViolated, RequestRefused, TypeOK, poolVars

\* A fill of either kind: what RecordFill books, and the exposure falls by the
\* quantity or, when the fill was another account's, stays.
Filled(s, sym, side, pnl, qty) ==
    /\ RecordFill(s, sym, side, pnl, qty)
    /\ \/ held' = held
       \/ /\ qty <= held[<<s, sym, side>>]
          /\ held' = [held EXCEPT ![<<s, sym, side>>] = @ - qty]

\* Both fill actions book a natural quantity and an integral profit or loss.
LEMMA FillIs ==
    ASSUME TypeOK, NEW s \in Strategies, NEW sym \in Symbols, NEW side \in Sides,
           Fill(s, sym, side) \/ ForeignFill(s, sym, side)
    PROVE  \E pnl \in Int, qty \in Nat : Filled(s, sym, side, pnl, qty)
<1>0. held[<<s, sym, side>>] \in Nat
  BY PositionIn DEF TypeOK
<1>1. CASE Fill(s, sym, side)
  <2>1. PICK pnl \in PnLs, qty \in 1..held[<<s, sym, side>>] :
            /\ RecordFill(s, sym, side, pnl, qty)
            /\ held' = [held EXCEPT ![<<s, sym, side>>] = @ - qty]
    BY <1>1 DEF Fill
  <2>2. pnl \in Int /\ qty \in Nat /\ qty <= held[<<s, sym, side>>]
    BY <1>0, PnLAssumption
  <2> QED
    BY <2>1, <2>2 DEF Filled
<1>2. CASE ForeignFill(s, sym, side)
  <2>1. PICK pnl \in PnLs, qty \in 1..MaxHeld : RecordFill(s, sym, side, pnl, qty)
    BY <1>2 DEF ForeignFill
  <2>2. pnl \in Int /\ qty \in Nat /\ held' = held
    BY <1>2, PnLAssumption, BoundsAssumption DEF ForeignFill
  <2> QED
    BY <2>1, <2>2 DEF Filled
<1> QED
  BY <1>1, <1>2

\* RecordFill keeps the types: allocation and entries are held at zero.
LEMMA FillType ==
    ASSUME TypeOK, NEW s \in Strategies, NEW sym \in Symbols, NEW side \in Sides,
           Fill(s, sym, side) \/ ForeignFill(s, sym, side)
    PROVE  TypeOK'
<1> DEFINE p == <<s, sym, side>>
<1>0. p \in Positions
  BY PositionIn
<1>1. PICK pnl \in Int, qty \in Nat : Filled(s, sym, side, pnl, qty)
  BY FillIs
<1>3. PeakOf(s) \in Int
  BY DEF PeakOf, TypeOK
<1>4. /\ known' \subseteq Strategies
      /\ dailyPnL' \in [Strategies -> Int] /\ stratPeak' \in [Strategies -> Int]
      /\ balance' \in Int /\ peak' \in Int
  BY <1>1, <1>3 DEF Filled, RecordFill, TypeOK, RaisePeak, Higher
<1>5. /\ allocated' \in [Strategies -> Nat]
      /\ open' \in [Positions -> Nat] /\ held' \in [Positions -> Nat]
  BY <1>0, <1>1 DEF Filled, RecordFill, TypeOK, Release, Floor0
<1> QED
  BY <1>1, <1>4, <1>5, Zenon DEF Filled, RecordFill, TypeOK

\* The remaining methods and MarkAllViolated keep the types.
LEMMA OtherType ==
    ASSUME TypeOK,
           \/ ResetDaily \/ MarkRead \/ MarkWrite
           \/ \E s \in Strategies : ResumeStrategy(s)
           \/ \E p \in Profiles : SetProfile(p)
    PROVE  TypeOK'
<1>1. CASE ResetDaily
  <2>1. dailyPnL' \in [Strategies -> Int]
    BY <1>1 DEF ResetDaily, TypeOK
  <2> QED
    BY <1>1, <2>1, Zenon DEF ResetDaily, TypeOK, poolVars
<1>2. CASE MarkRead
  BY <1>2, Zenon DEF MarkRead, TypeOK, poolVars, stratVars
<1>3. CASE MarkWrite
  <2>1. balance' \in Int /\ peak' \in Int
    BY <1>3 DEF MarkWrite, TypeOK, RaisePeak, Higher
  <2> QED
    BY <1>3, <2>1, Zenon DEF MarkWrite, TypeOK, stratVars
<1>4. ASSUME NEW s \in Strategies, ResumeStrategy(s) PROVE TypeOK'
  <2>1. stratPeak' \in [Strategies -> Int]
    BY <1>4 DEF ResumeStrategy, TypeOK
  <2>2. suspended' \in [Strategies -> BOOLEAN]
    BY <1>4, Zenon DEF ResumeStrategy, TypeOK
  <2> QED
    BY <1>4, <2>1, <2>2, Zenon DEF ResumeStrategy, TypeOK, poolVars
<1>5. ASSUME NEW p \in Profiles, SetProfile(p) PROVE TypeOK'
  BY <1>5, Zenon DEF SetProfile, TypeOK, stratVars
<1> QED
  BY <1>1, <1>2, <1>3, <1>4, <1>5

\* So does a step that changes nothing.
LEMMA StutterType == TypeOK /\ UNCHANGED vars => TypeOK'
BY Zenon DEF TypeOK, vars, poolVars, stratVars

\* The balances, flags and maps of the pool keep their types: in particular
\* no sequence of grants and partial fills drives an allocation or an open
\* entry below zero.
THEOREM TypeCorrect == Spec => []TypeOK
<1>1. TypeOK /\ [Next]_vars => TypeOK'
  <2> SUFFICES ASSUME TypeOK, [Next]_vars PROVE TypeOK'
    OBVIOUS
  <2> QED
    BY RequestType, RefusalType, FillType, OtherType, StutterType DEF Next
<1> QED
  BY <1>1, InitType, PTL DEF Spec

(***************************************************************************)
(* The inductive invariant: allocations within the cap, open entries       *)
(* covered by approved exposure, and a peak above the balance and above the *)
(* balance a marking in flight will write back.                            *)
(***************************************************************************)

PeakAbove == /\ peak >= balance
             /\ marking # NotMarking => peak >= marking

IInv == AllocationWithinCap /\ EntriesCovered /\ PeakAbove

\* A new pool satisfies the inductive invariant.
LEMMA InitInv == Init => IInv
<1> SUFFICES ASSUME Init PROVE IInv
  OBVIOUS
<1>1. AllocationWithinCap
  <2> SUFFICES ASSUME NEW s \in Strategies
               PROVE  \E base \in BaseSizes \cup {0} :
                         100 * allocated[s] <= base * TotalExpCapPct
    BY DEF AllocationWithinCap
  <2> WITNESS 0 \in BaseSizes \cup {0}
  <2> QED
    BY CapAssumption DEF Init
<1>2. EntriesCovered
  BY DEF Init, EntriesCovered
<1>3. PeakAbove
  BY StartAssumption DEF Init, PeakAbove
<1> QED
  BY <1>1, <1>2, <1>3 DEF IInv

\* The three parts as they survive a step that leaves their variables alone,
\* or only lowers them.
LEMMA CapKept ==
    ASSUME TypeOK, TypeOK', AllocationWithinCap,
           \A s \in Strategies : allocated'[s] <= allocated[s]
    PROVE  AllocationWithinCap'
<1> SUFFICES ASSUME NEW s \in Strategies
             PROVE  \E base \in BaseSizes \cup {0} :
                       100 * allocated'[s] <= base * TotalExpCapPct
  BY DEF AllocationWithinCap
<1>1. PICK base \in BaseSizes \cup {0} : 100 * allocated[s] <= base * TotalExpCapPct
  BY DEF AllocationWithinCap
<1>2. /\ allocated[s] \in Nat /\ allocated'[s] \in Nat
      /\ base * TotalExpCapPct \in Nat /\ allocated'[s] <= allocated[s]
  BY CapAssumption, BaseAssumption DEF TypeOK
<1> QED
  BY <1>1, <1>2

\* Requests keep the inductive invariant: ComputeSize fits under the cap.
LEMMA RequestInv ==
    ASSUME TypeOK, TypeOK', IInv,
           NEW s \in Strategies, NEW sym \in Symbols, NEW side \in Sides,
           RequestExisting(s, sym, side) \/ RequestNew(s, sym, side)
    PROVE  IInv'
<1> DEFINE p == <<s, sym, side>>
<1>0. p \in Positions
  BY PositionIn
<1>1. PICK size \in Nat :
          /\ Granted(s, p, size)
          /\ size = 0 \/ \E base \in BaseSizes :
                            100 * (allocated[s] + size) <= base * TotalExpCapPct
  BY RequestGrants
<1>5. EntriesCovered'
  <2> SUFFICES ASSUME NEW q \in Positions PROVE open'[q] <= held'[q]
    BY DEF EntriesCovered
  <2>1. open[q] <= held[q] /\ open[q] \in Nat /\ held[q] \in Nat
    BY DEF IInv, EntriesCovered, TypeOK
  <2> QED
    BY <1>0, <1>1, <2>1 DEF TypeOK, Granted
<1>6. AllocationWithinCap'
  <2>1. CASE allocated' = allocated \/ size = 0
    <3>1. \A t \in Strategies : allocated'[t] <= allocated[t]
      BY <1>1, <2>1 DEF TypeOK, Granted
    <3> QED
      BY <3>1, CapKept DEF IInv
  <2>2. CASE allocated' # allocated /\ size # 0
    <3> SUFFICES ASSUME NEW t \in Strategies
                 PROVE  \E b \in BaseSizes \cup {0} :
                           100 * allocated'[t] <= b * TotalExpCapPct
      BY DEF AllocationWithinCap
    <3>1. allocated' = [allocated EXCEPT ![s] = @ + size]
      BY <1>1, <2>2 DEF Granted
    <3>2. CASE t = s
      <4>1. allocated'[s] = allocated[s] + size
        BY <3>1 DEF TypeOK
      <4> QED
        BY <4>1, <3>2, <1>1, <2>2
    <3>3. CASE t # s
      <4>1. allocated'[t] = allocated[t]
        BY <3>1, <3>3 DEF TypeOK
      <4> QED
        BY <4>1 DEF IInv, AllocationWithinCap
    <3> QED
      BY <3>2, <3>3
  <2> QED
    BY <2>1, <2>2
<1>7. PeakAbove'
  BY DEF IInv, PeakAbove, RequestExisting, RequestNew, poolVars
<1> QED
  BY <1>5, <1>6, <1>7 DEF IInv

\* RecordFill keeps it: what is released was booked.
LEMMA FillInv ==
    ASSUME TypeOK, TypeOK', IInv,
           NEW s \in Strategies, NEW sym \in Symbols, NEW side \in Sides,
           Fill(s, sym, side) \/ ForeignFill(s, sym, side)
    PROVE  IInv'
<1> DEFINE p == <<s, sym, side>>
<1>0. p \in Positions
  BY PositionIn
<1>1. PICK pnl \in Int, qty \in Nat : Filled(s, sym, side, pnl, qty)
  BY FillIs
<1>3. \A t \in Strategies : allocated'[t] <= allocated[t]
  BY <1>1 DEF Filled, RecordFill, TypeOK, Release, Floor0
<1>4. AllocationWithinCap'
  BY <1>3, CapKept DEF IInv
<1>5. EntriesCovered'
  <2> SUFFICES ASSUME NEW q \in Positions PROVE open'[q] <= held'[q]
    BY DEF EntriesCovered
  <2>1. open[q] <= held[q] /\ open[q] \in Nat /\ held[q] \in Nat /\ held'[q] \in Nat
    BY DEF IInv, EntriesCovered, TypeOK
  <2> QED
    BY <1>0, <1>1, <2>1 DEF Filled, RecordFill, TypeOK, Floor0
<1>6. PeakAbove'
  BY <1>1, MarkAssumption DEF Filled, RecordFill, TypeOK, IInv, PeakAbove, RaisePeak, Higher
<1> QED
  BY <1>4, <1>5, <1>6 DEF IInv

\* The remaining methods keep it; MarkAllViolated raises the peak as needed.
LEMMA OtherInv ==
    ASSUME TypeOK, TypeOK', IInv,
           \/ ResetDaily \/ MarkRead \/ MarkWrite \/ UNCHANGED vars
           \/ \E s \in Strategies : ResumeStrategy(s) \/ RequestViolated(s)
           \/ \E s \in Strategies, sym \in Symbols, side \in Sides : RequestRefused(s, sym, side)
           \/ \E p \in Profiles : SetProfile(p)
    PROVE  IInv'
<1>1. UNCHANGED <<allocated, open, held>>
  BY DEF ResetDaily, MarkRead, MarkWrite, vars, poolVars, stratVars, ResumeStrategy,
         RequestViolated, RequestRefused, SetProfile
<1>2. AllocationWithinCap' /\ EntriesCovered'
  BY <1>1 DEF IInv, AllocationWithinCap, EntriesCovered
<1>3. PeakAbove'
  <2>1. CASE MarkRead
    BY <2>1 DEF MarkRead, TypeOK, IInv, PeakAbove, poolVars
  <2>2. CASE MarkWrite
    BY <2>2, MarkAssumption DEF MarkWrite, TypeOK, IInv, PeakAbove, RaisePeak, Higher
  <2>3. CASE ~MarkRead /\ ~MarkWrite
    <3>1. UNCHANGED <<balance, peak, marking>>
      BY <2>3 DEF ResetDaily, vars, poolVars, stratVars, ResumeStrategy,
                  RequestViolated, RequestRefused, SetProfile
    <3> QED
      BY <3>1 DEF IInv, PeakAbove
  <2> QED
    BY <2>1, <2>2, <2>3
<1> QED
  BY <1>2, <1>3 DEF IInv

\* Every step keeps the inductive invariant.
LEMMA NextInv == TypeOK /\ TypeOK' /\ IInv /\ [Next]_vars => IInv'
<1> SUFFICES ASSUME TypeOK, TypeOK', IInv, [Next]_vars PROVE IInv'
  OBVIOUS
<1> QED
  BY RequestInv, FillInv, OtherInv DEF Next

\* The invariant holds throughout.
LEMMA InvHolds == Spec => []IInv
BY InitInv, NextInv, TypeCorrect, PTL DEF Spec

\* What RequestCapital books for a strategy stays within the total-exposure
\* cap of a request it has seen, for every cap and every set of requests.
THEOREM CapHolds == Spec => []AllocationWithinCap
<1>1. IInv => AllocationWithinCap
  BY DEF IInv
<1> QED
  BY <1>1, InvHolds, PTL

\* The drawdown reference is a high-water mark: no step, MarkAllViolated's
\* write of a stale balance included, lowers the peak or leaves it below the
\* balance.
THEOREM PeakNeverFalls == Spec => PeakIsHighWater
<1>1. TypeOK /\ TypeOK' /\ IInv /\ IInv' /\ [Next]_vars
         => [peak' >= peak /\ peak' >= balance']_vars
  <2> SUFFICES ASSUME TypeOK, TypeOK', IInv, IInv', Next
               PROVE  peak' >= peak /\ peak' >= balance'
    BY DEF vars
  <2>1. peak' >= balance'
    BY DEF IInv, PeakAbove
  <2>2. peak' = peak \/ peak' = RaisePeak(balance')
    <3>1. ASSUME NEW s \in Strategies, NEW sym \in Symbols, NEW side \in Sides,
                 Fill(s, sym, side) \/ ForeignFill(s, sym, side)
          PROVE  peak' = RaisePeak(balance')
      BY <3>1 DEF Fill, ForeignFill, RecordFill, RaisePeak
    <3>2. CASE MarkWrite
      BY <3>2 DEF MarkWrite, RaisePeak
    <3>3. \/ peak' = peak
          \/ MarkWrite
          \/ \E s \in Strategies, sym \in Symbols, side \in Sides :
                Fill(s, sym, side) \/ ForeignFill(s, sym, side)
      <4>1. CASE \E p \in Profiles : SetProfile(p)
        BY <4>1 DEF SetProfile
      <4>2. CASE \E s \in Strategies : RequestViolated(s) \/ ResumeStrategy(s)
        BY <4>2 DEF RequestViolated, ResumeStrategy, poolVars
      <4>3. CASE ResetDaily \/ MarkRead
        BY <4>3 DEF ResetDaily, MarkRead, poolVars
      <4>4. ASSUME NEW s \in Strategies, NEW sym \in Symbols, NEW side \in Sides,
                   \/ RequestExisting(s, sym, side) \/ RequestRefused(s, sym, side)
                   \/ RequestNew(s, sym, side)
            PROVE  peak' = peak
        BY <4>4 DEF RequestExisting, RequestRefused, RequestNew, poolVars
      <4> QED
        BY <4>1, <4>2, <4>3, <4>4 DEF Next
    <3> QED
      BY <3>1, <3>2, <3>3
  <2>3. peak' >= peak
    BY <2>2 DEF RaisePeak, Higher, TypeOK
  <2> QED
    BY <2>1, <2>3
<1> QED
  BY <1>1, TypeCorrect, InvHolds, PTL DEF Spec, PeakIsHighWater

(***************************************************************************)
(* Which steps open a position, and when.                                  *)
(***************************************************************************)

\* Only a request that is refused for no reason books a position.
LEMMA OnlyNewOpens ==
    ASSUME TypeOK, Next
    PROVE  \/ \A p \in Positions : open'[p] <= open[p]
           \/ \E s \in Strategies, sym \in Symbols, side \in Sides :
                 /\ Refusal(s) = "none"
                 /\ \A p \in Positions : p # <<s, sym, side>> => open'[p] = open[p]
<1>1. ASSUME NEW s \in Strategies, NEW sym \in Symbols, NEW side \in Sides,
             RequestNew(s, sym, side)
      PROVE  /\ Refusal(s) = "none"
             /\ \A p \in Positions : p # <<s, sym, side>> => open'[p] = open[p]
  <2>1. PICK n : open' = [open EXCEPT ![<<s, sym, side>>] = n]
    BY <1>1 DEF RequestNew
  <2> QED
    BY <1>1, <2>1 DEF RequestNew, TypeOK
<1>2. ASSUME NEW s \in Strategies, NEW sym \in Symbols, NEW side \in Sides,
             Fill(s, sym, side) \/ ForeignFill(s, sym, side)
      PROVE  \A p \in Positions : open'[p] <= open[p]
  <2> DEFINE q == <<s, sym, side>>
  <2>1. PICK pnl \in Int, qty \in Nat : Filled(s, sym, side, pnl, qty)
    BY <1>2, FillIs
  <2>2. q \in Positions
    BY PositionIn
  <2>4. open' = [open EXCEPT ![q] = Floor0(@ - qty)]
    BY <2>1 DEF Filled, RecordFill
  <2> SUFFICES ASSUME NEW p \in Positions PROVE open'[p] <= open[p]
    OBVIOUS
  <2>5. open[p] \in Nat
    BY DEF TypeOK
  <2> QED
    BY <2>2, <2>4, <2>5 DEF TypeOK, Floor0
<1>3. ASSUME open' = open
      PROVE  \A p \in Positions : open'[p] <= open[p]
  BY <1>3 DEF TypeOK
<1>4. \/ open' = open
      \/ \E s \in Strategies, sym \in Symbols, side \in Sides :
            RequestNew(s, sym, side) \/ Fill(s, sym, side) \/ ForeignFill(s, sym, side)
  BY DEF Next, RequestExisting, RequestRefused, RequestViolated, ResumeStrategy,
         ResetDaily, MarkRead, MarkWrite, SetProfile, stratVars
<1> QED
  BY <1>1, <1>2, <1>3, <1>4

\* Exposure grows only by an addition to an open position or by a request that
\* is refused for no reason.
LEMMA OnlyRequestsExpose ==
    ASSUME TypeOK, Next, NEW p \in Positions, held'[p] > held[p]
    PROVE  open[p] > 0 \/ Refusal(p[1]) = "none"
<1>0. held[p] \in Nat
  BY DEF TypeOK
<1>1. ASSUME NEW s \in Strategies, NEW sym \in Symbols, NEW side \in Sides,
             RequestExisting(s, sym, side) \/ RequestNew(s, sym, side)
      PROVE  open[p] > 0 \/ Refusal(p[1]) = "none"
  <2>1. PICK size : Granted(s, <<s, sym, side>>, size)
    BY <1>1, RequestGrants
  <2>2. p = <<s, sym, side>>
    BY <1>0, <2>1 DEF Granted, TypeOK
  <2> QED
    BY <1>1, <2>2 DEF RequestExisting, RequestNew
<1>2. ASSUME NEW s \in Strategies, NEW sym \in Symbols, NEW side \in Sides,
             Fill(s, sym, side) \/ ForeignFill(s, sym, side)
      PROVE  FALSE
  <2>1. PICK pnl \in Int, qty \in Nat : Filled(s, sym, side, pnl, qty)
    BY <1>2, FillIs
  <2> QED
    BY <1>0, <2>1, PositionIn DEF Filled, TypeOK
<1>3. CASE held' = held
  BY <1>0, <1>3
<1>4. \/ held' = held
      \/ \E s \in Strategies, sym \in Symbols, side \in Sides :
            \/ RequestExisting(s, sym, side) \/ RequestNew(s, sym, side)
            \/ Fill(s, sym, side) \/ ForeignFill(s, sym, side)
  BY DEF Next, RequestRefused, RequestViolated, ResumeStrategy, ResetDaily, MarkRead, MarkWrite,
         SetProfile
<1> QED
  BY <1>1, <1>2, <1>3, <1>4

\* A suspension is not undone by a recovering balance, by another profile or
\* by a request for another symbol: until ResumeStrategy lifts it the
\* strategy's exposure grows only where it already has an entry.
THEOREM SuspensionLasts == Spec => SuspensionHolds
<1>1. TypeOK /\ [Next]_vars
         => [\A p \in Positions : suspended[p[1]] /\ suspended'[p[1]] /\ held'[p] > held[p]
                                     => open[p] > 0]_vars
  <2> SUFFICES ASSUME TypeOK, Next, NEW p \in Positions, suspended[p[1]], held'[p] > held[p]
               PROVE  open[p] > 0
    BY DEF vars
  <2>1. Refusal(p[1]) # "none"
    BY DEF Refusal, IsSuspended
  <2> QED
    BY <2>1, OnlyRequestsExpose
<1> QED
  BY <1>1, TypeCorrect, PTL DEF Spec, SuspensionHolds

\* The number of open positions is raised only below the limit of the profile
\* in force at that moment.
THEOREM OpenLimitHolds == Spec => OpenPositionsLimited
<1> DEFINE Entries == {p \in Positions : open[p] > 0}
           Entries2 == {p \in Positions : open'[p] > 0}
<1>1. TypeOK /\ TypeOK' /\ [Next]_vars
         => [TotalOpen' > TotalOpen => TotalOpen' <= profile.maxOpen]_vars
  <2> SUFFICES ASSUME TypeOK, TypeOK', Next, TotalOpen' > TotalOpen
               PROVE  TotalOpen' <= profile.maxOpen
    BY DEF vars
  <2>1. IsFiniteSet(Entries) /\ IsFiniteSet(Entries2)
    BY FiniteAssumption, FS_Subset
  <2>2. Cardinality(Entries) \in Nat /\ Cardinality(Entries2) \in Nat
    BY <2>1, FS_CardinalityType
  <2>3. TotalOpen = Cardinality(Entries) /\ TotalOpen' = Cardinality(Entries2)
    BY DEF TotalOpen
  <2>4. CASE \A p \in Positions : open'[p] <= open[p]
    <3>1. Entries2 \subseteq Entries
      BY <2>4 DEF TypeOK
    <3>2. Cardinality(Entries2) <= Cardinality(Entries)
      BY <2>1, <3>1, FS_Subset
    <3> QED
      BY <2>2, <2>3, <3>2
  <2>5. ASSUME NEW s \in Strategies, NEW sym \in Symbols, NEW side \in Sides,
               Refusal(s) = "none",
               \A p \in Positions : p # <<s, sym, side>> => open'[p] = open[p]
        PROVE  TotalOpen' <= profile.maxOpen
    <3> DEFINE q == <<s, sym, side>>
    <3>1. Entries2 \subseteq Entries \cup {q}
      BY <2>5
    <3>2. /\ IsFiniteSet(Entries \cup {q})
          /\ Cardinality(Entries \cup {q}) \in Nat
          /\ Cardinality(Entries \cup {q}) <= Cardinality(Entries) + 1
      <4>1. /\ IsFiniteSet(Entries \cup {q})
            /\ \/ Cardinality(Entries \cup {q}) = Cardinality(Entries)
               \/ Cardinality(Entries \cup {q}) = Cardinality(Entries) + 1
        BY <2>1, FS_AddElement
      <4> QED
        BY <2>2, <4>1
    <3>3. Cardinality(Entries2) <= Cardinality(Entries \cup {q})
      BY <3>1, <3>2, FS_Subset
    <3>4. ~(TotalOpen >= profile.maxOpen)
      BY <2>5 DEF Refusal, OpenLimitReached
    <3>5. profile.maxOpen \in Nat
      BY ProfileAssumption DEF TypeOK
    <3> HIDE DEF Entries, Entries2, q
    <3> QED
      BY <2>2, <2>3, <3>2, <3>3, <3>4, <3>5
  <2> QED
    BY <2>4, <2>5, OnlyNewOpens
<1> QED
  BY <1>1, TypeCorrect, PTL DEF Spec, OpenPositionsLimited

(***************************************************************************)
(* The allocation is covered by open entries.  The sum of the entries is   *)
(* the number of their units, and finite sets of units carry the induction. *)
(***************************************************************************)

\* A unit names its position and a number up to the position's exposure.
LEMMA UnitIs ==
    ASSUME NEW f, NEW s
    PROVE  /\ \A p, i : <<p, i>> \in Units(f, s) <=> p \in OpenOf(s) /\ i \in 1 .. f[p]
           /\ \A u \in Units(f, s) : \E p \in OpenOf(s) : \E i \in 1 .. f[p] : u = <<p, i>>
BY DEF Units

\* Raising one position's exposure adds as many units to its strategy.
LEMMA UnitsGrow ==
    ASSUME NEW f \in [Positions -> Nat], NEW g \in [Positions -> Nat], NEW s,
           NEW p \in OpenOf(s), f[p] <= g[p],
           \A q \in Positions : q # p => g[q] = f[q],
           IsFiniteSet(Units(f, s)) \/ IsFiniteSet(Units(g, s))
    PROVE  /\ IsFiniteSet(Units(f, s)) /\ IsFiniteSet(Units(g, s))
           /\ Cardinality(Units(g, s)) = Cardinality(Units(f, s)) + (g[p] - f[p])
<1> DEFINE U == Units(f, s)
           V == Units(g, s)
           I == (f[p] + 1) .. g[p]
           D == {p} \X I
<1>1. p \in Positions /\ f[p] \in Nat /\ g[p] \in Nat
  BY DEF OpenOf
<1>2. IsFiniteSet(I) /\ Cardinality(I) = g[p] - f[p]
  <2> DEFINE a == f[p] + 1
             b == g[p]
  <2>1. a \in Int /\ b \in Int
    BY <1>1
  <2> HIDE DEF a, b
  <2>2. IsFiniteSet(a .. b) /\ Cardinality(a .. b) = IF a > b THEN 0 ELSE b - a + 1
    BY <2>1, FS_Interval
  <2> QED
    BY <1>1, <2>2 DEF a, b
<1>3. IsFiniteSet(D) /\ Cardinality(D) = g[p] - f[p]
  <2> HIDE DEF I
  <2>1. IsFiniteSet({p}) /\ Cardinality({p}) = 1
    BY FS_Singleton
  <2>2. IsFiniteSet({p} \X I) /\ Cardinality({p} \X I) = 1 * Cardinality(I)
    BY <1>2, <2>1, FS_Product, ZenonT(30)
  <2> QED
    BY <1>1, <1>2, <2>2
<1>4. \A q \in OpenOf(s) : q \in Positions
  BY DEF OpenOf
<1>5. ASSUME NEW q \in OpenOf(s), NEW i
      PROVE  /\ <<q, i>> \in V <=> <<q, i>> \in U \/ <<q, i>> \in D
             /\ ~(<<q, i>> \in U /\ <<q, i>> \in D)
  <2>1. (<<q, i>> \in U <=> i \in 1 .. f[q]) /\ (<<q, i>> \in V <=> i \in 1 .. g[q])
    BY UnitIs
  <2>2. <<q, i>> \in D <=> q = p /\ i \in I
    OBVIOUS
  <2> HIDE DEF U, V, D
  <2> QED
    BY <1>1, <1>4, <2>1, <2>2
<1>6. /\ \A u \in U : \E q \in OpenOf(s) : \E i : u = <<q, i>>
      /\ \A u \in V : \E q \in OpenOf(s) : \E i : u = <<q, i>>
  BY UnitIs
<1>7. \A u \in D : \E q \in OpenOf(s) : \E i : u = <<q, i>>
  OBVIOUS
<1> HIDE DEF U, V, D
<1>8. V = U \cup D /\ U \cap D = {} /\ U \in SUBSET V
  BY <1>5, <1>6, <1>7
<1>9. IsFiniteSet(U)
  BY <1>8, FS_Subset DEF U, V
<1>10. /\ IsFiniteSet(V)
       /\ Cardinality(V) = Cardinality(U) + Cardinality(D) - Cardinality(U \cap D)
  BY <1>3, <1>8, <1>9, FS_Union
<1>11. Cardinality(U \cap D) = 0 /\ Cardinality(U) \in Nat
  BY <1>8, <1>9, FS_EmptySet, FS_CardinalityType
<1>12. Cardinality(V) = Cardinality(U) + (g[p] - f[p])
  BY <1>1, <1>3, <1>10, <1>11
<1> QED
  BY <1>9, <1>10, <1>12 DEF U, V

\* The units of the other strategies stay.
LEMMA UnitsOther ==
    ASSUME NEW f, NEW g, NEW s, \A q \in OpenOf(s) : g[q] = f[q]
    PROVE  Units(g, s) = Units(f, s)
BY DEF Units

Covered(f, a) ==
    \A s \in Strategies : IsFiniteSet(Units(f, s)) /\ a[s] <= Cardinality(Units(f, s))

\* A change of one position and its strategy's allocation keeps the cover when
\* the allocation follows the position.
LEMMA CoveredStep ==
    ASSUME NEW f \in [Positions -> Nat], NEW g \in [Positions -> Nat],
           NEW a \in [Strategies -> Nat], NEW b \in [Strategies -> Nat],
           NEW s \in Strategies, NEW p \in OpenOf(s),
           \A q \in Positions : q # p => g[q] = f[q],
           \A t \in Strategies : t # s => b[t] = a[t],
           Covered(f, a),
           b[s] = 0 \/ b[s] - a[s] <= g[p] - f[p]
    PROVE  Covered(g, b)
<1>1. p \in Positions /\ p[1] = s /\ f[p] \in Nat /\ g[p] \in Nat /\ a[s] \in Nat /\ b[s] \in Nat
  BY DEF OpenOf
<1>2. ASSUME NEW t \in Strategies, t # s
      PROVE  IsFiniteSet(Units(g, t)) /\ b[t] <= Cardinality(Units(g, t))
  <2>1. \A q \in OpenOf(t) : g[q] = f[q]
    BY <1>1, <1>2 DEF OpenOf
  <2>2. Units(g, t) = Units(f, t) /\ b[t] = a[t]
    BY <1>2, <2>1, UnitsOther
  <2> QED
    BY <2>2, Zenon DEF Covered
<1>3. IsFiniteSet(Units(f, s)) /\ a[s] <= Cardinality(Units(f, s))
  BY DEF Covered
<1>4. /\ IsFiniteSet(Units(g, s))
      /\ Cardinality(Units(g, s)) = Cardinality(Units(f, s)) + (g[p] - f[p])
  <2>1. CASE f[p] <= g[p]
    BY <1>3, <2>1, UnitsGrow
  <2>2. CASE g[p] <= f[p]
    <3>1. \A q \in Positions : q # p => f[q] = g[q]
      OBVIOUS
    <3>2. /\ IsFiniteSet(Units(g, s))
          /\ Cardinality(Units(f, s)) = Cardinality(Units(g, s)) + (f[p] - g[p])
      BY <1>3, <2>2, <3>1, UnitsGrow
    <3>3. Cardinality(Units(f, s)) \in Nat /\ Cardinality(Units(g, s)) \in Nat
      BY <1>3, <3>2, FS_CardinalityType
    <3> QED
      BY <1>1, <3>2, <3>3
  <2> QED
    BY <1>1, <2>1, <2>2
<1>5. Cardinality(Units(f, s)) \in Nat /\ Cardinality(Units(g, s)) \in Nat
  BY <1>3, <1>4, FS_CardinalityType
<1>6. b[s] <= Cardinality(Units(g, s))
  BY <1>1, <1>3, <1>4, <1>5
<1> QED
  BY <1>2, <1>4, <1>6 DEF Covered

\* A new pool has allocated nothing.
LEMMA CoveredInit == Init => Covered(open, allocated)
<1> SUFFICES ASSUME Init, NEW s \in Strategies
             PROVE  /\ IsFiniteSet(Units(open, s)) /\ allocated[s] <= Cardinality(Units(open, s))
  BY DEF Covered
<1>1. \A p \in OpenOf(s) : open[p] = 0
  BY DEF Init, OpenOf
<1>2. Units(open, s) = {}
  BY <1>1 DEF Units
<1> QED
  BY <1>2, FS_EmptySet DEF Init

\* Every step keeps the cover: a grant books both, a fill releases at least as
\* much of the allocation as of the entry, or all of it.
LEMMA CoveredNext ==
    ASSUME TypeOK, TypeOK', Covered(open, allocated), [Next]_vars
    PROVE  Covered(open, allocated)'
<1>1. ASSUME NEW s \in Strategies, NEW sym \in Symbols, NEW side \in Sides,
             RequestExisting(s, sym, side) \/ RequestNew(s, sym, side)
      PROVE  Covered(open', allocated')
  <2> DEFINE p == <<s, sym, side>>
  <2>1. p \in OpenOf(s) /\ p \in Positions
    BY PositionIn DEF OpenOf
  <2> HIDE DEF p
  <2>2. PICK size \in Nat : Granted(s, p, size)
    BY <1>1, RequestGrants DEF p
  <2>3. CASE UNCHANGED <<allocated, open>>
    BY <2>3
  <2>4. CASE /\ allocated' = [allocated EXCEPT ![s] = @ + size]
             /\ open' = [open EXCEPT ![p] = @ + size]
    <3>1. /\ \A q \in Positions : q # p => open'[q] = open[q]
          /\ \A t \in Strategies : t # s => allocated'[t] = allocated[t]
          /\ open'[p] = open[p] + size /\ allocated'[s] = allocated[s] + size
          /\ open[p] \in Nat /\ allocated[s] \in Nat
      BY <2>1, <2>4 DEF TypeOK
    <3>2. allocated'[s] = 0 \/ allocated'[s] - allocated[s] <= open'[p] - open[p]
      BY <3>1
    <3>3. /\ open \in [Positions -> Nat] /\ open' \in [Positions -> Nat]
          /\ allocated \in [Strategies -> Nat] /\ allocated' \in [Strategies -> Nat]
      BY DEF TypeOK
    <3> QED
      BY <2>1, <3>1, <3>2, <3>3, CoveredStep
  <2> QED
    BY <2>2, <2>3, <2>4 DEF Granted
<1>2. ASSUME NEW s \in Strategies, NEW sym \in Symbols, NEW side \in Sides,
             Fill(s, sym, side) \/ ForeignFill(s, sym, side)
      PROVE  Covered(open', allocated')
  <2> DEFINE p == <<s, sym, side>>
  <2>1. p \in OpenOf(s) /\ p \in Positions
    BY PositionIn DEF OpenOf
  <2>2. PICK pnl \in Int, qty \in Nat : Filled(s, sym, side, pnl, qty)
    BY <1>2, FillIs
  <2>3. /\ open' = [open EXCEPT ![p] = Floor0(@ - qty)]
        /\ allocated' = [allocated EXCEPT ![s] = Floor0(@ - qty)]
    BY <2>2 DEF Filled, RecordFill, Release
  <2> HIDE DEF p
  <2>5. /\ \A q \in Positions : q # p => open'[q] = open[q]
        /\ \A t \in Strategies : t # s => allocated'[t] = allocated[t]
        /\ open'[p] = Floor0(open[p] - qty) /\ allocated'[s] = Floor0(allocated[s] - qty)
        /\ open[p] \in Nat /\ allocated[s] \in Nat
    BY <2>1, <2>3 DEF TypeOK
  <2>6. allocated'[s] = 0 \/ allocated'[s] - allocated[s] <= open'[p] - open[p]
    BY <2>5 DEF Floor0
  <2>7. /\ open \in [Positions -> Nat] /\ open' \in [Positions -> Nat]
        /\ allocated \in [Strategies -> Nat] /\ allocated' \in [Strategies -> Nat]
    BY DEF TypeOK
  <2> QED
    BY <2>1, <2>5, <2>6, <2>7, CoveredStep
<1>3. \/ UNCHANGED <<allocated, open>>
      \/ \E s \in Strategies, sym \in Symbols, side \in Sides :
            \/ RequestExisting(s, sym, side) \/ RequestNew(s, sym, side)
            \/ Fill(s, sym, side) \/ ForeignFill(s, sym, side)
  BY DEF Next, RequestRefused, RequestViolated, ResumeStrategy, ResetDaily, MarkRead, MarkWrite,
         SetProfile, stratVars, vars
<1>4. CASE UNCHANGED <<allocated, open>>
  BY <1>4
<1> QED
  BY <1>1, <1>2, <1>3, <1>4

\* The books never overstate what was approved: a strategy's allocation is at
\* most the sum of its open entries, and each entry at most the approved
\* exposure not yet closed, through any grants, additions and partial fills.
THEOREM BooksAreCovered == Spec => []BooksNeverOverstate
<1> DEFINE C == Covered(open, allocated)
<1>1. TypeOK /\ TypeOK' /\ C /\ [Next]_vars => C'
  BY CoveredNext
<1>2. Init => C
  BY CoveredInit
<1>3. C => AllocationCovered
  BY DEF Covered, AllocationCovered
<1> HIDE DEF C
<1>4. Spec => []C
  BY <1>1, <1>2, TypeCorrect, PTL DEF Spec
<1>5. IInv => EntriesCovered
  BY DEF IInv
<1>6. AllocationCovered /\ EntriesCovered => BooksNeverOverstate
  BY DEF BooksNeverOverstate
<1> QED
  BY <1>3, <1>4, <1>5, <1>6, InvHolds, PTL
=============================================================================
