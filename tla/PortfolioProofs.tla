-------------------------- MODULE PortfolioProofs ---------------------------
(***************************************************************************)
(* Proofs about Portfolio for every value of its constants: the types, the *)
(* equity that compounds and how far it may fall, what the models learn,   *)
(* and what the files show whenever their writer dies.                     *)
(***************************************************************************)
EXTENDS PortfolioProperties, TLAPS

-----------------------------------------------------------------------------
(* What is assumed of the constants, one by one.                           *)

\* The counts among the constants are counts.
LEMMA Bounds ==
  NumMarkets \in Nat /\ MaxProcesses \in Nat \ {0} /\ VolatilityWindow \in Nat \ {0}
  BY PortfolioAssumptions, VolatilityWindowAssumption

\* The amounts and percentages among the constants are numbers.
LEMMA Amounts ==
  /\ StartingCash \in Nat /\ ClipPct \in Nat /\ MinClip \in Nat /\ SoftPct \in Nat /\ HardPct \in Nat
  /\ MaxExposure \in Nat /\ ExposurePct \in Nat /\ FeePct \in Nat /\ CheckpointEvery \in Nat
  /\ MinMultiplierPct \in Nat /\ Profits \subseteq Int
  BY PortfolioAssumptions

\* The strategies are numbered in the order of their kinds.
LEMMA StrategyNumbers == Len(Kinds) \in Nat /\ Strategies = 1 .. Len(Kinds)
  BY PortfolioAssumptions DEF Strategies
-----------------------------------------------------------------------------
(* The larger and the smaller of two numbers.                              *)

\* The larger of two numbers.
LEMMA MaxOfTwo == \A a, b \in Int : Max({a, b}) = IF a >= b THEN a ELSE b
  <1> SUFFICES ASSUME NEW a \in Int, NEW b \in Int
               PROVE  Max({a, b}) = IF a >= b THEN a ELSE b
      OBVIOUS
  <1> DEFINE m == IF a >= b THEN a ELSE b
  <1>1. m \in {a, b} /\ \A y \in {a, b} : m >= y
    OBVIOUS
  <1>2. \A x \in {a, b} : (\A y \in {a, b} : x >= y) => x = m
    OBVIOUS
  <1> QED BY <1>1, <1>2 DEF Max

\* The smaller of two numbers.
LEMMA MinOfTwo == \A a, b \in Int : Min({a, b}) = IF a <= b THEN a ELSE b
  <1> SUFFICES ASSUME NEW a \in Int, NEW b \in Int
               PROVE  Min({a, b}) = IF a <= b THEN a ELSE b
      OBVIOUS
  <1> DEFINE m == IF a <= b THEN a ELSE b
  <1>1. m \in {a, b} /\ \A y \in {a, b} : m <= y
    OBVIOUS
  <1>2. \A x \in {a, b} : (\A y \in {a, b} : x <= y) => x = m
    OBVIOUS
  <1> QED BY <1>1, <1>2 DEF Min
-----------------------------------------------------------------------------
(* Types, and where the control of the loop may be.                        *)

\* A market has a result when the loop is past it, the strategies run in
\* turn, and a file is only being written where one is due.
Control ==
  /\ Len(per) <= Len(Kinds)
  /\ phase \in {"run", "stopped"} \/ per = <<>>
  /\ phase = "run" => market <= NumMarkets
  /\ Len(results) <= NumMarkets /\ Len(results) <= market
  /\ \A i \in 1 .. Len(results) : results[i].market <= market /\ Len(results[i].per) = Len(Kinds)
  /\ phase \in {"load", "run"} =>
       /\ Len(results) < market /\ todo = <<>> /\ stage = "create"
       /\ \A i \in 1 .. Len(results) : results[i].market < market
  /\ phase = "write" /\ stage # "create" => todo # <<>>

TypeInv == TypeOK /\ Control

\* The numbers the control depends on.
LEMMA Shapes ==
  ASSUME TypeOK
  PROVE  /\ market \in Nat /\ Len(results) \in Nat /\ Len(per) \in Nat
         /\ \A i \in 1 .. Len(results) : results[i] \in Results /\ results[i].market \in Nat
         /\ \A i \in 1 .. Len(per) : per[i] \in Runs
  <1>1. market \in 1 .. NumMarkets + 1 /\ results \in Seq(Results) /\ per \in Seq(Runs)
    BY DEF TypeOK
  <1>2. \A x \in Results : x.market \in Nat
    BY Bounds DEF Results
  <1> QED BY <1>1, <1>2, Bounds

\* Pushing on a vector keeps what was there.
LEMMA AppendType ==
  ASSUME NEW S, NEW s \in Seq(S), NEW x \in S
  PROVE  /\ Append(s, x) \in Seq(S) /\ Len(Append(s, x)) = Len(s) + 1
         /\ Append(s, x)[Len(s) + 1] = x /\ \A i \in 1 .. Len(s) : Append(s, x)[i] = s[i]
  OBVIOUS

\* A checkpoint writes the markets file, then the summary.
LEMMA OutputsUnfold ==
  /\ Outputs # <<>> /\ Head(Outputs) = "markets" /\ Tail(Outputs) = <<"summary">>
  /\ Tail(Outputs) # <<>> /\ Head(Tail(Outputs)) = "summary" /\ Tail(Tail(Outputs)) = <<>>
  BY DEF Outputs

\* A model begins with the snapshot or with nothing.
LEMMA NewModelType ==
  /\ ModelWithSnapshot \in Models
  /\ Len(ModelWithSnapshot.ranges) <= VolatilityWindow
  /\ NewModel \in Models
  <1>1. NewModel \in Models /\ NewModel.ranges = <<>>
    BY Bounds DEF NewModel, Models, NoMarket
  <1>2. Snapshot \in Seq(0 .. NumMarkets)
    BY Bounds DEF Snapshot
  <1> HIDE DEF NewModel
  <1>3. /\ LoadSnapshot(NewModel, Snapshot) \in Models
        /\ LoadSnapshot(NewModel, Snapshot).ranges = NewModel.ranges
    BY <1>1, <1>2 DEF LoadSnapshot, Models
  <1> QED BY <1>1, <1>3, Bounds DEF ModelWithSnapshot

\* The initial state has the types.
LEMMA InitType == Init => TypeInv
  <1> SUFFICES ASSUME Init PROVE TypeInv
      OBVIOUS
  <1>1. model \in [Strategies -> Models]
        /\ \A k \in Strategies : Len(model[k].ranges) <= VolatilityWindow
    BY NewModelType DEF Init
  <1>2. disk \in [Names -> Files]
    BY Bounds DEF Init, Files, Absent
  <1>3. equity \in [Strategies -> Nat] /\ peak \in [Strategies -> Nat]
        /\ skew \in [Strategies -> Seq(1 .. NumMarkets)]
    BY Amounts DEF Init
  <1>4. /\ per \in Seq(Runs) /\ results \in Seq(Results) /\ samples \in Seq(Samples)
        /\ Len(per) = 0 /\ Len(results) = 0
    BY DEF Init
  <1>5. Control
    BY <1>4, StrategyNumbers, Bounds DEF Init, Control
  <1>6. /\ phase = "load" /\ market = 1 /\ active = FALSE /\ captured = FALSE
        /\ todo = <<>> /\ stage = "create" /\ process = 1
        /\ market \in 1 .. NumMarkets + 1 /\ process \in 1 .. MaxProcesses
    BY Bounds DEF Init
  <1> QED BY <1>1, <1>2, <1>3, <1>4, <1>5, <1>6 DEF TypeOK, TypeInv

\* A step of the loop that touches neither results nor models.
LEMMA QuietType ==
  ASSUME TypeInv, LoadFails \/ (\E some \in BOOLEAN : LoadMarket(some)) \/ Finish \/ Written
  PROVE  TypeInv'
  <1> USE DEF TypeInv
  <1>1. TypeOK'
    <2>1. CASE LoadFails
      BY <2>1, Bounds DEF TypeOK, LoadFails, files
    <2>2. CASE \E some \in BOOLEAN : LoadMarket(some)
      BY <2>2, Bounds DEF TypeOK, LoadMarket, files
    <2>3. CASE Finish
      BY <2>3, Bounds DEF TypeOK, Finish, memory
    <2>4. CASE Written
      BY <2>4, Bounds DEF TypeOK, Written, files
    <2> QED BY <2>1, <2>2, <2>3, <2>4
  <1>2. /\ UNCHANGED <<results, per, stage>>
        /\ \/ phase = "load" /\ phase' = "load" /\ market <= NumMarkets /\ market' = market + 1 /\ todo' = todo
           \/ phase = "load" /\ phase' = "run" /\ market <= NumMarkets /\ market' = market /\ todo' = todo
           \/ phase = "load" /\ phase' = "write" /\ market' = market /\ todo' = Outputs
           \/ phase = "write" /\ phase' = "done" /\ market' = market /\ todo = <<>> /\ todo' = todo
           \/ phase = "write" /\ phase' = "load" /\ market <= NumMarkets /\ market' = market + 1
              /\ todo = <<>> /\ todo' = todo
    BY Shapes, Bounds DEF LoadFails, LoadMarket, Finish, Written, memory, files
  <1>3. stage = "create"
    BY <1>2 DEF Control
  <1>4. Control'
    BY <1>2, <1>3, Shapes, Bounds DEF Control
  <1> QED BY <1>1, <1>4

\* CloseMarket keeps the types.
LEMMA CloseMarketType == TypeInv /\ CloseMarket => TypeInv'
  <1> SUFFICES ASSUME TypeInv, CloseMarket PROVE TypeInv'
      OBVIOUS
  <1> USE DEF TypeInv
  <1> DEFINE r == [market |-> market, per |-> per]
  <1>1. /\ market \in 1 .. NumMarkets /\ Len(per) = Len(Kinds) /\ r \in Results
        /\ phase = "run" /\ results' = Append(results, r) /\ per' = <<>>
    BY StrategyNumbers DEF CloseMarket, Control, TypeOK, Turn, Results
  <1> HIDE DEF r
  <1>2. /\ results' \in Seq(Results) /\ Len(results') = Len(results) + 1
        /\ results'[Len(results')] = r /\ \A i \in 1 .. Len(results) : results'[i] = results[i]
    BY <1>1 DEF TypeOK
  <1>3. \A i \in 1 .. Len(results') : results'[i].market <= market /\ Len(results'[i].per) = Len(Kinds)
    BY <1>1, <1>2 DEF r, Control, TypeOK
  <1>4. TypeOK'
    BY <1>1, <1>2, Bounds DEF TypeOK, CloseMarket
  <1>5. /\ UNCHANGED <<stage>> /\ Len(results) < market
        /\ \/ phase' = "write" /\ todo' = Outputs /\ market' = market
           \/ phase' = "load" /\ todo' = todo /\ market' = market + 1
    BY <1>1 DEF CloseMarket, Control
  <1>6. /\ market \in Nat /\ Len(results) \in Nat /\ todo = <<>> /\ stage = "create"
        /\ \A i \in 1 .. Len(results') : results'[i].market \in Nat
    <2>1. \A x \in Results : x.market \in Nat
      BY Bounds DEF Results
    <2> QED BY <1>1, <1>2, <2>1, Shapes DEF Control
  <1>7. Len(per') = 0
    BY <1>1
  <1>8. /\ Len(results') <= NumMarkets /\ Len(results') <= market /\ market <= NumMarkets
    BY <1>1, <1>2, <1>5, <1>6, Bounds
  <1>9. Control'
    BY <1>1, <1>3, <1>5, <1>6, <1>7, <1>8, OutputsUnfold, StrategyNumbers DEF Control
  <1> QED BY <1>4, <1>9

\* No market leaves an equity below zero.
LEMMA EndsNat == TypeOK => \A k \in Strategies : Ends(k) \subseteq Nat
  <1> SUFFICES ASSUME TypeOK, NEW k \in Strategies PROVE Ends(k) \subseteq Nat
      OBVIOUS
  <1>1. equity[k] \in Nat
    BY DEF TypeOK
  <1>2. {equity[k] + p : p \in Profits} \subseteq Int
    <2> SUFFICES ASSUME NEW p \in Profits PROVE equity[k] + p \in Int
        OBVIOUS
    <2>1. p \in Int
      BY Amounts
    <2> QED BY <1>1, <2>1
  <1> QED BY <1>1, <1>2 DEF Ends, Bankroll

\* The new peak is the larger of the old peak and the equity.
LEMMA NewPeakNat ==
  ASSUME TypeOK, NEW k \in Strategies, NEW end \in Nat
  PROVE  NewPeak(k, end) \in Nat /\ NewPeak(k, end) = IF peak[k] >= end THEN peak[k] ELSE end
  <1>1. peak[k] \in Nat
    BY DEF TypeOK
  <1> QED BY <1>1, MaxOfTwo DEF NewPeak

\* Ring::push keeps the capacity of the ring and brings in the new entry only.
LEMMA PushType ==
  ASSUME NEW S, NEW ring \in Seq(S), Len(ring) <= VolatilityWindow, NEW x \in S
  PROVE  Push(ring, x) \in Seq(S) /\ Len(Push(ring, x)) <= VolatilityWindow
  <1> USE Bounds
  <1>1. CASE Len(ring) < VolatilityWindow
    BY <1>1 DEF Push
  <1>2. CASE ~(Len(ring) < VolatilityWindow)
    <2>1. ring # <<>> /\ Tail(ring) \in Seq(S) /\ Len(Tail(ring)) = Len(ring) - 1
      BY <1>2
    <2> QED BY <1>2, <2>1 DEF Push
  <1> QED BY <1>1, <1>2

\* What a market run makes of a model is a model.
LEMMA EvaluateType ==
  ASSUME NEW ms \in Models, NEW m \in 1 .. NumMarkets
  PROVE  /\ Evaluate(ms, m) \in Models /\ Evaluate(ms, m).ranges = ms.ranges
         /\ Evaluate(ms, m) = [rolling |-> ms.rolling \union {m}, pending |-> m, ranging |-> m,
                               ranges |-> ms.ranges, outcomes |-> ms.outcomes,
                               calibrator |-> ms.calibrator]
  <1>1. Evaluate(ms, m) = [rolling |-> ms.rolling \union {m}, pending |-> m, ranging |-> m,
                           ranges |-> ms.ranges, outcomes |-> ms.outcomes,
                           calibrator |-> ms.calibrator]
    <2>1. ms = [rolling |-> ms.rolling, pending |-> ms.pending, ranging |-> ms.ranging,
                ranges |-> ms.ranges, outcomes |-> ms.outcomes, calibrator |-> ms.calibrator]
      BY DEF Models
    <2> DEFINE q == Evaluate(ms, m)
    <2>2. /\ DOMAIN q = {"rolling", "pending", "ranging", "ranges", "outcomes", "calibrator"}
          /\ q = [x \in DOMAIN q |-> q[x]]
      BY <2>1 DEF Evaluate
    <2>3. /\ q.rolling = ms.rolling \union {m} /\ q.pending = m /\ q.ranging = m
          /\ q.ranges = ms.ranges /\ q.outcomes = ms.outcomes /\ q.calibrator = ms.calibrator
      BY <2>1 DEF Evaluate
    <2> HIDE DEF q
    <2>4. q = [rolling |-> q.rolling, pending |-> q.pending, ranging |-> q.ranging,
               ranges |-> q.ranges, outcomes |-> q.outcomes, calibrator |-> q.calibrator]
      BY <2>2
    <2> QED BY <2>3, <2>4 DEF q
  <1>2. m \in 0 .. NumMarkets
    BY Bounds
  <1> QED BY <1>1, <1>2 DEF Models

\* What record_market_result leaves of a model.
LEMMA RecordType ==
  ASSUME NEW ms \in Models, Len(ms.ranges) <= VolatilityWindow, NEW m \in 1 .. NumMarkets
  PROVE  /\ RecordMarketResult(ms, m) \in Models
         /\ Len(RecordMarketResult(ms, m).ranges) <= VolatilityWindow
         /\ RecordMarketResult(ms, m) =
              [rolling |-> {}, pending |-> NoMarket, ranging |-> NoMarket,
               ranges |-> IF ms.ranging = NoMarket THEN ms.ranges ELSE Push(ms.ranges, ms.ranging),
               outcomes |-> Append(ms.outcomes, m),
               calibrator |-> IF ms.pending = NoMarket THEN ms.calibrator
                              ELSE Append(ms.calibrator, ms.pending)]
  <1> DEFINE ranges == IF ms.ranging = NoMarket THEN ms.ranges ELSE Push(ms.ranges, ms.ranging)
             calibrator == IF ms.pending = NoMarket THEN ms.calibrator
                           ELSE Append(ms.calibrator, ms.pending)
             outcomes == Append(ms.outcomes, m)
  <1>1. ranges \in Seq(1 .. NumMarkets) /\ Len(ranges) <= VolatilityWindow
    <2>1. ms.ranges \in Seq(1 .. NumMarkets) /\ ms.ranging \in 0 .. NumMarkets
      BY DEF Models
    <2>2. ms.ranging # NoMarket => ms.ranging \in 1 .. NumMarkets
      BY <2>1, Bounds DEF NoMarket
    <2> QED BY <2>1, <2>2, PushType
  <1>2. calibrator \in Seq(0 .. NumMarkets) /\ outcomes \in Seq(1 .. NumMarkets)
    <2>1. /\ ms.calibrator \in Seq(0 .. NumMarkets) /\ ms.pending \in 0 .. NumMarkets
          /\ ms.outcomes \in Seq(1 .. NumMarkets)
      BY DEF Models
    <2>2. /\ Append(ms.calibrator, ms.pending) \in Seq(0 .. NumMarkets)
          /\ outcomes \in Seq(1 .. NumMarkets)
      BY <2>1, AppendType
    <2> QED BY <2>1, <2>2
  <1> HIDE DEF ranges, calibrator, outcomes
  <1>3. RecordMarketResult(ms, m) =
          [rolling |-> {}, pending |-> NoMarket, ranging |-> NoMarket, ranges |-> ranges,
           outcomes |-> outcomes, calibrator |-> calibrator]
    <2> DEFINE r == [rolling |-> ms.rolling, pending |-> ms.pending, ranging |-> NoMarket,
                     ranges |-> ranges, outcomes |-> outcomes, calibrator |-> calibrator]
    <2>1. RecordMarketResult(ms, m) = ResetRolling(r)
      BY DEF RecordMarketResult, ranges, calibrator, outcomes
    <2> QED BY <2>1 DEF ResetRolling
  <1>4. RecordMarketResult(ms, m) \in Models /\ Len(RecordMarketResult(ms, m).ranges) <= VolatilityWindow
    BY <1>1, <1>2, <1>3, Bounds DEF Models, NoMarket
  <1> QED BY <1>3, <1>4 DEF ranges, outcomes, calibrator

\* A market run leaves a model that is one.
LEMMA LearnedType ==
  ASSUME TypeInv, phase = "run", NEW k \in Strategies
  PROVE  /\ Learned(model[k], k) \in Models
         /\ Len(Learned(model[k], k).ranges) <= VolatilityWindow
         /\ Sources(k) \subseteq 1 .. NumMarkets
  <1> DEFINE ms == model[k]
  <1>1. market \in 1 .. NumMarkets /\ ms \in Models /\ Len(ms.ranges) <= VolatilityWindow
    BY Bounds DEF TypeInv, TypeOK, Control
  <1> HIDE DEF ms
  <1> DEFINE seen == IF Reactive(k) \/ SharedWithRunner(k) THEN Evaluate(ms, market) ELSE ms
             own  == IF Reactive(k) THEN RecordMarketResult(seen, market) ELSE seen
  <1>2. seen \in Models /\ Len(seen.ranges) <= VolatilityWindow
    BY <1>1, EvaluateType
  <1> HIDE DEF seen
  <1>3. own \in Models /\ Len(own.ranges) <= VolatilityWindow
    BY <1>1, <1>2, RecordType
  <1> HIDE DEF own
  <1>4. Learned(ms, k) =
          IF SharedWithRunner(k) /\ ~Frozen THEN RecordMarketResult(own, market) ELSE own
    BY DEF Learned, seen, own
  <1>5. Sources(k) \subseteq 1 .. NumMarkets
    BY <1>1, EvaluateType, NewModelType DEF Sources, Models, ms
  <1> QED BY <1>1, <1>3, <1>4, <1>5, RecordType DEF ms

\* Running a strategy on a market keeps the types.
LEMMA RunStrategyType == ASSUME TypeInv, NEW end, RunStrategy(end) PROVE TypeInv'
  <1> DEFINE k == Turn
             run == [start |-> Bankroll(k), end |-> end]
             sample == [market |-> market, sources |-> Sources(k)]
  <1>1. k \in Strategies /\ phase = "run" /\ k = Len(per) + 1 /\ end \in Ends(k)
    BY DEF RunStrategy, Turn
  <1>2. end \in Nat /\ run \in Runs /\ NewPeak(k, end) \in Nat
    BY <1>1, EndsNat, NewPeakNat DEF TypeInv, TypeOK, Bankroll, Runs
  <1>3. market \in 1 .. NumMarkets /\ sample \in Samples
    BY <1>1, LearnedType, Shapes, Bounds DEF TypeInv, Control, Samples
  <1> HIDE DEF run, sample, k
  <1>4. per' = Append(per, run) /\ per' \in Seq(Runs) /\ Len(per') <= Len(Kinds)
    BY <1>1, <1>2, StrategyNumbers DEF RunStrategy, TypeInv, TypeOK, run, k
  <1>5. equity' \in [Strategies -> Nat] /\ peak' \in [Strategies -> Nat]
    BY <1>1, <1>2 DEF RunStrategy, TypeInv, TypeOK, k
  <1>6. /\ model' \in [Strategies -> Models]
        /\ \A s \in Strategies : Len(model'[s].ranges) <= VolatilityWindow
    BY <1>1, LearnedType DEF RunStrategy, TypeInv, TypeOK, k
  <1>7. skew' \in [Strategies -> Seq(1 .. NumMarkets)]
    <2>1. CASE UNCHANGED skew
      BY <2>1 DEF TypeInv, TypeOK
    <2>2. CASE skew' = [skew EXCEPT ![k] = Append(skew[k], market)]
      <3>1. Append(skew[k], market) \in Seq(1 .. NumMarkets)
        BY <1>1, <1>3 DEF TypeInv, TypeOK
      <3> QED BY <1>1, <2>2, <3>1 DEF TypeInv, TypeOK
    <2> QED BY <2>1, <2>2 DEF RunStrategy, k
  <1>8. samples' \in Seq(Samples) /\ captured' \in BOOLEAN
    <2>1. samples' \in {samples, Append(samples, sample)} /\ captured' \in {captured, TRUE}
      BY DEF RunStrategy, sample, k
    <2>2. samples \in Seq(Samples) /\ captured \in BOOLEAN
      BY DEF TypeInv, TypeOK
    <2>3. Append(samples, sample) \in Seq(Samples)
      BY <1>3, <2>2, AppendType
    <2> QED BY <2>1, <2>2, <2>3
  <1>9. UNCHANGED <<phase, market, active, results, todo, stage, disk, process>>
    BY DEF RunStrategy, files
  <1>10. TypeOK'
    BY <1>4, <1>5, <1>6, <1>7, <1>8, <1>9 DEF TypeInv, TypeOK
  <1>11. Control'
    BY <1>1, <1>4, <1>9 DEF TypeInv, Control
  <1> QED BY <1>10, <1>11 DEF TypeInv

\* Each output has a temporary name of its own.
LEMMA TmpName == \A f \in {"markets", "summary"} : TmpOf(f) \in {"markets.tmp", "summary.tmp"}
                                                 /\ TmpOf(f) \in Names
  BY DEF TmpOf, Names

\* What is left to write is one or both of the outputs.
LEMMA NextFile ==
  ASSUME TypeOK, todo # <<>>
  PROVE  Head(todo) \in {"markets", "summary"} /\ Tail(todo) \in {<<>>, Tail(Outputs)}
  BY OutputsUnfold DEF TypeOK

\* What is written to a file is a file.
LEMMA ContentsType ==
  ASSUME TypeInv, NEW whole \in BOOLEAN PROVE Contents(whole) \in Files
  BY DEF TypeInv, TypeOK, Control, Contents, Files

\* The steps of writing a checkpoint keep the types.
LEMMA WriteType ==
  ASSUME TypeInv, CreateTmp \/ FillTmp \/ Rename PROVE TypeInv'
  <1>1. todo # <<>> /\ phase = "write"
    BY DEF TypeInv, Control, CreateTmp, FillTmp, Rename
  <1> DEFINE f == Head(todo)
  <1>2. f \in {"markets", "summary"} /\ TmpOf(f) \in Names /\ f \in Names
    BY <1>1, NextFile, TmpName DEF TypeInv, Names
  <1> HIDE DEF f
  <1>3. disk' \in [Names -> Files]
    <2>1. CASE CreateTmp
      BY <2>1, <1>2, ContentsType DEF CreateTmp, TypeInv, TypeOK, f
    <2>2. CASE FillTmp
      BY <2>2, <1>2, ContentsType DEF FillTmp, TypeInv, TypeOK, f
    <2>3. CASE Rename
      <3>1. Absent \in Files
        BY Bounds DEF Absent, Files
      <3>2. disk[TmpOf(f)] \in Files
        BY <1>2 DEF TypeInv, TypeOK
      <3> QED BY <2>3, <1>2, <3>1, <3>2 DEF Rename, TypeInv, TypeOK, f
    <2> QED BY <2>1, <2>2, <2>3
  <1>4. /\ stage' \in {"create", "fill", "rename"} /\ UNCHANGED <<phase, process, memory>>
        /\ todo' \in {<<>>, Outputs, Tail(Outputs)}
        /\ stage' # "create" => todo' # <<>>
    BY <1>1, NextFile DEF CreateTmp, FillTmp, Rename, TypeInv, TypeOK
  <1> QED BY <1>1, <1>3, <1>4 DEF TypeInv, TypeOK, Control, memory

\* Ending a process, in any way, keeps the types.
LEMMA StopType ==
  ASSUME TypeInv, WriteFails \/ Killed \/ Terminated \/ UNCHANGED vars PROVE TypeInv'
  <1>1. /\ UNCHANGED <<memory, files, process>>
        /\ phase' = phase \/ phase' = "stopped"
    BY DEF WriteFails, Killed, Terminated, vars
  <1>2. TypeOK'
    BY <1>1 DEF TypeInv, TypeOK, memory, files
  <1>3. Control'
    BY <1>1 DEF TypeInv, Control, memory, files
  <1> QED BY <1>2, <1>3 DEF TypeInv

\* Restart keeps the types.
LEMMA RestartType == TypeInv /\ Restart => TypeInv'
  <1> SUFFICES ASSUME TypeInv, Restart PROVE TypeInv'
      OBVIOUS
  <1>1. model' \in [Strategies -> Models]
        /\ \A k \in Strategies : Len(model'[k].ranges) <= VolatilityWindow
    BY NewModelType DEF Restart
  <1>2. disk' \in [Names -> Files] /\ process' \in 1 .. MaxProcesses
    BY Bounds DEF Restart, TypeInv, TypeOK
  <1>3. equity' \in [Strategies -> Nat] /\ peak' \in [Strategies -> Nat]
        /\ skew' \in [Strategies -> Seq(1 .. NumMarkets)]
    BY Amounts DEF Restart
  <1>4. /\ per' \in Seq(Runs) /\ results' \in Seq(Results) /\ samples' \in Seq(Samples)
        /\ Len(per') = 0 /\ Len(results') = 0
    BY DEF Restart
  <1>5. /\ phase' = "load" /\ market' = 1 /\ active' = FALSE /\ captured' = FALSE
        /\ per' = <<>> /\ todo' = <<>> /\ stage' = "create"
        /\ market' \in 1 .. NumMarkets + 1
    BY Bounds DEF Restart
  <1>6. Control'
    BY <1>4, <1>5, StrategyNumbers, Bounds DEF Control
  <1> QED BY <1>1, <1>2, <1>3, <1>4, <1>5, <1>6 DEF TypeOK, TypeInv

\* Every action is one of these.
LEMMA Cases ==
  ASSUME [Next]_vars
  PROVE  \/ LoadFails \/ (\E some \in BOOLEAN : LoadMarket(some)) \/ Finish \/ Written
         \/ \E end : RunStrategy(end)
         \/ CloseMarket
         \/ CreateTmp \/ FillTmp \/ Rename
         \/ WriteFails \/ Killed \/ Terminated \/ UNCHANGED vars
         \/ Restart
  BY DEF Next, Work

\* Every step keeps the types.
LEMMA NextType == TypeInv /\ [Next]_vars => TypeInv'
  BY Cases, QuietType, RunStrategyType, CloseMarketType, WriteType, StopType, RestartType

\* The types hold in every state, with the bound on the window of ranges that
\* TypeOK leaves out.
LEMMA TypeInvariant == Spec => []TypeInv
  <1> QED BY InitType, NextType, PTL DEF Spec

\* Every variable of the replay has its type, whatever the markets bring and
\* whenever a process dies.
THEOREM PortfolioTypes == Spec => []TypeOK
  <1>1. TypeInv => TypeOK
    BY DEF TypeInv
  <1> QED BY <1>1, TypeInvariant, PTL
-----------------------------------------------------------------------------
(* The equity that compounds.  A step leaves the history of a strategy, adds *)
(* the run on this market to it, or forgets it with the process.             *)

Same(k)  == History(k)' = History(k) /\ equity'[k] = equity[k] /\ peak'[k] = peak[k]
Forgotten(k) == History(k)' = <<>> /\ equity'[k] = StartingCash /\ peak'[k] = StartingCash
Extended(k) ==
  \E end \in Ends(k) :
    /\ History(k)' = Append(History(k), [start |-> equity[k], end |-> end])
    /\ equity'[k] = end /\ peak'[k] = NewPeak(k, end)

\* The results of the markets that are closed, then the one of this market.
HistoryIs(k) ==
  /\ History(k) \in Seq(Runs)
  /\ Len(History(k)) = Len(results) + (IF k < Turn THEN 1 ELSE 0)
  /\ \A i \in 1 .. Len(results) : History(k)[i] = results[i].per[k]
  /\ k < Turn => History(k)[Len(results) + 1] = per[k]

HistoriesAre == \A k \in Strategies : HistoryIs(k)

\* A history is a sequence of runs with a start and an end.
LEMMA HistoryElements == TypeInv => HistoriesAre
  <1> SUFFICES ASSUME TypeInv, NEW k \in Strategies PROVE HistoryIs(k)
      BY DEF HistoriesAre
  <1> DEFINE closed == [i \in 1 .. Len(results) |-> results[i].per[k]]
             now    == IF k < Turn THEN <<per[k]>> ELSE <<>>
  <1>1. Len(results) \in Nat /\ Len(per) \in Nat /\ Turn = Len(per) + 1
    BY Shapes DEF TypeInv, Turn
  <1>2. \A i \in 1 .. Len(results) : results[i].per[k] \in Runs
    <2> SUFFICES ASSUME NEW i \in 1 .. Len(results) PROVE results[i].per[k] \in Runs
        OBVIOUS
    <2>1. results[i] \in Results
      BY Shapes DEF TypeInv
    <2>2. results[i].per \in Seq(Runs) /\ Len(results[i].per) = Len(Kinds)
      BY <2>1 DEF Results, TypeInv, Control
    <2> QED BY <2>2, StrategyNumbers
  <1>3. closed \in Seq(Runs) /\ Len(closed) = Len(results)
    BY <1>1, <1>2
  <1>4. now \in Seq(Runs) /\ Len(now) = (IF k < Turn THEN 1 ELSE 0)
        /\ (k < Turn => now[1] = per[k])
    <2>1. k < Turn => per[k] \in Runs
      BY <1>1, Shapes, StrategyNumbers DEF TypeInv
    <2> QED BY <2>1
  <1>5. History(k) = closed \o now
    BY DEF History
  <1>6. \A i \in 1 .. Len(results) : closed[i] = results[i].per[k]
    OBVIOUS
  <1> HIDE DEF closed, now
  <1> QED BY <1>1, <1>3, <1>4, <1>5, <1>6 DEF HistoryIs

\* The same of the next state.
LEMMA HistoryElementsNext == TypeInv' => HistoriesAre'
  BY HistoryElements, PTL

\* Without results there is no history.
LEMMA EmptyHistory ==
  ASSUME results = <<>>, per = <<>>, NEW k \in Strategies PROVE History(k) = <<>>
  <1>1. Turn = 1 /\ ~(k < Turn) /\ Len(results) = 0
    BY StrategyNumbers DEF Turn
  <1> QED BY <1>1 DEF History

\* Sequences of the same length and elements are the same.
LEMMA SequencesEqual ==
  ASSUME NEW S, NEW s \in Seq(S), NEW t \in Seq(S), Len(s) = Len(t),
         \A i \in 1 .. Len(s) : s[i] = t[i]
  PROVE  s = t
  OBVIOUS

\* A market that is closed moves into the results.
LEMMA CloseMarketHistory ==
  ASSUME TypeInv, TypeInv', CloseMarket, NEW k \in Strategies
  PROVE  History(k)' = History(k)
  <1> DEFINE r == [market |-> market, per |-> per]
  <1>1. /\ results' = Append(results, r) /\ per' = <<>> /\ Len(per) = Len(Kinds)
        /\ Turn = Len(per) + 1 /\ Turn' = 1 /\ k < Turn /\ ~(k < Turn')
    BY Shapes, StrategyNumbers DEF CloseMarket, Turn, TypeInv, Control
  <1>2. /\ Len(results) \in Nat /\ Len(results') = Len(results) + 1
        /\ results'[Len(results) + 1] = r /\ \A i \in 1 .. Len(results) : results'[i] = results[i]
    BY <1>1 DEF TypeInv, TypeOK
  <1>3. r.per = per
    OBVIOUS
  <1> HIDE DEF r
  <1>4. /\ History(k) \in Seq(Runs)
        /\ Len(History(k)) = Len(results) + 1
        /\ \A i \in 1 .. Len(results) : History(k)[i] = results[i].per[k]
        /\ History(k)[Len(results) + 1] = per[k]
    BY <1>1, HistoryElements DEF HistoriesAre, HistoryIs
  <1>5. /\ History(k)' \in Seq(Runs)
        /\ Len(History(k)') = Len(results')
        /\ \A i \in 1 .. Len(results') : History(k)'[i] = results'[i].per[k]
    BY <1>1, <1>2, HistoryElementsNext DEF HistoriesAre, HistoryIs
  <1>6. \A i \in 1 .. Len(History(k)) : History(k)'[i] = History(k)[i]
    BY <1>2, <1>3, <1>4, <1>5
  <1> QED BY <1>2, <1>4, <1>5, <1>6, SequencesEqual

\* The run of the strategy whose turn it is joins its history.
LEMMA RunHistory ==
  ASSUME TypeInv, TypeInv', NEW end, RunStrategy(end), NEW k \in Strategies
  PROVE  IF k = Turn THEN Extended(k) ELSE Same(k)
  <1> DEFINE run == [start |-> Bankroll(Turn), end |-> end]
  <1>1. /\ Turn \in Strategies /\ Turn = Len(per) + 1 /\ Turn' = Len(per) + 2
        /\ per' = Append(per, run) /\ results' = results /\ end \in Ends(Turn)
    <2>1. /\ Turn \in Strategies /\ per' = Append(per, run) /\ UNCHANGED results /\ end \in Ends(Turn)
      BY DEF RunStrategy
    <2>2. per \in Seq(Runs)
      BY DEF TypeInv, TypeOK
    <2> HIDE DEF run
    <2> QED BY <2>1, <2>2 DEF Turn
  <1>2. equity' = [equity EXCEPT ![Turn] = end] /\ peak' = [peak EXCEPT ![Turn] = NewPeak(Turn, end)]
    BY DEF RunStrategy
  <1>3. equity \in [Strategies -> Nat] /\ peak \in [Strategies -> Nat]
    BY DEF TypeInv, TypeOK
  <1>4. /\ Len(per) \in Nat /\ per'[Len(per) + 1] = run
        /\ \A i \in 1 .. Len(per) : per'[i] = per[i] /\ Len(results) \in Nat
    <2>1. per \in Seq(Runs) /\ Len(results) \in Nat
      BY Shapes DEF TypeInv, TypeOK
    <2> HIDE DEF run
    <2> QED BY <1>1, <2>1
  <1>5. /\ History(k) \in Seq(Runs)
        /\ Len(History(k)) = Len(results) + (IF k < Turn THEN 1 ELSE 0)
        /\ \A i \in 1 .. Len(results) : History(k)[i] = results[i].per[k]
        /\ k < Turn => History(k)[Len(results) + 1] = per[k]
    BY HistoryElements DEF HistoriesAre, HistoryIs
  <1>6. /\ History(k)' \in Seq(Runs)
        /\ Len(History(k)') = Len(results) + (IF k < Turn' THEN 1 ELSE 0)
        /\ \A i \in 1 .. Len(results) : History(k)'[i] = results[i].per[k]
        /\ k < Turn' => History(k)'[Len(results) + 1] = per'[k]
    BY <1>1, HistoryElementsNext DEF HistoriesAre, HistoryIs
  <1>7. CASE k # Turn
    <2>1. k < Turn <=> k < Turn'
      BY <1>1, <1>4, <1>7, StrategyNumbers
    <2>2. k < Turn => per'[k] = per[k]
      BY <1>1, <1>4, StrategyNumbers
    <2>3. \A i \in 1 .. Len(History(k)) : History(k)'[i] = History(k)[i]
      BY <1>4, <1>5, <1>6, <2>1, <2>2
    <2>4. History(k)' = History(k)
      BY <1>5, <1>6, <2>1, <2>3, SequencesEqual
    <2> QED BY <1>2, <1>3, <1>7, <2>4 DEF Same
  <1>8. CASE k = Turn
    <2> DEFINE h == Append(History(k), run)
    <2>1. run \in Runs /\ run = [start |-> equity[k], end |-> end]
      BY <1>1, <1>3, <1>8, EndsNat DEF Bankroll, Runs, TypeInv
    <2>2. ~(k < Turn) /\ k < Turn' /\ k = Len(per) + 1
      BY <1>1, <1>4, <1>8
    <2>3. per'[k] = run
      BY <1>4, <2>2
    <2> HIDE DEF run
    <2>4. /\ h \in Seq(Runs) /\ Len(h) = Len(results) + 1 /\ h[Len(results) + 1] = run
          /\ \A i \in 1 .. Len(results) : h[i] = results[i].per[k]
      BY <1>4, <1>5, <2>1, <2>2, AppendType
    <2>5. /\ History(k)' \in Seq(Runs) /\ Len(History(k)') = Len(results) + 1
          /\ History(k)'[Len(results) + 1] = run
      BY <1>6, <2>2, <2>3
    <2> HIDE DEF h
    <2>6. \A i \in 1 .. Len(h) : History(k)'[i] = h[i]
      BY <1>4, <1>6, <2>4, <2>5
    <2>7. History(k)' = h
      BY <2>4, <2>5, <2>6, SequencesEqual
    <2>8. equity'[k] = end /\ peak'[k] = NewPeak(k, end)
      BY <1>2, <1>3, <1>8
    <2> QED BY <1>1, <1>8, <2>1, <2>7, <2>8 DEF Extended, h
  <1> QED BY <1>7, <1>8

\* A step leaves a history as it is, adds the market just run, or, at a
\* restart, begins it anew.
LEMMA HistoryStep ==
  ASSUME TypeInv, TypeInv', [Next]_vars, NEW k \in Strategies
  PROVE  Same(k) \/ Extended(k) \/ Forgotten(k)
  <1>1. ASSUME UNCHANGED <<results, per, equity, peak>> PROVE Same(k)
    BY <1>1 DEF Same, History, Turn
  <1>2. CASE LoadFails \/ (\E some \in BOOLEAN : LoadMarket(some)) \/ Finish \/ Written
    BY <1>1, <1>2 DEF LoadFails, LoadMarket, Finish, Written, memory
  <1>3. CASE \E end : RunStrategy(end)
    BY <1>3, RunHistory
  <1>4. CASE CloseMarket
    BY <1>4, CloseMarketHistory DEF Same, CloseMarket
  <1>5. CASE CreateTmp \/ FillTmp \/ Rename
    BY <1>1, <1>5 DEF CreateTmp, FillTmp, Rename, memory
  <1>6. CASE WriteFails \/ Killed \/ Terminated \/ UNCHANGED vars
    BY <1>1, <1>6 DEF WriteFails, Killed, Terminated, vars, memory
  <1>7. CASE Restart
    <2>1. equity'[k] = StartingCash /\ peak'[k] = StartingCash /\ results' = <<>> /\ per' = <<>>
      BY <1>7 DEF Restart
    <2>2. Turn' = 1 /\ ~(k < Turn') /\ Len(results') = 0
      BY <2>1, StrategyNumbers DEF Turn
    <2>3. History(k)' = <<>>
      BY <2>2 DEF History
    <2> QED BY <2>1, <2>3 DEF Forgotten
  <1> QED BY <1>2, <1>3, <1>4, <1>5, <1>6, <1>7, Cases
\* A history in which every run starts with what the last one left, and what
\* it has left in the end.
Chained(h, left) ==
  /\ \A i \in DOMAIN h : h[i].start = IF i = 1 THEN StartingCash ELSE h[i - 1].end
  /\ left = IF h = <<>> THEN StartingCash ELSE h[Len(h)].end

\* The best equity of a history.
Tops(h, top) ==
  /\ top \in {StartingCash} \union {h[i].end : i \in DOMAIN h}
  /\ StartingCash <= top
  /\ \A i \in DOMAIN h : h[i].end <= top

Money(k) == Chained(History(k), equity[k]) /\ Tops(History(k), peak[k]) /\ equity[k] <= peak[k]

MoneyInv == \A k \in Strategies : Money(k)

\* A run that starts from the equity left before extends the chain.
LEMMA ChainedAppend ==
  ASSUME NEW h \in Seq(Runs), NEW left \in Nat, NEW end \in Nat, Chained(h, left)
  PROVE  Chained(Append(h, [start |-> left, end |-> end]), end)
  <1> DEFINE run == [start |-> left, end |-> end]
             g == Append(h, run)
  <1>1. run \in Runs /\ run.start = left /\ run.end = end
    BY DEF Runs
  <1> HIDE DEF run
  <1>2. /\ g \in Seq(Runs) /\ Len(g) = Len(h) + 1 /\ Len(h) \in Nat
        /\ g[Len(h) + 1] = run /\ \A i \in 1 .. Len(h) : g[i] = h[i]
    BY <1>1, AppendType
  <1> HIDE DEF g
  <1>3. ASSUME NEW i \in DOMAIN g
        PROVE  g[i].start = IF i = 1 THEN StartingCash ELSE g[i - 1].end
    <2>1. CASE i = Len(h) + 1
      <3>1. h = <<>> <=> i = 1
        BY <2>1
      <3>2. i # 1 => i - 1 = Len(h) /\ g[i - 1] = h[Len(h)]
        BY <1>2, <2>1
      <3> QED BY <1>1, <1>2, <2>1, <3>1, <3>2 DEF Chained
    <2>2. CASE i # Len(h) + 1
      <3>1. i \in DOMAIN h /\ (i # 1 => i - 1 \in 1 .. Len(h))
        BY <1>2, <1>3, <2>2
      <3>2. g[i] = h[i] /\ (i # 1 => g[i - 1] = h[i - 1])
        BY <1>2, <3>1
      <3> QED BY <3>1, <3>2 DEF Chained
    <2> QED BY <2>1, <2>2
  <1>4. end = IF g = <<>> THEN StartingCash ELSE g[Len(g)].end
    BY <1>1, <1>2
  <1>5. Chained(g, end)
    BY <1>3, <1>4 DEF Chained
  <1> QED BY <1>5 DEF g, run

\* The peak stays the largest equity when a run is added.
LEMMA TopsAppend ==
  ASSUME NEW h \in Seq(Runs), NEW top \in Nat, NEW run \in Runs, NEW next, Tops(h, top),
         next = IF top >= run.end THEN top ELSE run.end
  PROVE  Tops(Append(h, run), next)
  <1> DEFINE g == Append(h, run)
  <1>1. /\ g \in Seq(Runs) /\ Len(g) = Len(h) + 1 /\ Len(h) \in Nat
        /\ g[Len(h) + 1] = run /\ \A i \in 1 .. Len(h) : g[i] = h[i]
    BY AppendType
  <1> HIDE DEF g
  <1>2. /\ DOMAIN g = 1 .. Len(h) + 1 /\ DOMAIN h = 1 .. Len(h) /\ run.end \in Nat
        /\ StartingCash \in Nat
    BY <1>1, Amounts DEF Runs
  <1>3. next \in {StartingCash} \union {g[i].end : i \in DOMAIN g}
    BY <1>1, <1>2 DEF Tops
  <1>4. next >= top /\ next >= run.end /\ next \in Nat
    BY <1>2
  <1>5. ASSUME NEW i \in DOMAIN g PROVE g[i].end <= next
    <2>1. CASE i = Len(h) + 1
      BY <1>1, <1>4, <2>1
    <2>2. CASE i # Len(h) + 1
      <3>1. i \in DOMAIN h /\ g[i] = h[i]
        BY <1>1, <1>2, <2>2
      <3>2. h[i].end <= top
        BY <3>1 DEF Tops
      <3>3. h[i] \in Runs
        BY <3>1
      <3>4. h[i].end \in Nat
        BY <3>3 DEF Runs
      <3> QED BY <1>4, <3>1, <3>2, <3>4
    <2> QED BY <2>1, <2>2
  <1>6. StartingCash <= next
    BY <1>2, <1>4 DEF Tops
  <1> QED BY <1>3, <1>5, <1>6 DEF Tops, g

\* Every step keeps equity and peak in agreement with the history.
LEMMA MoneyStep ==
  ASSUME TypeInv, TypeInv', [Next]_vars, NEW k \in Strategies, Money(k)
  PROVE  Money(k)'
  <1>1. CASE Same(k)
    BY <1>1 DEF Same, Money
  <1>2. CASE Forgotten(k)
    <2>1. History(k)' = <<>> /\ equity'[k] = StartingCash /\ peak'[k] = StartingCash
      BY <1>2 DEF Forgotten
    <2>2. Chained(<<>>, StartingCash) /\ Tops(<<>>, StartingCash) /\ StartingCash <= StartingCash
      BY Amounts DEF Chained, Tops
    <2> QED BY <2>1, <2>2 DEF Money
  <1>3. CASE Extended(k)
    <2>1. PICK end \in Ends(k) :
            /\ History(k)' = Append(History(k), [start |-> equity[k], end |-> end])
            /\ equity'[k] = end /\ peak'[k] = NewPeak(k, end)
      BY <1>3 DEF Extended
    <2>2. /\ end \in Nat /\ equity[k] \in Nat /\ peak[k] \in Nat
          /\ History(k) \in Seq(Runs)
      BY EndsNat, HistoryElements DEF TypeInv, TypeOK, HistoriesAre, HistoryIs
    <2>3. NewPeak(k, end) = IF peak[k] >= end THEN peak[k] ELSE end
      BY <2>2, NewPeakNat DEF TypeInv
    <2>4. Chained(History(k)', end)
      BY <2>1, <2>2, ChainedAppend DEF Money
    <2>5. [start |-> equity[k], end |-> end] \in Runs
      BY <2>2 DEF Runs
    <2>6. Tops(History(k)', NewPeak(k, end))
      BY <2>1, <2>2, <2>3, <2>5, TopsAppend DEF Money
    <2>7. end <= NewPeak(k, end)
      BY <2>2, <2>3
    <2> QED BY <2>1, <2>4, <2>6, <2>7 DEF Money
  <1> QED BY <1>1, <1>2, <1>3, HistoryStep

\* Equity and peak agree with the empty history.
LEMMA MoneyInit == Init => MoneyInv
  <1> SUFFICES ASSUME Init, NEW k \in Strategies PROVE Money(k)
      BY DEF MoneyInv
  <1>1. History(k) = <<>> /\ equity[k] = StartingCash /\ peak[k] = StartingCash
    BY EmptyHistory DEF Init
  <1>2. Chained(<<>>, StartingCash) /\ Tops(<<>>, StartingCash) /\ StartingCash <= StartingCash
    BY Amounts DEF Chained, Tops
  <1> QED BY <1>1, <1>2 DEF Money

\* Equity and peak agree with the history in every state.
LEMMA MoneyInvariant == Spec => []MoneyInv
  <1>1. TypeInv /\ TypeInv' /\ MoneyInv /\ [Next]_vars => MoneyInv'
    BY MoneyStep DEF MoneyInv
  <1> QED BY <1>1, MoneyInit, TypeInvariant, PTL DEF Spec

\* Equity compounds without a gap: a strategy starts each market with what its
\* last market left it, and never with what another strategy made.
THEOREM EquityIsCompounded == Spec => []EquityChains
  <1>1. MoneyInv => EquityChains
    BY DEF MoneyInv, Money, Chained, EquityChains
  <1> QED BY <1>1, MoneyInvariant, PTL
-----------------------------------------------------------------------------
(* How far the equity may fall below its peak.                             *)

\* The peak kept across markets is that of the history.
LEMMA HistoricPeakIs == TypeInv /\ MoneyInv => \A k \in Strategies : HistoricPeak(k) = peak[k]
  <1> SUFFICES ASSUME TypeInv, MoneyInv, NEW k \in Strategies PROVE HistoricPeak(k) = peak[k]
      OBVIOUS
  <1> DEFINE h == History(k)
             ends == {StartingCash} \union {h[i].end : i \in DOMAIN h}
  <1>1. Tops(h, peak[k]) /\ peak[k] \in Nat /\ h \in Seq(Runs)
    BY HistoryElements DEF MoneyInv, Money, TypeInv, TypeOK, HistoriesAre, HistoryIs
  <1>2. HistoricPeak(k) = Max(ends)
    BY DEF HistoricPeak
  <1> HIDE DEF h
  <1>3. ends \subseteq Nat
    <2> SUFFICES ASSUME NEW i \in DOMAIN h PROVE h[i].end \in Nat
        BY Amounts
    <2>1. h[i] \in Runs
      BY <1>1
    <2> QED BY <2>1 DEF Runs
  <1>4. peak[k] \in ends /\ \A x \in ends : x <= peak[k]
    BY <1>1 DEF Tops
  <1> HIDE DEF ends
  <1>5. ASSUME NEW x \in ends, \A y \in ends : x >= y PROVE x = peak[k]
    <2>1. x \in Nat /\ x >= peak[k] /\ x <= peak[k]
      BY <1>3, <1>4, <1>5
    <2> QED BY <1>1, <2>1
  <1>6. \A x \in ends : peak[k] >= x
    BY <1>3, <1>4
  <1> QED BY <1>2, <1>4, <1>5, <1>6 DEF Max

\* What a strategy that starts with b may lose on one market, in percent of percents.
Loss(b) == (100 + FeePct) * ExposureCap(b)

\* Products of naturals are naturals and grow with their factors.
LEMMA Product ==
  /\ \A a, b \in Nat : a * b \in Nat
  /\ \A a, b, c \in Nat : b <= c => a * b <= a * c
  <1>1. ASSUME NEW a \in Nat, NEW b \in Nat PROVE a * b \in Nat
    OBVIOUS
  <1>2. ASSUME NEW a \in Nat, NEW b \in Nat, NEW c \in Nat, b <= c PROVE a * b <= a * c
    <2>1. a * (c - b) \in Nat /\ a * (c - b) = a * c - a * b
      BY <1>1, <1>2
    <2>2. a * b \in Nat /\ a * c \in Nat
      BY <1>1
    <2> QED BY <2>1, <2>2
  <1> QED BY <1>1, <1>2

\* The largest loss of a market grows with the equity it is sized by.
LEMMA LossGrows == \A b, c \in Nat : Loss(b) \in Nat /\ (b <= c => Loss(b) <= Loss(c))
  <1> SUFFICES ASSUME NEW b \in Nat, NEW c \in Nat
               PROVE  Loss(b) \in Nat /\ (b <= c => Loss(b) <= Loss(c))
      OBVIOUS
  <1>1. 100 * MaxExposure \in Nat /\ 100 + FeePct \in Nat
    BY Amounts
  <1>2. b * ExposurePct \in Nat /\ c * ExposurePct \in Nat
        /\ (b <= c => b * ExposurePct <= c * ExposurePct)
    <2>1. b * ExposurePct = ExposurePct * b /\ c * ExposurePct = ExposurePct * c
      BY Amounts
    <2> QED BY <2>1, Product, Amounts
  <1>3. ExposureCap(b) \in Nat /\ ExposureCap(c) \in Nat
        /\ (b <= c => ExposureCap(b) <= ExposureCap(c))
    BY <1>1, <1>2, MinOfTwo DEF ExposureCap
  <1> QED BY <1>1, <1>3, Product DEF Loss

\* Equity is no further below its peak than the hard drawdown and one loss.
Falls(left, top) == 10000 * (top - left) <= 100 * HardPct * top + Loss(top)

DrawdownInv == SoftPct < HardPct /\ MinMultiplierPct = 0 =>
                 \A k \in Strategies : Falls(equity[k], peak[k])

\* An equity at its peak has not fallen.
LEMMA FallsAtTop == \A top \in Nat : Falls(top, top)
  <1> SUFFICES ASSUME NEW top \in Nat PROVE Falls(top, top)
      OBVIOUS
  <1>1. 100 * HardPct * top \in Nat /\ Loss(top) \in Nat
    BY Product, LossGrows, Amounts
  <1> QED BY <1>1 DEF Falls

\* A market sized under the drawdown multiplier cannot take the equity past the
\* bound.
LEMMA EndFalls ==
  ASSUME TypeInv, SoftPct < HardPct, MinMultiplierPct = 0, NEW k \in Strategies,
         equity[k] <= peak[k], Falls(equity[k], peak[k]), NEW end \in Ends(k)
  PROVE  Falls(end, NewPeak(k, end))
  <1>1. equity[k] \in Nat /\ peak[k] \in Nat /\ end \in Nat
    BY EndsNat DEF TypeInv, TypeOK
  <1>2. NewPeak(k, end) = IF peak[k] >= end THEN peak[k] ELSE end
    BY <1>1, NewPeakNat DEF TypeInv
  <1>3. CASE ~(peak[k] >= end)
    BY <1>1, <1>2, <1>3, FallsAtTop
  <1>4. CASE peak[k] >= end
    <2>1. CASE end = equity[k]
      BY <1>2, <1>4, <2>1
    <2>2. CASE end # equity[k]
      <3>1. ClipsOpen(equity[k], peak[k]) /\ 10000 * (equity[k] - end) <= Loss(equity[k])
        BY <2>2 DEF Ends, Bankroll, Loss
      <3>2. 100 * (peak[k] - equity[k]) <= HardPct * peak[k]
        <4>1. HardPct * peak[k] \in Nat
          BY <1>1, Product, Amounts
        <4>2. 100 * (peak[k] - equity[k]) < HardPct * peak[k] \/ peak[k] = 0
          BY <3>1, Amounts DEF ClipsOpen
        <4> QED BY <1>1, <4>1, <4>2
      <3>3. Loss(equity[k]) <= Loss(peak[k]) /\ Loss(equity[k]) \in Nat /\ Loss(peak[k]) \in Nat
        BY <1>1, LossGrows
      <3>4. 100 * HardPct * peak[k] = 100 * (HardPct * peak[k]) /\ HardPct * peak[k] \in Nat
        BY <1>1, Product, Amounts
      <3>5. 10000 * (peak[k] - end) <= 100 * HardPct * peak[k] + Loss(peak[k])
        BY <1>1, <3>1, <3>2, <3>3, <3>4
      <3> QED BY <1>2, <1>4, <3>5 DEF Falls
    <2> QED BY <2>1, <2>2
  <1> QED BY <1>3, <1>4

\* Every step keeps the bound on the drawdown.
LEMMA DrawdownStep ==
  ASSUME TypeInv, TypeInv', MoneyInv, [Next]_vars, DrawdownInv PROVE DrawdownInv'
  <1> SUFFICES ASSUME SoftPct < HardPct, MinMultiplierPct = 0, NEW k \in Strategies
               PROVE  Falls(equity[k], peak[k])'
      BY DEF DrawdownInv
  <1>1. Falls(equity[k], peak[k]) /\ equity[k] <= peak[k]
    BY DEF DrawdownInv, MoneyInv, Money
  <1>2. CASE Same(k)
    BY <1>1, <1>2 DEF Same, Falls, Loss, ExposureCap
  <1>3. CASE Forgotten(k)
    <2>1. Falls(StartingCash, StartingCash)
      BY FallsAtTop, Amounts
    <2> QED BY <1>3, <2>1 DEF Forgotten, Falls, Loss, ExposureCap
  <1>4. CASE Extended(k)
    <2>1. PICK end \in Ends(k) : equity'[k] = end /\ peak'[k] = NewPeak(k, end)
      BY <1>4 DEF Extended
    <2>2. Falls(end, NewPeak(k, end))
      BY <1>1, EndFalls
    <2> QED BY <2>1, <2>2 DEF Falls, Loss, ExposureCap
  <1> QED BY <1>2, <1>3, <1>4, HistoryStep

\* The bound on the drawdown, against the peak that is kept, holds in every
\* state.
LEMMA DrawdownInvariant == Spec => []DrawdownInv
  <1>1. Init => DrawdownInv
    BY FallsAtTop, Amounts DEF Init, DrawdownInv
  <1>2. TypeInv /\ TypeInv' /\ MoneyInv /\ DrawdownInv /\ [Next]_vars => DrawdownInv'
    BY DrawdownStep
  <1> QED BY <1>1, <1>2, MoneyInvariant, TypeInvariant, PTL DEF Spec

\* With a hard stop no strategy ends further below the best equity it ever had
\* than the hard drawdown and what it may lose on one market: once its clips
\* scale to zero it stops losing, whatever the markets bring.
THEOREM HardDrawdownStops == Spec => []DrawdownStops
  <1>1. TypeInv /\ MoneyInv /\ DrawdownInv => DrawdownStops
    BY HistoricPeakIs DEF DrawdownInv, DrawdownStops, Falls, Loss
  <1> QED BY <1>1, DrawdownInvariant, MoneyInvariant, TypeInvariant, PTL
-----------------------------------------------------------------------------
(* What the models learn.                                                  *)

\* A step keeps what a strategy was run on, but for a restart.
LEMMA TradedStep ==
  ASSUME TypeInv, TypeInv', [Next]_vars, ~Restart, NEW k \in Strategies
  PROVE  Traded(k) \subseteq Traded(k)'
  <1>1. Turn = Len(per) + 1 /\ Len(per) \in Nat
    BY Shapes DEF TypeInv, Turn
  <1>2. CASE LoadFails \/ (\E some \in BOOLEAN : LoadMarket(some)) \/ Finish \/ Written
    <2>1. per = <<>> /\ per' = <<>> /\ results' = results
      BY <1>2 DEF TypeInv, Control, LoadFails, LoadMarket, Finish, Written, memory
    <2>2. ~(k < Turn) /\ ~(k < Turn)'
      BY <2>1, StrategyNumbers DEF Turn
    <2> QED BY <2>1, <2>2 DEF Traded
  <1>3. CASE \E end : RunStrategy(end)
    <2>1. results' = results /\ market' = market /\ Len(per') = Len(per) + 1
      BY <1>3, <1>1 DEF RunStrategy, TypeInv, TypeOK
    <2>2. k < Turn => (k < Turn)'
      BY <1>1, <2>1, StrategyNumbers DEF Turn
    <2> QED BY <2>1, <2>2 DEF Traded
  <1>4. CASE CloseMarket
    <2> DEFINE r == [market |-> market, per |-> per]
    <2>1. results' = Append(results, r) /\ r \in Results /\ results \in Seq(Results)
      <3>1. market \in 1 .. NumMarkets
        BY <1>4, Bounds DEF CloseMarket, TypeInv, Control, TypeOK
      <3> QED BY <1>4, <3>1 DEF CloseMarket, Results, TypeInv, TypeOK
    <2>2. r.market = market
      OBVIOUS
    <2> HIDE DEF r
    <2>3. /\ DOMAIN results = 1 .. Len(results) /\ DOMAIN results' = 1 .. Len(results) + 1
          /\ results'[Len(results) + 1] = r /\ \A i \in 1 .. Len(results) : results'[i] = results[i]
          /\ Len(results) \in Nat
      BY <2>1, AppendType
    <2>4. \A i \in DOMAIN results : results[i].market \in Traded(k)'
      BY <2>3 DEF Traded
    <2>5. market \in Traded(k)'
      <3>1. Len(results) + 1 \in DOMAIN results' /\ results'[Len(results) + 1].market = market
        BY <2>2, <2>3
      <3> QED BY <3>1 DEF Traded
    <2> QED BY <2>4, <2>5 DEF Traded
  <1>5. CASE CreateTmp \/ FillTmp \/ Rename
    BY <1>5 DEF Traded, Turn, CreateTmp, FillTmp, Rename, memory
  <1>6. CASE WriteFails \/ Killed \/ Terminated \/ UNCHANGED vars
    BY <1>6 DEF Traded, Turn, WriteFails, Killed, Terminated, vars, memory
  <1> QED BY <1>2, <1>3, <1>4, <1>5, <1>6, Cases

\* Before its run on a market a strategy was run on earlier ones only.
LEMMA TradedBefore ==
  ASSUME TypeInv, phase = "run", NEW k \in Strategies, ~(k < Turn)
  PROVE  \A m \in Traded(k) : m < market
  <1>1. Traded(k) = {results[i].market : i \in DOMAIN results}
    BY DEF Traded
  <1>2. DOMAIN results = 1 .. Len(results)
    BY DEF TypeInv, TypeOK
  <1> QED BY <1>1, <1>2 DEF TypeInv, Control

\* The window over the last markets a model learned from.
Window(s) == SubSeq(s, Max({1, Len(s) - VolatilityWindow + 1}), Len(s))

\* The window of a sequence is its last elements.
LEMMA WindowIs ==
  ASSUME NEW S, NEW s \in Seq(S)
  PROVE  LET skipped == IF Len(s) <= VolatilityWindow THEN 0 ELSE Len(s) - VolatilityWindow
         IN  /\ Window(s) \in Seq(S)
             /\ Len(Window(s)) = Len(s) - skipped
             /\ \A i \in 1 .. Len(s) - skipped : Window(s)[i] = s[skipped + i]
  <1> DEFINE skipped == IF Len(s) <= VolatilityWindow THEN 0 ELSE Len(s) - VolatilityWindow
  <1>1. Max({1, Len(s) - VolatilityWindow + 1}) = skipped + 1
    BY MaxOfTwo, Bounds
  <1>2. skipped \in Nat /\ Len(s) \in Nat /\ skipped <= Len(s)
    BY Bounds
  <1>3. Window(s) = SubSeq(s, skipped + 1, Len(s))
    BY <1>1 DEF Window
  <1> HIDE DEF skipped
  <1> QED BY <1>2, <1>3 DEF skipped

\* Pushing on the window is the window of what was pushed on.
LEMMA WindowPush ==
  ASSUME NEW S, NEW s \in Seq(S), NEW x \in S
  PROVE  Push(Window(s), x) = Window(Append(s, x))
  <1> DEFINE w == Window(s)
             t == Append(s, x)
             v == Window(t)
             skipped == IF Len(s) <= VolatilityWindow THEN 0 ELSE Len(s) - VolatilityWindow
             next    == IF Len(t) <= VolatilityWindow THEN 0 ELSE Len(t) - VolatilityWindow
  <1>1. /\ t \in Seq(S) /\ Len(t) = Len(s) + 1 /\ t[Len(s) + 1] = x /\ Len(s) \in Nat
        /\ \A i \in 1 .. Len(s) : t[i] = s[i]
    BY AppendType
  <1>2. /\ w \in Seq(S) /\ Len(w) = Len(s) - skipped
        /\ \A i \in 1 .. Len(s) - skipped : w[i] = s[skipped + i]
    BY WindowIs
  <1>3. /\ v \in Seq(S) /\ Len(v) = Len(t) - next
        /\ \A i \in 1 .. Len(t) - next : v[i] = t[next + i]
    BY <1>1, WindowIs
  <1> HIDE DEF w, t, v
  <1>4. CASE Len(s) < VolatilityWindow
    <2>1. skipped = 0 /\ next = 0
      BY <1>1, <1>4, Bounds
    <2>2. Push(w, x) = Append(w, x)
      BY <1>2, <1>4, <2>1 DEF Push
    <2>3. /\ Push(w, x) \in Seq(S) /\ Len(Push(w, x)) = Len(s) + 1
          /\ Push(w, x)[Len(s) + 1] = x /\ \A i \in 1 .. Len(s) : Push(w, x)[i] = s[i]
      BY <1>1, <1>2, <2>1, <2>2, AppendType
    <2>4. Len(v) = Len(s) + 1 /\ \A i \in 1 .. Len(s) + 1 : v[i] = t[i]
      BY <1>1, <1>3, <2>1
    <2>5. \A i \in 1 .. Len(v) : v[i] = Push(w, x)[i]
      BY <1>1, <2>3, <2>4
    <2>6. v = Push(w, x)
      BY <1>3, <2>3, <2>4, <2>5, SequencesEqual
    <2> QED BY <2>6 DEF w, v, t
  <1>5. CASE ~(Len(s) < VolatilityWindow)
    <2>1. /\ skipped = Len(s) - VolatilityWindow /\ next = skipped + 1 /\ skipped \in Nat
          /\ Len(w) = VolatilityWindow /\ VolatilityWindow \in Nat \ {0}
      BY <1>1, <1>2, <1>5, Bounds
    <2> HIDE DEF skipped, next
    <2>2. /\ Push(w, x) = Append(Tail(w), x) /\ Tail(w) \in Seq(S)
          /\ Len(Tail(w)) = VolatilityWindow - 1
          /\ \A i \in 1 .. VolatilityWindow - 1 : Tail(w)[i] = w[i + 1]
      BY <1>2, <2>1 DEF Push
    <2>3. /\ Push(w, x) \in Seq(S) /\ Len(Push(w, x)) = VolatilityWindow
          /\ Push(w, x)[VolatilityWindow] = x
          /\ \A i \in 1 .. VolatilityWindow - 1 : Push(w, x)[i] = w[i + 1]
      <3>1. Len(Tail(w)) + 1 = VolatilityWindow
        BY <2>1, <2>2
      <3> QED BY <2>1, <2>2, <3>1, AppendType
    <2>4. \A i \in 1 .. VolatilityWindow - 1 : w[i + 1] = s[skipped + i + 1]
      BY <1>1, <1>2, <2>1
    <2>5. /\ Len(v) = VolatilityWindow
          /\ \A i \in 1 .. VolatilityWindow : v[i] = t[skipped + 1 + i]
      BY <1>1, <1>3, <2>1
    <2>6. v[VolatilityWindow] = x
      <3>1. skipped + 1 + VolatilityWindow = Len(s) + 1 /\ VolatilityWindow \in 1 .. VolatilityWindow
        BY <1>1, <2>1
      <3> QED BY <1>1, <2>5, <3>1
    <2>7. \A i \in 1 .. VolatilityWindow - 1 : v[i] = s[skipped + i + 1]
      <3> SUFFICES ASSUME NEW i \in 1 .. VolatilityWindow - 1 PROVE v[i] = s[skipped + i + 1]
          OBVIOUS
      <3>1. i \in 1 .. VolatilityWindow /\ skipped + 1 + i \in 1 .. Len(s)
            /\ skipped + 1 + i = skipped + i + 1
        BY <1>1, <2>1
      <3> QED BY <1>1, <2>5, <3>1
    <2>8. \A i \in 1 .. Len(v) : v[i] = Push(w, x)[i]
      <3> SUFFICES ASSUME NEW i \in 1 .. VolatilityWindow PROVE v[i] = Push(w, x)[i]
          BY <2>5
      <3>1. CASE i = VolatilityWindow
        BY <2>3, <2>6, <3>1
      <3>2. CASE i # VolatilityWindow
        <4>1. i \in 1 .. VolatilityWindow - 1
          BY <2>1, <3>2
        <4> QED BY <2>3, <2>4, <2>7, <4>1
      <3> QED BY <3>1, <3>2
    <2>9. v = Push(w, x)
      BY <1>3, <2>3, <2>5, <2>8, SequencesEqual
    <2> QED BY <2>9 DEF w, v, t
  <1> QED BY <1>4, <1>5
\* A model between two markets waits for nothing.
AtRest(ms) == ms.rolling = {} /\ ms.pending = NoMarket /\ ms.ranging = NoMarket

\* What a model learned from: the same markets in all its parts, in order.
Learnt(ms) ==
  /\ Increasing(ms.outcomes)
  /\ ms.calibrator = ms.outcomes
  /\ ms.ranges = Window(ms.outcomes)

Knows(k) ==
  /\ AtRest(model[k]) /\ Learnt(model[k]) /\ ToSet(model[k].outcomes) \subseteq Traded(k)
  /\ Reactive(k) => skew[k] = model[k].outcomes

LearnInv == ~Frozen => \A k \in Strategies : Knows(k)

\* Without a snapshot every run on a market records it once.
LEMMA LearnedOnce ==
  ASSUME ~Frozen, NEW k \in Strategies, NEW ms \in Models, Len(ms.ranges) <= VolatilityWindow,
         AtRest(ms), market \in 1 .. NumMarkets
  PROVE  LET after == Learned(ms, k)
         IN  /\ AtRest(after)
             /\ after.outcomes = Append(ms.outcomes, market)
             /\ after.calibrator = Append(ms.calibrator, market)
             /\ after.ranges = Push(ms.ranges, market)
  <1> DEFINE seen == Evaluate(ms, market)
  <1>1. /\ seen \in Models /\ Len(seen.ranges) <= VolatilityWindow
        /\ seen.pending = market /\ seen.ranging = market /\ seen.ranges = ms.ranges
        /\ seen.outcomes = ms.outcomes /\ seen.calibrator = ms.calibrator
    BY EvaluateType
  <1>2. market # NoMarket
    BY Bounds DEF NoMarket
  <1>3. Learned(ms, k) = RecordMarketResult(seen, market)
    BY DEF Learned, SharedWithRunner
  <1> HIDE DEF seen
  <1>4. RecordMarketResult(seen, market) =
          [rolling |-> {}, pending |-> NoMarket, ranging |-> NoMarket,
           ranges |-> Push(ms.ranges, market), outcomes |-> Append(ms.outcomes, market),
           calibrator |-> Append(ms.calibrator, market)]
    BY <1>1, <1>2, RecordType
  <1> QED BY <1>3, <1>4 DEF AtRest

\* An increasing sequence stays increasing under a larger element.
LEMMA IncreasingAppend ==
  ASSUME NEW s \in Seq(Nat), NEW x \in Nat, Increasing(s), \A m \in ToSet(s) : m < x
  PROVE  Increasing(Append(s, x)) /\ ToSet(Append(s, x)) = ToSet(s) \union {x}
  <1> DEFINE t == Append(s, x)
  <1>1. /\ t \in Seq(Nat) /\ Len(t) = Len(s) + 1 /\ t[Len(s) + 1] = x /\ Len(s) \in Nat
        /\ \A i \in 1 .. Len(s) : t[i] = s[i]
    BY AppendType
  <1> HIDE DEF t
  <1>2. /\ DOMAIN s = 1 .. Len(s) /\ DOMAIN t = 1 .. Len(s) + 1
        /\ \A i \in 1 .. Len(s) : s[i] \in ToSet(s) /\ s[i] < x
    BY <1>1 DEF ToSet
  <1>3. Increasing(t)
    <2> SUFFICES ASSUME NEW i \in DOMAIN t, NEW j \in DOMAIN t, i < j PROVE t[i] < t[j]
        BY DEF Increasing
    <2>1. i \in 1 .. Len(s) /\ t[i] = s[i]
      BY <1>1, <1>2
    <2>2. CASE j = Len(s) + 1
      BY <1>1, <1>2, <2>1, <2>2
    <2>3. CASE j # Len(s) + 1
      <3>1. j \in 1 .. Len(s) /\ t[j] = s[j]
        BY <1>1, <1>2, <2>3
      <3> QED BY <1>2, <2>1, <3>1 DEF Increasing
    <2> QED BY <2>2, <2>3
  <1>4. ToSet(t) = ToSet(s) \union {x}
    <2>1. ASSUME NEW i \in DOMAIN t PROVE t[i] \in ToSet(s) \union {x}
      <3>1. i = Len(s) + 1 \/ i \in 1 .. Len(s)
        BY <1>1, <1>2
      <3> QED BY <1>1, <1>2, <3>1
    <2>2. ASSUME NEW i \in DOMAIN s PROVE s[i] \in ToSet(t)
      <3>1. i \in DOMAIN t /\ t[i] = s[i]
        BY <1>1, <1>2
      <3> QED BY <3>1 DEF ToSet
    <2>3. x \in ToSet(t)
      <3>1. Len(s) + 1 \in DOMAIN t
        BY <1>1, <1>2
      <3> QED BY <1>1, <3>1 DEF ToSet
    <2>4. ToSet(t) \subseteq ToSet(s) \union {x}
      BY <2>1 DEF ToSet
    <2>5. ToSet(s) \subseteq ToSet(t)
      BY <2>2 DEF ToSet
    <2> QED BY <2>3, <2>4, <2>5
  <1> QED BY <1>3, <1>4 DEF t

\* A strategy run records its market once, on top of what the model knew.
LEMMA RunLearns ==
  ASSUME TypeInv, TypeInv', [Next]_vars, ~Frozen, NEW end, RunStrategy(end),
         NEW k \in Strategies, k = Turn, Knows(k)
  PROVE  Knows(k)'
  <1> DEFINE ms == model[k]
             after == Learned(ms, k)
  <1>1. /\ phase = "run" /\ UNCHANGED <<market, results>>
        /\ ~(k < Turn) /\ k < Turn' /\ market \in 1 .. NumMarkets
    <2>1. per' = Append(per, [start |-> Bankroll(Turn), end |-> end])
      BY DEF RunStrategy
    <2>2. Len(per') = Len(per) + 1 /\ Len(per) \in Nat
      BY <2>1 DEF TypeInv, TypeOK
    <2>3. phase = "run" /\ UNCHANGED <<market, results>>
      BY DEF RunStrategy
    <2>4. market \in 1 .. NumMarkets
      BY <2>3, Bounds DEF TypeInv, TypeOK, Control
    <2>5. k = Len(per) + 1 /\ Turn' = Len(per) + 2
      BY <2>2 DEF Turn
    <2> QED BY <2>2, <2>3, <2>4, <2>5
  <1>2. /\ ms \in Models /\ Len(ms.ranges) <= VolatilityWindow /\ AtRest(ms) /\ Learnt(ms)
        /\ ToSet(ms.outcomes) \subseteq Traded(k) /\ ms.outcomes \in Seq(1 .. NumMarkets)
    BY DEF TypeInv, TypeOK, Knows, Models
  <1>3. Traded(k) \subseteq Traded(k)' /\ market \in Traded(k)'
    <2>1. ~Restart
      BY <1>1 DEF Restart
    <2> QED BY <1>1, <2>1, TradedStep DEF Traded
  <1>4. model \in [Strategies -> Models] /\ skew \in [Strategies -> Seq(1 .. NumMarkets)]
    BY DEF TypeInv, TypeOK
  <1> HIDE DEF ms
  <1>5. CASE ~active
    <2>1. model' = model /\ skew' = skew
      BY <1>5 DEF RunStrategy
    <2> QED BY <1>3, <2>1 DEF Knows
  <1>6. CASE active
    <2>1. /\ model'[k] = after
          /\ skew'[k] = IF Reactive(k) THEN Append(skew[k], market) ELSE skew[k]
      BY <1>4, <1>6 DEF RunStrategy, ms
    <2>2. /\ AtRest(after)
          /\ after.outcomes = Append(ms.outcomes, market)
          /\ after.calibrator = Append(ms.calibrator, market)
          /\ after.ranges = Push(ms.ranges, market)
      BY <1>1, <1>2, LearnedOnce
    <2> HIDE DEF after
    <2>3. /\ Increasing(after.outcomes)
          /\ ToSet(after.outcomes) = ToSet(ms.outcomes) \union {market}
      <3>1. \A m \in ToSet(ms.outcomes) : m < market
        BY <1>1, <1>2, TradedBefore
      <3>2. ms.outcomes \in Seq(Nat) /\ market \in Nat
        BY <1>1, <1>2, Bounds
      <3> QED BY <1>2, <2>2, <3>1, <3>2, IncreasingAppend DEF Learnt
    <2>4. after.ranges = Window(after.outcomes)
      BY <1>1, <1>2, <2>2, WindowPush DEF Learnt
    <2>5. Learnt(after)
      BY <1>2, <2>2, <2>3, <2>4 DEF Learnt
    <2>6. ToSet(after.outcomes) \subseteq Traded(k)'
      BY <1>2, <1>3, <2>3
    <2>7. Reactive(k) => skew'[k] = after.outcomes
      BY <2>1, <2>2 DEF Knows, ms
    <2> QED BY <2>1, <2>2, <2>5, <2>6, <2>7 DEF Knows
  <1> QED BY <1>5, <1>6

\* A new model has learned nothing.
LEMMA NewModelKnows ==
  ASSUME ~Frozen
  PROVE  /\ AtRest(ModelWithSnapshot) /\ Learnt(ModelWithSnapshot)
         /\ ModelWithSnapshot.outcomes = <<>> /\ ToSet(ModelWithSnapshot.outcomes) = {}
  <1>1. /\ ModelWithSnapshot.rolling = {} /\ ModelWithSnapshot.pending = NoMarket
        /\ ModelWithSnapshot.ranging = NoMarket /\ ModelWithSnapshot.ranges = <<>>
        /\ ModelWithSnapshot.outcomes = <<>> /\ ModelWithSnapshot.calibrator = <<>>
    BY DEF ModelWithSnapshot, NewModel
  <1>2. Window(<<>>) = <<>>
    <2>1. Max({1, 0 - VolatilityWindow + 1}) = 1
      BY MaxOfTwo, Bounds
    <2>2. Len(<<>>) = 0
      OBVIOUS
    <2> QED BY <2>1, <2>2 DEF Window
  <1>3. Increasing(<<>>) /\ ToSet(<<>>) = {}
    BY DEF Increasing, ToSet
  <1> QED BY <1>1, <1>2, <1>3 DEF AtRest, Learnt

\* At the start every model knows nothing.
LEMMA LearnInit == Init => LearnInv
  <1> SUFFICES ASSUME Init, ~Frozen, NEW k \in Strategies PROVE Knows(k)
      BY DEF LearnInv
  <1>1. model[k] = ModelWithSnapshot /\ skew[k] = <<>>
    BY DEF Init
  <1> QED BY <1>1, NewModelKnows DEF Knows

\* Every step keeps the parts of a model in agreement.
LEMMA LearnStep ==
  ASSUME TypeInv, TypeInv', [Next]_vars, ~Frozen, NEW k \in Strategies, Knows(k)
  PROVE  Knows(k)'
  <1>1. ASSUME model'[k] = model[k], skew'[k] = skew[k], ~Restart PROVE Knows(k)'
    BY <1>1, TradedStep DEF Knows
  <1>2. CASE Restart
    <2>1. model'[k] = ModelWithSnapshot /\ skew'[k] = <<>>
      BY <1>2 DEF Restart
    <2> QED BY <2>1, NewModelKnows DEF Knows
  <1>3. CASE \E end : RunStrategy(end)
    <2>1. PICK end : RunStrategy(end)
      BY <1>3
    <2>2. CASE k = Turn
      BY <2>1, <2>2, RunLearns
    <2>3. CASE k # Turn
      <3>1. model'[k] = model[k] /\ skew'[k] = skew[k]
        BY <2>1, <2>3 DEF RunStrategy, TypeInv, TypeOK
      <3>2. ~Restart
        BY <2>1 DEF RunStrategy, Restart
      <3> QED BY <1>1, <3>1, <3>2
    <2> QED BY <2>2, <2>3
  <1>4. CASE ~Restart /\ ~\E end : RunStrategy(end)
    <2>1. model' = model /\ skew' = skew
      BY <1>4, Cases DEF LoadFails, LoadMarket, Finish, Written, CloseMarket, CreateTmp, FillTmp,
                         Rename, WriteFails, Killed, Terminated, vars, memory
    <2> QED BY <1>1, <1>4, <2>1
  <1> QED BY <1>2, <1>3, <1>4

\* The parts of every model agree on what was learned, in every state.
LEMMA LearnInvariant == Spec => []LearnInv
  <1>1. TypeInv /\ TypeInv' /\ LearnInv /\ [Next]_vars => LearnInv'
    BY LearnStep DEF LearnInv
  <1> QED BY <1>1, LearnInit, TypeInvariant, PTL DEF Spec

\* A model learns each resolved market once, in order, and only one it has been
\* run on, and all its parts agree on which: recording comes once a run, by the
\* runner or by ReactiveDirectional itself, never by both.
THEOREM ModelsLearnOnce == Spec => []LearnsOnceInOrder
  <1>1. LearnInv => LearnsOnceInOrder
    BY DEF LearnInv, Knows, Learnt, Window, LearnsOnceInOrder
  <1> QED BY <1>1, LearnInvariant, PTL

SamplesInv == ~Frozen => SamplesAreOwn

\* Every step keeps the samples their own market's.
LEMMA SamplesStep ==
  ASSUME TypeInv, TypeInv', [Next]_vars, LearnInv, SamplesInv PROVE SamplesInv'
  <1> SUFFICES ASSUME ~Frozen PROVE SamplesAreOwn'
      BY DEF SamplesInv
  <1>1. SamplesAreOwn /\ samples \in Seq(Samples)
    BY DEF SamplesInv, TypeInv, TypeOK
  <1>2. CASE samples' = samples
    BY <1>1, <1>2 DEF SamplesAreOwn
  <1>3. CASE samples' = <<>>
    BY <1>3 DEF SamplesAreOwn
  <1>4. CASE \E end : RunStrategy(end)
    <2> DEFINE x == [market |-> market, sources |-> Sources(Turn)]
    <2>1. Turn \in Strategies /\ phase = "run" /\ samples' \in {samples, Append(samples, x)}
      BY <1>4 DEF RunStrategy
    <2>2. market \in 1 .. NumMarkets
      BY <2>1, Bounds DEF TypeInv, TypeOK, Control
    <2>3. Sources(Turn) = {market}
      <3>1. model[Turn] \in Models /\ model[Turn].rolling = {}
        BY <2>1 DEF TypeInv, TypeOK, LearnInv, Knows, AtRest
      <3>2. NewModel \in Models /\ NewModel.rolling = {}
        BY NewModelType DEF NewModel
      <3> QED BY <2>2, <3>1, <3>2, EvaluateType DEF Sources
    <2>4. x \in Samples /\ x.sources = {x.market}
      BY <2>2, <2>3 DEF Samples
    <2> HIDE DEF x
    <2>5. /\ Append(samples, x) \in Seq(Samples) /\ Len(Append(samples, x)) = Len(samples) + 1
          /\ Append(samples, x)[Len(samples) + 1] = x /\ Len(samples) \in Nat
          /\ \A i \in 1 .. Len(samples) : Append(samples, x)[i] = samples[i]
      BY <1>1, <2>4, AppendType
    <2>6. CASE samples' = Append(samples, x)
      <3>1. ASSUME NEW i \in DOMAIN samples' PROVE samples'[i].sources = {samples'[i].market}
        <4>1. CASE i = Len(samples) + 1
          BY <2>4, <2>5, <2>6, <4>1
        <4>2. CASE i # Len(samples) + 1
          <5>1. i \in DOMAIN samples /\ samples'[i] = samples[i]
            BY <1>1, <2>5, <2>6, <3>1, <4>2
          <5> QED BY <1>1, <5>1 DEF SamplesAreOwn
        <4> QED BY <4>1, <4>2
      <3> QED BY <3>1 DEF SamplesAreOwn
    <2> QED BY <1>2, <2>1, <2>6
  <1> QED BY <1>2, <1>3, <1>4, Cases DEF LoadFails, LoadMarket, Finish, Written, CloseMarket,
             CreateTmp, FillTmp, Rename, WriteFails, Killed, Terminated, Restart, vars, memory

\* Unless a snapshot is frozen, a market's out-of-sample features are drawn
\* from its own events: what a model evaluates between two recordings is gone
\* with the first.
THEOREM SamplesOfTheirMarket == Spec => [](~Frozen => SamplesAreOwn)
  <1>1. Init => SamplesInv
    BY DEF Init, SamplesInv, SamplesAreOwn
  <1>2. TypeInv /\ TypeInv' /\ LearnInv /\ SamplesInv /\ [Next]_vars => SamplesInv'
    BY SamplesStep
  <1> QED BY <1>1, <1>2, LearnInvariant, TypeInvariant, PTL DEF Spec, SamplesInv

\* Where recording is disabled for a frozen snapshot, and the strategy does not
\* record on its own as ReactiveDirectional does.
FrozenInv ==
  Frozen => \A k \in Strategies :
              ~Reactive(k) => model[k].outcomes = <<>> /\ model[k].calibrator = Snapshot

\* No step of the runner records on a frozen model.
LEMMA FrozenStep == TypeInv /\ FrozenInv /\ [Next]_vars => FrozenInv'
  <1> SUFFICES ASSUME TypeInv, FrozenInv, [Next]_vars, Frozen, NEW k \in Strategies, ~Reactive(k)
               PROVE  model'[k].outcomes = <<>> /\ model'[k].calibrator = Snapshot
      BY DEF FrozenInv
  <1>1. model[k].outcomes = <<>> /\ model[k].calibrator = Snapshot
    BY DEF FrozenInv
  <1>2. CASE model'[k] = model[k]
    BY <1>1, <1>2
  <1>3. CASE Restart
    BY <1>3, NewModelType DEF Restart, ModelWithSnapshot, LoadSnapshot, NewModel
  <1>4. CASE \E end : RunStrategy(end)
    <2>1. /\ phase = "run" /\ market \in 1 .. NumMarkets /\ model \in [Strategies -> Models]
      BY <1>4, Bounds DEF RunStrategy, TypeInv, TypeOK, Control
    <2>2. model'[k] \in {model[k], Learned(model[k], k)}
      BY <1>4, <2>1 DEF RunStrategy
    <2>3. Learned(model[k], k) = Evaluate(model[k], market)
      BY DEF Learned, SharedWithRunner
    <2>4. /\ Evaluate(model[k], market).outcomes = model[k].outcomes
          /\ Evaluate(model[k], market).calibrator = model[k].calibrator
      BY <2>1, EvaluateType
    <2> QED BY <1>1, <2>2, <2>3, <2>4
  <1> QED BY <1>2, <1>3, <1>4, Cases DEF LoadFails, LoadMarket, Finish, Written, CloseMarket,
             CreateTmp, FillTmp, Rename, WriteFails, Killed, Terminated, vars, memory

\* A frozen snapshot stays what it was in the model of every strategy that
\* leaves the recording to the runner; FrozenStaysFrozen, which speaks of
\* ReactiveDirectional as well, does not hold.
THEOREM RunnerKeepsSnapshots == Spec => []FrozenInv
  <1>1. Init => FrozenInv
    BY DEF Init, FrozenInv, ModelWithSnapshot, LoadSnapshot, NewModel
  <1> QED BY <1>1, FrozenStep, TypeInvariant, PTL DEF Spec
-----------------------------------------------------------------------------
(* What the files show.  Between two checkpoints both files hold the last  *)
(* one of this process, if there was any; while one is written the markets *)
(* file goes ahead.                                                        *)

BothWritten == disk["markets"] = Contents(TRUE) /\ disk["summary"] = Contents(TRUE)

\* Fewer markets than make a checkpoint have been added since the last.
Settled ==
  disk["markets"].process = process =>
    /\ disk["summary"] = disk["markets"]
    /\ CheckpointEvery > 0 /\ disk["markets"].markets % CheckpointEvery = 0
    /\ disk["markets"].markets <= Len(results)
    /\ Len(results) < disk["markets"].markets + CheckpointEvery

\* No more markets than make a checkpoint are to be added to file f.
OneBehind(f) ==
  disk[f].process = process =>
    disk[f].markets <= Len(results) /\ Len(results) <= disk[f].markets + CheckpointEvery

DiskInv ==
  /\ NamedFilesAreWhole /\ SummaryIsBacked /\ disk["markets"].process <= process
  /\ phase \in {"load", "run"} => Settled
  /\ phase = "write" =>
       /\ market <= NumMarkets => CheckpointEvery > 0 /\ Len(results) % CheckpointEvery = 0
       /\ stage = "rename" => disk[TmpOf(Head(todo))] = Contents(TRUE)
       /\ todo = Outputs =>
            /\ OneBehind("markets")
            /\ disk["markets"].process = process => disk["summary"] = disk["markets"]
       /\ todo = Tail(Outputs) => disk["markets"] = Contents(TRUE) /\ OneBehind("summary")
       /\ todo = <<>> => BothWritten
  /\ phase = "done" => BothWritten
\* The figures of a file under its final name.
LEMMA FileTypes ==
  ASSUME TypeOK, NEW f \in {"markets", "summary"}
  PROVE  disk[f] \in Files /\ disk[f].process \in Nat /\ disk[f].markets \in Nat
  <1>1. disk[f] \in Files
    BY DEF TypeOK, Names
  <1> QED BY <1>1, Bounds DEF Files

\* What a file is written with.
LEMMA ContentsAre ==
  \A whole \in BOOLEAN : /\ Contents(whole).process = process /\ Contents(whole).whole = whole
                         /\ Contents(whole).markets = Len(results)
  BY DEF Contents

\* What the quotient and the remainder are.
LEMMA Division ==
  ASSUME NEW n \in Nat, NEW c \in Nat, c > 0
  PROVE  /\ n \div c \in Int /\ n = c * (n \div c) + (n % c)
         /\ n % c \in Int /\ 0 <= n % c /\ n % c < c
  <1>1. n \div c \in Int
    OBVIOUS
  <1>2. n = c * (n \div c) + (n % c)
    OBVIOUS
  <1>3. n % c \in Int /\ 0 <= n % c /\ n % c < c
    OBVIOUS
  <1> QED BY <1>1, <1>2, <1>3

\* The next multiple of a number.
LEMMA DivisibleNext == \A a, c \in Nat : c > 0 /\ a % c = 0 => (a + c) % c = 0
  <1> SUFFICES ASSUME NEW a \in Nat, NEW c \in Nat, c > 0, a % c = 0
               PROVE  (a + c) % c = 0
      OBVIOUS
  <1> DEFINE q == a \div c
             b == a + c
             p == b \div c
             r == b % c
  <1>1. b \in Nat
    OBVIOUS
  <1>2. q \in Int /\ p \in Int /\ a = c * q /\ b = c * p + r /\ r \in Int /\ 0 <= r /\ r < c
    <2>1. q \in Int /\ a = c * q + (a % c)
      BY Division
    <2>2. p \in Int /\ b = c * p + r /\ r \in Int /\ 0 <= r /\ r < c
      <3> HIDE DEF b
      <3> QED BY <1>1, Division
    <2>3. c * q + 0 = c * q
      BY <2>1
    <2> QED BY <2>1, <2>2, <2>3
  <1> HIDE DEF q, p, r
  <1> DEFINE k == q + 1 - p
  <1>3. r = c * k /\ k \in Int
    BY <1>2
  <1> HIDE DEF k
  <1>4. /\ k >= 1 => c * k >= c
        /\ k <= 0 - 1 => c * k <= 0 - c
    BY <1>3
  <1>5. r = 0
    BY <1>2, <1>3, <1>4
  <1> QED BY <1>5 DEF r

\* The files before the first process are whole.
LEMMA DiskInit == Init => DiskInv
  <1> SUFFICES ASSUME Init PROVE DiskInv
      OBVIOUS
  <1>1. phase = "load" /\ process = 1 /\ disk["markets"] = Absent /\ disk["summary"] = Absent
    BY DEF Init, Names
  <1>2. Absent.process = 0 /\ Absent.markets = 0 /\ Absent.whole
    BY DEF Absent
  <1>3. SummaryIsBacked /\ NamedFilesAreWhole
    BY <1>1, <1>2, Amounts DEF SummaryIsBacked, NamedFilesAreWhole
  <1> QED BY <1>1, <1>2, <1>3 DEF DiskInv, Settled

\* The steps that leave the files and the results alone.
LEMMA DiskQuiet ==
  ASSUME TypeInv, DiskInv, UNCHANGED <<disk, results, process>>,
         \/ LoadFails \/ (\E some \in BOOLEAN : LoadMarket(some)) \/ Finish \/ Written
         \/ (\E end : RunStrategy(end))
         \/ WriteFails \/ Killed \/ Terminated \/ UNCHANGED vars
  PROVE  DiskInv'
  <1>1. NamedFilesAreWhole' /\ SummaryIsBacked' /\ disk'["markets"].process <= process'
    BY DEF DiskInv, NamedFilesAreWhole, SummaryIsBacked
  <1>2. /\ Settled => Settled'
        /\ BothWritten => BothWritten'
        /\ \A f \in {"markets", "summary"} : OneBehind(f) => OneBehind(f)'
        /\ Contents(TRUE)' = Contents(TRUE)
    BY DEF Settled, BothWritten, OneBehind, Contents
  <1>3. CASE phase' = phase /\ UNCHANGED <<todo, stage>> /\ (market' = market \/ phase = "load")
    BY <1>1, <1>2, <1>3 DEF DiskInv
  <1>4. CASE phase = "load" /\ phase' = "run"
    BY <1>1, <1>2, <1>4 DEF DiskInv
  <1>5. CASE phase' = "stopped"
    BY <1>1, <1>5 DEF DiskInv
  <1>6. CASE Finish
    <2>1. phase = "load" /\ phase' = "write" /\ todo' = Outputs /\ stage' = stage /\ stage = "create"
          /\ market' > NumMarkets
      BY <1>6 DEF Finish, memory, TypeInv, Control
    <2>2. disk["markets"].process = process => disk["summary"] = disk["markets"]
      BY <2>1 DEF DiskInv, Settled
    <2>3. OneBehind("markets")
      <3>1. Settled /\ Len(results) \in Nat /\ disk["markets"].markets \in Nat /\ CheckpointEvery \in Nat
        BY <2>1, Shapes, FileTypes, Amounts DEF DiskInv, TypeInv
      <3> QED BY <3>1 DEF Settled, OneBehind
    <2>4. ~(market' <= NumMarkets)
      BY <2>1, <1>6, Shapes, Bounds DEF Finish, memory, TypeInv
    <2> QED BY <1>1, <1>2, <2>1, <2>2, <2>3, <2>4, OutputsUnfold DEF DiskInv
  <1>7. CASE Written
    <2>1. phase = "write" /\ todo = <<>> /\ BothWritten
      BY <1>7 DEF Written, DiskInv
    <2>2. CASE phase' = "done"
      BY <1>1, <1>2, <2>1, <2>2 DEF DiskInv
    <2>3. CASE phase' = "load" /\ market <= NumMarkets
      <3>1. Settled
        <4>1. CheckpointEvery > 0 /\ Len(results) % CheckpointEvery = 0
          BY <2>1, <2>3 DEF DiskInv
        <4>2. Len(results) \in Nat /\ CheckpointEvery \in Nat
          BY Shapes, Amounts DEF TypeInv
        <4>3. /\ disk["summary"] = disk["markets"] /\ disk["markets"].markets = Len(results)
          BY <2>1, ContentsAre DEF BothWritten
        <4>4. Len(results) < Len(results) + CheckpointEvery
          BY <4>1, <4>2
        <4> QED BY <4>1, <4>2, <4>3, <4>4 DEF Settled
      <3> QED BY <1>1, <1>2, <2>3, <3>1 DEF DiskInv
    <2>4. market > NumMarkets \/ market <= NumMarkets
      BY Shapes, Bounds DEF TypeInv
    <2> QED BY <1>7, <2>2, <2>3, <2>4 DEF Written
  <1>8. CASE \E end : RunStrategy(end)
    BY <1>3, <1>8 DEF RunStrategy, files
  <1> QED BY <1>3, <1>4, <1>5, <1>6, <1>7, <1>8
          DEF LoadFails, LoadMarket, WriteFails, Killed, Terminated, vars, memory, files

\* The end of a market, with or without a checkpoint, keeps the files in step.
LEMMA DiskClose ==
  ASSUME TypeInv, DiskInv, CloseMarket PROVE DiskInv'
  <1> DEFINE n == Len(results)
             m == disk["markets"]
             s == disk["summary"]
  <1>1. /\ phase = "run" /\ UNCHANGED <<disk, process, stage>> /\ stage = "create" /\ todo = <<>>
        /\ Len(results') = n + 1 /\ n \in Nat
    BY Shapes DEF CloseMarket, TypeInv, TypeOK, Control
  <1>2. /\ m.process \in Nat /\ s.process \in Nat /\ m.markets \in Nat /\ s.markets \in Nat
        /\ process \in Nat /\ CheckpointEvery \in Nat
    BY FileTypes, Amounts, Bounds DEF TypeInv, TypeOK
  <1>3. NamedFilesAreWhole' /\ SummaryIsBacked' /\ disk'["markets"].process <= process'
    BY <1>1 DEF DiskInv, NamedFilesAreWhole, SummaryIsBacked
  <1>4. m.process = process =>
          /\ s = m /\ CheckpointEvery > 0 /\ m.markets % CheckpointEvery = 0
          /\ m.markets <= n /\ n < m.markets + CheckpointEvery
    BY <1>1 DEF DiskInv, Settled
  <1> HIDE DEF n, m, s
  <1>5. CASE CheckpointDue
    <2>1. phase' = "write" /\ todo' = Outputs
          /\ CheckpointEvery > 0 /\ Len(results') % CheckpointEvery = 0
      BY <1>5 DEF CloseMarket, CheckpointDue
    <2>2. OneBehind("markets")'
      BY <1>1, <1>2, <1>4 DEF OneBehind, m
    <2>3. disk'["markets"].process = process' => disk'["summary"] = disk'["markets"]
      BY <1>1, <1>4 DEF m, s
    <2> QED BY <1>1, <1>3, <2>1, <2>2, <2>3, OutputsUnfold DEF DiskInv
  <1>6. CASE ~CheckpointDue
    <2>1. phase' = "load" /\ todo' = todo
      BY <1>6 DEF CloseMarket
    <2>2. m.process = process => n + 1 < m.markets + CheckpointEvery /\ m.markets <= n + 1
      <3>1. CASE n + 1 = m.markets + CheckpointEvery /\ m.process = process
        <4>1. Len(results') % CheckpointEvery = 0 /\ CheckpointEvery > 0
          BY <1>1, <1>2, <1>4, <3>1, DivisibleNext
        <4> QED BY <1>6, <4>1 DEF CheckpointDue
      <3> QED BY <1>1, <1>2, <1>4, <3>1
    <2>3. Settled'
      BY <1>1, <1>2, <1>4, <2>2 DEF Settled, m, s
    <2> QED BY <1>3, <2>1, <2>3 DEF DiskInv
  <1> QED BY <1>5, <1>6

\* The temporary files are not the named ones.
LEMMA TmpApart ==
  \A f \in {"markets", "summary"} :
    /\ TmpOf(f) \in Names /\ f \in Names
    /\ TmpOf(f) # "markets" /\ TmpOf(f) # "summary"
  BY DEF TmpOf, Names

\* What is written under a temporary name does not show.
LEMMA DiskFill ==
  ASSUME TypeInv, DiskInv, CreateTmp \/ FillTmp PROVE DiskInv'
  <1> DEFINE f == Head(todo)
  <1>1. /\ phase = "write" /\ todo # <<>> /\ UNCHANGED <<phase, memory, todo, process>>
        /\ f \in {"markets", "summary"}
    BY NextFile DEF CreateTmp, FillTmp, TypeInv, Control
  <1>2. disk'["markets"] = disk["markets"] /\ disk'["summary"] = disk["summary"]
        /\ (stage' = "rename" => disk'[TmpOf(f)] = Contents(TRUE))
    <2>1. disk \in [Names -> Files]
      BY DEF TypeInv, TypeOK
    <2>2. /\ \E whole \in BOOLEAN : disk' = [disk EXCEPT ![TmpOf(f)] = Contents(whole)]
          /\ stage' = "rename" => disk' = [disk EXCEPT ![TmpOf(f)] = Contents(TRUE)]
      BY DEF CreateTmp, FillTmp
    <2> HIDE DEF f
    <2>3. "markets" \in Names /\ "summary" \in Names /\ TmpOf(f) \in Names
      BY <1>1, TmpApart DEF Names
    <2> QED BY <1>1, <2>1, <2>2, <2>3, TmpApart
  <1>3. /\ UNCHANGED <<results, market>>
        /\ Contents(TRUE)' = Contents(TRUE)
    BY <1>1 DEF memory, Contents
  <1>4. NamedFilesAreWhole' /\ SummaryIsBacked' /\ disk'["markets"].process <= process'
    BY <1>1, <1>2 DEF DiskInv, NamedFilesAreWhole, SummaryIsBacked
  <1>5. \A g \in {"markets", "summary"} : OneBehind(g) => OneBehind(g)'
    BY <1>1, <1>2, <1>3 DEF OneBehind
  <1>6. todo = Outputs => OneBehind("markets")'
        /\ (disk'["markets"].process = process' => disk'["summary"] = disk'["markets"])
    BY <1>1, <1>2, <1>5 DEF DiskInv
  <1>7. todo = Tail(Outputs) => disk'["markets"] = Contents(TRUE)' /\ OneBehind("summary")'
    BY <1>1, <1>2, <1>3, <1>5 DEF DiskInv
  <1>8. market' <= NumMarkets => CheckpointEvery > 0 /\ Len(results') % CheckpointEvery = 0
    BY <1>1, <1>3 DEF DiskInv
  <1>9. stage' = "rename" => disk'[TmpOf(Head(todo'))] = Contents(TRUE)'
    <2>1. Head(todo') = f
      BY <1>1
    <2> QED BY <1>2, <1>3, <2>1
  <1> QED BY <1>1, <1>4, <1>6, <1>7, <1>8, <1>9 DEF DiskInv

\* The rename of a temporary file keeps the files in step.
LEMMA DiskRename ==
  ASSUME TypeInv, DiskInv, Rename PROVE DiskInv'
  <1> DEFINE f == Head(todo)
             c == Contents(TRUE)
             n == Len(results)
  <1>1. /\ phase = "write" /\ stage = "rename" /\ todo # <<>> /\ disk[TmpOf(f)] = c
        /\ UNCHANGED <<phase, memory, process>> /\ todo' = Tail(todo) /\ stage' = "create"
        /\ f \in {"markets", "summary"}
    BY NextFile DEF Rename, TypeInv, Control, DiskInv
  <1>2. disk'[f] = c /\ \A g \in {"markets", "summary"} : g # f => disk'[g] = disk[g]
    <2>1. disk \in [Names -> Files]
      BY DEF TypeInv, TypeOK
    <2>2. disk' = [disk EXCEPT ![TmpOf(f)] = Absent, ![f] = disk[TmpOf(f)]]
      BY DEF Rename
    <2> HIDE DEF f, c
    <2>3. "markets" \in Names /\ "summary" \in Names /\ TmpOf(f) \in Names
          /\ TmpOf(f) # "markets" /\ TmpOf(f) # "summary"
      BY <1>1, TmpApart DEF Names
    <2> QED BY <1>1, <2>1, <2>2, <2>3
  <1>3. /\ UNCHANGED <<results, market>> /\ c' = c
        /\ c.process = process /\ c.markets = n /\ c.whole
    BY <1>1 DEF memory, Contents
  <1>4. n \in Nat /\ process \in Nat /\ CheckpointEvery \in Nat
        /\ \A g \in {"markets", "summary"} : disk[g].process \in Nat /\ disk[g].markets \in Nat
    BY Shapes, FileTypes, Amounts, Bounds DEF TypeInv, TypeOK
  <1>5. market' <= NumMarkets => CheckpointEvery > 0 /\ Len(results') % CheckpointEvery = 0
    BY <1>1, <1>3 DEF DiskInv
  <1>6. Outputs # Tail(Outputs) /\ Outputs # <<>> /\ Tail(Outputs) # <<>>
    BY OutputsUnfold
  <1> HIDE DEF f, c, n
  <1>7. CASE todo = Outputs
    <2>1. f = "markets" /\ todo' = Tail(Outputs)
      BY <1>1, <1>7, OutputsUnfold DEF f
    <2>2. disk'["markets"] = c /\ disk'["summary"] = disk["summary"]
      BY <1>2, <2>1
    <2>3. /\ disk["markets"].process = process => disk["summary"] = disk["markets"]
          /\ OneBehind("markets") /\ SummaryIsBacked /\ NamedFilesAreWhole
          /\ disk["markets"].process <= process
      BY <1>1, <1>7 DEF DiskInv
    <2>4. disk["summary"].process <= process
          /\ (disk["summary"].process = process =>
                disk["summary"].markets <= n /\ n <= disk["summary"].markets + CheckpointEvery)
      <3>1. disk["markets"].process >= disk["summary"].process
        BY <2>3 DEF SummaryIsBacked
      <3>2. CASE disk["summary"].process = process
        <4>1. disk["markets"].process = process
          BY <1>4, <2>3, <3>1, <3>2
        <4> QED BY <2>3, <3>2, <4>1 DEF OneBehind, n
      <3> QED BY <1>4, <2>3, <3>1, <3>2
    <2>5. SummaryIsBacked'
      BY <1>3, <1>4, <2>2, <2>4 DEF SummaryIsBacked
    <2>6. OneBehind("summary")'
      BY <1>1, <1>3, <2>2, <2>4 DEF OneBehind, n
    <2>7. NamedFilesAreWhole' /\ disk'["markets"].process <= process'
      BY <1>1, <1>3, <1>4, <2>2, <2>3 DEF NamedFilesAreWhole
    <2>8. todo' # Outputs /\ todo' # <<>>
      BY <1>6, <2>1
    <2> QED BY <1>1, <1>3, <1>5, <2>2, <2>5, <2>6, <2>7, <2>8 DEF DiskInv, c
  <1>8. CASE todo = Tail(Outputs)
    <2>1. f = "summary" /\ todo' = <<>>
      BY <1>1, <1>8, OutputsUnfold DEF f
    <2>2. disk'["markets"] = c /\ disk'["summary"] = c
      BY <1>1, <1>2, <1>8, <2>1 DEF DiskInv, c
    <2>3. SummaryIsBacked' /\ NamedFilesAreWhole' /\ disk'["markets"].process <= process'
      BY <1>1, <1>3, <1>4, <2>2 DEF SummaryIsBacked, NamedFilesAreWhole
    <2>4. BothWritten'
      BY <1>3, <2>2 DEF BothWritten, c
    <2> QED BY <1>1, <1>5, <1>6, <2>1, <2>3, <2>4 DEF DiskInv
  <1> QED BY <1>1, <1>7, <1>8 DEF TypeInv, TypeOK

\* A new process over whatever files were left keeps them in step.
LEMMA DiskRestart ==
  ASSUME TypeInv, DiskInv, Restart PROVE DiskInv'
  <1>1. UNCHANGED disk /\ process' = process + 1 /\ phase' = "load"
    BY DEF Restart
  <1>2. disk["markets"].process <= process /\ disk["markets"].process \in Nat /\ process \in Nat
    BY FileTypes, Bounds DEF DiskInv, TypeInv, TypeOK
  <1>3. disk'["markets"].process < process'
    BY <1>1, <1>2
  <1>4. Settled' /\ disk'["markets"].process <= process'
    BY <1>1, <1>2, <1>3 DEF Settled
  <1>5. NamedFilesAreWhole' /\ SummaryIsBacked'
    BY <1>1 DEF DiskInv, NamedFilesAreWhole, SummaryIsBacked
  <1> QED BY <1>1, <1>4, <1>5 DEF DiskInv

\* The files are in step in every state.
LEMMA DiskInvariant == Spec => []DiskInv
  <1>1. TypeInv /\ DiskInv /\ [Next]_vars => DiskInv'
    <2> SUFFICES ASSUME TypeInv, DiskInv, [Next]_vars PROVE DiskInv'
        OBVIOUS
    <2>1. CASE \/ LoadFails \/ (\E some \in BOOLEAN : LoadMarket(some)) \/ Finish \/ Written
               \/ (\E end : RunStrategy(end))
               \/ WriteFails \/ Killed \/ Terminated \/ UNCHANGED vars
      <3>1. UNCHANGED <<disk, results, process>>
        BY <2>1 DEF LoadFails, LoadMarket, Finish, Written, RunStrategy, WriteFails, Killed,
                    Terminated, vars, memory, files
      <3> QED BY <2>1, <3>1, DiskQuiet
    <2> QED BY <2>1, Cases, DiskClose, DiskFill, DiskRename, DiskRestart
  <1> QED BY <1>1, DiskInit, TypeInvariant, PTL DEF Spec

\* A file under its own name is whole, at whichever step its writer dies.
THEOREM NamedFilesStayWhole == Spec => []NamedFilesAreWhole
  <1>1. DiskInv => NamedFilesAreWhole
    BY DEF DiskInv
  <1> QED BY <1>1, DiskInvariant, PTL

\* The summary beside a markets file never speaks of markets that are not in
\* it, unless that file is a later process's, and is at most one checkpoint
\* behind it.
THEOREM SummariesAreBacked == Spec => []SummaryIsBacked
  <1>1. DiskInv => SummaryIsBacked
    BY DEF DiskInv
  <1> QED BY <1>1, DiskInvariant, PTL

\* A process that ends in good order has written all its results to both files.
THEOREM DoneMeansWritten == Spec => []DoneIsWritten
  <1>1. DiskInv => DoneIsWritten
    BY DEF DiskInv, BothWritten, DoneIsWritten
  <1> QED BY <1>1, DiskInvariant, PTL
=============================================================================
