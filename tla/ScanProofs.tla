----------------------------- MODULE ScanProofs -----------------------------
(***************************************************************************)
(* Proofs about the way of a scan.  ScanRecorder, for every number of      *)
(* workers and events and every size of the channel and of a batch: no     *)
(* event is lost or counted twice, and Unflushed says what is pending.     *)
(* Analytics, for every set of codes, visitors and hosts, any number of    *)
(* scans, batch and window: the rollups count what was ever committed, the *)
(* answers add them up, and retention keeps its window.                    *)
(***************************************************************************)
EXTENDS ScanRecorder, Analytics, FiniteSetTheorems, FunctionTheorems, TLAPS

-----------------------------------------------------------------------------
(* Sums over the workers.                                                  *)

Heights == [Worker -> 0..BatchSize + 1]

\* A sum is a natural number, and at least each of its summands.
LEMMA TotalSplits ==
  ASSUME NEW f \in Heights, NEW w \in Worker
  PROVE  \E rest \in Nat :
           /\ Total(f) = rest + f[w]
           /\ \A g \in Heights : (\A v \in Worker : v # w => g[v] = f[v]) => Total(g) = rest + g[w]
<1> DEFINE G == Worker \X (1..BatchSize + 1)
           Under(g) == {x \in G : x[2] <= g[x[1]]}
           rest == {x \in Under(f) : x[1] # w}
<1>0. BatchSize \in Nat \ {0} /\ IsFiniteSet(Worker) /\ 1 \in Int /\ BatchSize + 1 \in Int
  BY RecorderAssumption
<1>1. IsFiniteSet(G)
  <2>1. IsFiniteSet(1..BatchSize + 1)
    BY <1>0, FS_Interval
  <2> QED BY <1>0, <2>1, FS_Product
<1>2. IsFiniteSet(rest)
  BY <1>1, FS_Subset
<1>3. ASSUME NEW g \in Heights, \A v \in Worker : v # w => g[v] = f[v]
      PROVE  Total(g) = Cardinality(rest) + g[w]
  <2> DEFINE column == {w} \X (1..g[w])
  <2>1. g[w] \in Nat /\ g[w] \in Int /\ g[w] <= BatchSize + 1
    BY <1>0 DEF Heights
  <2>2. IsFiniteSet(column) /\ Cardinality(column) = g[w]
    <3>1. IsFiniteSet({w}) /\ Cardinality({w}) = 1
      BY FS_Singleton
    <3>2. IsFiniteSet(1..g[w]) /\ Cardinality(1..g[w]) = IF 1 > g[w] THEN 0 ELSE g[w] - 1 + 1
      BY <1>0, <2>1, FS_Interval
    <3>3. Cardinality(1..g[w]) = g[w]
      BY <2>1, <3>2
    <3>4. IsFiniteSet(column) /\ Cardinality(column) = Cardinality({w}) * Cardinality(1..g[w])
      BY <3>1, <3>2, FS_Product
    <3> QED BY <2>1, <3>1, <3>3, <3>4
  <2>3. Under(g) = rest \cup column
    <3>1. ASSUME NEW x \in Under(g) PROVE x \in rest \cup column
      <4>1. x \in G /\ x[2] <= g[x[1]] /\ x[1] \in Worker /\ x[2] \in 1..BatchSize + 1 /\ x = <<x[1], x[2]>>
        OBVIOUS
      <4>2. CASE x[1] = w
        <5>1. x[2] \in 1..g[w]
          BY <1>0, <2>1, <4>1, <4>2
        <5> QED BY <4>1, <4>2, <5>1
      <4>3. CASE x[1] # w
        BY <1>3, <4>1, <4>3
      <4> QED BY <4>2, <4>3
    <3>2. ASSUME NEW x \in rest PROVE x \in Under(g)
      BY <1>3
    <3>3. ASSUME NEW x \in column PROVE x \in Under(g)
      <4>1. x[1] = w /\ x[2] \in 1..g[w] /\ x = <<x[1], x[2]>>
        OBVIOUS
      <4>2. x[2] \in 1..BatchSize + 1 /\ x[2] <= g[w]
        BY <1>0, <2>1, <4>1
      <4> QED BY <4>1, <4>2
    <3> QED BY <3>1, <3>2, <3>3
  <2>4. rest \cap column = {}
    OBVIOUS
  <2>5. Cardinality(rest) \in Nat /\ Cardinality(rest \cap column) = 0
    BY <1>2, <2>4, FS_CardinalityType, FS_EmptySet
  <2>6. Cardinality(rest \cup column) = Cardinality(rest) + Cardinality(column) - Cardinality(rest \cap column)
    BY <1>2, <2>2, FS_Union
  <2>7. Total(g) = Cardinality(Under(g))
    BY DEF Total
  <2> HIDE DEF rest, column, Under
  <2> QED BY <2>1, <2>2, <2>3, <2>5, <2>6, <2>7
<1>4. Cardinality(rest) \in Nat
  BY <1>2, FS_CardinalityType
<1> HIDE DEF rest
<1> QED BY <1>3, <1>4

\* A sum in which one summand changes.
LEMMA TotalChanges ==
  ASSUME NEW f \in Heights, NEW g \in Heights, NEW w \in Worker,
         \A v \in Worker : v # w => g[v] = f[v]
  PROVE  Total(f) \in Nat /\ f[w] <= Total(f) /\ Total(g) + f[w] = Total(f) + g[w]
<1>1. PICK rest \in Nat : Total(f) = rest + f[w] /\ Total(g) = rest + g[w]
  BY TotalSplits
<1>2. f[w] \in Nat /\ g[w] \in Nat
  BY RecorderAssumption DEF Heights
<1> QED BY <1>1, <1>2

\* A sum of zeros.
LEMMA TotalZero ==
  ASSUME NEW f \in Heights, \A w \in Worker : f[w] = 0 PROVE Total(f) = 0
<1>1. {x \in Worker \X (1..BatchSize + 1) : x[2] <= f[x[1]]} = {}
  <2> SUFFICES ASSUME NEW x \in Worker \X (1..BatchSize + 1), x[2] <= f[x[1]] PROVE FALSE
    OBVIOUS
  <2>1. x[1] \in Worker /\ x[2] \in 1..BatchSize + 1
    OBVIOUS
  <2> QED BY <2>1, RecorderAssumption
<1> QED BY <1>1, FS_EmptySet DEF Total

-----------------------------------------------------------------------------
(* The inductive invariant.                                                *)

HeldNow == [w \in Worker |-> Held(w)]
WrittenNow == [w \in Worker |-> Written(w)]
Uncounted == {w \in Worker : pc[w] = "received"}

\* A batch that has room takes the event in hand.
RoomLeft == \A w \in Worker : pc[w] \in {"select", "received"} => batch[w] < BatchSize

\* Nothing is left for a worker that found the channel closed and empty.
LastOnes ==
  /\ \A w \in Worker : pc[w] \in {"last", "lastflushed", "exited"} => queue = 0 /\ closed
  /\ \A w \in Worker : pc[w] = "exited" => batch[w] = 0
  /\ closing = "clean" => \A w \in Worker : pc[w] = "exited"

RecorderInv ==
  /\ RecorderTypeOK /\ RoomLeft /\ LastOnes
  /\ inflight = Total(batch)
  /\ inflight + Cardinality(Uncounted) = Total(HeldNow) + Total(WrittenNow)
  /\ recorded = queue + Total(HeldNow) + persisted + dropped

\* What is summed is a function of the workers.
LEMMA SummandsTyped ==
  ASSUME RecorderTypeOK PROVE batch \in Heights /\ HeldNow \in Heights /\ WrittenNow \in Heights
<1>1. BatchSize \in Nat \ {0} /\ batch \in [Worker -> 0..BatchSize]
  BY RecorderAssumption DEF RecorderTypeOK
<1>2. batch \in Heights
  BY <1>1 DEF Heights
<1>3. ASSUME NEW w \in Worker PROVE Held(w) \in 0..BatchSize + 1 /\ Written(w) \in 0..BatchSize + 1
  <2>1. batch[w] \in 0..BatchSize
    BY <1>1
  <2> QED BY <1>1, <2>1 DEF Held, Written
<1> QED BY <1>2, <1>3 DEF Heights, HeldNow, WrittenNow

\* A recorder that has just started has nothing in hand.
LEMMA InitOK == RecorderInit => RecorderInv
<1> SUFFICES ASSUME RecorderInit PROVE RecorderInv
  OBVIOUS
<1>1. RecorderTypeOK /\ RoomLeft /\ LastOnes
  <2>1. 0 \in 0..BufferSize /\ 0 \in 0..BatchSize /\ 0 < BatchSize
    BY RecorderAssumption
  <2>2. \A w \in Worker : pc[w] = "select" /\ batch[w] = 0
    BY DEF RecorderInit
  <2>3. RecorderTypeOK
    <3>1. pc \in [Worker -> Stage] /\ batch \in [Worker -> 0..BatchSize]
      BY <2>1 DEF RecorderInit, Stage
    <3>2. {inflight, dropped, persisted, recorded} \subseteq Nat /\ queue \in 0..BufferSize
      BY <2>1 DEF RecorderInit
    <3>3. closed \in BOOLEAN /\ closing \in {"no", "waiting", "clean", "timedout"}
      BY DEF RecorderInit
    <3> QED BY <3>1, <3>2, <3>3 DEF RecorderTypeOK
  <2> QED BY <2>1, <2>2, <2>3 DEF RecorderInit, RoomLeft, LastOnes
<1>2. Total(batch) = 0
  <2>1. \A w \in Worker : batch[w] = 0
    BY DEF RecorderInit
  <2> QED BY <1>1, <2>1, SummandsTyped, TotalZero
<1>3. Total(HeldNow) = 0
  <2>1. \A w \in Worker : HeldNow[w] = 0
    BY DEF HeldNow, Held, RecorderInit
  <2> QED BY <1>1, <2>1, SummandsTyped, TotalZero
<1>4. Total(WrittenNow) = 0
  <2>1. \A w \in Worker : WrittenNow[w] = 0
    BY DEF WrittenNow, Written, RecorderInit
  <2> QED BY <1>1, <2>1, SummandsTyped, TotalZero
<1>5. Cardinality(Uncounted) = 0
  <2>1. Uncounted = {}
    BY DEF Uncounted, RecorderInit
  <2> QED BY <2>1, FS_EmptySet
<1> QED BY <1>1, <1>2, <1>3, <1>4, <1>5 DEF RecorderInv, RecorderInit

\* Steps that leave every worker where it is.
LEMMA WorkersStay ==
  ASSUME RecorderInv, UNCHANGED <<pc, batch, inflight>>, RecorderTypeOK', LastOnes',
         recorded' + queue + persisted + dropped = recorded + queue' + persisted' + dropped'
  PROVE  RecorderInv'
<1>1. HeldNow' = HeldNow /\ WrittenNow' = WrittenNow /\ Uncounted' = Uncounted
  BY DEF HeldNow, Held, WrittenNow, Written, Uncounted
<1>2. Total(HeldNow)' = Total(HeldNow) /\ Total(WrittenNow)' = Total(WrittenNow) /\ Total(batch)' = Total(batch)
  BY <1>1 DEF Total
<1>3. Total(HeldNow) \in Nat
  <2>1. PICK w : w \in Worker
    BY RecorderAssumption
  <2> QED BY <2>1, SummandsTyped, TotalChanges DEF RecorderInv
<1>4. /\ queue \in Nat /\ persisted \in Nat /\ dropped \in Nat /\ recorded \in Nat
      /\ queue' \in Nat /\ persisted' \in Nat /\ dropped' \in Nat /\ recorded' \in Nat
  BY RecorderAssumption DEF RecorderInv, RecorderTypeOK
<1>5. RoomLeft'
  BY DEF RecorderInv, RoomLeft
<1>6. recorded' = queue' + Total(HeldNow)' + persisted' + dropped'
  <2>1. PICK n \in Nat : n = Total(HeldNow)
    BY <1>3
  <2>2. recorded = queue + n + persisted + dropped
    BY <2>1 DEF RecorderInv
  <2>3. recorded' = queue' + n + persisted' + dropped'
    <3>1. PICK q \in Int, p \in Int, d \in Int : q = queue /\ p = persisted /\ d = dropped
      BY <1>4
    <3>2. PICK q1 \in Int, p1 \in Int, d1 \in Int : q1 = queue' /\ p1 = persisted' /\ d1 = dropped'
      BY <1>4
    <3>3. PICK r \in Int, r1 \in Int : r = recorded /\ r1 = recorded'
      BY <1>4
    <3>4. r = q + n + p + d /\ r1 + q + p + d = r + q1 + p1 + d1
      BY <2>2, <3>1, <3>2, <3>3
    <3>5. r1 = q1 + n + p1 + d1
      BY <3>4
    <3> QED BY <3>2, <3>3, <3>5
  <2> QED BY <1>2, <2>1, <2>3
<1> QED BY <1>1, <1>2, <1>5, <1>6 DEF RecorderInv

\* Record, and the caller of Close.
LEMMA OutsideKeeps ==
  ASSUME RecorderInv, Record \/ Close \/ CloseReturns \/ CloseTimesOut \/ UNCHANGED recorderVars
  PROVE  RecorderInv'
<1>0. /\ {queue, persisted, dropped, recorded, inflight} \subseteq Nat /\ BufferSize \in Nat \ {0}
      /\ RecorderTypeOK /\ LastOnes
  BY RecorderAssumption DEF RecorderInv, RecorderTypeOK
<1>1. CASE Record
  <2>1. RecorderTypeOK'
    BY <1>0, <1>1 DEF Record, RecorderTypeOK
  <2>2. LastOnes'
    BY <1>0, <1>1 DEF Record, LastOnes
  <2>3. recorded' + queue + persisted + dropped = recorded + queue' + persisted' + dropped'
    BY <1>0, <1>1 DEF Record
  <2> QED BY <1>1, <2>1, <2>2, <2>3, WorkersStay DEF Record
<1>2. CASE Close \/ CloseReturns \/ CloseTimesOut \/ UNCHANGED recorderVars
  <2>1. RecorderTypeOK'
    BY <1>0, <1>2 DEF Close, CloseReturns, CloseTimesOut, recorderVars, RecorderTypeOK
  <2>2. LastOnes'
    BY <1>0, <1>2 DEF Close, CloseReturns, CloseTimesOut, recorderVars, LastOnes
  <2>3. UNCHANGED <<queue, pc, batch, inflight, dropped, persisted, recorded>>
    BY <1>2 DEF Close, CloseReturns, CloseTimesOut, recorderVars
  <2> QED BY <1>0, <2>1, <2>2, <2>3, WorkersStay
<1> QED BY <1>1, <1>2

\* A step of one worker changes one summand of each sum.
LEMMA OneWorker ==
  ASSUME RecorderInv, NEW w \in Worker, RecorderTypeOK',
         \A v \in Worker : v # w => pc'[v] = pc[v] /\ batch'[v] = batch[v]
  PROVE  \E h, h1, t, t1, b, b1 \in Nat :
           /\ h = Total(HeldNow) /\ h1 = Total(HeldNow)' /\ h1 + Held(w) = h + Held(w)'
           /\ t = Total(WrittenNow) /\ t1 = Total(WrittenNow)' /\ t1 + Written(w) = t + Written(w)'
           /\ b = Total(batch) /\ b1 = Total(batch)' /\ b1 + batch[w] = b + batch'[w] /\ batch[w] <= b
<1>1. batch \in Heights /\ HeldNow \in Heights /\ WrittenNow \in Heights
  BY SummandsTyped DEF RecorderInv
<1>2. batch' \in Heights /\ HeldNow' \in Heights /\ WrittenNow' \in Heights
  <2>1. BatchSize \in Nat \ {0} /\ batch' \in [Worker -> 0..BatchSize]
    BY RecorderAssumption DEF RecorderTypeOK
  <2>2. batch' \in Heights
    BY <2>1 DEF Heights
  <2>3. ASSUME NEW v \in Worker PROVE Held(v)' \in 0..BatchSize + 1 /\ Written(v)' \in 0..BatchSize + 1
    <3>1. batch'[v] \in 0..BatchSize
      BY <2>1
    <3> QED BY <2>1, <3>1 DEF Held, Written
  <2> QED BY <2>2, <2>3 DEF Heights, HeldNow, WrittenNow
<1>3. /\ HeldNow[w] = Held(w) /\ HeldNow'[w] = Held(w)'
      /\ WrittenNow[w] = Written(w) /\ WrittenNow'[w] = Written(w)'
  BY DEF HeldNow, WrittenNow
<1>4. \A v \in Worker : v # w => HeldNow'[v] = HeldNow[v] /\ WrittenNow'[v] = WrittenNow[v]
  BY DEF HeldNow, WrittenNow, Held, Written
<1>5. /\ Total(HeldNow)' = Total(HeldNow') /\ Total(WrittenNow)' = Total(WrittenNow')
      /\ Total(batch)' = Total(batch')
  BY DEF Total
<1>6. Total(HeldNow) \in Nat /\ Total(HeldNow') \in Nat /\ Total(HeldNow') + Held(w) = Total(HeldNow) + Held(w)'
  BY <1>1, <1>2, <1>3, <1>4, TotalChanges
<1>7. /\ Total(WrittenNow) \in Nat /\ Total(WrittenNow') \in Nat
      /\ Total(WrittenNow') + Written(w) = Total(WrittenNow) + Written(w)'
  BY <1>1, <1>2, <1>3, <1>4, TotalChanges
<1>8. /\ Total(batch) \in Nat /\ Total(batch') \in Nat /\ batch[w] <= Total(batch)
      /\ Total(batch') + batch[w] = Total(batch) + batch'[w]
  BY <1>1, <1>2, TotalChanges
<1> QED BY <1>5, <1>6, <1>7, <1>8

\* The worker takes an event off the channel; it is not counted yet.
LEMMA ReceiveKeeps == ASSUME RecorderInv, NEW w \in Worker, Receive(w) PROVE RecorderInv'
<1>0. /\ RecorderTypeOK /\ RoomLeft /\ LastOnes /\ batch[w] \in Nat /\ queue \in Nat /\ queue > 0
      /\ pc \in [Worker -> Stage] /\ pc[w] = "select"
      /\ queue' = queue - 1 /\ pc' = [pc EXCEPT ![w] = "received"]
      /\ UNCHANGED <<closed, batch, inflight, dropped, persisted, recorded, closing>>
  BY RecorderAssumption DEF RecorderInv, RecorderTypeOK, Receive, Goto
<1>1. pc' \in [Worker -> Stage] /\ pc'[w] = "received" /\ \A v \in Worker : v # w => pc'[v] = pc[v]
  BY <1>0 DEF Stage
<1>2. RecorderTypeOK'
  BY <1>0, <1>1, RecorderAssumption DEF RecorderTypeOK
<1>3. RoomLeft' /\ LastOnes'
  BY <1>0, <1>1 DEF RoomLeft, LastOnes
<1>4. PICK h, h1, t, t1, b, b1 \in Nat :
        /\ h = Total(HeldNow) /\ h1 = Total(HeldNow)' /\ h1 + Held(w) = h + Held(w)'
        /\ t = Total(WrittenNow) /\ t1 = Total(WrittenNow)' /\ t1 + Written(w) = t + Written(w)'
        /\ b = Total(batch) /\ b1 = Total(batch)' /\ b1 + batch[w] = b + batch'[w] /\ batch[w] <= b
  BY <1>0, <1>1, <1>2, OneWorker
<1>5. Held(w) = batch[w] /\ Held(w)' = batch[w] + 1 /\ Written(w) = 0 /\ Written(w)' = 0
  BY <1>0, <1>1 DEF Held, Written
<1>6. h1 = h + 1 /\ t1 = t /\ b1 = b
  BY <1>0, <1>4, <1>5
<1>7. Uncounted' = Uncounted \cup {w} /\ w \notin Uncounted /\ IsFiniteSet(Uncounted)
  BY <1>0, <1>1, RecorderAssumption, FS_Subset DEF Uncounted
<1>8. Cardinality(Uncounted) \in Nat /\ Cardinality(Uncounted') = Cardinality(Uncounted) + 1
  BY <1>7, FS_AddElement, FS_CardinalityType
<1>9. inflight' + Cardinality(Uncounted') = h1 + t1
  BY <1>0, <1>4, <1>6, <1>8 DEF RecorderInv, RecorderTypeOK
<1>10. recorded' = queue' + h1 + persisted' + dropped'
  BY <1>0, <1>4, <1>6 DEF RecorderInv, RecorderTypeOK
<1> QED BY <1>0, <1>2, <1>3, <1>4, <1>6, <1>9, <1>10 DEF RecorderInv

\* The event in hand is counted and joins the batch.
LEMMA AppendKeeps == ASSUME RecorderInv, NEW w \in Worker, Append(w) PROVE RecorderInv'
<1>0. /\ RecorderTypeOK /\ RoomLeft /\ LastOnes /\ batch[w] \in Nat /\ batch[w] < BatchSize
      /\ BatchSize \in Nat /\ inflight \in Nat
      /\ pc \in [Worker -> Stage] /\ batch \in [Worker -> 0..BatchSize] /\ pc[w] = "received"
      /\ inflight' = inflight + 1 /\ batch' = [batch EXCEPT ![w] = @ + 1]
      /\ pc' = [pc EXCEPT ![w] = IF batch[w] + 1 >= BatchSize THEN "flush" ELSE "select"]
      /\ UNCHANGED <<queue, closed, dropped, persisted, recorded, closing>>
  BY RecorderAssumption DEF RecorderInv, RecorderTypeOK, Append, Goto, RoomLeft
<1>1. /\ pc' \in [Worker -> Stage] /\ batch' \in [Worker -> 0..BatchSize] /\ batch'[w] = batch[w] + 1
      /\ pc'[w] = IF batch[w] + 1 >= BatchSize THEN "flush" ELSE "select"
      /\ \A v \in Worker : v # w => pc'[v] = pc[v] /\ batch'[v] = batch[v]
  <2>1. batch[w] + 1 \in 0..BatchSize
    BY <1>0
  <2> QED BY <1>0, <2>1 DEF Stage
<1>2. RecorderTypeOK'
  BY <1>0, <1>1 DEF RecorderTypeOK
<1>3. RoomLeft' /\ LastOnes'
  BY <1>0, <1>1 DEF RoomLeft, LastOnes
<1>4. PICK h, h1, t, t1, b, b1 \in Nat :
        /\ h = Total(HeldNow) /\ h1 = Total(HeldNow)' /\ h1 + Held(w) = h + Held(w)'
        /\ t = Total(WrittenNow) /\ t1 = Total(WrittenNow)' /\ t1 + Written(w) = t + Written(w)'
        /\ b = Total(batch) /\ b1 = Total(batch)' /\ b1 + batch[w] = b + batch'[w] /\ batch[w] <= b
  BY <1>1, <1>2, OneWorker
<1>5. Held(w) = batch[w] + 1 /\ Held(w)' = batch[w] + 1 /\ Written(w) = 0 /\ Written(w)' = 0
  BY <1>0, <1>1 DEF Held, Written
<1>6. h1 = h /\ t1 = t /\ b1 = b + 1
  BY <1>0, <1>1, <1>4, <1>5
<1>7. Uncounted' = Uncounted \ {w} /\ w \in Uncounted /\ IsFiniteSet(Uncounted)
  BY <1>0, <1>1, RecorderAssumption, FS_Subset DEF Uncounted
<1>8. Cardinality(Uncounted) \in Nat /\ Cardinality(Uncounted') = Cardinality(Uncounted) - 1
  BY <1>7, FS_RemoveElement, FS_CardinalityType
<1>9. inflight' + Cardinality(Uncounted') = h1 + t1
  BY <1>0, <1>4, <1>6, <1>8 DEF RecorderInv
<1> QED BY <1>0, <1>2, <1>3, <1>4, <1>6, <1>9 DEF RecorderInv

\* The ticker, or the end of the channel, sends the batch to its flush.
LEMMA TurnKeeps == ASSUME RecorderInv, NEW w \in Worker, TickerFlush(w) \/ Drained(w) PROVE RecorderInv'
<1>0. /\ RecorderTypeOK /\ RoomLeft /\ LastOnes /\ batch[w] \in Nat /\ pc \in [Worker -> Stage] /\ pc[w] = "select"
      /\ UNCHANGED <<queue, closed, batch, inflight, dropped, persisted, recorded, closing>>
  BY RecorderAssumption DEF RecorderInv, RecorderTypeOK, TickerFlush, Drained
<1>1. PICK stage \in {"flush", "last", "exited"} :
        /\ pc' = [pc EXCEPT ![w] = stage]
        /\ stage \in {"last", "exited"} => queue = 0 /\ closed
        /\ stage = "exited" => batch[w] = 0
  BY DEF TickerFlush, Drained, Goto
<1>2. pc' \in [Worker -> Stage] /\ pc'[w] = stage /\ \A v \in Worker : v # w => pc'[v] = pc[v]
  BY <1>0, <1>1 DEF Stage
<1>3. RecorderTypeOK'
  BY <1>0, <1>2 DEF RecorderTypeOK
<1>4. RoomLeft' /\ LastOnes'
  BY <1>0, <1>1, <1>2 DEF RoomLeft, LastOnes
<1>5. \A v \in Worker : Held(v)' = Held(v) /\ Written(v)' = Written(v)
  BY <1>0, <1>1, <1>2 DEF Held, Written
<1>6. HeldNow' = HeldNow /\ WrittenNow' = WrittenNow /\ Uncounted' = Uncounted
  BY <1>0, <1>1, <1>2, <1>5 DEF HeldNow, WrittenNow, Uncounted
<1>7. Total(HeldNow)' = Total(HeldNow) /\ Total(WrittenNow)' = Total(WrittenNow) /\ Total(batch)' = Total(batch)
  BY <1>0, <1>6 DEF Total
<1> QED BY <1>0, <1>3, <1>4, <1>6, <1>7 DEF RecorderInv

\* One transaction persists the batch, or all of it counts as dropped.
LEMMA FlushKeeps == ASSUME RecorderInv, NEW w \in Worker, Flush(w) PROVE RecorderInv'
<1>0. /\ RecorderTypeOK /\ RoomLeft /\ LastOnes /\ batch[w] \in Nat /\ pc \in [Worker -> Stage]
      /\ pc[w] \in {"flush", "last"}
      /\ persisted \in Nat /\ dropped \in Nat /\ queue \in Nat /\ inflight \in Nat
      /\ pc' = [pc EXCEPT ![w] = IF pc[w] = "flush" THEN "flushed" ELSE "lastflushed"]
      /\ UNCHANGED <<queue, closed, batch, inflight, recorded, closing>>
  BY RecorderAssumption DEF RecorderInv, RecorderTypeOK, Flush, Goto
<1>1. /\ pc' \in [Worker -> Stage] /\ pc'[w] = IF pc[w] = "flush" THEN "flushed" ELSE "lastflushed"
      /\ \A v \in Worker : v # w => pc'[v] = pc[v]
  BY <1>0 DEF Stage
<1>2. /\ persisted' \in Nat /\ dropped' \in Nat
      /\ persisted' + dropped' = persisted + dropped + batch[w]
  BY <1>0 DEF Flush
<1>3. RecorderTypeOK'
  BY <1>0, <1>1, <1>2 DEF RecorderTypeOK
<1>4. RoomLeft' /\ LastOnes'
  BY <1>0, <1>1 DEF RoomLeft, LastOnes
<1>5. PICK h, h1, t, t1, b, b1 \in Nat :
        /\ h = Total(HeldNow) /\ h1 = Total(HeldNow)' /\ h1 + Held(w) = h + Held(w)'
        /\ t = Total(WrittenNow) /\ t1 = Total(WrittenNow)' /\ t1 + Written(w) = t + Written(w)'
        /\ b = Total(batch) /\ b1 = Total(batch)' /\ b1 + batch[w] = b + batch'[w] /\ batch[w] <= b
  BY <1>0, <1>1, <1>3, OneWorker
<1>6. Held(w) = batch[w] /\ Held(w)' = 0 /\ Written(w) = 0 /\ Written(w)' = batch[w]
  BY <1>0, <1>1 DEF Held, Written
<1>7. h1 + batch[w] = h /\ t1 = t + batch[w] /\ b1 = b
  BY <1>0, <1>5, <1>6
<1>8. Uncounted' = Uncounted
  BY <1>0, <1>1 DEF Uncounted
<1>9. inflight' + Cardinality(Uncounted') = h1 + t1
  BY <1>0, <1>5, <1>7, <1>8 DEF RecorderInv
<1>10. recorded' = queue' + h1 + persisted' + dropped'
  <2>1. recorded = queue + h + persisted + dropped
    BY <1>5 DEF RecorderInv
  <2>2. PICK q \in Nat, p \in Nat, d \in Nat, p1 \in Nat, d1 \in Nat, n \in Nat :
          /\ q = queue /\ p = persisted /\ d = dropped
          /\ p1 = persisted' /\ d1 = dropped' /\ n = batch[w]
    BY <1>0, <1>2
  <2>3. p1 + d1 = p + d + n /\ h1 + n = h
    BY <1>2, <1>7, <2>2
  <2>4. q + h + p + d = q + h1 + p1 + d1
    BY <2>3
  <2> QED BY <1>0, <2>1, <2>2, <2>4
<1> QED BY <1>0, <1>3, <1>4, <1>5, <1>7, <1>9, <1>10 DEF RecorderInv

\* The flushed batch is no longer counted as in flight.
LEMMA UncountKeeps == ASSUME RecorderInv, NEW w \in Worker, Uncount(w) PROVE RecorderInv'
<1>0. /\ RecorderTypeOK /\ RoomLeft /\ LastOnes /\ batch[w] \in Nat /\ BatchSize \in Nat \ {0} /\ inflight \in Nat
      /\ pc \in [Worker -> Stage] /\ batch \in [Worker -> 0..BatchSize]
      /\ pc[w] \in {"flushed", "lastflushed"}
      /\ inflight' = inflight - batch[w] /\ batch' = [batch EXCEPT ![w] = 0]
      /\ pc' = [pc EXCEPT ![w] = IF pc[w] = "flushed" THEN "select" ELSE "exited"]
      /\ UNCHANGED <<queue, closed, dropped, persisted, recorded, closing>>
  BY RecorderAssumption DEF RecorderInv, RecorderTypeOK, Uncount, Goto
<1>1. /\ pc' \in [Worker -> Stage] /\ batch' \in [Worker -> 0..BatchSize] /\ batch'[w] = 0
      /\ pc'[w] = IF pc[w] = "flushed" THEN "select" ELSE "exited"
      /\ \A v \in Worker : v # w => pc'[v] = pc[v] /\ batch'[v] = batch[v]
  <2>1. 0 \in 0..BatchSize
    BY <1>0
  <2> QED BY <1>0, <2>1 DEF Stage
<1>2. inflight' \in Nat
  <2>1. batch[w] <= Total(batch)
    BY <1>0, SummandsTyped, TotalChanges
  <2> QED BY <1>0, <2>1 DEF RecorderInv
<1>3. RecorderTypeOK'
  BY <1>0, <1>1, <1>2 DEF RecorderTypeOK
<1>4. RoomLeft' /\ LastOnes'
  BY <1>0, <1>1 DEF RoomLeft, LastOnes
<1>5. PICK h, h1, t, t1, b, b1 \in Nat :
        /\ h = Total(HeldNow) /\ h1 = Total(HeldNow)' /\ h1 + Held(w) = h + Held(w)'
        /\ t = Total(WrittenNow) /\ t1 = Total(WrittenNow)' /\ t1 + Written(w) = t + Written(w)'
        /\ b = Total(batch) /\ b1 = Total(batch)' /\ b1 + batch[w] = b + batch'[w] /\ batch[w] <= b
  BY <1>1, <1>3, OneWorker
<1>6. Held(w) = 0 /\ Held(w)' = 0 /\ Written(w) = batch[w] /\ Written(w)' = 0
  BY <1>0, <1>1 DEF Held, Written
<1>7. h1 = h /\ t1 + batch[w] = t /\ b1 + batch[w] = b
  BY <1>0, <1>1, <1>5, <1>6
<1>8. Uncounted' = Uncounted
  BY <1>0, <1>1 DEF Uncounted
<1>9. inflight' + Cardinality(Uncounted') = h1 + t1
  <2>1. Cardinality(Uncounted) \in Nat
    BY RecorderAssumption, FS_Subset, FS_CardinalityType DEF Uncounted
  <2> QED BY <1>0, <1>5, <1>7, <1>8, <2>1 DEF RecorderInv
<1> QED BY <1>0, <1>3, <1>4, <1>5, <1>7, <1>9 DEF RecorderInv

-----------------------------------------------------------------------------
(* The theorems.                                                           *)

\* Every step of a worker, of Record and of Close keeps the books.
LEMMA RecorderInvHolds == RecorderSpec => []RecorderInv
<1>1. RecorderInv /\ [RecorderNext]_recorderVars => RecorderInv'
  BY OutsideKeeps, ReceiveKeeps, AppendKeeps, TurnKeeps, FlushKeeps, UncountKeeps
     DEF RecorderNext, WorkerStep
<1> QED BY InitOK, <1>1, PTL DEF RecorderSpec

\* No event is lost or counted twice, whatever the sizes and the interleaving.
THEOREM AccountedTheorem == RecorderSpec => []EveryEventAccounted
<1>1. RecorderInv => EveryEventAccounted
  <2> SUFFICES ASSUME RecorderInv PROVE EveryEventAccounted
    OBVIOUS
  <2>1. Pending = queue + Total(HeldNow)
    BY DEF Pending, HeldNow
  <2> QED BY <2>1 DEF RecorderInv, EveryEventAccounted
<1> QED BY <1>1, RecorderInvHolds, PTL

\* Unflushed never lies to an operator, and is zero after a clean Close.
THEOREM UnflushedTheorem == RecorderSpec => []UnflushedIsTrue
<1>1. RecorderInv => UnflushedIsTrue
  <2> SUFFICES ASSUME RecorderInv PROVE UnflushedIsTrue
    OBVIOUS
  <2>0. RecorderTypeOK /\ queue \in Nat /\ inflight \in Nat
    BY RecorderAssumption DEF RecorderInv, RecorderTypeOK
  <2>1. Pending = queue + Total(HeldNow)
    BY DEF Pending, HeldNow
  <2>2. Total(HeldNow) \in Nat /\ Total(WrittenNow) \in Nat /\ Cardinality(Uncounted) \in Nat
    <3>1. PICK w : w \in Worker
      BY RecorderAssumption
    <3>2. Cardinality(Uncounted) \in Nat
      BY RecorderAssumption, FS_Subset, FS_CardinalityType DEF Uncounted
    <3> QED BY <2>0, <3>1, <3>2, SummandsTyped, TotalChanges
  <2>3. Unflushed + Cardinality(Uncounted) = Pending + Total(WrittenNow)
    BY <2>0, <2>1, <2>2 DEF RecorderInv, Unflushed
  <2>4. ASSUME closing = "clean" PROVE Unflushed = 0 /\ Pending = 0
    <3>1. \A w \in Worker : pc[w] = "exited" /\ batch[w] = 0 /\ queue = 0
      BY <2>4 DEF RecorderInv, LastOnes
    <3>2. queue = 0
      BY <3>1, RecorderAssumption
    <3>3. \A w \in Worker : HeldNow[w] = 0
      BY <3>1 DEF HeldNow, Held
    <3>4. Total(HeldNow) = 0 /\ Total(batch) = 0
      BY <2>0, <3>1, <3>3, SummandsTyped, TotalZero
    <3> QED BY <2>1, <3>2, <3>4 DEF RecorderInv, Unflushed
  <2> QED BY <2>0, <2>3, <2>4 DEF UnflushedIsTrue, Uncounted, WrittenNow
<1> QED BY <1>1, RecorderInvHolds, PTL

-----------------------------------------------------------------------------
(* Rollups and retention.                                                  *)

Dims == Breakdowns \cup {DimTotal}

Keys(evs) == {Key(e, dim) : e \in evs, dim \in Dims}

Of(evs, k) == {e \in evs : Key(e, k[3]) = k}

\* Scans are numbered, so that no batch is counted twice.
ScansTyped ==
    /\ clock \in Nat
    /\ IsFiniteSet(buffer) /\ IsFiniteSet(history)
    /\ buffer \cap history = {}
    /\ \A e \in buffer \cup history : e.at \in Nat /\ e.n \in Nat /\ e.n < Scanned

\* A run never prunes past the cutoff of its start, which the clock only
\* leaves further behind.
PruneInv ==
    /\ prune \in [on : BOOLEAN, before : Int, fails : Nat]
    /\ prune.on => prune.before <= Cutoff

StatsInv == ScansTyped /\ PruneInv /\ WindowKept /\ RollupsCountHistory

\* The window in ticks.
LEMMA WindowIsNumber == RetentionDays * DayHours * HourTicks \in Nat
<1>1. RetentionDays \in Nat /\ DayHours \in Nat /\ HourTicks \in Nat
  BY AnalyticsAssumption
<1>2. RetentionDays * DayHours \in Nat
  BY <1>1
<1> QED BY <1>1, <1>2

\* The cutoff is an instant, and moves with the clock.
LEMMA CutoffMoves ==
    ASSUME clock \in Nat, clock' \in Nat, clock' >= clock
    PROVE  Cutoff \in Int /\ Cutoff' \in Int /\ Cutoff <= Cutoff'
<1>1. PICK w \in Nat : w = RetentionDays * DayHours * HourTicks
  BY WindowIsNumber
<1>2. Cutoff = clock - w /\ Cutoff' = clock' - w
  BY <1>1 DEF Cutoff
<1> QED BY <1>1, <1>2

\* The dimension of a rollup row is its third column.
LEMMA KeyHasDim == \A e, dim : Key(e, dim)[3] = dim
BY DEF Key

\* The rows a batch adds to are those of its scans, each by their number.
LEMMA DeltasCount ==
    ASSUME NEW evs
    PROVE  /\ DOMAIN BuildRollups(evs) = Keys(evs)
           /\ \A k \in Keys(evs) : BuildRollups(evs)[k] = Cardinality(Of(evs, k))
<1>1. BuildRollups(evs) = [k \in Keys(evs) |-> Cardinality(Of(evs, k))]
  BY DEF BuildRollups, Keys, Of, Dims
<1> QED BY <1>1

\* A row that no scan of the set belongs to counts none of them.
LEMMA NoneElsewhere ==
    ASSUME NEW evs, NEW other, NEW k \in Keys(other), k \notin Keys(evs)
    PROVE  Of(evs, k) = {}
<1>1. PICK e \in other, dim \in Dims : k = Key(e, dim)
  BY DEF Keys
<1>2. k[3] = dim
  BY <1>1, KeyHasDim
<1>3. ASSUME NEW x \in evs, Key(x, k[3]) = k PROVE FALSE
  <2>1. k = Key(x, dim)
    BY <1>2, <1>3
  <2> QED BY <2>1 DEF Keys
<1> QED BY <1>3 DEF Of

\* Upserting a batch adds its scans to the history of every row.
LEMMA UpsertCounts ==
    ASSUME NEW H, NEW B, IsFiniteSet(H), IsFiniteSet(B), H \cap B = {},
           NEW r, DOMAIN r = Keys(H), \A k \in Keys(H) : r[k] = Cardinality(Of(H, k))
    PROVE  LET u == Upsert(r, BuildRollups(B))
           IN  /\ DOMAIN u = Keys(H \cup B)
               /\ \A k \in DOMAIN u : u[k] = Cardinality(Of(H \cup B, k))
<1> DEFINE d == BuildRollups(B)
           u == Upsert(r, d)
<1>1. DOMAIN d = Keys(B) /\ \A k \in Keys(B) : d[k] = Cardinality(Of(B, k))
  BY DeltasCount
<1> HIDE DEF d
<1>2. u = [k \in Keys(H) \cup Keys(B) |-> Count(r, k) + Count(d, k)]
  BY Zenon, <1>1 DEF Upsert
<1>3. Keys(H \cup B) = Keys(H) \cup Keys(B)
  BY DEF Keys
<1>4. ASSUME NEW k \in Keys(H) \cup Keys(B)
      PROVE  Count(r, k) + Count(d, k) = Cardinality(Of(H \cup B, k))
  <2>1. Count(r, k) = Cardinality(Of(H, k))
    <3>1. CASE k \in Keys(H)
      BY <3>1 DEF Count
    <3>2. CASE k \notin Keys(H)
      <4>1. Of(H, k) = {}
        BY <1>4, <3>2, NoneElsewhere
      <4> QED BY <3>2, <4>1, FS_EmptySet DEF Count
    <3> QED BY <3>1, <3>2
  <2>2. Count(d, k) = Cardinality(Of(B, k))
    <3>1. CASE k \in Keys(B)
      BY <1>1, <3>1 DEF Count
    <3>2. CASE k \notin Keys(B)
      <4>1. Of(B, k) = {}
        BY <1>4, <3>2, NoneElsewhere
      <4> QED BY <1>1, <3>2, <4>1, FS_EmptySet DEF Count
    <3> QED BY <3>1, <3>2
  <2>3. /\ Of(H \cup B, k) = Of(H, k) \cup Of(B, k)
        /\ Of(H, k) \cap Of(B, k) = {}
        /\ Of(H, k) \in SUBSET H /\ Of(B, k) \in SUBSET B
    BY DEF Of
  <2>4. IsFiniteSet(Of(H, k)) /\ IsFiniteSet(Of(B, k))
    BY <2>3, FS_Subset
  <2>5. /\ Cardinality(Of(H, k)) \in Nat /\ Cardinality(Of(B, k)) \in Nat
        /\ Cardinality(Of(H, k) \cup Of(B, k))
             = Cardinality(Of(H, k)) + Cardinality(Of(B, k)) - Cardinality(Of(H, k) \cap Of(B, k))
    BY <2>4, FS_Union, FS_CardinalityType
  <2>6. Cardinality(Of(H, k) \cap Of(B, k)) = 0
    BY <2>3, FS_EmptySet
  <2>7. Cardinality(Of(H \cup B, k)) = Cardinality(Of(H, k) \cup Of(B, k))
    BY Zenon, <2>3
  <2> QED BY <2>1, <2>2, <2>5, <2>6, <2>7
<1> HIDE DEF u
<1>5. DOMAIN u = Keys(H \cup B)
  BY <1>2, <1>3
<1>6. \A k \in DOMAIN u : u[k] = Cardinality(Of(H \cup B, k))
  BY <1>2, <1>3, <1>4, <1>5
<1> QED BY <1>5, <1>6 DEF u, d

\* The property in the lemmas' words.
LEMMA RollupsRestated ==
    RollupsCountHistory <=> /\ DOMAIN rollups = Keys(history)
                            /\ \A k \in Keys(history) : rollups[k] = Cardinality(Of(history, k))
BY DEF RollupsCountHistory, Keys, Of, Dims

-----------------------------------------------------------------------------
(* Each step keeps the invariant.                                          *)

\* Nothing has been scanned.
LEMMA StatsInitially == StatsInit => StatsInv
<1> SUFFICES ASSUME StatsInit PROVE StatsInv
  OBVIOUS
<1>1. /\ clock = 0 /\ buffer = {} /\ events = {} /\ history = {} /\ DOMAIN rollups = {}
      /\ prune = [on |-> FALSE, before |-> 0, fails |-> 0]
  BY DEF StatsInit
<1>2. ScansTyped
  BY <1>1, FS_EmptySet DEF ScansTyped
<1>3. PruneInv
  BY <1>1 DEF PruneInv
<1>4. WindowKept
  BY <1>1 DEF WindowKept
<1>5. RollupsCountHistory
  BY <1>1 DEF RollupsCountHistory
<1> QED BY <1>2, <1>3, <1>4, <1>5 DEF StatsInv

\* Time passes: the window only shrinks from below.
LEMMA TickKeeps == ASSUME StatsInv, Tick PROVE StatsInv'
<1>1. /\ clock \in Nat /\ clock' = clock + 1 /\ buffer' = buffer /\ events' = events
      /\ rollups' = rollups /\ history' = history /\ prune' = prune
  BY DEF Tick, StatsInv, ScansTyped
<1>2. Cutoff \in Int /\ Cutoff' \in Int /\ Cutoff <= Cutoff'
  BY <1>1, CutoffMoves
<1>3. ScansTyped'
  BY <1>1 DEF StatsInv, ScansTyped, Scanned
<1> HIDE DEF Cutoff
<1>4. PruneInv'
  BY <1>1, <1>2 DEF StatsInv, PruneInv
<1>5. \A e \in history : e.at \in Nat
  BY DEF StatsInv, ScansTyped
<1>6. WindowKept'
  BY <1>1, <1>2, <1>5 DEF StatsInv, WindowKept
<1>7. RollupsCountHistory'
  BY <1>1 DEF StatsInv, RollupsCountHistory
<1> QED BY <1>3, <1>4, <1>6, <1>7 DEF StatsInv

\* A scan joins the buffer under a number of its own.
LEMMA RecordKeeps ==
    ASSUME StatsInv, NEW c, NEW ua, NEW h, record(c, ua, h)
    PROVE  StatsInv'
<1>1. PICK e : /\ e = [n |-> Scanned, code |-> c, at |-> clock, visit |-> Classify(ua), host |-> h]
               /\ buffer' = buffer \cup {e}
  BY Zenon DEF record
<1>2. /\ clock' = clock /\ events' = events /\ rollups' = rollups /\ history' = history
      /\ prune' = prune
  BY DEF record
<1>3. e.n = Scanned /\ e.at = clock
  BY <1>1
<1>4. /\ clock \in Nat /\ IsFiniteSet(buffer) /\ IsFiniteSet(history) /\ buffer \cap history = {}
      /\ \A x \in buffer \cup history : x.at \in Nat /\ x.n \in Nat /\ x.n < Scanned
  BY DEF StatsInv, ScansTyped
<1>5. Cardinality(buffer) \in Nat /\ Cardinality(history) \in Nat
  BY <1>4, FS_CardinalityType
<1>6. Scanned \in Nat
  BY <1>5 DEF Scanned
<1>7. e \notin buffer \cup history
  BY <1>3, <1>4, <1>6
<1>8. IsFiniteSet(buffer') /\ Cardinality(buffer') = Cardinality(buffer) + 1
  BY <1>1, <1>4, <1>7, FS_AddElement
<1>9. Scanned' = Scanned + 1
  BY <1>2, <1>5, <1>8 DEF Scanned
<1>10. ScansTyped'
  <2>1. buffer' \cap history' = {}
    BY <1>1, <1>2, <1>4, <1>7
  <2>2. \A x \in buffer' \cup history' : x.at \in Nat /\ x.n \in Nat /\ x.n < Scanned'
    BY <1>1, <1>2, <1>3, <1>4, <1>6, <1>9
  <2> QED BY <1>2, <1>4, <1>8, <2>1, <2>2 DEF ScansTyped
<1>11. PruneInv' /\ WindowKept' /\ RollupsCountHistory'
  BY <1>2 DEF StatsInv, PruneInv, WindowKept, Cutoff, RollupsCountHistory
<1> QED BY <1>10, <1>11 DEF StatsInv

\* A batch is committed: its scans leave the buffer for good.
LEMMA InsertKeeps ==
    ASSUME StatsInv, NEW evs \in SUBSET buffer, InsertScanBatch(evs)
    PROVE  StatsInv'
<1>1. /\ events' = events \cup evs /\ history' = history \cup evs
      /\ buffer' = buffer \ evs /\ clock' = clock /\ prune' = prune
      /\ rollups' = Upsert(rollups, BuildRollups(evs))
  BY DEF InsertScanBatch
<1>2. /\ clock \in Nat /\ IsFiniteSet(buffer) /\ IsFiniteSet(history) /\ buffer \cap history = {}
      /\ \A x \in buffer \cup history : x.at \in Nat /\ x.n \in Nat /\ x.n < Scanned
  BY DEF StatsInv, ScansTyped
<1>3. IsFiniteSet(evs) /\ history \cap evs = {} /\ buffer \cap evs = evs
  BY <1>2, FS_Subset
<1>4. /\ Cardinality(buffer) \in Nat /\ Cardinality(history) \in Nat /\ Cardinality(evs) \in Nat
      /\ Cardinality({}) = 0
  BY <1>2, <1>3, FS_CardinalityType, FS_EmptySet
<1>5. /\ IsFiniteSet(buffer') /\ IsFiniteSet(history')
      /\ Cardinality(buffer') = Cardinality(buffer) - Cardinality(evs)
      /\ Cardinality(history') = Cardinality(history) + Cardinality(evs)
  <2>1. IsFiniteSet(buffer \ evs) /\ Cardinality(buffer \ evs) = Cardinality(buffer) - Cardinality(evs)
    BY <1>2, <1>3, FS_Difference
  <2>2. /\ IsFiniteSet(history \cup evs)
        /\ Cardinality(history \cup evs) = Cardinality(history) + Cardinality(evs) - Cardinality({})
    BY <1>2, <1>3, FS_Union
  <2> QED BY <1>1, <1>4, <2>1, <2>2
<1>6. Scanned' = Scanned
  BY <1>4, <1>5 DEF Scanned
<1>7. ScansTyped'
  <2>1. buffer' \cup history' \subseteq buffer \cup history /\ buffer' \cap history' = {}
    BY <1>1, <1>2
  <2> QED BY <1>1, <1>2, <1>5, <1>6, <2>1 DEF ScansTyped
<1>8. WindowKept'
  BY <1>1 DEF StatsInv, WindowKept, Cutoff
<1>9. PruneInv'
  BY <1>1 DEF StatsInv, PruneInv, Cutoff
<1>10. RollupsCountHistory'
  <2>1. DOMAIN rollups = Keys(history) /\ \A k \in Keys(history) : rollups[k] = Cardinality(Of(history, k))
    BY RollupsRestated DEF StatsInv
  <2>2. PICK u : u = Upsert(rollups, BuildRollups(evs))
    OBVIOUS
  <2>3. /\ DOMAIN u = Keys(history \cup evs)
        /\ \A k \in DOMAIN u : u[k] = Cardinality(Of(history \cup evs, k))
    BY <1>2, <1>3, <2>1, <2>2, UpsertCounts
  <2>4. PICK H : H = history \cup evs
    OBVIOUS
  <2>5. rollups' = u /\ history' = H
    BY <1>1, <2>2, <2>4
  <2>6. /\ DOMAIN rollups' = Keys(H)
        /\ \A k \in DOMAIN rollups' : rollups'[k] = Cardinality(Of(H, k))
    BY <2>3, <2>4, <2>5
  <2> QED BY <2>5, <2>6 DEF RollupsCountHistory, Keys, Of, Dims
<1> QED BY <1>7, <1>8, <1>9, <1>10 DEF StatsInv

\* Steps of the retention job that leave the tables alone.
LEMMA JobKeeps ==
    ASSUME StatsInv, UNCHANGED <<clock, buffer, events, rollups, history>>, PruneInv'
    PROVE  StatsInv'
BY DEF StatsInv, ScansTyped, Scanned, WindowKept, Cutoff, RollupsCountHistory

\* A batch is pruned: only of events before the cutoff of the run.
LEMMA PruneKeeps == ASSUME StatsInv, PruneScanEvents PROVE StatsInv'
<1>1. /\ prune.on /\ clock' = clock /\ buffer' = buffer /\ rollups' = rollups
      /\ history' = history /\ prune' = prune
      /\ events' = events \ Oldest(Old(events, prune.before), PruneBatch)
  BY DEF PruneScanEvents
<1>2. \A e \in Oldest(Old(events, prune.before), PruneBatch) : e.at < prune.before
  BY DEF Oldest, Old
<1>3. prune.before \in Int /\ prune.before <= Cutoff
  BY <1>1 DEF StatsInv, PruneInv
<1>4. Cutoff \in Int /\ Cutoff' = Cutoff
  BY <1>1, CutoffMoves DEF StatsInv, ScansTyped, Cutoff
<1>5. \A e \in history : e.at \in Nat
  BY DEF StatsInv, ScansTyped
<1>6. ASSUME NEW e \in history, e.at >= Cutoff
      PROVE  e \in events /\ e \notin Oldest(Old(events, prune.before), PruneBatch)
  <2>1. e \in events
    BY <1>6 DEF StatsInv, WindowKept
  <2>2. ~(e.at < prune.before)
    BY <1>3, <1>4, <1>5, <1>6
  <2> QED BY <1>2, <2>1, <2>2
<1>7. WindowKept'
  BY <1>1, <1>4, <1>6 DEF WindowKept
<1>8. ScansTyped' /\ PruneInv' /\ RollupsCountHistory'
  BY <1>1 DEF StatsInv, ScansTyped, Scanned, PruneInv, Cutoff, RollupsCountHistory
<1> QED BY <1>7, <1>8 DEF StatsInv

\* The invariant holds throughout.
LEMMA StatsInvariant == AnalyticsSpec => []StatsInv
<1>1. StatsInv /\ [AnalyticsNext]_vars => StatsInv'
  <2> SUFFICES ASSUME StatsInv, [AnalyticsNext]_vars PROVE StatsInv'
    OBVIOUS
  <2>1. prune \in [on : BOOLEAN, before : Int, fails : Nat] /\ clock \in Nat
    BY DEF StatsInv, PruneInv, ScansTyped
  <2>2. CASE Tick
    BY <2>2, TickKeeps
  <2>3. CASE \E c \in Codes, ua \in Agents, h \in Hosts : record(c, ua, h)
    BY <2>3, RecordKeeps
  <2>4. CASE \E evs \in SUBSET buffer : InsertScanBatch(evs)
    BY <2>4, InsertKeeps
  <2>5. CASE RunOnceStart
    <3>1. /\ prune' = [prune EXCEPT !.on = TRUE, !.before = Cutoff]
          /\ UNCHANGED <<clock, buffer, events, rollups, history>>
      BY <2>5 DEF RunOnceStart
    <3>2. Cutoff \in Int /\ Cutoff' = Cutoff
      BY <2>1, <3>1, CutoffMoves DEF Cutoff
    <3>3. PruneInv'
      <4> HIDE DEF Cutoff
      <4>1. PICK x \in Int : x = Cutoff
        BY <3>2
      <4>2. prune' = [prune EXCEPT !.on = TRUE, !.before = x]
        BY <3>1, <4>1
      <4>3. prune' \in [on : BOOLEAN, before : Int, fails : Nat] /\ prune'.before = x
        BY <2>1, <4>2
      <4>4. x <= Cutoff'
        BY <3>2, <4>1
      <4> QED BY <4>3, <4>4 DEF PruneInv
    <3> QED BY <3>1, <3>3, JobKeeps
  <2>6. CASE PruneScanEvents
    BY <2>6, PruneKeeps
  <2>7. CASE RunOnceDone
    <3>1. PruneInv'
      BY <2>1, <2>7 DEF RunOnceDone, PruneInv
    <3> QED BY <2>7, <3>1, JobKeeps DEF RunOnceDone
  <2>8. CASE RunOnceFails
    <3>1. PruneInv'
      <4>1. prune' = [prune EXCEPT !.on = FALSE, !.fails = prune.fails + 1]
        BY <2>8 DEF RunOnceFails
      <4>2. prune.fails + 1 \in Nat
        BY <2>1
      <4>3. prune' \in [on : BOOLEAN, before : Int, fails : Nat] /\ prune'.on = FALSE
        BY <2>1, <4>1, <4>2
      <4> QED BY <4>3 DEF PruneInv
    <3> QED BY <2>8, <3>1, JobKeeps DEF RunOnceFails
  <2>9. CASE UNCHANGED vars
    <3>1. prune' = prune /\ UNCHANGED <<clock, buffer, events, rollups, history>>
      BY <2>9 DEF vars
    <3>2. PruneInv'
      BY <3>1 DEF StatsInv, PruneInv, Cutoff
    <3> QED BY <3>1, <3>2, JobKeeps
  <2> QED BY <2>2, <2>3, <2>4, <2>5, <2>6, <2>7, <2>8, <2>9 DEF AnalyticsNext
<1> QED BY <1>1, StatsInitially, PTL DEF AnalyticsSpec

\* For every retention window, batch size and order of inserts, prunes and
\* failed runs: no raw event of the window is deleted (RunOnce,
\* PruneScanEvents).
THEOREM WindowTheorem == AnalyticsSpec => []WindowKept
<1>1. StatsInv => WindowKept
  BY DEF StatsInv
<1> QED BY <1>1, StatsInvariant, PTL

\* For every way of cutting the scans into batches: each rollup row counts
\* every scan committed for it, pruned or not (InsertScanBatch, BuildRollups).
THEOREM RollupTheorem == AnalyticsSpec => []RollupsCountHistory
<1>1. StatsInv => RollupsCountHistory
  BY DEF StatsInv
<1> QED BY <1>1, StatsInvariant, PTL

-----------------------------------------------------------------------------
(* Sums.                                                                   *)

\* A number of disjoint sets hold as many elements as the sum of their sizes.
LEMMA SumOfSizes ==
    ASSUME NEW K, NEW n, NEW S,
           \A k \in K : IsFiniteSet(S[k]) /\ n[k] = Cardinality(S[k]),
           \A k, m \in K : \A x \in S[k] \cap S[m] : k = m,
           IsFiniteSet(UNION {S[k] : k \in K})
    PROVE  SumOver(n, K) = Cardinality(UNION {S[k] : k \in K})
<1> DEFINE U == UNION {S[k] : k \in K}
           C == UNION {{k} \X (1..n[k]) : k \in K}
           F == [k \in K |-> CHOOSE f : f \in Bijection(1..n[k], S[k])]
           G == [p \in C |-> F[p[1]][p[2]]]
<1>1. ASSUME NEW k \in K PROVE F[k] \in Bijection(1..n[k], S[k])
  <2>1. Bijection(1..n[k], S[k]) # {}
    BY <1>1, FS_CardinalityType, Fun_ExistsBij
  <2> QED BY <2>1
<1>2. ASSUME NEW p \in C PROVE p[1] \in K /\ p[2] \in 1..n[p[1]] /\ p = <<p[1], p[2]>>
  BY <1>2
<1>3. ASSUME NEW p \in C PROVE G[p] \in S[p[1]] /\ G[p] \in U
  <2>1. F[p[1]] \in [1..n[p[1]] -> S[p[1]]]
    BY <1>1, <1>2 DEF Bijection, Injection
  <2> QED BY <1>2, <1>3, <2>1
<1>4. ASSUME NEW p \in C, NEW q \in C, G[p] = G[q] PROVE p = q
  <2>1. p[1] = q[1]
    BY <1>2, <1>3, <1>4
  <2>2. p[2] = q[2]
    <3>1. F[p[1]] \in Injection(1..n[p[1]], S[p[1]])
      BY <1>1, <1>2 DEF Bijection
    <3>2. F[p[1]][p[2]] = F[p[1]][q[2]]
      BY <1>4, <2>1
    <3> HIDE DEF F
    <3> QED BY <1>2, <2>1, <3>1, <3>2 DEF Injection, IsInjective
  <2> QED BY <1>2, <2>1, <2>2
<1>5. ASSUME NEW x \in U PROVE \E p \in C : G[p] = x
  <2>1. PICK k \in K : x \in S[k]
    OBVIOUS
  <2>2. F[k] \in Surjection(1..n[k], S[k])
    BY <1>1, <2>1 DEF Bijection
  <2>3. PICK i \in 1..n[k] : F[k][i] = x
    <3> HIDE DEF F
    <3> QED BY <2>1, <2>2 DEF Surjection
  <2>4. <<k, i>> \in C
    BY <2>1, <2>3
  <2>5. G[<<k, i>>] = F[k][i]
    BY <2>4
  <2> QED BY <2>3, <2>4, <2>5
<1>6. G \in Bijection(C, U)
  <2>1. G \in [C -> U]
    BY <1>3
  <2>2. G \in Injection(C, U)
    <3> HIDE DEF G, C, U
    <3> QED BY <1>4, <2>1 DEF Injection, IsInjective
  <2>3. G \in Surjection(C, U)
    <3> HIDE DEF G, C, U
    <3> QED BY <1>5, <2>1 DEF Surjection
  <2> QED BY <2>2, <2>3 DEF Bijection
<1>7. ExistsBijection(C, U)
  <2> HIDE DEF G, C, U
  <2> QED BY <1>6, Fun_ExistsBij
<1>8. ExistsBijection(U, C)
  <2> HIDE DEF G, C, U
  <2> QED BY <1>7, Fun_ExistsBijSymmetric
<1>9. Cardinality(C) = Cardinality(U)
  <2>1. IsFiniteSet(U)
    OBVIOUS
  <2> HIDE DEF G, C, U
  <2> QED BY <1>8, <2>1, FS_Bijection
<1> QED BY <1>9 DEF SumOver

\* Sorting a set by g and counting each kind counts the whole.
LEMMA KindsAddUp ==
    ASSUME NEW T, IsFiniteSet(T), NEW g, NEW f,
           DOMAIN f = {g[e] : e \in T},
           \A v \in DOMAIN f : f[v] = Cardinality({e \in T : g[e] = v})
    PROVE  SumOf(f) = Cardinality(T)
<1> DEFINE K == DOMAIN f
           S == [v \in K |-> {e \in T : g[e] = v}]
<1>1. ASSUME NEW v \in K PROVE IsFiniteSet(S[v]) /\ f[v] = Cardinality(S[v])
  <2>1. S[v] \in SUBSET T
    OBVIOUS
  <2> QED BY <2>1, FS_Subset
<1>2. ASSUME NEW v \in K, NEW w \in K, NEW x \in S[v] \cap S[w] PROVE v = w
  BY <1>2
<1>3. UNION {S[v] : v \in K} = T
  <2>1. ASSUME NEW e \in T PROVE e \in UNION {S[v] : v \in K}
    <3>1. g[e] \in K /\ e \in S[g[e]]
      OBVIOUS
    <3> QED BY <3>1
  <2> QED BY <2>1
<1> HIDE DEF K, S
<1> QED BY <1>1, <1>2, <1>3, SumOfSizes DEF SumOf, K

-----------------------------------------------------------------------------
(* What the analytics endpoint answers.                                    *)

\* The parts of a rollup key.
LEMMA KeyParts ==
    ASSUME NEW e, NEW dim
    PROVE  /\ Key(e, dim)[1] = e.code /\ Key(e, dim)[2] = Hour(e.at)
           /\ Key(e, dim)[3] = dim /\ Key(e, dim)[4] = Value(e, dim)
  BY DEF Key

\* A sum over rollup rows of one dimension counts the scans of those rows.
LEMMA SumOfRows ==
    ASSUME StatsInv, NEW dim, NEW R \in SUBSET DOMAIN rollups, \A k \in R : k[3] = dim
    PROVE  SumOver(rollups, R) = Cardinality({e \in history : Key(e, dim) \in R})
<1> DEFINE S == [k \in R |-> Of(history, k)]
           T == {e \in history : Key(e, dim) \in R}
<1>1. IsFiniteSet(T)
  <2>1. IsFiniteSet(history) /\ T \in SUBSET history
    BY DEF StatsInv, ScansTyped
  <2> QED BY <2>1, FS_Subset
<1>2. ASSUME NEW k \in R PROVE IsFiniteSet(S[k]) /\ rollups[k] = Cardinality(S[k])
  <2>1. IsFiniteSet(history) /\ Of(history, k) \in SUBSET history /\ S[k] = Of(history, k)
    BY DEF StatsInv, ScansTyped, Of
  <2>2. rollups[k] = Cardinality(Of(history, k))
    BY DEF StatsInv, RollupsCountHistory, Of
  <2> QED BY <2>1, <2>2, FS_Subset
<1>3. ASSUME NEW k \in R, NEW m \in R, NEW e \in S[k] \cap S[m] PROVE k = m
  BY <1>3 DEF Of
<1>4. UNION {S[k] : k \in R} = T
  <2>1. ASSUME NEW e \in T PROVE e \in UNION {S[k] : k \in R}
    <3>1. Key(e, dim) \in R /\ Key(e, dim)[3] = dim
      OBVIOUS
    <3>2. e \in S[Key(e, dim)]
      BY <3>1 DEF Of
    <3> QED BY <3>1, <3>2
  <2>2. ASSUME NEW k \in R, NEW e \in S[k] PROVE e \in T
    BY <2>2 DEF Of
  <2> QED BY <2>1, <2>2
<1> HIDE DEF S, T
<1>5. SumOver(rollups, R) = Cardinality(T)
  BY <1>1, <1>2, <1>3, <1>4, SumOfSizes
<1> QED BY <1>5 DEF T

\* The scans a query is about.
Asked(q) ==
    {e \in history : /\ e.code = q.code
                     /\ Hour(e.at) * HourTicks >= q.from
                     /\ Hour(e.at) * HourTicks < q.to}

RowsOf(q, dim) == {k \in DOMAIN rollups : InRange(k, q) /\ k[3] = dim}

\* The rollup rows of a dimension that a query reads are those of its scans.
LEMMA RowsOfScans ==
    ASSUME StatsInv, NEW q, NEW dim \in Dims
    PROVE  /\ \A e \in history : e \in Asked(q) <=> Key(e, dim) \in RowsOf(q, dim)
           /\ RowsOf(q, dim) = {Key(e, dim) : e \in Asked(q)}
<1>1. DOMAIN rollups = Keys(history)
  BY DEF StatsInv, RollupsCountHistory, Keys, Dims
<1>2. ASSUME NEW e \in history PROVE e \in Asked(q) <=> Key(e, dim) \in RowsOf(q, dim)
  <2>1. Key(e, dim) \in DOMAIN rollups
    BY <1>1, SMT DEF Keys
  <2>2. InRange(Key(e, dim), q) <=> e \in Asked(q)
    BY KeyParts DEF InRange, Asked
  <2> QED BY <2>1, <2>2, KeyParts DEF RowsOf
<1>3. ASSUME NEW k \in RowsOf(q, dim) PROVE \E e \in Asked(q) : k = Key(e, dim)
  <2>1. PICK e \in history, d \in Dims : k = Key(e, d)
    BY <1>1, <1>3, SMT DEF Keys, RowsOf
  <2>2. d = dim
    BY <2>1, <1>3, KeyParts DEF RowsOf
  <2> QED BY <1>2, <1>3, <2>1, <2>2
<1>4. Asked(q) \subseteq history
  BY DEF Asked
<1> QED BY <1>2, <1>3, <1>4

\* The three parts of an answer count the scans asked for.
LEMMA QueryCounts ==
    ASSUME StatsInv, NEW q
    PROVE  /\ QueryAnalytics(q).total = Cardinality(Asked(q))
           /\ SumOf(QueryAnalytics(q).series) = Cardinality(Asked(q))
           /\ \A dim \in Breakdowns :
                SumOf(QueryAnalytics(q).breakdowns[dim]) = Cardinality(Asked(q))
<1> DEFINE T == Asked(q)
           Starts == {bucketStart(k[2], q.bucket) : k \in RowsOf(q, DimTotal)}
           Of1(s) == {k \in RowsOf(q, DimTotal) : bucketStart(k[2], q.bucket) = s}
           Values(dim) == {k[4] : k \in RowsOf(q, dim)}
           Of2(dim, v) == {k \in RowsOf(q, dim) : k[4] = v}
           series == [s \in Starts |-> SumOver(rollups, Of1(s))]
           breakdown(dim) == [v \in Values(dim) |-> SumOver(rollups, Of2(dim, v))]
<1>1. /\ QueryAnalytics(q).total = SumOver(rollups, RowsOf(q, DimTotal))
      /\ QueryAnalytics(q).series = series
      /\ \A dim \in Breakdowns : QueryAnalytics(q).breakdowns[dim] = breakdown(dim)
  <2> DEFINE rows == {k \in DOMAIN rollups : InRange(k, q)}
  <2>1. ASSUME NEW dim PROVE {k \in rows : k[3] = dim} = RowsOf(q, dim)
    BY DEF RowsOf
  <2>2. {k \in rows : k[3] = DimTotal} = RowsOf(q, DimTotal)
    BY <2>1
  <2>3. ASSUME NEW dim, NEW v
        PROVE  {k \in rows : k[3] = dim /\ k[4] = v} = Of2(dim, v)
    BY DEF RowsOf
  <2>4. /\ QueryAnalytics(q).total = SumOver(rollups, {k \in rows : k[3] = DimTotal})
        /\ QueryAnalytics(q).series =
             [s \in {bucketStart(k[2], q.bucket) : k \in {k \in rows : k[3] = DimTotal}} |->
                SumOver(rollups, {k \in {k \in rows : k[3] = DimTotal} :
                                    bucketStart(k[2], q.bucket) = s})]
        /\ QueryAnalytics(q).breakdowns =
             [dim \in Breakdowns |->
               [v \in {k[4] : k \in {k \in rows : k[3] = dim}} |->
                  SumOver(rollups, {k \in rows : k[3] = dim /\ k[4] = v})]]
    BY Zenon DEF QueryAnalytics
  <2> HIDE DEF rows
  <2>5. ASSUME NEW dim \in Breakdowns PROVE QueryAnalytics(q).breakdowns[dim] = breakdown(dim)
    <3>1. QueryAnalytics(q).breakdowns[dim] =
             [v \in {k[4] : k \in {k \in rows : k[3] = dim}} |->
                  SumOver(rollups, {k \in rows : k[3] = dim /\ k[4] = v})]
      BY <2>4, <2>5, Zenon
    <3> QED BY <3>1, <2>1, <2>3, Zenon
  <2> QED BY <2>2, <2>4, <2>5, Zenon
<1>2. IsFiniteSet(T)
  <2>1. IsFiniteSet(history) /\ T \in SUBSET history
    BY DEF StatsInv, ScansTyped, Asked
  <2> QED BY <2>1, FS_Subset
<1>3. DimTotal \in Dims /\ Breakdowns \subseteq Dims
  BY DEF Dims
<1>4. ASSUME NEW dim \in Dims, NEW R \in SUBSET RowsOf(q, dim)
      PROVE  SumOver(rollups, R) = Cardinality({e \in T : Key(e, dim) \in R})
  <2>1. R \in SUBSET DOMAIN rollups /\ \A k \in R : k[3] = dim
    BY DEF RowsOf
  <2>2. SumOver(rollups, R) = Cardinality({e \in history : Key(e, dim) \in R})
    BY <2>1, SumOfRows
  <2>3. {e \in history : Key(e, dim) \in R} = {e \in T : Key(e, dim) \in R}
    BY RowsOfScans DEF Asked
  <2> QED BY <2>2, <2>3
<1>5. SumOver(rollups, RowsOf(q, DimTotal)) = Cardinality(T)
  <2>1. {e \in T : Key(e, DimTotal) \in RowsOf(q, DimTotal)} = T
    BY <1>3, RowsOfScans DEF Asked
  <2> QED BY <1>3, <1>4, <2>1
<1>6. SumOf(series) = Cardinality(T)
  <2> DEFINE g == [e \in T |-> bucketStart(Hour(e.at), q.bucket)]
  <2>1. Starts = {g[e] : e \in T}
    BY <1>3, RowsOfScans, KeyParts
  <2>2. ASSUME NEW s \in Starts PROVE series[s] = Cardinality({e \in T : g[e] = s})
    <3>1. {e \in T : Key(e, DimTotal) \in Of1(s)} = {e \in T : g[e] = s}
      BY <1>3, RowsOfScans, KeyParts DEF Asked
    <3>2. Of1(s) \in SUBSET RowsOf(q, DimTotal) /\ series[s] = SumOver(rollups, Of1(s))
      BY <2>2
    <3> QED BY <1>3, <1>4, <3>1, <3>2
  <2>3. DOMAIN series = Starts
    OBVIOUS
  <2> HIDE DEF series, g, T, Starts
  <2> QED BY <1>2, <2>1, <2>2, <2>3, KindsAddUp
<1>7. ASSUME NEW dim \in Breakdowns PROVE SumOf(breakdown(dim)) = Cardinality(T)
  <2> DEFINE g == [e \in T |-> Value(e, dim)]
             f == breakdown(dim)
  <2>0. dim \in Dims
    BY <1>3, <1>7
  <2>1. Values(dim) = {g[e] : e \in T}
    BY <2>0, RowsOfScans, KeyParts
  <2>2. ASSUME NEW v \in Values(dim) PROVE f[v] = Cardinality({e \in T : g[e] = v})
    <3>1. {e \in T : Key(e, dim) \in Of2(dim, v)} = {e \in T : g[e] = v}
      BY <2>0, RowsOfScans, KeyParts DEF Asked
    <3>2. Of2(dim, v) \in SUBSET RowsOf(q, dim) /\ f[v] = SumOver(rollups, Of2(dim, v))
      BY <2>2
    <3> QED BY <1>4, <2>0, <3>1, <3>2
  <2>3. DOMAIN f = Values(dim)
    OBVIOUS
  <2>4. SumOf(f) = Cardinality(T)
    <3> HIDE DEF f, g, T, Values
    <3> QED BY <1>2, <2>1, <2>2, <2>3, KindsAddUp
  <2> QED BY <2>4
<1> HIDE DEF series, breakdown, T
<1> QED BY <1>1, <1>5, <1>6, <1>7 DEF T

\* Whatever range, bucket and code is asked for, and however the scans were
\* batched and pruned: the answer's total is the number of scans ever committed
\* in the range, its series and every breakdown add up to it, and no direct code
\* answers with the clicks on its short link
\* (QueryAnalytics, InsertScanBatch, PruneScanEvents, ServeHTTP).
THEOREM AnalyticsAnswersTheorem == AnalyticsSpec => []AnswersMatchHistory
<1>1. ASSUME StatsInv, NEW c \in Codes \cup Strangers, NEW r \in Ranges,
             ServeAnalytics(c, r).status = "ok"
      PROVE  /\ c \in Codes \ Direct
             /\ \E q : /\ ServeAnalytics(c, r).answer = QueryAnalytics(q)
                       /\ q.code = c /\ q.from = From(r) /\ q.to = To(r)
  <2> DEFINE q == [code |-> c, from |-> From(r), to |-> To(r), bucket |-> r.bucket]
  <2>1. ~BadRange(r) /\ c \notin Strangers /\ c \notin Direct
    BY <1>1 DEF ServeAnalytics
  <2>2. ServeAnalytics(c, r).answer = QueryAnalytics(q)
    BY <2>1 DEF ServeAnalytics
  <2> QED BY <2>1, <2>2
<1>2. StatsInv => AnswersMatchHistory
  <2> SUFFICES ASSUME StatsInv, NEW c \in Codes \cup Strangers, NEW r \in Ranges,
                      ServeAnalytics(c, r).status = "ok"
               PROVE  LET res == ServeAnalytics(c, r)
                          true == {e \in history : /\ e.code = c
                                                   /\ Hour(e.at) * HourTicks >= From(r)
                                                   /\ Hour(e.at) * HourTicks < To(r)}
                      IN  /\ c \in Codes \ Direct
                          /\ res.answer.total = Cardinality(true)
                          /\ SumOf(res.answer.series) = res.answer.total
                          /\ \A dim \in Breakdowns :
                               SumOf(res.answer.breakdowns[dim]) = res.answer.total
    BY DEF AnswersMatchHistory
  <2>1. PICK q : /\ ServeAnalytics(c, r).answer = QueryAnalytics(q)
                 /\ q.code = c /\ q.from = From(r) /\ q.to = To(r)
    BY <1>1
  <2>2. Asked(q) = {e \in history : /\ e.code = c
                                    /\ Hour(e.at) * HourTicks >= From(r)
                                    /\ Hour(e.at) * HourTicks < To(r)}
    BY <2>1 DEF Asked
  <2>3. c \in Codes \ Direct
    BY <1>1
  <2> QED BY <2>1, <2>2, <2>3, QueryCounts
<1> QED BY <1>2, StatsInvariant, PTL
=============================================================================
