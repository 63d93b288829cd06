-------------------------- MODULE ShardUpdateProofs --------------------------
(***************************************************************************)
(* TLAPS proofs about ShardUpdate: the offset rate that                    *)
(* calculateDesiredShards divides by is positive, for any load, retries,   *)
(* failures of Size and numbers of shards, but for the two exceptions that *)
(* DivisionDefined names.                                                  *)
(***************************************************************************)
EXTENDS ShardUpdate, TLAPS

-----------------------------------------------------------------------------
(* The inductive invariant. *)

\* Every variable that the calculation uses has its type.
TypeOK ==
    /\ load \in Nat /\ backlog \in Nat /\ queued \in Nat /\ held \in Nat
    /\ checkpoint \in {"unread", "ahead", "left"}
    /\ grown \in Int /\ moved \in Int /\ numShards \in Nat
    /\ newEvents \in [Rates -> Int] /\ newEvents["samplesOut"] >= 0
    /\ rate \in [Rates -> Int] /\ rate["samplesOut"] >= 0
    /\ init \in BOOLEAN /\ pc \in {"ticker", "measured", "failed"}

\* Offset does not go back before a long checkpoint is left.
Forward ==
    checkpoint # "left" =>
        moved >= 0 /\ newEvents["walOffset"] >= 0 /\ rate["walOffset"] >= 0

\* A sample that is queued or was ever sent has bytes, and Offset has moved by
\* them: they are in the rate, waiting for its tick, or still to be counted.
Read ==
    /\ checkpoint # "left"
    /\ queued > 0 \/ newEvents["samplesOut"] > 0 \/ rate["samplesOut"] > 0
    => moved > 0 \/ newEvents["walOffset"] > 0 \/ rate["walOffset"] > 0

\* A tick leaves nothing to count, and comes before any rate.
Fresh ==
    /\ pc = "ticker" => newEvents["samplesOut"] = 0 /\ newEvents["walOffset"] = 0
    /\ ~init => rate["samplesOut"] = 0 /\ rate["walOffset"] = 0

IInv == TypeOK /\ Forward /\ Read /\ Fresh

-----------------------------------------------------------------------------
(* Lemmas about the operators. *)

\* The assumption, constant by constant.
LEMMA Constants ==
  /\ PerShard \in Nat \ {0} /\ Capacity \in Nat \ {0} /\ BytesPerSample \in Nat \ {0}
  /\ LogSize \in Nat \ {0} /\ MaxShards \in Nat \ {0} /\ Unit \in Nat \ {0}
  /\ Excess \in Nat /\ MaxBacklog \in Nat /\ Loads \subseteq Nat
  BY ShardUpdateAssumption DEF ShardUpdateAssumption

\* Min and Max of two numbers.
LEMMA MinMaxOfTwo ==
  ASSUME NEW m \in Int, NEW n \in Int
  PROVE  /\ Min({m, n}) = IF m <= n THEN m ELSE n
         /\ Max({m, n}) = IF m <= n THEN n ELSE m
  <1>1. Min({m, n}) \in {m, n} /\ \A k \in {m, n} : Min({m, n}) <= k
    <2>1. \E x \in {m, n} : \A y \in {m, n} : x <= y
      OBVIOUS
    <2> QED BY <2>1 DEF Min
  <1>2. Max({m, n}) \in {m, n} /\ \A k \in {m, n} : Max({m, n}) >= k
    <2>1. \E x \in {m, n} : \A y \in {m, n} : x >= y
      OBVIOUS
    <2> QED BY <2>1 DEF Max
  <1> QED BY <1>1, <1>2

\* Products of natural numbers.
LEMMA Products ==
  ASSUME NEW m \in Nat, NEW n \in Nat
  PROVE  /\ m * n \in Nat
         /\ m # 0 /\ n # 0 => m * n # 0
  <1>1. m * n \in Nat
    OBVIOUS
  <1>2. ASSUME m # 0, n # 0 PROVE m * n # 0
    <2>1. PICK d \in Nat : n = d + 1
      BY <1>2, n - 1 \in Nat
    <2>2. m * n = m * d + m /\ m * d \in Nat
      BY <2>1
    <2> QED BY <1>2, <2>2
  <1> QED BY <1>1, <1>2

\* What is read and sent, and that what is sent has been read.
LEMMA WorkTypes ==
  ASSUME TypeOK, NEW new \in Nat, NEW capacity \in Nat
  PROVE  /\ Sent(new, capacity) \in Nat
         /\ Taken(new, capacity) \in Nat /\ Taken(new, capacity) <= backlog + new
         /\ queued + Taken(new, capacity) - Sent(new, capacity) \in Nat
         /\ Duration(Sent(new, capacity)) \in Nat
  <1> DEFINE all == queued + backlog + new
             s == Sent(new, capacity)
             room == Max({0, numShards * Capacity - queued})
  <1>1. all \in Nat /\ backlog + new \in Nat /\ numShards * Capacity - queued \in Int
    BY Constants DEF TypeOK
  <1>2. s \in Nat /\ s <= all
    BY <1>1, MinMaxOfTwo DEF Sent
  <1>3. room \in Nat
    <2>1. \A k \in Int : Max({0, k}) = IF 0 <= k THEN k ELSE 0
      BY MinMaxOfTwo, 0 \in Int
    <2> QED BY <1>1, <2>1
  <1>4. Taken(new, capacity) = Min({backlog + new, s + room})
    BY DEF Taken
  <1> HIDE DEF s, room
  <1>5. backlog + new \in Int /\ s + room \in Int
    BY <1>1, <1>2, <1>3
  <1>6. Taken(new, capacity) = IF backlog + new <= s + room THEN backlog + new ELSE s + room
    BY <1>4, <1>5, MinMaxOfTwo
  <1>7. Taken(new, capacity) \in Nat /\ Taken(new, capacity) <= backlog + new
    BY <1>1, <1>2, <1>3, <1>6
  <1>8. queued + Taken(new, capacity) - s \in Nat
    BY <1>1, <1>2, <1>3, <1>6 DEF TypeOK
  <1>9. Duration(s) \in Nat
    BY <1>2 DEF Duration, TypeOK
  <1> QED BY <1>2, <1>7, <1>8, <1>9 DEF s

\* Work keeps the types, and nothing is queued or sent that was not.
LEMMA WorkStep ==
  ASSUME TypeOK, NEW new \in Nat, NEW capacity \in Nat, Work(new, capacity)
  PROVE  /\ backlog' \in Nat /\ queued' \in Nat /\ held' \in Nat
         /\ queued' > 0 \/ Sent(new, capacity) > 0 => queued > 0 \/ Taken(new, capacity) > 0
  <1> DEFINE t == Taken(new, capacity)
             s == Sent(new, capacity)
  <1>1. s \in Nat /\ t \in Nat /\ t <= backlog + new /\ queued + t - s \in Nat
    BY WorkTypes
  <1>2. /\ backlog' = Min({MaxBacklog, backlog + new - t})
        /\ queued' = queued + t - s
        /\ held' = IF s = 0 THEN held + PerShard * Min({numShards, queued + t}) ELSE 0
    BY DEF Work
  <1> HIDE DEF t, s
  <1>3. backlog + new - t \in Nat
    BY <1>1 DEF TypeOK
  <1>4. backlog' \in Nat
    BY <1>2, <1>3, Constants, MinMaxOfTwo
  <1>5. held' \in Nat
    <2>1. queued + t \in Nat /\ numShards \in Nat
      BY <1>1 DEF TypeOK
    <2>2. PICK m \in Nat : m = Min({numShards, queued + t})
      BY <2>1, MinMaxOfTwo
    <2>3. PerShard * m \in Nat
      BY Constants, Products
    <2> QED BY <1>2, <2>2, <2>3 DEF TypeOK
  <1>6. queued' > 0 \/ s > 0 => queued > 0 \/ t > 0
    BY <1>1, <1>2 DEF TypeOK
  <1> QED BY <1>1, <1>2, <1>4, <1>5, <1>6 DEF t, s

\* The moving average keeps a sign: it does not come down to 0.
LEMMA AverageSign ==
  ASSUME NEW x \in Int
  PROVE  /\ Average(x) \in Int
         /\ x >= 0 => Average(x) >= 0
         /\ x > 0 <=> Average(x) > 0
  BY DEF Average

\* A tick of one rate.
LEMMA TickedRate ==
  ASSUME TypeOK, NEW r \in Rates
  PROVE  /\ Ticked[r] \in Int
         /\ rate[r] >= 0 /\ newEvents[r] >= 0 =>
              /\ Ticked[r] >= 0
              /\ init => (Ticked[r] > 0 <=> rate[r] > 0 \/ newEvents[r] > 0)
              /\ ~init => (Ticked[r] > 0 <=> newEvents[r] > 0)
  <1>1. PICK x \in Int : x = rate[r]
    BY DEF TypeOK
  <1>2. PICK e \in Int : e = newEvents[r]
    BY DEF TypeOK
  <1>3. PICK p \in Int : p = e * Unit /\ (e >= 0 => p >= 0) /\ (e >= 0 => (p > 0 <=> e > 0))
    <2>1. e * Unit \in Int
      BY Constants
    <2>2. ASSUME e >= 0 PROVE e * Unit \in Nat /\ (e * Unit = 0 <=> e = 0)
      BY <2>2, Constants, Products
    <2> QED BY <2>1, <2>2
  <1>4. Ticked[r] = IF init THEN Average(4 * x + p) ELSE p
    BY <1>1, <1>2, <1>3 DEF Ticked
  <1>5. PICK y \in Int : y = 4 * x + p
    OBVIOUS
  <1>6. Average(y) \in Int /\ (y >= 0 => Average(y) >= 0) /\ (y > 0 <=> Average(y) > 0)
    BY AverageSign
  <1>7. CASE init
    <2>1. Ticked[r] = Average(y)
      BY <1>4, <1>5, <1>7
    <2>2. x >= 0 /\ e >= 0 => y >= 0 /\ (y > 0 <=> x > 0 \/ e > 0)
      BY <1>3, <1>5
    <2> QED BY <1>1, <1>2, <1>6, <1>7, <2>1, <2>2
  <1>8. CASE ~init
    BY <1>2, <1>3, <1>4, <1>8
  <1> QED BY <1>7, <1>8

\* Where calculateDesiredShards divides, the result is a number.
LEMMA DesiredType ==
  ASSUME NEW r \in [Rates -> Int], r["samplesOut"] > 0, r["walOffset"] # 0
  PROVE  DesiredShards(r) \in Int
  <1>1. /\ r["samplesOut"] \in Nat \ {0} /\ r["walOffset"] \in Int
        /\ r["samplesOutDuration"] \in Int /\ r["samplesIn"] \in Int
        /\ r["walSize"] \in Int
    BY DEF Rates
  <1>2. Unit * PerShard \in Nat \ {0}
    BY Constants, Products
  <1>3. PICK d \in Nat \ {0} : d = Unit * PerShard * r["samplesOut"]
    BY <1>1, <1>2, Products
  <1>4. PICK e \in Int : e = 150 * r["samplesOutDuration"] * r["samplesIn"]
    BY <1>1
  <1>5. PICK s \in Int : s = e \div d
    BY <1>3, <1>4
  <1>6. PICK o \in Int, z \in Int : o = r["walOffset"] /\ z = r["walSize"] /\ o # 0
    BY <1>1
  <1>7. PICK num \in Int : num = IF o < 0 THEN -z ELSE z
    BY DEF Rates
  <1>8. PICK den \in Nat \ {0} : den = IF o < 0 THEN -o ELSE o
    BY <1>6
  <1>9. (s * num) \div den \in Int
    <2>1. s * num \in Int
      OBVIOUS
    <2> QED BY <2>1
  <1>10. s + (3 * s * (den - num)) \div (2 * den) \in Int
    <2>1. 3 * s * (den - num) \in Int /\ 2 * den \in Nat \ {0}
      OBVIOUS
    <2> QED BY <2>1
  <1>11. Adjusted(s, z, o) = IF z >= o THEN (s * num) \div den
                             ELSE s + (3 * s * (den - num)) \div (2 * den)
    BY <1>7, <1>8 DEF Adjusted
  <1>12. Adjusted(s, z, o) \in Int
    BY <1>9, <1>10, <1>11
  <1> QED BY <1>3, <1>4, <1>5, <1>6, <1>12 DEF DesiredShards

\* The number of shards that a calculation arrives at is a natural number.
LEMMA CalculatedType ==
  ASSUME TypeOK, NEW r \in [Rates -> Int], r["samplesOut"] >= 0
  PROVE  Calculated(r) \subseteq Nat
  <1>0. r["samplesOut"] \in Int /\ r["walOffset"] \in Int
    BY DEF Rates
  <1>1. CASE r["samplesOut"] = 0
    BY <1>1 DEF Calculated, TypeOK
  <1>2. CASE r["samplesOut"] # 0 /\ r["walOffset"] = 0
    BY <1>2, Constants DEF Calculated
  <1>3. CASE r["samplesOut"] # 0 /\ r["walOffset"] # 0
    <2>1. PICK d \in Int : d = DesiredShards(r)
      BY <1>0, <1>3, DesiredType
    <2>2. (d + 99) \div 100 \in Int
      OBVIOUS
    <2>3. PICK m \in Int : m = Min({MaxShards, (d + 99) \div 100})
      BY <2>2, Constants, MinMaxOfTwo
    <2>4. Limited(d) \in Nat
      <3>1. Limited(d) = Max({1, m})
        BY <2>3 DEF Limited
      <3>2. \A k \in Int : Max({k, m}) = IF k <= m THEN m ELSE k
        BY MinMaxOfTwo
      <3>3. Max({1, m}) = IF 1 <= m THEN m ELSE 1
        BY <3>2, 1 \in Int
      <3> QED BY <3>1, <3>3
    <2>5. Calculated(r) = {IF Significant(d) THEN Limited(d) ELSE numShards}
      BY <1>3, <2>1 DEF Calculated
    <2> QED BY <2>4, <2>5 DEF TypeOK
  <1> QED BY <1>1, <1>2, <1>3

-----------------------------------------------------------------------------
(* The invariant is inductive. *)

\* It holds initially.
LEMMA InitIInv == Init => IInv
  <1> SUFFICES ASSUME Init PROVE IInv
    OBVIOUS
  <1>1. /\ newEvents \in [Rates -> Int] /\ rate \in [Rates -> Int]
        /\ newEvents["samplesOut"] = 0 /\ newEvents["walOffset"] = 0
        /\ rate["samplesOut"] = 0 /\ rate["walOffset"] = 0
    BY DEF Init, Rates
  <1>2. load \in Nat /\ backlog \in Nat
    BY Constants DEF Init
  <1>3. grown \in Int
    BY <1>2, Constants DEF Init
  <1>4. TypeOK
    <2>1. queued \in Nat /\ held \in Nat /\ moved \in Int /\ numShards \in Nat
      BY DEF Init
    <2>2. /\ checkpoint \in {"unread", "ahead", "left"} /\ init \in BOOLEAN
          /\ pc \in {"ticker", "measured", "failed"}
      BY DEF Init
    <2> QED BY <1>1, <1>2, <1>3, <2>1, <2>2 DEF TypeOK
  <1> QED BY <1>1, <1>4 DEF Init, IInv, Forward, Read, Fresh

\* What Measure counts of the sends and of Offset.
LEMMA MeasureCounts ==
  ASSUME TypeOK, NEW fails \in BOOLEAN, NEW size \in Int, NEW offset \in Int,
         NEW t \in Nat, NEW s \in Nat, Duration(s) \in Nat,
         Measure(fails, size, offset, t, s)
  PROVE  /\ newEvents' \in [Rates -> Int] /\ grown' \in Int /\ moved' \in {0, offset}
         /\ newEvents'["samplesOut"] = s /\ newEvents'["walOffset"] = offset
  <1>1. newEvents' = [r \in Rates |->
          CASE r = "samplesIn" -> t
            [] r = "samplesOut" -> s
            [] r = "samplesOutDuration" -> Duration(s)
            [] r = "walSize" -> IF fails THEN -LogSize ELSE size
            [] r = "walOffset" -> offset]
    BY DEF Measure
  <1>2. /\ newEvents'["samplesIn"] = t /\ newEvents'["samplesOut"] = s
        /\ newEvents'["samplesOutDuration"] = Duration(s)
        /\ newEvents'["walSize"] = IF fails THEN -LogSize ELSE size
        /\ newEvents'["walOffset"] = offset
    BY <1>1 DEF Rates
  <1>3. -LogSize \in Int
    BY Constants
  <1>4. \A r \in Rates : newEvents'[r] \in Int
    BY <1>2, <1>3 DEF Rates
  <1>5. newEvents' \in [Rates -> Int]
    BY <1>1, <1>4
  <1>6. grown' \in Int /\ moved' \in {0, offset}
    BY DEF Measure
  <1> QED BY <1>2, <1>5, <1>6

\* An interval: what is sent in it was queued, and so counted by Offset before,
\* or is read in it.
LEMMA IntervalIInv ==
  ASSUME IInv, NEW capacity \in Nat, NEW c \in {"unread", "ahead", "left"},
         NEW fails \in BOOLEAN, Interval(capacity, c, fails),
         c = checkpoint \/ c = "left" \/ checkpoint = "unread"
  PROVE  IInv'
  <1> DEFINE t == Taken(load, capacity)
             s == Sent(load, capacity)
             offset == moved + t * BytesPerSample + Ahead[c] - Ahead[checkpoint]
             size == grown + load * BytesPerSample
  <1>0. TypeOK /\ load \in Nat
    BY DEF IInv, TypeOK
  <1>1. t \in Nat /\ s \in Nat /\ Duration(s) \in Nat
    BY <1>0, WorkTypes
  <1>2. PICK b \in Nat : b = t * BytesPerSample /\ (t > 0 => b > 0)
    <2>1. t * BytesPerSample \in Nat /\ (t > 0 => t * BytesPerSample # 0)
      BY <1>1, Constants, Products
    <2> QED BY <2>1
  <1>3. PICK jump \in Int : /\ jump = Ahead[c] - Ahead[checkpoint]
                            /\ c # "left" => jump >= 0
    <2>1. /\ Ahead["unread"] = 0 /\ Ahead["ahead"] = Excess /\ Ahead["left"] = 0
          /\ Excess \in Nat
      BY Constants DEF Ahead
    <2>2. CASE c = checkpoint
      BY <1>0, <2>1, <2>2, 0 \in Int DEF TypeOK
    <2>3. CASE c # checkpoint
      BY <1>0, <2>1, <2>3 DEF TypeOK
    <2> QED BY <2>2, <2>3
  <1>4. Ahead[c] \in Int /\ Ahead[checkpoint] \in Int
    BY <1>0, Constants DEF Ahead, TypeOK
  <1>5. offset = moved + b + jump /\ offset \in Int /\ size \in Int
    BY <1>0, <1>2, <1>3, <1>4, Constants DEF TypeOK
  <1>6. /\ Work(load, capacity) /\ Measure(fails, size, offset, t, s)
        /\ checkpoint' = c /\ pc = "ticker" /\ pc' \in {"measured", "failed"}
        /\ UNCHANGED <<load, rate, init, numShards>>
    BY DEF Interval
  <1> HIDE DEF t, s, offset, size
  <1>7. /\ newEvents' \in [Rates -> Int] /\ grown' \in Int /\ moved' \in {0, offset}
        /\ newEvents'["samplesOut"] = s /\ newEvents'["walOffset"] = offset
    BY <1>0, <1>1, <1>5, <1>6, MeasureCounts
  <1>8. /\ backlog' \in Nat /\ queued' \in Nat /\ held' \in Nat
        /\ queued' > 0 \/ s > 0 => queued > 0 \/ t > 0
    BY <1>0, <1>6, WorkStep DEF t, s
  <1>9. TypeOK'
    BY <1>0, <1>1, <1>5, <1>6, <1>7, <1>8 DEF TypeOK
  <1>10. c # "left" => checkpoint # "left"
    OBVIOUS
  <1>11. ASSUME c # "left"
         PROVE  /\ moved \in Int /\ moved >= 0 /\ rate["walOffset"] >= 0
                /\ offset >= moved /\ (t > 0 => offset > 0)
    BY <1>0, <1>2, <1>3, <1>5, <1>10, <1>11 DEF IInv, Forward, TypeOK
  <1>12. Forward'
    BY <1>5, <1>6, <1>7, <1>11 DEF Forward
  <1>13. Read'
    <2> SUFFICES ASSUME c # "left",
                        queued' > 0 \/ s > 0 \/ rate["samplesOut"] > 0
                 PROVE  offset > 0 \/ rate["walOffset"] > 0
      BY <1>6, <1>7 DEF Read
    <2>1. CASE t > 0
      BY <1>11, <2>1
    <2>2. CASE queued > 0 \/ rate["samplesOut"] > 0
      <3>1. moved > 0 \/ rate["walOffset"] > 0
        BY <1>6, <1>10, <2>2 DEF IInv, Read, Fresh
      <3> QED BY <1>5, <1>11, <3>1
    <2> QED BY <1>8, <2>1, <2>2
  <1>14. Fresh'
    BY <1>6 DEF IInv, Fresh
  <1> QED BY <1>9, <1>12, <1>13, <1>14 DEF IInv

\* Between Offset() and the ticks: what is read is still to be counted.
LEMMA SlipIInv == ASSUME IInv, Slip PROVE IInv'
  <1> DEFINE t == Taken(1, 1)
             s == Sent(1, 1)
  <1>0. TypeOK
    BY DEF IInv
  <1>1. t \in Nat /\ s \in Nat /\ Duration(s) \in Nat
    BY <1>0, WorkTypes
  <1>2. PICK b \in Nat : b = t * BytesPerSample /\ (t > 0 => b > 0)
    <2>1. t * BytesPerSample \in Nat /\ (t > 0 => t * BytesPerSample # 0)
      BY <1>1, Constants, Products
    <2> QED BY <2>1
  <1>3. /\ Work(1, 1) /\ pc # "ticker" /\ moved' = moved + b
        /\ grown' = grown + BytesPerSample
        /\ newEvents' = [newEvents EXCEPT !["samplesIn"] = @ + t,
                                          !["samplesOut"] = @ + s,
                                          !["samplesOutDuration"] = @ + Duration(s)]
        /\ UNCHANGED <<load, checkpoint, rate, init, numShards, pc>>
    BY <1>2 DEF Slip
  <1> HIDE DEF t, s
  <1>4. /\ backlog' \in Nat /\ queued' \in Nat /\ held' \in Nat
        /\ queued' > 0 \/ s > 0 => queued > 0 \/ t > 0
    BY <1>0, <1>3, WorkStep DEF t, s
  <1>5. /\ newEvents["samplesIn"] \in Int /\ newEvents["samplesOut"] \in Int
        /\ newEvents["samplesOutDuration"] \in Int /\ newEvents["samplesOut"] >= 0
    BY <1>0 DEF TypeOK, Rates
  <1>6. /\ newEvents' \in [Rates -> Int]
        /\ newEvents'["samplesOut"] = newEvents["samplesOut"] + s
        /\ newEvents'["walOffset"] = newEvents["walOffset"]
    BY <1>0, <1>1, <1>3, <1>5 DEF TypeOK, Rates
  <1>7. TypeOK'
    BY <1>0, <1>1, <1>3, <1>4, <1>5, <1>6, Constants DEF TypeOK
  <1>8. Forward'
    BY <1>0, <1>3, <1>6 DEF IInv, Forward, TypeOK
  <1>9. Read'
    <2> SUFFICES ASSUME checkpoint # "left",
                        queued' > 0 \/ newEvents'["samplesOut"] > 0 \/ rate["samplesOut"] > 0
                 PROVE  moved' > 0 \/ newEvents["walOffset"] > 0 \/ rate["walOffset"] > 0
      BY <1>3, <1>6 DEF Read
    <2>1. moved \in Int /\ moved >= 0
      BY <1>0 DEF IInv, Forward, TypeOK
    <2>2. CASE t > 0
      BY <1>2, <1>3, <2>1, <2>2
    <2>3. CASE queued > 0 \/ newEvents["samplesOut"] > 0 \/ rate["samplesOut"] > 0
      <3>1. moved > 0 \/ newEvents["walOffset"] > 0 \/ rate["walOffset"] > 0
        BY <2>3 DEF IInv, Read
      <3> QED BY <1>3, <2>1, <3>1
    <2>4. newEvents'["samplesOut"] > 0 => newEvents["samplesOut"] > 0 \/ s > 0
      BY <1>1, <1>5, <1>6
    <2> QED BY <1>4, <2>2, <2>3, <2>4
  <1>10. Fresh'
    BY <1>3 DEF IInv, Fresh
  <1> QED BY <1>7, <1>8, <1>9, <1>10 DEF IInv

\* The ticks and the calculation: the average keeps what was positive.
LEMMA CalculateIInv ==
  ASSUME IInv, NEW ready \in BOOLEAN, Calculate(ready) PROVE IInv'
  <1>0. TypeOK
    BY DEF IInv
  <1>1. /\ pc' = "ticker" /\ rate' = Ticked /\ init' = TRUE
        /\ newEvents' = [r \in Rates |-> 0]
        /\ UNCHANGED <<load, backlog, checkpoint, queued, held, grown, moved>>
        /\ numShards' = numShards \/ numShards' \in Calculated(rate')
    BY DEF Calculate, envVars
  <1>2. /\ newEvents' \in [Rates -> Int]
        /\ newEvents'["samplesOut"] = 0 /\ newEvents'["walOffset"] = 0
    BY <1>1 DEF Rates
  <1>3. rate' \in [Rates -> Int]
    <2>1. \A r \in Rates : Ticked[r] \in Int
      BY <1>0, TickedRate
    <2> QED BY <1>1, <2>1 DEF Ticked
  <1>4. "samplesOut" \in Rates /\ "walOffset" \in Rates
    BY DEF Rates
  <1>5. rate'["samplesOut"] >= 0
    BY <1>0, <1>1, <1>4, TickedRate DEF TypeOK
  <1>6. numShards' \in Nat
    BY <1>0, <1>1, <1>3, <1>5, CalculatedType DEF TypeOK
  <1>7. TypeOK'
    BY <1>0, <1>1, <1>2, <1>3, <1>5, <1>6 DEF TypeOK
  <1>8. ASSUME checkpoint # "left"
        PROVE  rate'["walOffset"] >= 0 /\ Read'
    <2>1. newEvents["walOffset"] >= 0 /\ rate["walOffset"] >= 0
      BY <1>8 DEF IInv, Forward
    <2>2. newEvents["samplesOut"] >= 0 /\ rate["samplesOut"] >= 0
      BY <1>0 DEF TypeOK
    <2>3. /\ rate'["walOffset"] >= 0
          /\ init => (rate'["walOffset"] > 0 <=>
                         rate["walOffset"] > 0 \/ newEvents["walOffset"] > 0)
          /\ ~init => (rate'["walOffset"] > 0 <=> newEvents["walOffset"] > 0)
      BY <1>0, <1>1, <1>4, <2>1, TickedRate
    <2>4. rate'["samplesOut"] > 0 => rate["samplesOut"] > 0 \/ newEvents["samplesOut"] > 0
      BY <1>0, <1>1, <1>4, <2>2, TickedRate DEF TypeOK
    <2>5. ASSUME queued > 0 \/ rate'["samplesOut"] > 0
          PROVE  moved > 0 \/ rate'["walOffset"] > 0
      <3>1. moved > 0 \/ newEvents["walOffset"] > 0 \/ rate["walOffset"] > 0
        BY <1>8, <2>4, <2>5 DEF IInv, Read
      <3>2. ~init => rate["walOffset"] = 0
        BY DEF IInv, Fresh
      <3>3. init \in BOOLEAN
        BY <1>0 DEF TypeOK
      <3> QED BY <2>3, <3>1, <3>2, <3>3
    <2> QED BY <1>1, <1>2, <2>3, <2>5 DEF Read
  <1>9. Forward' /\ Read'
    <2>1. CASE checkpoint = "left"
      BY <1>1, <2>1 DEF Forward, Read
    <2>2. CASE checkpoint # "left"
      BY <1>1, <1>2, <1>8, <2>2 DEF IInv, Forward
    <2> QED BY <2>1, <2>2
  <1>10. Fresh'
    BY <1>1, <1>2 DEF Fresh
  <1> QED BY <1>7, <1>9, <1>10 DEF IInv

\* Every step preserves it.
LEMMA NextIInv == IInv /\ [Next]_vars => IInv'
  <1> SUFFICES ASSUME IInv, [Next]_vars PROVE IInv'
    OBVIOUS
  <1>0. /\ numShards * PerShard \in Nat /\ 0 \in Nat
        /\ checkpoint \in {"unread", "ahead", "left"}
    BY Constants, Products DEF IInv, TypeOK
  <1>1. CASE \E capacity \in {0, numShards * PerShard}, fails \in BOOLEAN :
               Interval(capacity, checkpoint, fails)
    BY <1>0, <1>1, IntervalIInv
  <1>2. CASE checkpoint = "unread" /\ Interval(numShards * PerShard, "ahead", FALSE)
    BY <1>0, <1>2, IntervalIInv
  <1>3. CASE checkpoint = "ahead" /\ Interval(numShards * PerShard, "left", FALSE)
    BY <1>0, <1>3, IntervalIInv
  <1>4. CASE Slip
    BY <1>4, SlipIInv
  <1>5. CASE \E ready \in BOOLEAN : Calculate(ready)
    BY <1>5, CalculateIInv
  <1>6. ASSUME NEW l \in Loads, LoadChange(l) PROVE IInv'
    <2>1. l \in Nat
      BY Constants
    <2> QED BY <1>6, <2>1 DEF LoadChange, IInv, TypeOK, Forward, Read, Fresh
  <1>7. CASE UNCHANGED vars
    BY <1>7 DEF vars, envVars, IInv, TypeOK, Forward, Read, Fresh
  <1> QED BY <1>1, <1>2, <1>3, <1>4, <1>5, <1>6, <1>7 DEF Next, Usual, Disturbance

\* The inductive invariant holds in every reachable state: in particular what
\* is sent never gets ahead of the bytes that Offset has moved by, however late
\* it is sent and whatever Size returned.
THEOREM Invariance == Spec => []IInv
  BY InitIInv, NextIInv, PTL DEF Spec

\* The offset rate that calculateDesiredShards divides by is positive wherever
\* samplesOut, the one rate that it tests, is: for any loads, retries, failures
\* and sizes, unless a checkpoint longer than a segment has been left or bytes
\* read since Offset() wait for the next call.
THEOREM DivisionDefinedHolds == Spec => []DivisionDefined
  <1>1. IInv => DivisionDefined
    BY DEF IInv, TypeOK, Read, Fresh, DivisionDefined
  <1> QED BY <1>1, Invariance, PTL
==============================================================================
