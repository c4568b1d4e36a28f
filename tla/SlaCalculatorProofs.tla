------------------------ MODULE SlaCalculatorProofs ------------------------
(* Facts about the SLA calculation, for every configuration the validators *)
(* admit, every severity and every integer MTTR.                           *)
EXTENDS SlaCalculator, TLAPS

\* The calculator is total: whatever the configuration and the MTTR, a
\* calculation has every field, with a rating the contract codes know.
LEMMA CalculateType ==
    ASSUME NEW sev \in Severities, NEW m \in Int
    PROVE  Calculate(sev, m) \in
              [status : {"met", "violated"}, mttr_minutes : Int, threshold_minutes : Nat,
               amount : Int, payment_type : {"reward", "penalty"},
               rating : {"exceptional", "excellent", "good", "poor"},
               reason_code : {"mttr_exceeded", "met_exceptional", "met_excellent",
                              "met_good"}]
<1> DEFINE cfg == SLA_CONFIG[sev]
<1>1. cfg \in SLASeverityConfig
  BY ConfigAssumption
<1>2. /\ cfg.threshold_minutes \in Nat /\ cfg.penalty_per_minute \in Nat
      /\ cfg.reward_base \in Nat
  BY <1>1 DEF SLASeverityConfig
<1>3. CASE Violated(sev, m)
  <2>1. -((m - cfg.threshold_minutes) * cfg.penalty_per_minute) \in Int
    BY <1>2
  <2> QED
    BY <1>2, <1>3, <2>1 DEF Calculate, Penalty
<1>4. CASE ~Violated(sev, m)
  <2> DEFINE ratio == PerformanceRatio(m, cfg.threshold_minutes)
             rating == Rating(ratio)
  <2>1. ratio \in Int
    BY <1>2 DEF PerformanceRatio
  <2>2. rating \in {"exceptional", "excellent", "good"}
    BY <2>1 DEF Rating
  <2>3. Multiplier[rating] \in {200, 150, 100}
    BY <2>2 DEF Multiplier
  <2>4. (cfg.reward_base * Multiplier[rating]) \div 100 \in Int
    BY <1>2, <2>3
  <2>5. ReasonCode[rating] \in {"met_exceptional", "met_excellent", "met_good"}
    BY <2>2 DEF ReasonCode
  <2> HIDE DEF rating
  <2>6. Reward(sev, m) =
          [status |-> "met", mttr_minutes |-> m,
           threshold_minutes |-> cfg.threshold_minutes,
           amount |-> (cfg.reward_base * Multiplier[rating]) \div 100,
           payment_type |-> "reward", rating |-> rating,
           reason_code |-> ReasonCode[rating]]
    BY DEF Reward, rating
  <2> QED
    BY <1>2, <1>4, <2>2, <2>4, <2>5, <2>6 DEF Calculate
<1> QED
  BY <1>3, <1>4

\* Coding a result for the contract and decoding the answer changes nothing
\* that is stored or paid.
THEOREM TranslationLossless ==
    ASSUME NEW sev \in Severities, NEW m \in Int
    PROVE  /\ SettledResult(sev, m) \in SLAResult
           /\ \A f \in {"status", "mttr_minutes", "threshold_minutes", "amount",
                        "payment_type", "rating"} :
                 SettledResult(sev, m)[f] = Calculate(sev, m)[f]
<1> DEFINE c == Calculate(sev, m)
<1>1. /\ c.status \in {"met", "violated"} /\ c.mttr_minutes \in Int
      /\ c.threshold_minutes \in Nat /\ c.amount \in Int
      /\ c.payment_type \in {"reward", "penalty"}
      /\ c.rating \in {"exceptional", "excellent", "good", "poor"}
  BY CalculateType
<1> HIDE DEF c
<1>2. SettledResult(sev, m) =
         [status |-> c.status, mttr_minutes |-> c.mttr_minutes,
          threshold_minutes |-> c.threshold_minutes, amount |-> c.amount,
          payment_type |-> c.payment_type, rating |-> c.rating]
  BY <1>1 DEF SettledResult, Translate, ContractResult, ContractStatus,
              ContractPayment, ContractRating, c
<1>3. SettledResult(sev, m) \in SLAResult
  BY <1>1, <1>2 DEF SLAResult
<1>4. \A f \in {"status", "mttr_minutes", "threshold_minutes", "amount",
                "payment_type", "rating"} : SettledResult(sev, m)[f] = c[f]
  BY <1>2
<1> QED
  BY <1>3, <1>4 DEF c

\* Division by a positive number is monotone in the dividend.
LEMMA DivMonotone ==
    ASSUME NEW a \in Int, NEW b \in Int, NEW d \in Int, d > 0, a <= b
    PROVE  a \div d <= b \div d
<1> DEFINE x == a \div d
           y == b \div d
<1>1. /\ x \in Int /\ y \in Int
      /\ d * x <= a /\ b < d * y + d
  OBVIOUS
<1>2. d * x < d * (y + 1)
  BY <1>1
<1> HIDE DEF x, y
<1>3. x < y + 1
  <2>1. SUFFICES ASSUME y + 1 <= x PROVE FALSE
    BY <1>1
  <2>2. d * (y + 1) <= d * x
    BY <1>1, <2>1
  <2> QED
    BY <1>1, <1>2, <2>2
<1> QED
  BY <1>1, <1>3 DEF x, y

\* A slower repair never pays better: among outages of one severity the amount
\* falls, or stays, as the MTTR grows, across the rating bands and across the
\* boundary between reward and penalty.
THEOREM SlowerNeverPaysMore ==
    ASSUME NEW sev \in Severities, NEW m \in Int, NEW n \in Int, m <= n
    PROVE  Calculate(sev, n).amount <= Calculate(sev, m).amount
<1> DEFINE cfg == SLA_CONFIG[sev]
           t == cfg.threshold_minutes
           k == cfg.penalty_per_minute
           b == cfg.reward_base
<1>1. t \in Nat /\ k \in Nat /\ b \in Nat
  BY ConfigAssumption DEF SLASeverityConfig
<1>2. ASSUME NEW i \in Int, Violated(sev, i)
      PROVE  /\ Calculate(sev, i).amount = -((i - t) * k)
             /\ Calculate(sev, i).amount <= 0
  <2>1. Calculate(sev, i).amount = -((i - t) * k)
    BY <1>2 DEF Calculate, Penalty
  <2>2. i - t >= 0
    BY <1>1, <1>2 DEF Violated
  <2>3. \A u, v \in Nat : u * v >= 0
    OBVIOUS
  <2> QED
    BY <1>1, <2>1, <2>2, <2>3
<1>3. ASSUME NEW i \in Int, ~Violated(sev, i)
      PROVE  LET rating == Rating(PerformanceRatio(i, t))
             IN  /\ Calculate(sev, i).amount = (b * Multiplier[rating]) \div 100
                 /\ Multiplier[rating] \in {100, 150, 200}
                 /\ PerformanceRatio(i, t) \in Int
                 /\ Calculate(sev, i).amount >= 0
  <2> DEFINE rating == Rating(PerformanceRatio(i, t))
  <2>1. PerformanceRatio(i, t) \in Int
    BY <1>1 DEF PerformanceRatio
  <2>2. Multiplier[rating] \in {100, 150, 200}
    BY <2>1 DEF Rating, Multiplier
  <2>3. Calculate(sev, i).amount = (b * Multiplier[rating]) \div 100
    BY <1>3 DEF Calculate, Reward
  <2> HIDE DEF rating
  <2>4. (b * Multiplier[rating]) \div 100 >= 0
    BY <1>1, <2>2
  <2> QED
    BY <2>1, <2>2, <2>3, <2>4 DEF rating
<1>4. CASE Violated(sev, m) /\ Violated(sev, n)
  <2>1. (m - t) * k <= (n - t) * k
    BY <1>1
  <2> QED
    BY <1>1, <1>2, <1>4, <2>1
<1>5. CASE ~Violated(sev, m) /\ Violated(sev, n)
  <2>1. Calculate(sev, n).amount \in Int /\ Calculate(sev, m).amount \in Int
    BY CalculateType
  <2> QED
    BY <1>2, <1>3, <1>5, <2>1
<1>6. CASE ~Violated(sev, m) /\ ~Violated(sev, n)
  <2> DEFINE pm == PerformanceRatio(m, t)
             pn == PerformanceRatio(n, t)
  <2>1. pm <= pn
    <3>1. CASE t = 0
      BY <3>1 DEF PerformanceRatio
    <3>2. CASE t # 0
      <4>1. (m * 100) \div t <= (n * 100) \div t
        BY <1>1, <3>2, DivMonotone
      <4> QED
        BY <3>2, <4>1 DEF PerformanceRatio
    <3> QED
      BY <3>1, <3>2
  <2>2. Multiplier[Rating(pn)] <= Multiplier[Rating(pm)]
    <3>1. pm \in Int /\ pn \in Int
      BY <1>3, <1>6
    <3> HIDE DEF pm, pn
    <3> QED
      BY <2>1, <3>1 DEF Rating, Multiplier
  <2>3. (b * Multiplier[Rating(pn)]) \div 100 <= (b * Multiplier[Rating(pm)]) \div 100
    <3> DEFINE x == Multiplier[Rating(pn)]
               y == Multiplier[Rating(pm)]
    <3>1. x \in {100, 150, 200} /\ y \in {100, 150, 200} /\ x <= y
      BY <1>3, <1>6, <2>2
    <3> HIDE DEF x, y
    <3>2. b * x <= b * y /\ b * x \in Int /\ b * y \in Int
      BY <1>1, <3>1
    <3>3. (b * x) \div 100 <= (b * y) \div 100
      BY <3>2
    <3> QED
      BY <3>3 DEF x, y
  <2> QED
    BY <1>3, <1>6, <2>3
<1>7. ~(Violated(sev, m) /\ ~Violated(sev, n))
  BY <1>1 DEF Violated
<1> QED
  BY <1>4, <1>5, <1>6, <1>7

=============================================================================
