--------------------------- MODULE SlaCalculator ---------------------------
(***************************************************************************)
(* The SLA calculation that settles an outage: SLACalculator.calculate,    *)
(* the contract adapter that runs it and re-codes its result, and the      *)
(* translation that decodes the contract's answer again.                   *)
(*                                                                         *)
(* Python integers are unbounded and // rounds towards minus infinity, as  *)
(* \div does here.  decision_trace, the metric and the contract metadata   *)
(* are texts no later step reads and are left out.                         *)
(***************************************************************************)
EXTENDS Integers

CONSTANTS
    Severities,   \* the severity levels, the keys of SLA_CONFIG
    SLA_CONFIG    \* severity -> threshold, penalty per minute, reward base

SLASeverityConfig ==
    [threshold_minutes : Nat, penalty_per_minute : Nat, reward_base : Nat]

\* The field validators of SLASeverityConfig: every value is ge=0.
ASSUME ConfigAssumption == SLA_CONFIG \in [Severities -> SLASeverityConfig]

-----------------------------------------------------------------------------
(* The calculator.                                                         *)

PerformanceRatio(mttr, threshold) ==
    IF threshold = 0 THEN 0 ELSE (mttr * 100) \div threshold

Rating(ratio) ==
    IF ratio < 50 THEN "exceptional" ELSE IF ratio < 75 THEN "excellent" ELSE "good"

Multiplier == [exceptional |-> 200, excellent |-> 150, good |-> 100]

ReasonCode == [exceptional |-> "met_exceptional", excellent |-> "met_excellent",
               good |-> "met_good"]

Violated(severity, mttr) == mttr > SLA_CONFIG[severity].threshold_minutes

Penalty(severity, mttr) ==
    LET cfg == SLA_CONFIG[severity]
    IN  [status            |-> "violated",
         mttr_minutes      |-> mttr,
         threshold_minutes |-> cfg.threshold_minutes,
         amount            |-> -((mttr - cfg.threshold_minutes)
                                    * cfg.penalty_per_minute),
         payment_type      |-> "penalty",
         rating            |-> "poor",
         reason_code       |-> "mttr_exceeded"]

Reward(severity, mttr) ==
    LET cfg    == SLA_CONFIG[severity]
        rating == Rating(PerformanceRatio(mttr, cfg.threshold_minutes))
    IN  [status            |-> "met",
         mttr_minutes      |-> mttr,
         threshold_minutes |-> cfg.threshold_minutes,
         amount            |-> (cfg.reward_base * Multiplier[rating]) \div 100,
         payment_type      |-> "reward",
         rating            |-> rating,
         reason_code       |-> ReasonCode[rating]]

Calculate(severity, mttr) ==
    IF Violated(severity, mttr) THEN Penalty(severity, mttr)
                                ELSE Reward(severity, mttr)

-----------------------------------------------------------------------------
(* The contract's wire codes.  The adapter forwards no reason_code, so the *)
(* decoded result has none.                                                *)

ContractStatus(status)   == IF status = "violated" THEN "viol" ELSE "met"
ContractPayment(payment) == IF payment = "penalty" THEN "pen" ELSE "rew"
ContractRating ==
    [exceptional |-> "top", excellent |-> "high", good |-> "good", poor |-> "poor"]

\* SLAContractAdapter.calculate_sla
ContractResult(severity, mttr) ==
    LET local == Calculate(severity, mttr)
    IN  [status            |-> ContractStatus(local.status),
         mttr_minutes      |-> local.mttr_minutes,
         threshold_minutes |-> local.threshold_minutes,
         amount            |-> local.amount,
         payment_type      |-> ContractPayment(local.payment_type),
         rating            |-> ContractRating[local.rating]]

\* translate_contract_result
Translate(raw) ==
    [status            |-> IF raw.status = "viol" THEN "violated" ELSE "met",
     mttr_minutes      |-> raw.mttr_minutes,
     threshold_minutes |-> raw.threshold_minutes,
     amount            |-> raw.amount,
     payment_type      |-> IF raw.payment_type = "pen" THEN "penalty" ELSE "reward",
     rating            |-> [top |-> "exceptional", high |-> "excellent",
                            good |-> "good", poor |-> "poor"][raw.rating]]

\* What resolve_outage and recompute_sla hand to the SLA repository.
SettledResult(severity, mttr) == Translate(ContractResult(severity, mttr))

SLAResult ==
    [status : {"met", "violated"}, mttr_minutes : Int, threshold_minutes : Nat,
     amount : Int, payment_type : {"reward", "penalty"},
     rating : {"exceptional", "excellent", "good", "poor"}]

=============================================================================
