------------------------------ MODULE RiskReport ------------------------------
(***************************************************************************)
(* The stress test of the risk assessment agent (agents/risk_assessment/   *)
(* agent.py).  Its other two cards are sums of points for limits that are  *)
(* passed, and are left out.                                               *)
(*                                                                         *)
(* Values are in thousandths of the account.  A portfolio is the equity of *)
(* the latest account row and its position rows; a position row has the    *)
(* columns that _load_portfolio_snapshot selects, and reading any other    *)
(* column of it gives 0, as dict.get(column, 0) does.                      *)
(***************************************************************************)
EXTENDS Integers, Sequences, SequencesExt, FiniteSetsExt

Column(row, name) == IF name \in DOMAIN row THEN row[name] ELSE 0
Total(rows, name) == FoldSeq(LAMBDA row, sum : Column(row, name) + sum, 0, rows)
Largest(rows, name) == IF rows = <<>> THEN 0 ELSE Max({Column(rows[i], name) : i \in DOMAIN rows})

(* The worst of the three scenarios, as a share of the account: the market *)
(* falls by a tenth or a fifth, the largest position by three tenths.      *)
WorstCase(exposure, largest, equity) ==
    (Max({exposure \div 10, exposure \div 5, (3 * largest) \div 10}) * 1000) \div Max({equity, 1})

StressScore(worst) == IF worst > 200 THEN 15 ELSE IF worst > 100 THEN 8 ELSE 0

(* _assess_stress_test sums a column that the query does not select. *)
StressTest(p) ==
    StressScore(WorstCase(Total(p.rows, "market_value"), Largest(p.rows, "market_value"), p.equity))

=============================================================================
