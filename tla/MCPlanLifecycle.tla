-------------------------- MODULE MCPlanLifecycle --------------------------
(* PlanLifecycle on small instances.                                        *)
EXTENDS PlanLifecycle, TLC

CONSTANTS cron, push

\* The tickers run the same code and nothing names one of them.
TickerSymmetry == Permutations(Ticker)
=============================================================================
