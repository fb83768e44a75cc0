------------------------------ MODULE MCForecasts ------------------------------
(* Instances of Forecasts for TLC: a price forecast for day 0, alone or after *)
(* a forecast for the day at hand that has no rule.                          *)
EXTENDS Forecasts, TLC

Price == [start |-> 0, days |-> 1, ruled |-> TRUE]
Today == [start |-> NoDay, days |-> 1, ruled |-> FALSE]
TwoHypotheses == { <<Price>>, <<Today, Price>> }

JobSymmetry == Permutations(Jobs) \cup Permutations(Entities)
=============================================================================
