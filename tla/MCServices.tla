---------------------------- MODULE MCServices -----------------------------
(* Instance of Services for TLC: the pay and the fees. *)
EXTENDS Services

\* A flat pay and an hourly one that does not come out even; fees in percent,
\* of both kinds, and one above the whole pay.
MCPayTerms ==
  {[pay_type |-> "FLAT", pay_cents |-> 103, minutes |-> 60],
   [pay_type |-> "HOURLY", pay_cents |-> 131, minutes |-> 50]}
MCFeeRows ==
  {[percent_bps |-> 1500, fixed_cents |-> 0],
   [percent_bps |-> 1250, fixed_cents |-> 30],
   [percent_bps |-> 0, fixed_cents |-> 105]}
=============================================================================
