----------------------------- MODULE MCDashboard -----------------------------
(***************************************************************************)
(* Dashboard with a simulation of one worker that makes two transactions.  *)
(***************************************************************************)
EXTENDS Dashboard, TLC

CONSTANTS w1, r1

OneWorker == w1 :> r1
GatewayOrder == <<"HDFC", "SBI">>

=============================================================================
