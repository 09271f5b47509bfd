------------------------------ MODULE MCNetworkFront ------------------------------
(* The network front for TLC: three connections, one worker and two permits, so   *)
(* that a connection can be refused while another one waits in the channel.       *)
EXTENDS NetworkFront
=====================================================================================
