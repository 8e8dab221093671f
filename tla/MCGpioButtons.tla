---------------------------- MODULE MCGpioButtons ----------------------------
EXTENDS GpioButtons, TLC

CONSTANTS w, v, k, s

MCIndex == (k :> 0) @@ (s :> 1)

\* each driver with one worker, and the interrupt driver with two
MCBoards ==
  {[polled |-> TRUE, workers |-> {w}, edges |-> 4],
   [polled |-> FALSE, workers |-> {w}, edges |-> 3],
   [polled |-> FALSE, workers |-> {w, v}, edges |-> 1]}
===============================================================================
