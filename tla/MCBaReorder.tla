----------------------------- MODULE MCBaReorder -----------------------------
EXTENDS BaReorder

World(first, last) ==
  [first |-> first, last |-> last, pool |-> BAWinSize, aggregated |-> {},
   eap |-> {}, dups |-> FALSE, sessions |-> 0]

MCScenarios ==
  {[World(14, 18) EXCEPT !.dups = TRUE, !.eap = {17}],
   [World(14, 18) EXCEPT !.pool = 1, !.dups = TRUE],
   [World(13, 17) EXCEPT !.aggregated = {14, 15}],
   [World(14, 16) EXCEPT !.aggregated = {15}, !.sessions = 1]}
===============================================================================
