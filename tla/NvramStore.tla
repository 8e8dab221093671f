------------------------------ MODULE NvramStore ------------------------------
(***************************************************************************)
(* What the nvram tool promises to whoever runs one command at a time: a   *)
(* store of variables with a working copy, which every "set" and "unset"   *)
(* changes at once, and a durable copy, which "commit" replaces as a       *)
(* whole.  Variables that do not fit may be dropped, and a power loss      *)
(* returns to the durable copy; only a power loss during a commit may      *)
(* destroy it, or damage it so that the next command finds and keeps some  *)
(* variables or other.  Module Nvram implements this with a staging file   *)
(* and a flash partition.                                                  *)
(***************************************************************************)
EXTENDS Integers, FiniteSetsExt, Functions, TLC

CONSTANTS
  Names,        \* names of variables
  Specials,     \* the sdram_* names, which the header of the image also holds
  Values,       \* their values (texts)
  NameLen,      \* strlen of a name
  ValLen,       \* strlen of a value
  Canon,        \* the text a value has after a trip through the header
  Default,      \* the value of a special the header holds by default
  Space,        \* size of the partition behind the header's offset
  Torn,         \* a copy that a power loss left without a usable image
  Damaged       \* one that a power loss left with a part of its data

VARIABLES visible, durable, saving
svars == <<visible, durable, saving>>

HeaderSize == 20

\* "name=value\0"
Cost(n, v) == NameLen[n] + 1 + ValLen[v] + 1

\* all of m, its header and a double NUL fit the partition
Fits(m) == HeaderSize + MapThenSumSet(LAMBDA n : Cost(n, m[n]), DOMAIN m) + 2 <= Space

\* what reads back when of m the tuples D are stored: a special without a
\* tuple has the value the header holds
Stored(m, D) ==
  LET header == IF Specials \subseteq DOMAIN m
                  THEN [n \in Specials |-> Canon[m[n]]]
                  ELSE [n \in Specials |-> Default]
  IN Restrict(m, D) @@ header

Maps == UNION {[D -> Values] : D \in SUBSET Names}

StoreInit ==
  /\ durable \in Maps
  /\ visible = durable
  /\ saving = FALSE

\* all of m is stored if it fits, and some part that fits otherwise
Results(m) ==
  IF Fits(m)
    THEN {Stored(m, DOMAIN m)}
    ELSE {Stored(m, D) : D \in {E \in SUBSET DOMAIN m : Fits(Restrict(m, E))}}

Update(m) == visible' \in Results(m) /\ UNCHANGED <<durable, saving>>

\* the variables a command finds in the working copy
Finds == IF visible = Damaged THEN Maps ELSE {visible}

SetVar(n, v) == visible # Torn /\ \E m \in Finds : Update((n :> v) @@ m)

UnsetVar(n) == visible # Torn /\ \E m \in Finds : Update(Restrict(m, DOMAIN m \ {n}))

\* a commit first writes the working copy anew
Rewrite == visible # Torn /\ \E m \in Finds : Update(m)

BeginSave ==
  /\ ~saving
  /\ saving' = TRUE
  /\ UNCHANGED <<visible, durable>>

EndSave ==
  /\ saving
  /\ saving' = FALSE
  /\ durable' = visible
  /\ UNCHANGED visible

PowerLoss ==
  /\ durable' \in {durable} \cup (IF saving THEN {visible, Torn, Damaged} ELSE {})
  /\ visible' = durable'
  /\ saving' = FALSE

StoreNext ==
  \/ \E n \in Names, v \in Values : SetVar(n, v)
  \/ \E n \in Names : UnsetVar(n)
  \/ Rewrite
  \/ BeginSave
  \/ EndSave
  \/ PowerLoss

StoreSpec == StoreInit /\ [][StoreNext]_svars
===============================================================================
