----------------------------- MODULE GpioButtons -----------------------------
(***************************************************************************)
(* The button driver gpio-button-hotplug: buttons are polled and debounced *)
(* (gpio-keys-polled) or read in a threaded interrupt (gpio-keys); a       *)
(* change of state becomes an event, and a work item of the shared kernel  *)
(* workqueue formats and broadcasts it.                                    *)
(*                                                                         *)
(* Work items are started in the order they were queued, but a second      *)
(* worker starts the next item when the first sleeps in alloc_skb, or when *)
(* it runs on another CPU.  On one CPU without preemption the two halves   *)
(* of bh_event_add_var, formatting into the static buffer and copying it   *)
(* to the skb, are one step; on several they are two.  Of the variables of *)
(* an event the model keeps ACTION and BUTTON; times are left out, and so  *)
(* is module unloading.                                                    *)
(***************************************************************************)
EXTENDS Integers, Sequences, FiniteSets, Functions

CONSTANTS
  Keys, Switches,  \* buttons of type EV_KEY and EV_SW
  Index,           \* place of a button in pdata->buttons
  Mapped,          \* buttons whose code is in button_map
  Boards,          \* the boards: their driver, workers and bound on edges
  Threshold,       \* DIV_ROUND_UP(debounce_interval, poll_interval)
  Workers,
  MaxFails         \* bound on failing allocations

Buttons == Keys \cup Switches
ASSUME ButtonsAssumption ==
  /\ IsFiniteSet(Buttons)
  /\ Keys \cap Switches = {}
  /\ Mapped \subseteq Buttons
  /\ Index \in [Buttons -> Nat] /\ IsInjective(Index)
ASSUME ThresholdAssumption == Threshold \in Nat \ {0}

ASSUME BoardsAssumption ==
  /\ IsFiniteSet(Workers)
  /\ Boards \subseteq [polled : BOOLEAN, workers : SUBSET Workers, edges : Nat]
  /\ MaxFails \in Nat

VARIABLES
  board,       \* the board, which never changes
  input,       \* gpio value of each button, active_low applied
  edge,        \* an interrupt is latched
  setup,       \* probe of a button, and the value it has read
  device,      \* "probing", "up", "removed"
  last_state, count,
  handler,     \* irq thread of a button, and the value it has read
  queue,       \* events whose work is scheduled
  work,        \* what each worker does
  buf,         \* the static buffer of bh_event_add_var
  changes, fails,
  \* history
  next,        \* number of the next event
  streak,      \* consecutive polls that read the same value
  made,        \* value of the last event created
  reported,    \* last broadcast of each button
  lost,        \* buttons an event of which was lost: to a failed allocation, or
               \* garbled by a second worker
  raced        \* buttons two events of which overtook each other

ins == <<input, changes>>
poll == <<last_state, count, streak>>
irqs == <<edge, setup, handler, raced>>
wq == <<work, buf, reported>>
vars == <<board, ins, poll, irqs, wq, device, queue, fails, next, made, lost>>

Polled == board.polled          \* gpio-keys-polled, not gpio-keys
Smp == Cardinality(board.workers) > 1

NoText == <<"none", 0>>
NoWork == [pc |-> "idle", event |-> [button |-> 0, value |-> 0, id |-> 0], skb |-> <<>>]

Init ==
  /\ board \in Boards
  /\ input \in [Buttons -> {0, 1}]
  /\ edge = [b \in Buttons |-> FALSE]
  /\ setup = [b \in Buttons |-> [pc |-> "todo", value |-> 0]]
  /\ device = "probing"
  /\ last_state = [b \in Buttons |-> -1]
  /\ count = [b \in Buttons |-> 0]
  /\ handler = [b \in Buttons |-> [pc |-> "off", value |-> 0]]
  /\ queue = <<>>
  /\ work = [w \in Workers |-> NoWork]
  /\ buf = NoText
  /\ changes = 0 /\ fails = 0
  /\ next = 1
  /\ streak = [b \in Buttons |-> [value |-> -1, length |-> 0]]
  /\ made = [b \in Buttons |-> -1]
  /\ reported = [b \in Buttons |-> [value |-> -1, id |-> 0]]
  /\ lost = {}
  /\ raced = {}

-------------------------------------------------------------------------------
(* Events                                                                  *)

\* the buttons of B in the order of pdata->buttons
InTurn(B) ==
  [i \in 1 .. Cardinality(B) |->
     CHOOSE b \in B : Cardinality({c \in B : Index[c] <= Index[b]}) = i]

\* button_hotplug_event for every button of B that is mapped, one after the
\* other; those in failing get no memory for their event
CreateEvents(B, value, failing) ==
  LET known == B \cap Mapped
      kept == InTurn(known \ failing)
  IN /\ queue' = queue \o [i \in DOMAIN kept |->
                   [button |-> kept[i], value |-> value[kept[i]], id |-> next + i - 1]]
     /\ next' = next + Len(kept)
     /\ made' = [b \in Buttons |-> IF b \in known \ failing THEN value[b] ELSE made[b]]
     /\ lost' = lost \cup (known \cap failing)
     /\ fails' = fails + Cardinality(known \cap failing)
     /\ fails' <= MaxFails

\* an input changes; its edge is latched once the interrupt is requested
Change(b) ==
  /\ changes < board.edges
  /\ device # "removed"
  /\ changes' = changes + 1
  /\ input' = [input EXCEPT ![b] = 1 - @]
  /\ edge' = [edge EXCEPT ![b] = handler[b].pc # "off"]
  /\ UNCHANGED <<poll, setup, handler, raced, wq, device, queue, fails, next, made, lost>>

-------------------------------------------------------------------------------
(* gpio-keys-polled                                                        *)

Differs(b) == input[b] # last_state[b]

\* still counting
Counts(b) == count[b] < Threshold

\* Mutant of CheckState: the count survives a poll that reads the old state.
CheckStateKeep(b) ==
  [state |-> IF Differs(b) /\ ~Counts(b) THEN input[b] ELSE last_state[b],
   count |-> IF Differs(b) THEN IF Counts(b) THEN count[b] + 1 ELSE 0 ELSE count[b],
   event |-> Differs(b) /\ ~Counts(b) /\ (last_state[b] # -1 \/ b \in Switches)]

\* gpio_keys_polled_check_state of one button
CheckState(b) ==
  [state |-> IF Differs(b) /\ ~Counts(b) THEN input[b] ELSE last_state[b],
   count |-> IF Differs(b) /\ Counts(b) THEN count[b] + 1 ELSE 0,
   event |-> Differs(b) /\ ~Counts(b) /\ (last_state[b] # -1 \/ b \in Switches)]

Longer(b) ==
  IF streak[b].value = input[b]
    THEN [streak[b] EXCEPT !.length = IF @ > Threshold THEN @ ELSE @ + 1]
    ELSE [value |-> input[b], length |-> 1]

\* the poll in probe, which schedules the work, and then the work itself,
\* which schedules itself again until gpio_keys_remove cancels it
Poll ==
  /\ Polled
  /\ device # "removed"
  /\ device' = "up"
  /\ last_state' = [b \in Buttons |-> CheckState(b).state]
  /\ count' = [b \in Buttons |-> CheckState(b).count]
  /\ streak' = [b \in Buttons |-> Longer(b)]
  /\ \E failing \in SUBSET Buttons :
       CreateEvents({b \in Buttons : CheckState(b).event}, input, failing)
  /\ UNCHANGED <<ins, irqs, wq>>

-------------------------------------------------------------------------------
(* gpio-keys                                                               *)

\* request the interrupt of a button; a failure is only logged, and without
\* an interrupt number the rest of the loop's body is skipped
RequestIrq(b) ==
  /\ ~Polled
  /\ setup[b].pc = "todo"
  /\ \E ok \in BOOLEAN, skip \in BOOLEAN :
       /\ ok => ~skip
       /\ handler' = [handler EXCEPT ![b].pc = IF ok THEN "idle" ELSE "off"]
       /\ setup' = [setup EXCEPT ![b].pc =
                      IF b \in Switches /\ ~skip THEN "read" ELSE "done"]
  /\ UNCHANGED <<ins, poll, edge, raced, wq, device, queue, fails, next, made, lost>>

\* the initial event of a switch: its value is read, and then the event is
\* created, which may sleep for memory
ProbeRead(b) ==
  /\ setup[b].pc = "read"
  /\ setup' = [setup EXCEPT ![b] = [pc |-> "value", value |-> input[b]]]
  /\ UNCHANGED <<ins, poll, edge, handler, raced, wq, device, queue, fails, next, made, lost>>

ProbeEvent(b) ==
  /\ setup[b].pc = "value"
  /\ setup' = [setup EXCEPT ![b] = [pc |-> "done", value |-> 0]]
  /\ \E failing \in SUBSET {b} : CreateEvents({b}, [c \in {b} |-> setup[b].value], failing)
  /\ UNCHANGED <<ins, poll, edge, handler, raced, wq, device>>

Probed ==
  /\ ~Polled
  /\ device = "probing"
  /\ \A b \in Buttons : setup[b].pc = "done"
  /\ device' = "up"
  /\ UNCHANGED <<ins, poll, irqs, wq, queue, fails, next, made, lost>>

\* button_handle_irq, in the interrupt's thread: read, then create the event
IrqRead(b) ==
  /\ handler[b].pc = "idle" /\ edge[b]
  /\ edge' = [edge EXCEPT ![b] = FALSE]
  /\ handler' = [handler EXCEPT ![b] = [pc |-> "value", value |-> input[b]]]
  /\ UNCHANGED <<ins, poll, setup, raced, wq, device, queue, fails, next, made, lost>>

\* Mutant of IrqEvent: an edge that came meanwhile is dropped.
IrqEventAck(b) ==
  /\ handler[b].pc = "value"
  /\ handler' = [handler EXCEPT ![b] = [pc |-> "idle", value |-> 0]]
  /\ edge' = [edge EXCEPT ![b] = FALSE]
  /\ \E failing \in SUBSET {b} : CreateEvents({b}, [c \in {b} |-> handler[b].value], failing)
  /\ raced' = IF setup[b].pc = "value" THEN raced \cup {b} ELSE raced
  /\ UNCHANGED <<ins, poll, setup, wq, device>>

IrqEvent(b) ==
  /\ handler[b].pc = "value"
  /\ handler' = [handler EXCEPT ![b] = [pc |-> "idle", value |-> 0]]
  /\ \E failing \in SUBSET {b} : CreateEvents({b}, [c \in {b} |-> handler[b].value], failing)
  /\ raced' = IF setup[b].pc = "value" THEN raced \cup {b} ELSE raced
  /\ UNCHANGED <<ins, poll, edge, setup, wq, device>>

\* gpio_keys_remove cancels the poll and waits for it; the interrupts are
\* freed after it (devm), which waits for their threads
gpio_keys_remove ==
  /\ device = "up"
  /\ \A b \in Buttons : handler[b].pc # "value"
  /\ edge' = [b \in Buttons |-> FALSE]
  /\ handler' = [b \in Buttons |-> [pc |-> "off", value |-> 0]]
  /\ device' = "removed"
  /\ UNCHANGED <<ins, poll, setup, raced, wq, queue, fails, next, made, lost>>

-------------------------------------------------------------------------------
(* button_hotplug_work                                                     *)

others == <<ins, poll, irqs, device>>

\* a worker starts the oldest work item
Take(w) ==
  /\ work[w].pc = "idle" /\ queue # <<>>
  /\ work' = [work EXCEPT ![w] = [pc |-> "alloc", event |-> Head(queue), skb |-> <<>>]]
  /\ queue' = Tail(queue)
  /\ UNCHANGED <<others, buf, reported, fails, next, made, lost>>

AllocSkb(w) ==
  /\ work[w].pc = "alloc"
  /\ \/ /\ work' = [work EXCEPT ![w].pc = "action"]
        /\ UNCHANGED <<fails, lost>>
     \/ /\ fails < MaxFails
        /\ fails' = fails + 1
        /\ lost' = lost \cup {work[w].event.button}
        /\ work' = [work EXCEPT ![w] = NoWork]
  /\ UNCHANGED <<others, buf, reported, queue, next, made>>

\* the text the worker adds next, and what it does after that
Text(w) == IF work[w].pc \in {"action", "action_copy"}
             THEN <<"action", work[w].event.value>>
             ELSE <<"button", work[w].event.button>>
After(pc) == IF pc \in {"action", "action_copy"} THEN "button" ELSE "send"

\* bh_event_add_var on one CPU
AddVar(w) ==
  /\ ~Smp
  /\ work[w].pc \in {"action", "button"}
  /\ buf' = Text(w)
  /\ work' = [work EXCEPT ![w].pc = After(@), ![w].skb = Append(@, Text(w))]
  /\ UNCHANGED <<others, reported, queue, fails, next, made, lost>>

\* with several, other workers run between its vsnprintf ...
Format(w) ==
  /\ Smp
  /\ work[w].pc \in {"action", "button"}
  /\ buf' = Text(w)
  /\ work' = [work EXCEPT ![w].pc = IF @ = "action" THEN "action_copy" ELSE "button_copy"]
  /\ UNCHANGED <<others, reported, queue, fails, next, made, lost>>

\* ... and its strcpy
Copy(w) ==
  /\ work[w].pc \in {"action_copy", "button_copy"}
  /\ work' = [work EXCEPT ![w].pc = After(@), ![w].skb = Append(@, buf)]
  /\ UNCHANGED <<others, buf, reported, queue, fails, next, made, lost>>

\* what a listener reads in an skb
Message(b, value) == <<<<"action", value>>, <<"button", b>>>>
Says(skb, b) == {value \in {0, 1} : skb = Message(b, value)}

\* broadcast_uevent: listeners take the event for what its skb says; it may be
\* older than what they have heard, or not what happened
Send(w) ==
  /\ work[w].pc = "send"
  /\ LET event == work[w].event
         skb == work[w].skb
         named == {b \in Buttons : Says(skb, b) # {}}
     IN /\ reported' = [b \in Buttons |->
                          IF b \in named THEN [value |-> CHOOSE value \in Says(skb, b) : TRUE,
                                              id |-> event.id]
                          ELSE reported[b]]
        /\ lost' = IF skb = Message(event.button, event.value) THEN lost
                   ELSE lost \cup named \cup {event.button}
        /\ raced' = raced \cup {b \in named : reported[b].id > event.id}
  /\ work' = [work EXCEPT ![w] = NoWork]
  /\ UNCHANGED <<ins, poll, edge, setup, handler, device, buf, queue, fails, next, made>>

-------------------------------------------------------------------------------
Worker(w) == Take(w) \/ AllocSkb(w) \/ AddVar(w) \/ Format(w) \/ Copy(w) \/ Send(w)

Irq(b) == RequestIrq(b) \/ ProbeRead(b) \/ ProbeEvent(b) \/ IrqRead(b) \/ IrqEvent(b)

Next ==
  /\ \/ \E b \in Buttons : Change(b) \/ Irq(b)
     \/ Poll
     \/ Probed
     \/ gpio_keys_remove
     \/ \E w \in board.workers : Worker(w)
  /\ UNCHANGED board

Spec == Init /\ [][Next]_vars

\* the delayed work, the interrupt threads and the workers are scheduled;
\* nobody has to press a button or to remove the driver
FairSpec ==
  /\ Spec
  /\ WF_vars(Poll /\ UNCHANGED board)
  /\ WF_vars(Probed /\ UNCHANGED board)
  /\ \A b \in Buttons : WF_vars(Irq(b) /\ UNCHANGED board)
  /\ \A w \in Workers : WF_vars(w \in board.workers /\ Worker(w) /\ UNCHANGED board)

-------------------------------------------------------------------------------
(* Properties                                                              *)

Values == {0, 1}
Events == [button : Buttons, value : Values, id : Nat]
Texts == {"action"} \X Values \cup {"button"} \X Buttons
Pcs == {"idle", "alloc", "action", "action_copy", "button", "button_copy", "send"}

\* The variables have their types; check_state counts no further than the
\* threshold.
TypeOK ==
  /\ board \in Boards
  /\ input \in [Buttons -> Values]
  /\ edge \in [Buttons -> BOOLEAN]
  /\ setup \in [Buttons -> [pc : {"todo", "read", "value", "done"}, value : Values]]
  /\ handler \in [Buttons -> [pc : {"off", "idle", "value"}, value : Values]]
  /\ device \in {"probing", "up", "removed"}
  /\ last_state \in [Buttons -> Values \cup {-1}]
  /\ count \in [Buttons -> 0 .. Threshold]
  /\ queue \in Seq(Events)
  /\ work \in [Workers -> [pc : Pcs, event : Events \cup {NoWork.event},
                           skb : Seq(Texts \cup {NoText})]]
  /\ \A w \in Workers : work[w].pc # "idle" => work[w].event \in Events
  /\ buf \in Texts \cup {NoText}
  /\ changes \in Nat /\ fails \in 0 .. MaxFails /\ next \in Nat
  /\ streak \in [Buttons -> [value : Values \cup {-1}, length : 0 .. Threshold + 1]]
  /\ made \in [Buttons -> Values \cup {-1}]
  /\ reported \in [Buttons -> [value : Values \cup {-1}, id : Nat]]
  /\ lost \subseteq Buttons /\ raced \subseteq Buttons

\* Once a button has a state, check_state counts polls in a row that read the
\* other one, and no reading differs from the state for longer than it counts.
StreakInv ==
  \A b \in Buttons :
    /\ streak[b].value = -1 => last_state[b] = -1
    /\ last_state[b] # -1 /\ count[b] > 0 =>
         streak[b].value # last_state[b] /\ count[b] <= streak[b].length
    /\ streak[b].value # last_state[b] => streak[b].length <= count[b]

\* Debouncing (gpio-button-hotplug.c:292-306): once a button has a state, a
\* poll changes it only when this and the Threshold polls before it read the
\* new value; and as many equal readings always bring it to that value.
Debounced ==
  [][\A b \in Buttons :
       /\ last_state[b] # -1 /\ last_state'[b] # last_state[b] =>
            streak'[b].length > Threshold
       /\ streak'[b].length > Threshold => last_state'[b] = streak'[b].value]_vars

\* The last broadcast of a button agrees with its input, or the button has
\* nothing to say: a key that never left its first state, a code that is not
\* in button_map, a button without interrupt.
Told(b) ==
  \/ reported[b].value = input[b]
  \/ made[b] = -1 /\ (Polled => b \in Keys \/ b \notin Mapped)
  \/ ~Polled /\ handler[b].pc = "off"

\* When the inputs rest, the last broadcast of a button agrees with its
\* input, in both drivers and with one worker or several.  The exceptions are a
\* removed driver; an event lost to a failed allocation
\* (gpio-button-hotplug.c:187, 219; the state is taken over all the same, :303)
\* or garbled, because a second worker wrote to the static buffer of
\* bh_event_add_var (:116); and events that overtook each other: the initial
\* one of a switch was created from a reading older than that of an interrupt
\* (:582), or a second worker was faster.
FinallyTold ==
  <>[](device = "removed" \/ \A b \in Buttons : b \in lost \cup raced \/ Told(b))

===============================================================================
