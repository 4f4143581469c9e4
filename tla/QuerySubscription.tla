-------------------------- MODULE QuerySubscription --------------------------
(***************************************************************************)
(* The query subscription: an interval that polls a query, a predicate     *)
(* that compares the result with the previous one, and a window of recent  *)
(* poll cycles whose items are not emitted again.                          *)
(*                                                                         *)
(* A step is one macrotask of the event loop: a poll starts, its query     *)
(* settles, its predicate settles, and the application calls a method      *)
(* between any two of them.  A result is the set of its items.             *)
(***************************************************************************)
EXTENDS Naturals

CONSTANTS
  Item,             \* what the query can return
  NoItem,
  Poll,             \* bound: polls in flight at once
  Window            \* trackingWindow

ASSUME WindowAssumption == Window \in Nat
ASSUME ItemAssumption == NoItem \notin Item

VARIABLES
  custom,         \* options.predicate: it may emit any of the items, or fail
  armed,          \* _pollHandle
  listening,      \* somebody listens to 'update'
  pollLock,
  predicateLock,
  state,
  cycle,          \* _currentPollCycle
  recent,         \* _recentEmittedItems: cycle -> items
  poll,           \* the state of each poll in flight
  age,            \* history: cycles since each item was emitted, at most Window
  seen,           \* history: items emitted since the last cancel()
  repeated,       \* history: items emitted twice within the window
  overtaken       \* history: the last cancel() left a poll in flight

lockVars == <<pollLock, predicateLock>>
windowVars == <<cycle, recent>>
historyVars == <<age, seen, repeated, overtaken>>
vars == <<custom, armed, listening, lockVars, state, windowVars, poll, historyVars>>

NoState == {NoItem}  \* _state is undefined
States == (SUBSET Item) \cup {NoState}
Cycles == 0..Window
Phases == {"free", "querying", "comparing"}

FreePoll == [phase |-> "free", previous |-> NoState, current |-> NoState]

TypeOK ==
  /\ custom \in BOOLEAN
  /\ armed \in BOOLEAN
  /\ listening \in BOOLEAN
  /\ pollLock \in BOOLEAN
  /\ predicateLock \in BOOLEAN
  /\ state \in States
  /\ cycle \in Cycles
  /\ recent \in [Cycles -> SUBSET Item]
  /\ poll \in [Poll -> [phase : Phases, previous : States, current : States]]
  /\ age \in [Item -> Cycles]
  /\ seen \in SUBSET Item
  /\ repeated \in SUBSET Item
  /\ overtaken \in BOOLEAN

(* The constructor: the interval is armed, nobody listens yet. *)
Init ==
  /\ custom \in BOOLEAN
  /\ armed = TRUE
  /\ listening = FALSE
  /\ pollLock = FALSE
  /\ predicateLock = FALSE
  /\ state = NoState
  /\ cycle = 0
  /\ recent = [n \in Cycles |-> {}]
  /\ poll = [q \in Poll |-> FreePoll]
  /\ age = [i \in Item |-> Window]
  /\ seen = {}
  /\ repeated = {}
  /\ overtaken = FALSE

InFlight(q) == poll[q].phase # "free"

-------------------------------------------------------------------------------
(* The window of recently emitted items *)

(* The next slot of the ring, emptied. *)
AdvancePollCycle ==
  IF Window = 0 THEN UNCHANGED <<windowVars, age>> ELSE
  /\ cycle' = (cycle + 1) % Window
  /\ recent' = [recent EXCEPT ![(cycle + 1) % Window] = {}]
  /\ age' = [i \in Item |-> IF age[i] < Window THEN age[i] + 1 ELSE Window]

(* Mutant: the oldest cycle of the ring is not searched. *)
HasEmittedItemRecently(i) ==
  \E n \in 0..Window - 1 : n # (cycle + 1) % Window /\ i \in recent[n]

HasEmittedItem(i) == \E n \in 0..Window - 1 : i \in recent[n]

(* Items of the update that are not in the window are marked and emitted. *)
SafeEmit(items) ==
  LET new == {i \in items : ~HasEmittedItem(i)}
  IN /\ recent' = [recent EXCEPT ![cycle] = IF Window = 0 THEN @ ELSE @ \cup new]
     /\ age' = [i \in Item |-> IF i \in new THEN 0 ELSE age[i]]
     /\ seen' = seen \cup new
     /\ repeated' = repeated \cup {i \in new : age[i] < Window}

-------------------------------------------------------------------------------
(* poll() *)

(* The interval fires; without listeners or under a lock it does nothing. *)
Starts(q) ==
  /\ armed
  /\ ~pollLock /\ ~predicateLock /\ listening
  /\ poll[q] = FreePoll
  /\ pollLock' = TRUE
  /\ predicateLock' = TRUE
  /\ AdvancePollCycle
  /\ poll' = [poll EXCEPT ![q].phase = "querying"]
  /\ UNCHANGED <<custom, armed, listening, state, seen, repeated, overtaken>>

(* Mutant: the lock of the predicate is not released. *)
EndsLocked(q) ==
  /\ poll' = [poll EXCEPT ![q] = FreePoll]
  /\ predicateLock' = predicateLock
  /\ pollLock' = FALSE

(* finally: both locks are released, whoever holds them. *)
Ends(q) ==
  /\ poll' = [poll EXCEPT ![q] = FreePoll]
  /\ predicateLock' = FALSE
  /\ pollLock' = FALSE

QueryFails(q) ==
  /\ poll[q].phase = "querying"
  /\ Ends(q)
  /\ UNCHANGED <<custom, armed, listening, state, windowVars, historyVars>>

QueryUnchanged(q) ==
  /\ poll[q].phase = "querying"
  /\ state # NoState
  /\ Ends(q)
  /\ UNCHANGED <<custom, armed, listening, state, windowVars, historyVars>>

(* The result differs from the previous one: the predicate is awaited. *)
QueryReturns(q) ==
  /\ poll[q].phase = "querying"
  /\ \E current \in (SUBSET Item) \ {state} :
       poll' = [poll EXCEPT ![q] =
         [phase |-> "comparing", previous |-> state, current |-> current]]
  /\ UNCHANGED <<custom, armed, listening, lockVars, state, windowVars, historyVars>>

(* Mutant: the first result only sets the baseline. *)
PreviousItemsBaseline(q) ==
  IF poll[q].previous = NoState THEN poll[q].current ELSE poll[q].previous

PreviousItems(q) == IF poll[q].previous = NoState THEN {} ELSE poll[q].previous

(* What the predicate may choose to emit. *)
Updates(q) ==
  IF custom
  THEN SUBSET Item
  ELSE {poll[q].current \ PreviousItems(q)}

(* The state is stored before anything is emitted. *)
PredicateReturns(q) ==
  /\ poll[q].phase = "comparing"
  /\ state' = poll[q].current
  /\ \E items \in Updates(q) : SafeEmit(items)
  /\ Ends(q)
  /\ UNCHANGED <<custom, armed, listening, cycle, overtaken>>

PredicateFails(q) ==
  /\ custom
  /\ poll[q].phase = "comparing"
  /\ Ends(q)
  /\ UNCHANGED <<custom, armed, listening, state, windowVars, historyVars>>

-------------------------------------------------------------------------------
(* The application *)

(* Mutant: the lock of the predicate is released as well. *)
PauseUnlocked ==
  /\ armed
  /\ armed' = FALSE
  /\ pollLock' = FALSE
  /\ predicateLock' = FALSE
  /\ UNCHANGED <<custom, listening, state, windowVars, poll, historyVars>>

Pause ==
  /\ armed
  /\ armed' = FALSE
  /\ pollLock' = FALSE
  /\ UNCHANGED <<custom, listening, predicateLock, state, windowVars, poll, historyVars>>

Resume ==
  /\ ~armed
  /\ armed' = TRUE
  /\ UNCHANGED <<custom, listening, lockVars, state, windowVars, poll, historyVars>>

Listen ==
  /\ ~listening
  /\ listening' = TRUE
  /\ UNCHANGED <<custom, armed, lockVars, state, windowVars, poll, historyVars>>

Unlisten ==
  /\ listening
  /\ listening' = FALSE
  /\ UNCHANGED <<custom, armed, lockVars, state, windowVars, poll, historyVars>>

(* A poll in flight goes on, and finds the locks and the state reset. *)
Cancel ==
  /\ armed' = FALSE
  /\ listening' = FALSE
  /\ pollLock' = FALSE
  /\ predicateLock' = FALSE
  /\ state' = NoState
  /\ cycle' = 0
  /\ recent' = [n \in Cycles |-> {}]
  /\ age' = [i \in Item |-> Window]
  /\ seen' = {}
  /\ overtaken' = \E q \in Poll : InFlight(q)
  /\ UNCHANGED <<custom, repeated, poll>>

-------------------------------------------------------------------------------
QuerySettles(q) == QueryFails(q) \/ QueryUnchanged(q) \/ QueryReturns(q)
PredicateSettles(q) == PredicateReturns(q) \/ PredicateFails(q)

Next ==
  \/ \E q \in Poll : Starts(q) \/ QuerySettles(q) \/ PredicateSettles(q)
  \/ Pause \/ Resume \/ Listen \/ Unlisten \/ Cancel

Spec == Init /\ [][Next]_vars

(* The interval fires; queries settle (each is an HTTP call, with a timeout or
   an answer) and so do predicates.  The application does as it likes. *)
Fairness ==
  /\ WF_vars(\E q \in Poll : Starts(q))
  /\ \A q \in Poll : WF_vars(QuerySettles(q)) /\ WF_vars(PredicateSettles(q))

FairSpec == Spec /\ Fairness

-------------------------------------------------------------------------------
(* Properties *)

(* "We prevent further polling while we are processing the current poll"
   (QuerySubscription.ts:180): polls never overlap, pause() and resume() in the
   middle of one included; only cancel() in the middle of one can let the next
   life of the subscription overlap with it. *)
PollsDoNotOverlap ==
  ~overtaken => \A q, r \in Poll : InFlight(q) /\ InFlight(r) => q = r

(* No item is emitted twice within the tracking window, however polls fail,
   pause or overlap (QuerySubscription.ts:128). *)
NoRepeatWithinWindow == repeated = {}

(* Nothing is swallowed: with the default predicate, what the subscription
   remembers as the current state has been emitted, unless cancel() came in the
   middle of a poll (QuerySubscription.ts:43). *)
StateWasEmitted ==
  ~custom /\ ~overtaken /\ state # NoState => state \subseteq seen

Active == armed /\ listening

Polling == \E q \in Poll : InFlight(q)

(* No lock is left behind: a subscription that is armed and listened to polls
   again, whatever failed before. *)
PollsAgain == []<>(Active => Polling)
===============================================================================
