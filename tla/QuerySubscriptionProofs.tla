------------------------ MODULE QuerySubscriptionProofs ------------------------
(***************************************************************************)
(* Theorems about QuerySubscription, for every set of items and every      *)
(* tracking window: polls do not overlap and leave no lock behind, no item *)
(* is emitted twice within the window, and none is swallowed.              *)
(***************************************************************************)
EXTENDS QuerySubscription, TLAPS

PollType == [phase : Phases, previous : States, current : States]

-------------------------------------------------------------------------------
(* Type correctness *)

(* The ring has Window slots, and cycle is one of them. *)
CycleInv == Window # 0 => cycle \in 0..Window - 1

LEMMA FreeType == FreePoll \in PollType /\ FreePoll.phase = "free"
  <1>1. "free" \in Phases
    BY DEF Phases
  <1>2. NoState \in States
    BY DEF States
  <1> QED
    BY <1>1, <1>2 DEF FreePoll, PollType

LEMMA NextSlot ==
  ASSUME Window # 0, NEW n \in 0..Window - 1
  PROVE  (n + 1) % Window = IF n + 1 = Window THEN 0 ELSE n + 1
  BY WindowAssumption

(* What the start of a poll does to the window. *)
LEMMA AdvanceFacts ==
  ASSUME TypeOK, CycleInv, Window # 0, AdvancePollCycle
  PROVE  /\ cycle' = IF cycle + 1 = Window THEN 0 ELSE cycle + 1
         /\ cycle' \in 0..Window - 1
         /\ recent' = [recent EXCEPT ![cycle'] = {}]
         /\ age' = [i \in Item |-> IF age[i] < Window THEN age[i] + 1 ELSE Window]
  <1>1. cycle' = IF cycle + 1 = Window THEN 0 ELSE cycle + 1
    BY NextSlot DEF AdvancePollCycle, CycleInv
  <1>2. cycle' \in 0..Window - 1
    BY <1>1, WindowAssumption DEF CycleInv
  <1> QED
    BY <1>1, <1>2 DEF AdvancePollCycle

LEMMA TypeInit == Init => TypeOK /\ CycleInv
  <1>1. FreePoll \in PollType
    BY FreeType
  <1>2. NoState \in States /\ 0 \in Cycles /\ Window \in Cycles
    BY WindowAssumption DEF States, Cycles
  <1>3. Init => CycleInv
    BY WindowAssumption DEF Init, CycleInv
  <1> QED
    BY <1>1, <1>2, <1>3 DEF Init, TypeOK, PollType

LEMMA EndsType ==
  ASSUME TypeOK, NEW q \in Poll, Ends(q)
  PROVE  /\ poll' \in [Poll -> PollType]
         /\ poll'[q] = FreePoll
         /\ \A r \in Poll : r # q => poll'[r] = poll[r]
         /\ pollLock' = FALSE /\ predicateLock' = FALSE
  BY FreeType DEF TypeOK, Ends, PollType

LEMMA SafeEmitType ==
  ASSUME TypeOK, NEW items \in SUBSET Item, SafeEmit(items)
  PROVE  /\ recent' \in [Cycles -> SUBSET Item]
         /\ age' \in [Item -> Cycles]
         /\ seen' \in SUBSET Item
         /\ repeated' \in SUBSET Item
  <1>1. 0 \in Cycles
    BY WindowAssumption DEF Cycles
  <1> DEFINE new == {i \in items : ~HasEmittedItem(i)}
  <1>2. recent' \in [Cycles -> SUBSET Item]
    BY DEF SafeEmit, TypeOK
  <1>3. age' \in [Item -> Cycles]
    BY <1>1 DEF SafeEmit, TypeOK
  <1> QED
    BY <1>2, <1>3 DEF SafeEmit, TypeOK

(* A poll that compares has a result. *)
ComparingInv ==
  \A q \in Poll : poll[q].phase = "comparing" => poll[q].current \in SUBSET Item

LEMMA TypeStep ==
  TypeOK /\ CycleInv /\ ComparingInv /\ [Next]_vars
    => (TypeOK /\ CycleInv /\ ComparingInv)'
  <1> SUFFICES ASSUME TypeOK, CycleInv, ComparingInv, [Next]_vars
               PROVE  (TypeOK /\ CycleInv /\ ComparingInv)'
    OBVIOUS
  <1>1. ASSUME NEW q \in Poll, Starts(q) PROVE (TypeOK /\ CycleInv /\ ComparingInv)'
    <2>1. /\ cycle' \in Cycles /\ CycleInv'
          /\ recent' \in [Cycles -> SUBSET Item]
          /\ age' \in [Item -> Cycles]
      <3>1. CASE Window = 0
        BY <1>1, <3>1 DEF Starts, AdvancePollCycle, windowVars, TypeOK, CycleInv
      <3>2. CASE Window # 0
        <4>1. /\ cycle' \in 0..Window - 1
              /\ recent' = [recent EXCEPT ![cycle'] = {}]
              /\ age' = [i \in Item |-> IF age[i] < Window THEN age[i] + 1 ELSE Window]
          BY <1>1, <3>2, AdvanceFacts DEF Starts
        <4>2. age' \in [Item -> Cycles]
          <5>1. \A i \in Item : age[i] \in 0..Window
            BY DEF TypeOK, Cycles
          <5> QED
            BY <4>1, <5>1, WindowAssumption DEF Cycles
        <4> QED
          BY <4>1, <4>2, WindowAssumption DEF TypeOK, Cycles, CycleInv
      <3> QED
        BY <3>1, <3>2
    <2>2. poll' = [poll EXCEPT ![q].phase = "querying"]
      BY <1>1 DEF Starts
    <2>3. poll' \in [Poll -> PollType] /\ ComparingInv'
      <3>1. "querying" \in Phases
        BY DEF Phases
      <3> QED
        BY <2>2, <3>1 DEF TypeOK, PollType, ComparingInv
    <2> QED
      BY <1>1, <2>1, <2>3 DEF Starts, TypeOK, PollType
  <1>2. ASSUME NEW q \in Poll, QueryFails(q) \/ QueryUnchanged(q) \/ PredicateFails(q)
        PROVE  (TypeOK /\ CycleInv /\ ComparingInv)'
    <2>1. Ends(q)
          /\ UNCHANGED <<custom, armed, listening, state, windowVars, historyVars>>
      BY <1>2 DEF QueryFails, QueryUnchanged, PredicateFails
    <2>2. ComparingInv'
      BY <2>1, EndsType, FreeType DEF ComparingInv
    <2> QED
      BY <2>1, <2>2, EndsType DEF TypeOK, PollType, CycleInv, windowVars, historyVars
  <1>3. ASSUME NEW q \in Poll, QueryReturns(q)
        PROVE  (TypeOK /\ CycleInv /\ ComparingInv)'
    <2>1. PICK current \in SUBSET Item :
            poll' = [poll EXCEPT ![q] =
              [phase |-> "comparing", previous |-> state, current |-> current]]
      BY <1>3 DEF QueryReturns
    <2>2. [phase |-> "comparing", previous |-> state, current |-> current] \in PollType
      BY DEF PollType, Phases, States, TypeOK
    <2>3. poll' \in [Poll -> PollType]
      BY <2>1, <2>2 DEF TypeOK, PollType
    <2>4. ComparingInv'
      BY <2>1 DEF ComparingInv, TypeOK
    <2> QED
      BY <1>3, <2>3, <2>4
      DEF QueryReturns, TypeOK, PollType, CycleInv, lockVars, windowVars, historyVars
  <1>4. ASSUME NEW q \in Poll, PredicateReturns(q)
        PROVE  (TypeOK /\ CycleInv /\ ComparingInv)'
    <2>1. poll[q].current \in SUBSET Item
      BY <1>4 DEF PredicateReturns, ComparingInv
    <2>2. PICK items \in Updates(q) : SafeEmit(items)
      BY <1>4 DEF PredicateReturns
    <2>3. items \in SUBSET Item
      BY <2>1, <2>2 DEF Updates
    <2>4. Ends(q) /\ state' = poll[q].current
          /\ UNCHANGED <<custom, armed, listening, cycle, overtaken>>
      BY <1>4 DEF PredicateReturns
    <2>5. state' \in States
      BY <2>1, <2>4 DEF States
    <2>6. ComparingInv'
      BY <2>4, EndsType, FreeType DEF ComparingInv
    <2>7. /\ recent' \in [Cycles -> SUBSET Item]
          /\ age' \in [Item -> Cycles]
          /\ seen' \in SUBSET Item
          /\ repeated' \in SUBSET Item
      BY <2>2, <2>3, SafeEmitType
    <2> QED
      BY <2>4, <2>5, <2>6, <2>7, EndsType DEF TypeOK, PollType, CycleInv
  <1>5. CASE Pause \/ Resume \/ Listen \/ Unlisten
    BY <1>5
    DEF Pause, Resume, Listen, Unlisten, TypeOK, CycleInv, ComparingInv, lockVars,
        windowVars, historyVars
  <1>6. CASE Cancel
    <2>1. 0 \in Cycles /\ Window \in Cycles /\ (Window # 0 => 0 \in 0..Window - 1)
      BY WindowAssumption DEF Cycles
    <2>2. overtaken' \in BOOLEAN
      <3>1. overtaken' = \E q \in Poll : InFlight(q)
        BY <1>6 DEF Cancel
      <3>2. (\E q \in Poll : InFlight(q)) \in BOOLEAN
        OBVIOUS
      <3> QED
        BY <3>1, <3>2
    <2>3. NoState \in States
      BY DEF States
    <2> QED
      BY <1>6, <2>1, <2>2, <2>3 DEF Cancel, TypeOK, CycleInv, ComparingInv
  <1>7. CASE UNCHANGED vars
    BY <1>7
    DEF vars, TypeOK, CycleInv, ComparingInv, lockVars, windowVars, historyVars
  <1> QED
    BY <1>1, <1>2, <1>3, <1>4, <1>5, <1>6, <1>7
    DEF Next, QuerySettles, PredicateSettles

LEMMA ComparingInit == Init => ComparingInv
  BY FreeType DEF Init, ComparingInv

(* Every variable of the subscription keeps its type. *)
THEOREM TypeCorrect == Spec => []TypeOK
  BY TypeInit, ComparingInit, TypeStep, PTL DEF Spec

-------------------------------------------------------------------------------
(* Polls do not overlap *)

(* A poll in flight holds the predicate's lock, which pause() leaves alone. *)
LockInv ==
  ~overtaken =>
    /\ \A q, r \in Poll : InFlight(q) /\ InFlight(r) => q = r
    /\ \A q \in Poll : InFlight(q) => predicateLock

LEMMA LockInit == Init => LockInv
  BY FreeType DEF Init, LockInv, InFlight

LEMMA LockStep == TypeOK /\ LockInv /\ [Next]_vars => LockInv'
  <1> SUFFICES ASSUME TypeOK, LockInv, [Next]_vars PROVE LockInv'
    OBVIOUS
  <1>1. ASSUME NEW q \in Poll, Starts(q) PROVE LockInv'
    <2>1. ~predicateLock /\ predicateLock' /\ overtaken' = overtaken
      BY <1>1 DEF Starts
    <2>2. \A r \in Poll : r # q => InFlight(r)' = InFlight(r)
      BY <1>1 DEF Starts, InFlight, TypeOK
    <2> QED
      BY <2>1, <2>2 DEF LockInv
  <1>2. ASSUME NEW q \in Poll, InFlight(q), Ends(q), overtaken' = overtaken
        PROVE  LockInv'
    <2>1. ~InFlight(q)' /\ \A r \in Poll : r # q => poll'[r] = poll[r]
      BY <1>2, EndsType, FreeType DEF InFlight
    <2>2. \A r \in Poll : InFlight(r)' => InFlight(r) /\ r # q
      BY <2>1 DEF InFlight
    <2>3. ~overtaken => \A r \in Poll : ~InFlight(r)'
      BY <1>2, <2>2 DEF LockInv
    <2> QED
      BY <1>2, <2>3 DEF LockInv
  <1>3. ASSUME NEW q \in Poll, QueryReturns(q) PROVE LockInv'
    <2>1. InFlight(q) /\ UNCHANGED <<predicateLock, overtaken>>
      BY <1>3 DEF QueryReturns, InFlight, lockVars, historyVars
    <2>2. \A r \in Poll : r # q => InFlight(r)' = InFlight(r)
      BY <1>3 DEF QueryReturns, InFlight, TypeOK
    <2>3. \A r \in Poll : InFlight(r)' => InFlight(r)
      BY <2>1, <2>2
    <2> QED
      BY <2>1, <2>3 DEF LockInv
  <1>4. CASE Pause \/ Resume \/ Listen \/ Unlisten \/ UNCHANGED vars
    <2>1. UNCHANGED <<poll, predicateLock, overtaken>>
      BY <1>4 DEF Pause, Resume, Listen, Unlisten, vars, lockVars, historyVars
    <2> QED
      BY <2>1 DEF LockInv, InFlight
  <1>5. CASE Cancel
    <2>1. UNCHANGED poll /\ (overtaken' <=> \E q \in Poll : InFlight(q))
      BY <1>5 DEF Cancel
    <2>2. \A q \in Poll : InFlight(q)' <=> InFlight(q)
      BY <2>1 DEF InFlight
    <2> QED
      BY <2>1, <2>2 DEF LockInv
  <1> QED
    BY <1>1, <1>2, <1>3, <1>4, <1>5
    DEF Next, QuerySettles, PredicateSettles, QueryFails, QueryUnchanged,
        PredicateReturns, PredicateFails, InFlight, historyVars

(* Polls never overlap, unless cancel() came in the middle of one. *)
THEOREM PollsAreSerial == Spec => []PollsDoNotOverlap
  <1>1. LockInv => PollsDoNotOverlap
    BY DEF LockInv, PollsDoNotOverlap
  <1> QED
    BY <1>1, TypeInit, ComparingInit, TypeStep, LockInit, LockStep, PTL DEF Spec

-------------------------------------------------------------------------------
(* No item is repeated within the window *)

(* The slot an item was marked in, age cycles ago. *)
Slot(i) == IF age[i] <= cycle THEN cycle - age[i] ELSE cycle + Window - age[i]

RingInv ==
  /\ \A i \in Item : age[i] < Window => i \in recent[Slot(i)]
  /\ repeated = {}

LEMMA RingInit == Init => RingInv
  BY WindowAssumption DEF Init, RingInv

(* An item of the window is found there. *)
LEMMA InWindow ==
  ASSUME TypeOK, CycleInv, RingInv, NEW i \in Item, age[i] < Window
  PROVE  HasEmittedItem(i)
  <1>1. age[i] \in 0..Window /\ Window # 0
    BY WindowAssumption DEF TypeOK, Cycles
  <1>2. Slot(i) \in 0..Window - 1
    BY <1>1, WindowAssumption DEF Slot, CycleInv
  <1> QED
    BY <1>2 DEF RingInv, HasEmittedItem

LEMMA RingStep ==
  TypeOK /\ CycleInv /\ ComparingInv /\ RingInv /\ [Next]_vars => RingInv'
  <1> SUFFICES ASSUME TypeOK, CycleInv, ComparingInv, RingInv, [Next]_vars
               PROVE  RingInv'
    OBVIOUS
  <1>1. ASSUME NEW q \in Poll, Starts(q) PROVE RingInv'
    <2>1. UNCHANGED repeated /\ AdvancePollCycle
      BY <1>1 DEF Starts
    <2>2. CASE Window = 0
      <3>1. UNCHANGED <<cycle, recent, age>>
        BY <2>1, <2>2 DEF AdvancePollCycle, windowVars
      <3> QED
        BY <2>1, <3>1 DEF RingInv, Slot
    <2>3. CASE Window # 0
      <3>1. /\ cycle' = IF cycle + 1 = Window THEN 0 ELSE cycle + 1
            /\ cycle' \in 0..Window - 1
            /\ recent' = [recent EXCEPT ![cycle'] = {}]
            /\ age' = [i \in Item |-> IF age[i] < Window THEN age[i] + 1 ELSE Window]
        BY <2>1, <2>3, AdvanceFacts
      <3>2. ASSUME NEW i \in Item, age'[i] < Window PROVE i \in recent'[Slot(i)']
        <4>1. age[i] \in 0..Window /\ cycle \in 0..Window - 1
          BY <2>3 DEF TypeOK, Cycles, CycleInv
        <4>2. age[i] < Window /\ age'[i] = age[i] + 1
          BY <3>1, <3>2, <4>1, WindowAssumption
        <4>3. Slot(i)' = Slot(i) /\ Slot(i) \in 0..Window - 1 /\ Slot(i) # cycle'
          BY <3>1, <3>2, <4>1, <4>2, WindowAssumption DEF Slot
        <4>4. recent'[Slot(i)] = recent[Slot(i)]
          BY <3>1, <4>3, WindowAssumption DEF TypeOK, Cycles
        <4> QED
          BY <4>2, <4>3, <4>4 DEF RingInv
      <3> QED
        BY <2>1, <3>2 DEF RingInv
    <2> QED
      BY <2>2, <2>3
  <1>2. ASSUME NEW q \in Poll, PredicateReturns(q) PROVE RingInv'
    <2>1. PICK items \in SUBSET Item : SafeEmit(items)
      BY <1>2 DEF PredicateReturns, Updates, ComparingInv
    <2>2. UNCHANGED cycle
      BY <1>2 DEF PredicateReturns
    <2> DEFINE new == {i \in items : ~HasEmittedItem(i)}
    <2>3. \A i \in new : ~(age[i] < Window)
      BY InWindow
    <2>4. repeated' = {}
      BY <2>1, <2>3 DEF SafeEmit, RingInv
    <2>5. cycle \in Cycles
      BY DEF TypeOK
    <2>6. ASSUME NEW i \in Item, age'[i] < Window PROVE i \in recent'[Slot(i)']
      <3>1. \A n \in Cycles : recent[n] \subseteq recent'[n]
        BY <2>1, <2>5 DEF SafeEmit, TypeOK
      <3>2. age[i] \in 0..Window /\ Window # 0
        <4>1. age[i] \in 0..Window /\ age'[i] \in 0..Window
          BY <2>1, SafeEmitType DEF TypeOK, Cycles
        <4> QED
          BY <2>6, <4>1
      <3>3. CASE i \in new
        <4>1. age'[i] = 0
          BY <2>1, <3>3 DEF SafeEmit
        <4>2. i \in recent'[cycle]
          BY <2>1, <2>5, <3>2, <3>3 DEF SafeEmit, TypeOK
        <4>3. Slot(i)' = cycle
          BY <2>2, <2>5, <4>1, WindowAssumption DEF Slot, Cycles
        <4> QED
          BY <4>2, <4>3
      <3>4. CASE i \notin new
        <4>1. age'[i] = age[i]
          BY <2>1, <3>4 DEF SafeEmit
        <4>2. Slot(i)' = Slot(i)
          BY <2>2, <4>1 DEF Slot
        <4>3. Slot(i) \in Cycles
          BY <2>6, <3>2, <4>1, WindowAssumption DEF Slot, Cycles, CycleInv
        <4> QED
          BY <2>6, <3>1, <4>1, <4>2, <4>3 DEF RingInv
      <3> QED
        BY <3>3, <3>4
    <2> QED
      BY <2>4, <2>6 DEF RingInv
  <1>3. CASE Cancel
    <2>1. \A i \in Item : age'[i] = Window
      BY <1>3 DEF Cancel
    <2> QED
      BY <1>3, <2>1, WindowAssumption DEF Cancel, RingInv
  <1>4. CASE UNCHANGED <<cycle, recent, age, repeated>>
    BY <1>4 DEF RingInv, Slot
  <1> QED
    BY <1>1, <1>2, <1>3, <1>4
    DEF Next, QuerySettles, PredicateSettles, QueryFails, QueryUnchanged, QueryReturns,
        PredicateFails, Pause, Resume, Listen, Unlisten, vars, windowVars, historyVars

(* No item is emitted twice within the tracking window, of whatever length. *)
THEOREM NoItemRepeats == Spec => []NoRepeatWithinWindow
  <1>1. RingInv => NoRepeatWithinWindow
    BY DEF RingInv, NoRepeatWithinWindow
  <1> QED
    BY <1>1, TypeInit, ComparingInit, TypeStep, RingInit, RingStep, PTL DEF Spec

-------------------------------------------------------------------------------
(* No item is swallowed *)

(* What is in the window, in the state and in the hands of a poll that compares
   has been emitted. *)
SeenInv ==
  /\ \A n \in Cycles : recent[n] \subseteq seen
  /\ ~custom /\ ~overtaken =>
       /\ state # NoState => state \subseteq seen
       /\ \A q \in Poll : poll[q].phase = "comparing" /\ poll[q].previous # NoState =>
            poll[q].previous \subseteq seen

LEMMA SeenInit == Init => SeenInv
  BY FreeType DEF Init, SeenInv

LEMMA SeenStep ==
  TypeOK /\ CycleInv /\ ComparingInv /\ LockInv /\ SeenInv /\ [Next]_vars => SeenInv'
  <1> SUFFICES ASSUME TypeOK, CycleInv, ComparingInv, LockInv, SeenInv, [Next]_vars
               PROVE  SeenInv'
    OBVIOUS
  <1>1. ASSUME NEW q \in Poll, Starts(q) PROVE SeenInv'
    <2>1. \A n \in Cycles : recent'[n] \subseteq recent[n]
      BY <1>1 DEF Starts, AdvancePollCycle, windowVars, TypeOK
    <2>2. \A r \in Poll : poll'[r].phase = "comparing" => poll'[r] = poll[r]
      BY <1>1 DEF Starts, TypeOK
    <2>3. UNCHANGED <<custom, state, seen, overtaken>>
      BY <1>1 DEF Starts
    <2> QED
      BY <2>1, <2>2, <2>3 DEF SeenInv
  <1>2. ASSUME NEW q \in Poll, QueryFails(q) \/ QueryUnchanged(q) \/ PredicateFails(q)
        PROVE  SeenInv'
    <2>1. Ends(q) /\ UNCHANGED <<custom, state, recent, seen, overtaken>>
      BY <1>2 DEF QueryFails, QueryUnchanged, PredicateFails, windowVars, historyVars
    <2>2. \A r \in Poll : poll'[r].phase = "comparing" => poll'[r] = poll[r]
      BY <2>1, EndsType, FreeType
    <2> QED
      BY <2>1, <2>2 DEF SeenInv
  <1>3. ASSUME NEW q \in Poll, QueryReturns(q) PROVE SeenInv'
    <2>1. UNCHANGED <<custom, state, recent, seen, overtaken>>
      BY <1>3 DEF QueryReturns, windowVars, historyVars
    <2>2. \A r \in Poll : poll'[r] = poll[r] \/ poll'[r].previous = state
      BY <1>3 DEF QueryReturns, TypeOK
    <2> QED
      BY <2>1, <2>2 DEF SeenInv
  <1>4. ASSUME NEW q \in Poll, PredicateReturns(q) PROVE SeenInv'
    <2>1. PICK items \in Updates(q) : SafeEmit(items)
      BY <1>4 DEF PredicateReturns
    <2>2. /\ poll[q].phase = "comparing" /\ Ends(q) /\ state' = poll[q].current
          /\ UNCHANGED <<custom, cycle, overtaken>>
      BY <1>4 DEF PredicateReturns
    <2> DEFINE new == {i \in items : ~HasEmittedItem(i)}
    <2>3. seen' = seen \cup new
      BY <2>1 DEF SafeEmit
    <2>4. \A n \in Cycles : recent'[n] \subseteq seen'
      <3>1. \A n \in Cycles : recent'[n] \subseteq recent[n] \cup new
        BY <2>1 DEF SafeEmit, TypeOK
      <3> QED
        BY <2>3, <3>1 DEF SeenInv
    <2>5. ASSUME ~custom, ~overtaken PROVE poll[q].current \subseteq seen'
      <3>1. items = poll[q].current \ PreviousItems(q)
        BY <2>1, <2>5 DEF Updates
      <3>2. PreviousItems(q) \subseteq seen
        BY <2>2, <2>5 DEF PreviousItems, SeenInv
      <3>3. \A i \in items : HasEmittedItem(i) => i \in seen
        <4>1. \A n \in 0..Window - 1 : n \in Cycles
          BY WindowAssumption DEF Cycles
        <4> QED
          BY <4>1 DEF HasEmittedItem, SeenInv
      <3> QED
        BY <2>3, <3>1, <3>2, <3>3
    <2>6. \A r \in Poll : poll'[r].phase = "comparing" => poll'[r] = poll[r]
      BY <2>2, EndsType, FreeType
    <2> QED
      BY <2>2, <2>3, <2>4, <2>5, <2>6 DEF SeenInv
  <1>5. CASE Pause \/ Resume \/ Listen \/ Unlisten \/ UNCHANGED vars
    <2>1. UNCHANGED <<custom, state, recent, seen, overtaken, poll>>
      BY <1>5
      DEF Pause, Resume, Listen, Unlisten, vars, windowVars, historyVars
    <2> QED
      BY <2>1 DEF SeenInv
  <1>6. CASE Cancel
    <2>1. UNCHANGED poll /\ (overtaken' <=> \E q \in Poll : InFlight(q))
      BY <1>6 DEF Cancel
    <2>2. ~overtaken' => \A q \in Poll : poll'[q].phase # "comparing"
      BY <2>1 DEF InFlight
    <2>3. state' = NoState /\ \A n \in Cycles : recent'[n] = {}
      BY <1>6 DEF Cancel
    <2> QED
      BY <2>2, <2>3 DEF SeenInv
  <1> QED
    BY <1>1, <1>2, <1>3, <1>4, <1>5, <1>6
    DEF Next, QuerySettles, PredicateSettles

(* With the default predicate, what is remembered as the state was emitted. *)
THEOREM NothingIsSwallowed == Spec => []StateWasEmitted
  <1>1. SeenInv => StateWasEmitted
    BY DEF SeenInv, StateWasEmitted
  <1> QED
    BY <1>1, TypeInit, ComparingInit, TypeStep, LockInit, LockStep, SeenInit, SeenStep,
       PTL
    DEF Spec

-------------------------------------------------------------------------------
(* No lock is left behind *)

(* A lock that is held belongs to a poll that will settle and release it. *)
LocksHeld == pollLock \/ predicateLock => Polling

LEMMA HeldInit == Init => LocksHeld
  BY DEF Init, LocksHeld

LEMMA HeldStep == TypeOK /\ LocksHeld /\ [Next]_vars => LocksHeld'
  <1> SUFFICES ASSUME TypeOK, LocksHeld, [Next]_vars PROVE LocksHeld'
    OBVIOUS
  <1>1. ASSUME NEW q \in Poll, Starts(q) \/ QueryReturns(q) PROVE LocksHeld'
    <2>1. poll'[q].phase \in {"querying", "comparing"}
      BY <1>1 DEF Starts, QueryReturns, TypeOK
    <2>2. InFlight(q)'
      BY <2>1 DEF InFlight
    <2> QED
      BY <2>2 DEF LocksHeld, Polling
  <1>2. ASSUME NEW q \in Poll, Ends(q) PROVE LocksHeld'
    BY <1>2 DEF Ends, LocksHeld
  <1>3. CASE Pause \/ Resume \/ Listen \/ Unlisten \/ UNCHANGED vars
    <2>1. UNCHANGED <<poll, predicateLock>> /\ (pollLock' => pollLock)
      BY <1>3 DEF Pause, Resume, Listen, Unlisten, vars, lockVars
    <2>2. Polling' <=> Polling
      BY <2>1 DEF Polling, InFlight
    <2> QED
      BY <2>1, <2>2 DEF LocksHeld
  <1>4. CASE Cancel
    BY <1>4 DEF Cancel, LocksHeld
  <1> QED
    BY <1>1, <1>2, <1>3, <1>4
    DEF Next, QuerySettles, PredicateSettles, QueryFails, QueryUnchanged,
        PredicateReturns, PredicateFails

(* No lock is left behind, whatever fails and whatever the application calls in
   the middle of a poll: a lock is held only while a poll is in flight.  So an
   active subscription that does not poll can start to: what PollsAgain needs. *)
THEOREM LocksAreReleased == Spec => []LocksHeld
  BY TypeInit, ComparingInit, TypeStep, HeldInit, HeldStep, PTL DEF Spec
===============================================================================
