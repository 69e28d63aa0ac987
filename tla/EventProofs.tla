----------------------------- MODULE EventProofs -----------------------------
(***************************************************************************)
(* What the event flags guarantee for any set of flags, that is, masks of  *)
(* any width, and for any number of tasks that send.                       *)
(***************************************************************************)
EXTENDS Event, TLAPS

(* A look at the events loses none of them.                                *)
LEMMA LookKeeps ==
    ASSUME TypeOK
    PROVE  LeftPending \cup Captured = events_pending \cup events_captured
BY DEF TypeOK, LeftPending, Captured

(* What a look leaves pending brings nothing new to the next look.         *)
LEMMA LookSettles ==
    ASSUME events_pending' = LeftPending, events_captured' = Captured,
           UNCHANGED event_mask
    PROVE  Captured' = Captured
BY DEF LeftPending, Captured

(* What a look leaves behind is everything it did not capture.             *)
LEMMA LeftOver ==
    ASSUME TypeOK
    PROVE  /\ LeftPending \subseteq events_pending
           /\ events_pending \subseteq Captured \cup LeftPending
           /\ events_captured \subseteq Captured
           /\ Captured \subseteq events_pending \cup events_captured
BY DEF TypeOK, LeftPending, Captured

------------------------------------------------------------------------------
(* The control block and the calls stay well formed: whatever is sent and  *)
(* awaited, ev_receive returns an error of its own (event.c:316-343).      *)
THEOREM TypeCorrect == Spec => []TypeOK
<1>1. Init => TypeOK
  BY DEF Init, TypeOK, Waits
<1>2. TypeOK /\ [Next]_vars => TypeOK'
  <2> SUFFICES ASSUME TypeOK, [Next]_vars PROVE TypeOK'
    OBVIOUS
  <2> USE DEF TypeOK, Waits, flags, receiver, senders
  <2>1. CASE UNCHANGED vars
    BY <2>1 DEF vars
  <2>2. ASSUME NEW mask \in SUBSET Flag, NEW all \in BOOLEAN, NEW wait \in Waits,
               Enter(mask, all, wait)
        PROVE  TypeOK'
    BY <2>2 DEF Enter
  <2>3. CASE Sleep
    BY <2>3 DEF Sleep, Look, LeftPending, Captured
  <2>4. CASE Return
    BY <2>4 DEF Return, Look, LeftPending, Captured, StillCaptured, Outcome
  <2>5. CASE TimeOut
    BY <2>5 DEF TimeOut
  <2>6. CASE Expire
    BY <2>6 DEF Expire
  <2>7. ASSUME NEW s \in Sender, SchedLock(s) PROVE TypeOK'
    BY <2>7 DEF SchedLock
  <2>8. ASSUME NEW s \in Sender, Post(s) PROVE TypeOK'
    BY <2>8 DEF Post, Awakened
  <2>9. ASSUME NEW s \in Sender, NEW events \in SUBSET Flag, Find(s, events) PROVE TypeOK'
    BY <2>9 DEF Find
  <2>10. QED
    BY <2>1, <2>2, <2>3, <2>4, <2>5, <2>6, <2>7, <2>8, <2>9 DEF Next, Receive
<1>3. QED
  BY <1>1, <1>2, PTL DEF Spec

(* No task sleeps in ev_receive over events that it waits for              *)
(* (event.c:84-101, 142-157).                                              *)
THEOREM NoneMissed == Spec => []NothingMissed
<1>1. Init => NothingMissed
  BY DEF Init, NothingMissed
<1>2. NothingMissed /\ [Next]_vars => NothingMissed'
  <2> SUFFICES ASSUME NothingMissed, [Next]_vars PROVE NothingMissed'
    OBVIOUS
  <2>1. CASE UNCHANGED <<flags, event_mask, EV_ALL>> /\ (pc' = "wait" => pc = "wait")
    BY <2>1 DEF NothingMissed, Match, Captured, flags
  <2>2. CASE Sleep
    <3>1. Captured' = Captured
      BY <2>2, LookSettles DEF Sleep, Look
    <3>2. QED
      BY <2>2, <3>1 DEF Sleep, Look, Match, NothingMissed
  <2>3. CASE Return
    BY <2>3 DEF Return, NothingMissed
  <2>4. ASSUME NEW s \in Sender, Post(s) PROVE NothingMissed'
    <3>1. CASE NewFlags(new_events[s])
      BY <2>4, <3>1 DEF Post, Awakened, NothingMissed
    <3>2. CASE ~NewFlags(new_events[s])
      BY <2>1, <2>4, <3>2 DEF Post, flags
    <3>3. QED
      BY <3>1, <3>2
  <2>5. ASSUME NEW mask, NEW all, NEW wait, Enter(mask, all, wait) PROVE NothingMissed'
    BY <2>5 DEF Enter, NothingMissed
  <2>6. CASE TimeOut \/ Expire
    BY <2>1, <2>6 DEF TimeOut, Expire, flags
  <2>7. ASSUME NEW s \in Sender, NEW events, SchedLock(s) \/ Find(s, events)
        PROVE  NothingMissed'
    BY <2>1, <2>7 DEF SchedLock, Find, receiver
  <2>8. CASE UNCHANGED vars
    BY <2>1, <2>8 DEF vars, flags
  <2>9. QED
    BY <2>2, <2>3, <2>4, <2>5, <2>6, <2>7, <2>8 DEF Next, Receive
<1>3. QED
  BY <1>1, <1>2, PTL DEF Spec

------------------------------------------------------------------------------
(* A task that is not in ev_send has nothing to send.                      *)
IdleSendsNothing == \A s \in Sender : spc[s] = "idle" => new_events[s] = {}

\* So it is, always.
LEMMA IdleSenders == Spec => []IdleSendsNothing
<1>1. Init => IdleSendsNothing
  BY DEF Init, IdleSendsNothing
<1>2. TypeOK /\ IdleSendsNothing /\ [Next]_vars => IdleSendsNothing'
  <2> SUFFICES ASSUME TypeOK, IdleSendsNothing, [Next]_vars PROVE IdleSendsNothing'
    OBVIOUS
  <2> USE DEF IdleSendsNothing, TypeOK
  <2>1. CASE UNCHANGED senders
    BY <2>1 DEF senders
  <2>2. ASSUME NEW s \in Sender, Post(s) PROVE IdleSendsNothing'
    BY <2>2 DEF Post
  <2>3. ASSUME NEW s \in Sender, NEW events \in SUBSET Flag, SchedLock(s) \/ Find(s, events)
        PROVE  IdleSendsNothing'
    BY <2>3 DEF SchedLock, Find
  <2>4. ASSUME NEW mask, NEW all, NEW wait, Enter(mask, all, wait) PROVE UNCHANGED senders
    BY <2>4 DEF Enter
  <2>5. Receive \/ Expire \/ UNCHANGED vars => UNCHANGED senders
    BY DEF Receive, Sleep, Return, Look, TimeOut, Expire, vars, senders
  <2>6. QED
    BY <2>1, <2>2, <2>3, <2>4, <2>5 DEF Next
<1>3. QED
  BY <1>1, <1>2, TypeCorrect, PTL DEF Spec

------------------------------------------------------------------------------
(* A return from ev_receive is the receipt of what was asked for, or else  *)
(* a timeout that takes nothing (event.c:310-343).                         *)
LEMMA ReturnIsBoxStep ==
    ASSUME TypeOK, Return
    PROVE  BoxView!Receive \/ BoxView!GiveUp
<1> USE DEF TypeOK, Return, Look
<1>1. CASE retcode = "0"
  <2>1. Match(Captured) /\ StillCaptured = {} /\ error' = "ERR_NO_ERROR"
    BY <1>1 DEF StillCaptured, Outcome
  <2>2. BoxView!Enough(captured')
    BY <2>1 DEF Match, BoxView!Enough
  <2>3. events_pending' = LeftPending /\ events_captured' = {} /\ captured' = Captured
    BY <2>1
  <2>4. QED
    BY <2>1, <2>2, <2>3, LeftOver DEF BoxView!Receive, senders
<1>2. CASE retcode = "ETIMEDOUT"
  <2>1. StillCaptured = Captured /\ error' # "ERR_NO_ERROR"
    BY <1>2 DEF StillCaptured, Outcome
  <2>2. events_pending' = LeftPending /\ events_captured' = Captured /\ captured' = Captured
    BY <2>1
  <2>3. events_pending' \cup events_captured' = events_pending \cup events_captured
    BY <2>2, LookKeeps
  <2>4. QED
    BY <2>1, <2>2, <2>3, LeftOver DEF BoxView!GiveUp, senders
<1>3. QED
  BY <1>1, <1>2

(* A task that sends adds what it sends, whether it is new or not          *)
(* (event.c:84-99).                                                        *)
LEMMA PostIsBoxStep ==
    ASSUME TypeOK, NEW s \in Sender, Post(s)
    PROVE  BoxView!Send(s)
<1>1. events_pending' = events_pending \cup new_events[s]
  BY DEF Post, NewFlags, TypeOK
<1>2. QED
  BY <1>1 DEF Post, Awakened, BoxView!Send

(* The event flags keep every event until it is received, over timeouts    *)
(* too, and ev_receive returns what was asked for (event.c:131-199,        *)
(* 331-343).                                                               *)
THEOREM BoxRefinement == Spec => ImplementsBox
<1>1. Init => BoxView!EBInit
  BY DEF Init, BoxView!EBInit
<1>2. ASSUME TypeOK, IdleSendsNothing, [Next]_vars
      PROVE  [BoxView!EBNext]_(BoxView!ebVars)
  <2>1. ASSUME NEW mask \in SUBSET Flag, NEW all \in BOOLEAN, NEW wait \in Waits,
               Enter(mask, all, wait)
        PROVE  BoxView!Ask
    BY <2>1 DEF Enter, BoxView!Ask, flags, senders
  <2>2. ASSUME Sleep PROVE UNCHANGED BoxView!ebVars
    <3>1. events_pending' \cup events_captured' = events_pending \cup events_captured
      BY <1>2, <2>2, LookKeeps DEF Sleep, Look
    <3>2. QED
      BY <2>2, <3>1 DEF Sleep, Look, senders, BoxView!ebVars
  <2>3. Return => BoxView!Receive \/ BoxView!GiveUp
    BY <1>2, ReturnIsBoxStep
  <2>4. TimeOut \/ Expire \/ UNCHANGED vars => UNCHANGED BoxView!ebVars
    BY DEF TimeOut, Expire, vars, flags, senders, BoxView!ebVars
  <2>5. ASSUME NEW s \in Sender, SchedLock(s) PROVE UNCHANGED BoxView!ebVars
    BY <2>5 DEF SchedLock, flags, receiver, BoxView!ebVars
  <2>6. ASSUME NEW s \in Sender, Post(s) PROVE BoxView!Send(s)
    BY <1>2, <2>6, PostIsBoxStep
  <2>7. ASSUME NEW s \in Sender, NEW events \in SUBSET Flag, Find(s, events)
        PROVE  BoxView!Offer(s)
    BY <1>2, <2>7 DEF Find, BoxView!Offer, IdleSendsNothing, flags, receiver
  <2>8. QED
    BY <1>2, <2>1, <2>2, <2>3, <2>4, <2>5, <2>6, <2>7
       DEF Next, Receive, BoxView!EBNext
<1>3. QED
  BY <1>1, <1>2, TypeCorrect, IdleSenders, PTL DEF Spec, ImplementsBox, BoxView!EBSpec
==============================================================================
