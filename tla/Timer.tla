-------------------------------- MODULE Timer ---------------------------------
(***************************************************************************)
(* The waits that end with a time: tm_wkafter, and the deadlines of        *)
(* q_receive, q_vreceive, sm_p and ev_receive.  gettimeofday gives seconds *)
(* and microseconds; a deadline is computed from it once, and the time     *)
(* that is left is computed again after every awakening.  One call of one  *)
(* task: what it waits for is the subject of Queue, Sema4 and Event, and   *)
(* does not come here.                                                     *)
(*                                                                         *)
(* caller is the function that waits, clock the time in microseconds.      *)
(***************************************************************************)
EXTENDS Integers

CONSTANTS
    Second,         \* the microseconds of a second
    Tick,           \* P2PT_TICK * 1000
    Word,           \* ULONG holds 0..Word - 1, long has the same width
    Waits,          \* the ticks that callers ask for
    Clocks,         \* the times at which they call
    End             \* bound: the clock stops

ASSUME SecondAssumption == Second \in Nat /\ Second > 1
ASSUME TickAssumption == Tick \in Nat \ {0}
ASSUME WordAssumption == Word \in Nat \ {0} /\ Word % 2 = 0
ASSUME WaitsAssumption == Waits \subseteq Nat
ASSUME ClocksAssumption == Clocks \subseteq Nat
ASSUME EndAssumption == End \in Nat

Deadlines == {"q_receive", "q_vreceive", "sm_p", "ev_receive"}

VARIABLES
    clock, caller,
    wait, start,    \* the ticks to wait (0 for Q_NOWAIT), the time of the call
    at,             \* where the caller is
    timeout,        \* seconds and microseconds
    usec            \* of tm_wkafter: the time left

timeVars == <<clock, caller, wait, start, at, timeout, usec>>

TimeTypeOK ==
    /\ clock \in Nat /\ caller \in Deadlines \cup {"tm_wkafter"}
    /\ wait \in Nat /\ start \in Nat
    /\ at \in {"call", "left", "asleep", "waiting", "nap", "returned"}
    /\ timeout \in [sec : Int, usec : Int]
    /\ usec \in Nat

TimeInit ==
    /\ clock \in Clocks /\ caller \in Deadlines \cup {"tm_wkafter"}
    /\ wait \in Waits /\ start = 0
    /\ at = "call"
    /\ timeout = [sec |-> 0, usec |-> 0]
    /\ usec = 0

Move(from, to) == at = from /\ at' = to

\* gettimeofday
Sec  == clock \div Second
Usec == clock % Second

ULong(x) == x % Word
Long(x)  == IF ULong(x) < Word \div 2 THEN ULong(x) ELSE ULong(x) - Word

Delay == ULong(wait * Tick)

\* Mutant: one second is carried, whatever the sum.
Carried_One(u) == IF u > Second THEN [sec |-> Sec + 1, usec |-> u % Second]
                  ELSE [sec |-> Sec, usec |-> u]
\* Mutant: the seconds are cut off and not carried.
Carried_Lost(u) == [sec |-> Sec, usec |-> IF u > Second THEN u % Second ELSE u]
\* One second exactly is not carried.
Carried(u) == IF u > Second THEN [sec |-> Sec + u \div Second, usec |-> u % Second]
              ELSE [sec |-> Sec, usec |-> u]

Borrow == IF timeout.usec > Usec THEN 0 ELSE 1

\* Mutant: the seconds that are left do not count.
Left_Usec == IF timeout.sec - Borrow < Sec THEN 0 ELSE timeout.usec + Borrow * Second - Usec
\* The microseconds until the timeout.
Left == IF timeout.sec - Borrow < Sec THEN 0
        ELSE timeout.usec + Borrow * Second - Usec + (timeout.sec - Borrow - Sec) * Second

------------------------------------------------------------------------------
(* tm_wkafter                                                              *)

Compute ==
    /\ \/ Delay > 0 /\ Move("call", "left")
       \/ Delay = 0 /\ Move("call", "returned")                    \* sched_yield
    /\ timeout' = Carried(Long(Usec + Delay))
    /\ usec' = Delay /\ start' = clock

Usleep ==
    /\ Move("left", "asleep")
    /\ UNCHANGED <<start, timeout, usec>>

\* usleep ends, which a signal may do at any time.
Awake ==
    /\ usec' = ULong(Left)
    /\ Move("asleep", IF usec' > 0 THEN "left" ELSE "returned")
    /\ UNCHANGED <<start, timeout>>

tm_wkafter ==
    /\ caller = "tm_wkafter"
    /\ Compute \/ Usleep \/ Awake
    /\ UNCHANGED <<clock, caller, wait>>

------------------------------------------------------------------------------
(* The other calls wait in pthread_cond_timedwait, which takes no deadline *)
(* with a second or more of microseconds, or with less than none.          *)

Deadline ==
    /\ Move("call", "waiting")
    /\ timeout' = Carried(Long(Delay) + Usec)
    /\ start' = clock
    /\ UNCHANGED <<clock, caller, wait, usec>>

q_receive  == caller = "q_receive" /\ Deadline
q_vreceive == caller = "q_vreceive" /\ Deadline
sm_p       == caller = "sm_p" /\ Deadline
ev_receive == caller = "ev_receive" /\ wait > 0 /\ Deadline

Instant == timeout.sec * Second + timeout.usec

pthread_cond_timedwait ==
    /\ timeout.usec \in 0..(Second - 1) /\ clock >= Instant
    /\ Move("waiting", "returned")
    /\ UNCHANGED <<clock, caller, wait, start, timeout, usec>>

\* Messages for others: the task naps until it has no time left.  (When they are
\* gone before, it waits again or returns, and this matters to no deadline.)
Nap ==
    /\ \/ Move("waiting", "nap")
       \/ at = "nap" /\ Left > 0 /\ UNCHANGED at
       \/ Left = 0 /\ Move("nap", "waiting")
    /\ UNCHANGED <<clock, caller, wait, start, timeout, usec>>

waiting_on_queue  == caller = "q_receive" /\ Nap
waiting_on_vqueue == caller = "q_vreceive" /\ Nap
waiting_on_sema4  == caller = "sm_p" /\ Nap

Pass ==
    /\ clock < End /\ clock' = clock + 1
    /\ UNCHANGED <<caller, wait, start, at, timeout, usec>>

TimeNext ==
    \/ tm_wkafter \/ q_receive \/ q_vreceive \/ sm_p \/ ev_receive
    \/ pthread_cond_timedwait
    \/ waiting_on_queue \/ waiting_on_vqueue \/ waiting_on_sema4
    \/ Pass

TimeSpec == TimeInit /\ [][TimeNext]_timeVars

------------------------------------------------------------------------------
\* The wait and the microseconds of the clock are within a long.
Fits == wait * Tick + Second <= Word \div 2
Due == start + wait * Tick

\* A deadline is the time of the call and the ticks (queue.c:1783-1797), and one
\* that pthread_cond_timedwait takes, but when the microseconds make one second.
DeadlineIsDue ==
    Fits /\ at \in {"waiting", "nap"} =>
        /\ Instant = Due
        /\ timeout.usec \in 0..(Second - 1) \/ (start % Second) + wait * Tick = Second

\* No call returns before its time, although signals end its sleeps (timer.c:65-69:
\* "wait for the current time of day to reach the time of day calculated").
NotEarly == Fits /\ at = "returned" => clock >= Due

\* A sleep is as long as what is left: it ends at the time that was asked for,
\* however often it was cut short (timer.c:79-95).
SleepsToDue == [][Fits /\ at # "left" /\ at' = "left" => clock + usec' = Due']_timeVars
==============================================================================
