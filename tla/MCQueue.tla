------------------------------- MODULE MCQueue -------------------------------
(* Small instances of Queue.  a, b, c receive; c, d send.                  *)
EXTENDS Queue, TLC

CONSTANTS a, b, c, d

Calls(n) == [t \in Task |-> n]
BFirst == (a :> 1) @@ (b :> 2) @@ (c :> 1) @@ (d :> 1)

\* Receives of all kinds, sends and urgent sends; room for one message.
Small == [kind |-> "queue", limit |-> 1, prior |-> FALSE, quiet |-> FALSE,
          calls |-> [Calls(3) EXCEPT ![a] = 1],
          ops |-> (a :> {"wait"}) @@ (b :> {"timed", "nowait"}) @@ (c :> {})
                  @@ (d :> {"send", "urgent"})]
\* Three receivers, of two priorities.
Crowd == [kind |-> "queue", limit |-> 2, prior |-> TRUE, quiet |-> FALSE,
          calls |-> [Calls(1) EXCEPT ![b] = 2, ![d] = 2],
          ops |-> (a :> {"wait"}) @@ (b :> {"timed"}) @@ (c :> {"nowait"}) @@ (d :> {"send"})]
\* Of variable length, with room for one message and for none.
VSmall == [Small EXCEPT !.kind = "vqueue", !.calls = Calls(2)]
Direct == [kind |-> "vqueue", limit |-> 0, prior |-> FALSE, calls |-> Calls(2), quiet |-> FALSE,
           ops |-> (a :> {"wait"}) @@ (b :> {"wait"}) @@ (c :> {}) @@ (d :> {"send"})]

\* Broadcasts, and messages to single tasks, at any time.
Mixed == [kind |-> "queue", limit |-> 1, prior |-> FALSE, quiet |-> FALSE,
          calls |-> [Calls(1) EXCEPT ![a] = 2, ![d] = 2],
          ops |-> (a :> {"wait"}) @@ (b :> {"wait"}) @@ (c :> {"send"}) @@ (d :> {"bcast"})]
VMixed == [Mixed EXCEPT !.kind = "vqueue", !.ops = [@ EXCEPT ![c] = {}]]
\* Broadcasts and the deletion, when no other call is under way.
Single == [kind |-> "queue", limit |-> 2, prior |-> FALSE, calls |-> Calls(2), quiet |-> TRUE,
          ops |-> (a :> {"wait"}) @@ (b :> {"wait"}) @@ (c :> {"wait"})
                  @@ (d :> {"bcast", "delete"})]
VSingle == [Single EXCEPT !.kind = "vqueue", !.ops = [@ EXCEPT ![c] = {}]]

QueueUses == {Small, Crowd, VSmall, Direct, Mixed, VMixed, Single, VSingle}

\* One task, with a timeout.
Late == [kind |-> "queue", limit |-> 1, prior |-> FALSE, calls |-> Calls(1), quiet |-> TRUE,
         ops |-> (a :> {}) @@ (b :> {"timed"}) @@ (c :> {}) @@ (d :> {"bcast", "delete"})]
LateUses == {Late}

\* Two broadcasts of variable length, the second one with nobody waiting.
Repeated == [Late EXCEPT !.kind = "vqueue", !.calls = [@ EXCEPT ![d] = 2],
             !.ops = (a :> {}) @@ (b :> {"wait"}) @@ (c :> {}) @@ (d :> {"bcast"})]
RepeatedUses == {Repeated}
==============================================================================
