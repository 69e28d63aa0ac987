----------------------------- MODULE MCPartition -----------------------------
(* A small instance of Partition.                                          *)
EXTENDS Partition, TLC

CONSTANTS t1, t2

\* The partition never runs empty.
Shared == [PT_DEL |-> FALSE, keep |-> 1,
           calls |-> (t1 :> {"get", "ret"}) @@ (t2 :> {"get", "ret", "outside"})]
\* One task also returns blocks that are free.
Again == [PT_DEL |-> FALSE, keep |-> 1,
          calls |-> (t1 :> {"get", "ret", "again"}) @@ (t2 :> {})]
\* The partition runs empty and is deleted.
Drained(flag) == [PT_DEL |-> flag, keep |-> 0,
                  calls |-> (t1 :> {"get", "del"}) @@ (t2 :> {"get", "del"})]
PoolUses == {Shared, Again, Drained(TRUE), Drained(FALSE)}

\* A block is returned to a partition that has run empty.
Double == [PT_DEL |-> FALSE, keep |-> 0, calls |-> (t1 :> {"get", "ret"}) @@ (t2 :> {})]
DoubleUses == {Double}
==============================================================================
