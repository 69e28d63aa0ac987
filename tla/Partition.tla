------------------------------ MODULE Partition ------------------------------
(***************************************************************************)
(* One partition of memblk.c: the free list threaded through the first     *)
(* word of the free blocks, pt_getbuf, pt_retbuf and pt_delete.  A call    *)
(* first looks the control block up, then works under prtn_lock.           *)
(***************************************************************************)
EXTENDS Integers, FiniteSets

CONSTANTS
    Task,       \* the callers
    NumBlocks,  \* length / bsize of pt_create
    Uses        \* the ways the partition is used, see Use

\* again: pt_retbuf of a block that is free already.
\* outside: pt_retbuf of an address outside the partition.
AllCalls == {"get", "ret", "again", "outside", "del"}

\* Is the flag PT_DEL given to pt_create, what does each task call, and how many
\* blocks do the callers together always leave free?
Use == [PT_DEL : BOOLEAN, calls : [Task -> SUBSET AllCalls], keep : Nat]

ASSUME NumBlocksAssumption == NumBlocks \in Nat \ {0}
ASSUME UsesAssumption == Uses \subseteq Use

Block   == 1..NumBlocks     \* addresses of blocks, in memory order
Null    == 0
Data    == NumBlocks + 1    \* what a caller writes into its block: no link
NoTask  == 0                \* an owner of prtn_lock that is not a task
NoBuf   == 0

ASSUME TaskAssumption == NoTask \notin Task /\ IsFiniteSet(Task)

VARIABLES
    word,               \* the first word of each block: a link, or data
    first_free, last_free, free_blk_count, used_blk_count,
    held,               \* the blocks each task got and has not returned
    live,               \* the control block is on prtn_list
    prtn_lock,          \* who holds the partition's mutex
    pc, call, buf,      \* a task's place, its call and the block it returns
    use                 \* never changes

list  == <<word, first_free, last_free, free_blk_count, used_blk_count, held>>
admin == <<live, prtn_lock, use>>
vars  == <<word, first_free, last_free, free_blk_count, used_blk_count, held,
           live, prtn_lock, pc, call, buf, use>>

Held == UNION {held[t] : t \in Task}

TypeOK ==
    /\ word \in [Block -> Block \cup {Null, Data}]
    /\ first_free \in Block \cup {Null}
    /\ last_free \in Block
    /\ free_blk_count \in Int
    /\ used_blk_count \in Int
    /\ held \in [Task -> SUBSET Block]
    /\ live \in BOOLEAN
    /\ prtn_lock \in Task \cup {NoTask}
    /\ pc \in [Task -> {"idle", "found", "deleting"}]
    /\ call \in [Task -> AllCalls]
    /\ buf \in [Task -> Block \cup {NoBuf}]
    /\ use \in Uses

\* new_extent_for links every block to its neighbour; the last one ends the list.
Init ==
    /\ use \in Uses
    /\ word = [b \in Block |-> IF b < NumBlocks THEN b + 1 ELSE Null]
    /\ first_free = 1 /\ last_free = NumBlocks
    /\ free_blk_count = NumBlocks /\ used_blk_count = 0
    /\ held = [t \in Task |-> {}]
    /\ live = TRUE /\ prtn_lock = NoTask
    /\ pc = [t \in Task |-> "idle"]
    /\ call = [t \in Task |-> "get"]
    /\ buf = [t \in Task |-> NoBuf]

------------------------------------------------------------------------------
(* The callers.                                                            *)

\* The gets under way count as blocks taken.
Taken == Cardinality(Held) + Cardinality({t \in Task : pc[t] # "idle" /\ call[t] = "get"})

MayReturn(t, c, b) ==
    CASE c = "ret"   -> b \in held[t]
      [] c = "again" -> b \in Block \ Held
      [] OTHER       -> b = NoBuf

\* pcb_for finds the partition; without it the call returns ERR_OBJDEL.
Lookup(t, c, b) ==
    /\ pc[t] = "idle" /\ live
    /\ c = "get" /\ use.keep > 0 => Taken + use.keep < NumBlocks
    /\ MayReturn(t, c, b)
    /\ call' = [call EXCEPT ![t] = c]
    /\ buf' = [buf EXCEPT ![t] = b]
    /\ pc' = [pc EXCEPT ![t] = "found"]
    /\ UNCHANGED <<list, admin>>

\* A task stores data over the link word of a block of its own.
Write(t) ==
    /\ pc[t] = "idle"
    /\ \E b \in held[t] : word' = [word EXCEPT ![b] = Data]
    /\ UNCHANGED <<first_free, last_free, free_blk_count, used_blk_count, held,
                   admin, pc, call, buf>>

------------------------------------------------------------------------------
(* The operations, each one step under prtn_lock.                          *)

Enter(t, c) == pc[t] = "found" /\ call[t] = c /\ prtn_lock = NoTask
Leave(t) == /\ pc' = [pc EXCEPT ![t] = "idle"]
            /\ UNCHANGED <<admin, call, buf>>

\* Mutant: the block is read, and stays, at the front of the list.
NextFree_Same(b) == b
NextFree(b) == word[b]

TakeFirst(t) ==
    /\ first_free \in Block
    /\ first_free' = NextFree(first_free)
    /\ free_blk_count' = free_blk_count - 1
    /\ used_blk_count' = used_blk_count + 1
    /\ held' = [held EXCEPT ![t] = @ \cup {first_free}]
    /\ UNCHANGED <<word, last_free>>

pt_getbuf(t) ==
    /\ Enter(t, "get")
    /\ \/ TakeFirst(t)
       \/ first_free \notin Block /\ UNCHANGED list    \* ERR_NOBUF
    /\ Leave(t)

\* The blocks the scan of the free list meets: the least set that holds the
\* first one and the successor of every member.
Follows(S) == \A b \in S : word[b] \in Block => word[b] \in S
FreeBlocks ==
    {b \in Block : /\ first_free \in Block
                   /\ \A S \in SUBSET Block : first_free \in S /\ Follows(S) => b \in S}

\* The scan ends when it meets NULL; it never does in a cycle.
ScanEnds == first_free = Null \/ \E b \in FreeBlocks : word[b] = Null

NewLast(b) == b

\* Mutant: the block returned is linked to the first one, not to NULL.
Linked_Around(b) == [[word EXCEPT ![b] = first_free] EXCEPT ![last_free] = b]
\* Mutant: returned blocks go to the front of the list.
Linked_InFront(b) == [word EXCEPT ![b] = first_free]
\* First the NULL into the block returned, then the link into the last one.
Linked(b) == [[word EXCEPT ![b] = Null] EXCEPT ![last_free] = b]

\* Mutant: the first returned block of an empty list, or any other.
NewFirst_Always(b) == b
NewFirst(b) == IF first_free = Null THEN b ELSE first_free

AppendFree(t, b) ==
    /\ word' = Linked(b)
    /\ last_free' = NewLast(b)
    /\ first_free' = NewFirst(b)
    /\ free_blk_count' = free_blk_count + 1
    /\ used_blk_count' = used_blk_count - 1
    /\ held' = [held EXCEPT ![t] = @ \ {b}]

AlreadyFree(b) == b \in FreeBlocks

\* A scan that never ends keeps the mutex, and the call, going for good.
pt_retbuf(t) ==
    LET b == buf[t]
        endless == ~AlreadyFree(b) /\ ~ScanEnds
    IN
    /\ pc[t] = "found" /\ call[t] \in {"ret", "again"} /\ prtn_lock \in {NoTask, t}
    /\ IF AlreadyFree(b) \/ endless THEN UNCHANGED list ELSE AppendFree(t, b)
    /\ pc' = [pc EXCEPT ![t] = IF endless THEN "found" ELSE "idle"]
    /\ prtn_lock' = IF endless THEN t ELSE NoTask
    /\ UNCHANGED <<live, call, buf, use>>

\* The range check comes before the lock: ERR_BUFADDR.
pt_retbuf_Outside(t) ==
    /\ pc[t] = "found" /\ call[t] = "outside"
    /\ Leave(t)
    /\ UNCHANGED list

------------------------------------------------------------------------------
(* pt_delete takes prtn_lock and then the scheduler lock.                  *)

DeleteLock(t) ==
    /\ Enter(t, "del")
    /\ prtn_lock' = t
    /\ pc' = [pc EXCEPT ![t] = "deleting"]
    /\ UNCHANGED <<list, live, call, buf, use>>

\* Mutant: the counter is not looked at.
InUse_Ignored == FALSE
InUse == ~use.PT_DEL /\ used_blk_count > 0

\* delete_prtn frees the control block with its mutex locked.
LockAfterDelete(t) == t

DeleteOrRefuse(t) ==
    /\ pc[t] = "deleting"
    /\ \/ InUse /\ live' = live /\ prtn_lock' = NoTask          \* ERR_BUFINUSE
       \/ ~InUse /\ live' = FALSE /\ prtn_lock' = LockAfterDelete(t)
    /\ pc' = [pc EXCEPT ![t] = "idle"]
    /\ UNCHANGED <<list, call, buf, use>>

------------------------------------------------------------------------------
Work(t) == pt_getbuf(t) \/ pt_retbuf(t) \/ pt_retbuf_Outside(t)
           \/ DeleteLock(t) \/ DeleteOrRefuse(t)

Next == \E t \in Task :
    Work(t) \/ Write(t) \/ \E c \in use.calls[t], b \in Block \cup {NoBuf} : Lookup(t, c, b)

Spec == Init /\ [][Next]_vars
\* A task inside a call keeps running, and locks a mutex that is free again and
\* again at last.
FairSpec == Spec /\ \A t \in Task : SF_vars(Work(t))

------------------------------------------------------------------------------
\* A block is never given to two callers, nor to one while it is still on the
\* free list (pt_getbuf "obtains a free data buffer", memblk.c:687).
ExclusiveBlocks ==
    /\ \A s, t \in Task : s # t => held[s] \cap held[t] = {}
    /\ Held \cap FreeBlocks = {}

\* A partition without PT_DEL is never deleted while a caller has one of its
\* blocks, and no caller gets a block of a deleted partition (memblk.c:650-674).
DeletedUnused == ~live /\ ~use.PT_DEL => Held = {}

\* The library never writes into a block that a caller has (memblk.c:834-846).
DataIntact ==
    [][\A t \in Task : \A b \in held[t] \cap held'[t] : word'[b] \in {word[b], Data}]_vars

\* Every call at a partition that is not deleted returns: no scan is endless
\* (memblk.c:813-830).
CallsReturn == \A t \in Task : pc[t] = "found" ~> pc[t] = "idle" \/ ~live

\* The free list as a sequence: Chain[n] is the n-th block behind the first.
Chain[n \in Nat] ==
    IF n = 0 THEN first_free ELSE IF Chain[n - 1] \in Block THEN word[Chain[n - 1]] ELSE Null
FreeSeq == [i \in 1..Cardinality(FreeBlocks) |-> Chain[i - 1]]
PoolView == INSTANCE BlockPool WITH Pool <- Block, free <- FreeSeq, out <- Held

\* Blocks are handed out in the order in which they were returned, "ensuring an
\* even distribution of use" (memblk.c:839-841).
ImplementsPool == PoolView!PoolSpec
==============================================================================
