----------------------------- MODULE ObjectLists ------------------------------
(***************************************************************************)
(* The lists of control blocks: task_list, queue_list, vqueue_list,        *)
(* sema4_list and prtn_list.  An object's control block is allocated, gets *)
(* the next identifier and is linked into its list; calls look identifiers *)
(* and names up in the list without its lock, one block at a time; a       *)
(* deletion unlinks the block and frees it.                                *)
(*                                                                         *)
(* The five lists are alike: use.kind says which one it is.  A task is     *)
(* linked where it is initialised, at the tail; its identifier is computed *)
(* from the list without a lock.                                           *)
(***************************************************************************)
EXTENDS Naturals, Sequences, FiniteSets

CONSTANTS
    Thread,
    Block,      \* the memory for control blocks
    Nil,        \* the null pointer
    Name, NoName,   \* the names given to objects, and what is none
    Uses        \* the kind of the objects and what the threads do, see Use

\* use: a call that looks an identifier up and does its work
AllOps == {"create", "use", "ident", "delete"}
Kinds == {"task", "queue", "vqueue", "sema4", "prtn"}

\* ops: the operations each thread calls.  creations: at most how many objects
\* are created (a bound).  serial: no two creations of such objects overlap.
\* apart: no object is deleted while another call on such objects is under way.
Use == [kind : Kinds, ops : [Thread -> SUBSET AllOps], creations : Nat,
        serial : BOOLEAN, apart : BOOLEAN]

ASSUME NilAssumption == Nil \notin Block /\ IsFiniteSet(Block)
ASSUME UsesAssumption == Uses \subseteq Use

VARIABLES
    list,               \* the head: task_list, queue_list, ...
    nxt, id, name,      \* the members of the control blocks
    intact,             \* the blocks linked since they were allocated, not freed
    known,              \* the blocks of objects that callers know and may use
    made,               \* the number of creations begun
    op, pc,
    cur,                \* a thread's pointer into the list, or its own block
    want,               \* the identifier or the name it looks for
    use                 \* never changes

listVars == <<list, nxt, id, name, intact, known, made, op, pc, cur, want, use>>

MaxId == use.creations
Pointer == Block \cup {Nil}
Places == {"idle", "count", "link", "scan", "got", "free"}

ListTypeOK ==
    /\ list \in Pointer
    /\ nxt \in [Block -> Pointer] /\ id \in [Block -> 0..MaxId] /\ name \in [Block -> Name \cup {NoName}]
    /\ intact \subseteq Block /\ known \subseteq Block /\ made \in 0..MaxId
    /\ op \in [Thread -> AllOps] /\ pc \in [Thread -> Places]
    /\ cur \in [Thread -> Pointer] /\ want \in [Thread -> Nat \cup Name]
    /\ use \in Uses

ListInit ==
    /\ use \in Uses
    /\ list = Nil
    /\ nxt = [b \in Block |-> Nil] /\ id = [b \in Block |-> 0]
    /\ name = [b \in Block |-> NoName]
    /\ intact = {} /\ known = {} /\ made = 0
    /\ op = [t \in Thread |-> "use"] /\ pc = [t \in Thread |-> "idle"]
    /\ cur = [t \in Thread |-> Nil] /\ want = [t \in Thread |-> 0]

\* A thread's variables go out of scope when the call returns.
Forget(t) == cur' = [cur EXCEPT ![t] = Nil] /\ want' = [want EXCEPT ![t] = 0]

\* The contents of a freed block do not matter: see NxtOf and IdOf.
Release(b) ==
    /\ nxt' = [nxt EXCEPT ![b] = Nil]
    /\ id' = [id EXCEPT ![b] = 0]
    /\ name' = [name EXCEPT ![b] = NoName]

Goto(t, from, to) == pc[t] = from /\ pc' = [pc EXCEPT ![t] = to]

\* The blocks from b on, in the order of the links.
Chain(links, b) ==
    LET pos[n \in 0..Cardinality(Block)] ==
            IF n = 0 THEN b ELSE IF pos[n - 1] = Nil THEN Nil ELSE links[pos[n - 1]]
        len == Cardinality({n \in DOMAIN pos : pos[n] # Nil})
    IN [i \in 1..len |-> pos[i - 1]]
Items == Chain(nxt, list)
Reach(b) == LET ahead == Chain(nxt, b) IN {ahead[i] : i \in DOMAIN ahead}

Allocated == intact \cup {cur[t] : t \in {u \in Thread : pc[u] = "link" /\ use.kind # "task"}}

\* A call begins.  What is deleted is no longer used, and deleted once.
Begin(t, o) ==
    /\ op' = [op EXCEPT ![t] = o]
    /\ made' = IF o = "create" THEN made + 1 ELSE made
    /\ made' <= use.creations
    /\ use.serial /\ o = "create" =>
         \A u \in Thread : op[u] = "create" => pc[u] = "idle"
    /\ use.apart => \A u \in Thread : pc[u] # "idle" => op[u] # "delete" /\ o # "delete"

------------------------------------------------------------------------------
(* The next identifier: one more than the highest in the list.             *)

HighestId == LET ids == {id[b] : b \in Reach(list)}
             IN CHOOSE i \in ids : \A j \in ids : j <= i

\* Mutant: one more than the first.
NextId_First(none) == IF list = Nil THEN none ELSE id[list] + 1
NextId(none) == IF list = Nil THEN none ELSE HighestId + 1

new_qid     == NextId(1)
new_vqid    == NextId(0)
new_smid    == NextId(1)
new_prtn_id == NextId(1)

\* ts_malloc of a control block, the identifier (under the lock of the list,
\* but for tasks) and the name.
Create(t, newid) ==
    /\ Goto(t, "idle", "link") /\ Begin(t, "create")
    /\ \E b \in Block \ Allocated, n \in Name :
         /\ cur' = [cur EXCEPT ![t] = b]
         /\ id' = [id EXCEPT ![b] = newid]
         /\ name' = [name EXCEPT ![b] = n]
    /\ UNCHANGED <<list, nxt, intact, known, want, use>>

q_create(t)  == use.kind = "queue"  /\ Create(t, new_qid)
q_vcreate(t) == use.kind = "vqueue" /\ Create(t, new_vqid)
sm_create(t) == use.kind = "sema4"  /\ Create(t, new_smid)
pt_create(t) == use.kind = "prtn"   /\ Create(t, new_prtn_id)

\* new_tid follows the list while others change it.  want is the highest
\* identifier so far.
t_create(t) ==
    /\ use.kind = "task" /\ Begin(t, "create")
    /\ want' = [want EXCEPT ![t] = IF list = Nil THEN 0 ELSE id[list]]
    /\ cur' = [cur EXCEPT ![t] = list]
    /\ Goto(t, "idle", IF list = Nil THEN "link" ELSE "count")
    /\ UNCHANGED <<list, nxt, id, name, intact, known, use>>

\* What is read in a block that is not in use is anything.
NxtOf(b) == IF b \in intact THEN {nxt[b]} ELSE Pointer
IdOf(b)  == IF b \in intact THEN {id[b]} ELSE 0..MaxId

new_tid(t) ==
    /\ pc[t] = "count"
    /\ \E b \in NxtOf(cur[t]) :
         /\ cur' = [cur EXCEPT ![t] = b]
         /\ \/ b = Nil /\ Goto(t, "count", "link") /\ UNCHANGED want
            \/ b # Nil /\ UNCHANGED pc
               /\ \E i \in IdOf(b) : want' = [want EXCEPT ![t] = IF i > @ THEN i ELSE @]
    /\ UNCHANGED <<list, nxt, id, name, intact, known, made, op, use>>

------------------------------------------------------------------------------
(* link_qcb and its like insert in the order of identifiers, but never     *)
(* before the head; t_create appends.  All under the lock of the list.     *)

\* Mutant: the new block is linked in front of those behind it, and loses them.
InsertAfter_Cut(i, b) ==
    /\ nxt' = [nxt EXCEPT ![b] = Nil, ![Items[1]] = b]
    /\ UNCHANGED list
InsertAfter(i, b) ==
    /\ nxt' = [nxt EXCEPT ![b] = nxt[Items[i]], ![Items[i]] = b]
    /\ UNCHANGED list

InsertFirst(b) ==
    /\ list' = b
    /\ nxt' = [nxt EXCEPT ![b] = Nil]

LinkSorted(b) ==
    \/ list = Nil /\ InsertFirst(b)
    \/ list # Nil /\ LET Fits(i) == i = Len(Items) \/ id[Items[i + 1]] > id[b]
                         place == CHOOSE i \in DOMAIN Items :
                                    Fits(i) /\ \A j \in 1..(i - 1) : ~Fits(j)
                     IN InsertAfter(place, b)

LinkLast(b) ==
    \/ list = Nil /\ InsertFirst(b)
    \/ list # Nil /\ InsertAfter(Len(Items), b)

\* The object is there, and its identifier is returned to the caller.
Linked(t, b) ==
    /\ Goto(t, "link", "idle")
    /\ intact' = intact \cup {b}
    /\ known' = known \cup {b}
    /\ Forget(t)
    /\ UNCHANGED <<made, op, use>>

LinkOwn(t) ==
    /\ pc[t] = "link"
    /\ LinkSorted(cur[t]) /\ Linked(t, cur[t])
    /\ UNCHANGED <<id, name>>

link_qcb(t)  == use.kind = "queue"  /\ LinkOwn(t)
link_vqcb(t) == use.kind = "vqueue" /\ LinkOwn(t)
link_smcb(t) == use.kind = "sema4"  /\ LinkOwn(t)
link_pcb(t)  == use.kind = "prtn"   /\ LinkOwn(t)

\* A task is allocated, initialised and linked in one.
link_tcb(t) ==
    /\ use.kind = "task"
    /\ \E b \in Block \ Allocated, n \in Name :
         /\ LinkLast(b) /\ Linked(t, b)
         /\ id' = [id EXCEPT ![b] = want[t] + 1]
         /\ name' = [name EXCEPT ![b] = n]

\* pt_create with a block size it does not like, t_create with such a priority:
\* the block is freed again.
Reject(t) ==
    /\ use.kind \in {"prtn", "task"}
    /\ Goto(t, "link", "idle")
    /\ IF cur[t] = Nil THEN UNCHANGED <<nxt, id, name>> ELSE Release(cur[t])
    /\ Forget(t)
    /\ UNCHANGED <<list, intact, known, made, op, use>>

------------------------------------------------------------------------------
(* Looking an object up, without the lock.                                 *)

Find(t, o, w) ==
    /\ Begin(t, o)
    /\ list # Nil
    /\ want' = [want EXCEPT ![t] = w]
    /\ cur' = [cur EXCEPT ![t] = list]
    /\ Goto(t, "idle", "scan")
    /\ UNCHANGED <<list, nxt, id, name, intact, use>>

\* A call with an identifier, which may be one that no object has.
FindForUse(t) == \E i \in 0..MaxId : Find(t, "use", i) /\ UNCHANGED known

Ident(t) == \E n \in Name : Find(t, "ident", n) /\ UNCHANGED known

t_ident(t)  == use.kind = "task"   /\ Ident(t)
q_ident(t)  == use.kind = "queue"  /\ Ident(t)
q_vident(t) == use.kind = "vqueue" /\ Ident(t)
sm_ident(t) == use.kind = "sema4"  /\ Ident(t)
pt_ident(t) == use.kind = "prtn"   /\ Ident(t)

FindToDelete(t) ==
    \E b \in known : Find(t, "delete", id[b]) /\ known' = known \ {b}

Matches(t, b) == IF op[t] = "ident" THEN name[b] = want[t] ELSE id[b] = want[t]

\* One turn of the loop.
Scan(t) ==
    /\ pc[t] = "scan"
    /\ \/ /\ cur[t] \in intact => Matches(t, cur[t])
          /\ Goto(t, "scan", "got") /\ UNCHANGED <<cur, want>>
       \/ /\ cur[t] \in intact => ~Matches(t, cur[t])
          /\ \E b \in NxtOf(cur[t]) :
               IF b = Nil THEN Goto(t, "scan", "idle") /\ Forget(t)
               ELSE cur' = [cur EXCEPT ![t] = b] /\ UNCHANGED <<pc, want>>
    /\ UNCHANGED <<list, nxt, id, name, intact, known, made, op, use>>

tcb_for(t)  == use.kind = "task"   /\ Scan(t)
qcb_for(t)  == use.kind = "queue"  /\ Scan(t)
vqcb_for(t) == use.kind = "vqueue" /\ Scan(t)
smcb_for(t) == use.kind = "sema4"  /\ Scan(t)
pcb_for(t)  == use.kind = "prtn"   /\ Scan(t)

\* What the call does with the object, and its return.
Done(t) ==
    /\ op[t] # "delete"
    /\ Goto(t, "got", "idle")
    /\ Forget(t)
    /\ UNCHANGED <<list, nxt, id, name, intact, known, made, op, use>>

------------------------------------------------------------------------------
(* delete_queue and its like unlink the first block with the identifier,   *)
(* tcb_delete the block itself; then they free the block they have found.  *)

Unlink(i) ==
    IF i = 1 THEN list' = nxt[list] /\ UNCHANGED nxt
    ELSE /\ nxt' = [nxt EXCEPT ![Items[i - 1]] = nxt[Items[i]]]
         /\ UNCHANGED list

UnlinkFirst(t, sought) ==
    /\ op[t] = "delete" /\ Goto(t, "got", "free")
    /\ \E i \in DOMAIN Items :
         Items[i] \in sought /\ (\A j \in 1..(i - 1) : Items[j] \notin sought) /\ Unlink(i)
    /\ UNCHANGED <<id, name, intact, known, made, op, cur, want, use>>

UnlinkId(t) == UnlinkFirst(t, {b \in Block : id[b] = want[t]})

unlink_qcb(t)  == use.kind = "queue"  /\ UnlinkId(t)
unlink_vqcb(t) == use.kind = "vqueue" /\ UnlinkId(t)
unlink_smcb(t) == use.kind = "sema4"  /\ UnlinkId(t)
unlink_pcb(t)  == use.kind = "prtn"   /\ UnlinkId(t)
unlink_tcb(t)  == use.kind = "task"   /\ UnlinkFirst(t, {cur[t]})

\* ts_free.
Free(t) ==
    /\ Goto(t, "free", "idle")
    /\ intact' = intact \ {cur[t]}
    /\ Release(cur[t]) /\ Forget(t)
    /\ UNCHANGED <<list, known, made, op, use>>

------------------------------------------------------------------------------
Call(t, o) ==
    \/ o = "create" /\ (q_create(t) \/ q_vcreate(t) \/ sm_create(t) \/ pt_create(t) \/ t_create(t))
    \/ o = "use" /\ FindForUse(t)
    \/ o = "ident" /\ (t_ident(t) \/ q_ident(t) \/ q_vident(t) \/ sm_ident(t) \/ pt_ident(t))
    \/ o = "delete" /\ FindToDelete(t)

Step(t) ==
    \/ new_tid(t) \/ link_tcb(t) \/ link_qcb(t) \/ link_vqcb(t) \/ link_smcb(t) \/ link_pcb(t)
    \/ Reject(t)
    \/ tcb_for(t) \/ qcb_for(t) \/ vqcb_for(t) \/ smcb_for(t) \/ pcb_for(t) \/ Done(t)
    \/ unlink_tcb(t) \/ unlink_qcb(t) \/ unlink_vqcb(t) \/ unlink_smcb(t) \/ unlink_pcb(t)
    \/ Free(t)

ListNext == \E t \in Thread : Step(t) \/ \E o \in use.ops[t] : Call(t, o)

ListSpec == ListInit /\ [][ListNext]_listVars

------------------------------------------------------------------------------
\* While a call scans a list without its lock, the objects it may find are still
\* ahead of it, whatever is linked meanwhile, and what it finds has the
\* identifier it was given (task.c:147-153: "no locking of the task list is
\* done here since the access is read-only").  Deletions must keep away.
LookupFinds ==
    use.apart => \A t \in Thread :
        /\ pc[t] = "scan" => {b \in known : Matches(t, b)} \subseteq Reach(cur[t])
        /\ pc[t] = "got" => cur[t] \in Reach(list) /\ Matches(t, cur[t])

\* The callers see a registry of objects: a new object's identifier is one
\* that no object has ("a valid, unused queue ID", queue.c:266), and the list
\* holds every object that was created and not deleted (link_qcb, unlink_qcb).
Registered == Reach(list)
Objects == INSTANCE Registry WITH
    Object <- Block, objects <- Registered,
    ident <- [b \in Registered |-> id[b]]
ImplementsRegistry == Objects!RegistrySpec
==============================================================================
