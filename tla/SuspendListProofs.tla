-------------------------- MODULE SuspendListProofs ---------------------------
(***************************************************************************)
(* What linking and unlinking do to a list of waiting tasks.               *)
(***************************************************************************)
EXTENDS SuspendList, FiniteSetTheorems, TLAPS

\* No task is on the list twice.
Distinct(list) == \A i, j \in DOMAIN list : list[i] = list[j] => i = j

\* Nobody is on the empty list.
LEMMA NobodyWaits == Members(<<>>) = {} /\ Distinct(<<>>)
<1>1. <<>> \in Seq({}) /\ Len(<<>>) = 0
  OBVIOUS
<1>2. \A i : i \notin DOMAIN <<>>
  BY <1>1
<1>3. QED
  BY <1>2 DEF Members, Distinct

\* The list is empty when nobody is on it.
LEMMA SomebodyWaits ==
    ASSUME NEW S, NEW list \in Seq(S)
    PROVE  list = <<>> <=> Members(list) = {}
<1>1. ASSUME list # <<>> PROVE list[1] \in Members(list)
  <2>1. 1 \in DOMAIN list
    BY <1>1
  <2>2. QED
    BY <2>1 DEF Members
<1>2. QED
  BY <1>1, NobodyWaits

\* Finitely many tasks are on it.
LEMMA MembersFinite ==
    ASSUME NEW S, NEW list \in Seq(S)
    PROVE  IsFiniteSet(Members(list))
<1>1. Len(list) \in Nat /\ DOMAIN list = 1..Len(list) /\ list \in [1..Len(list) -> S]
  OBVIOUS
<1>2. IsFiniteSet(1..Len(list))
  BY <1>1, FS_Interval
<1>3. list \in Surjection(1..Len(list), Members(list))
  BY <1>1 DEF Members, Surjection
<1>4. QED
  BY <1>2, <1>3, FS_Surjection

\* link_susp_tcb adds the task (task.c:407-446).
LEMMA LinkAdds ==
    ASSUME NEW S, NEW list \in Seq(S), NEW t \in S
    PROVE  /\ Append(list, t) \in Seq(S)
           /\ Members(Append(list, t)) = Members(list) \cup {t}
           /\ Distinct(list) /\ t \notin Members(list) => Distinct(Append(list, t))
<1> DEFINE new == Append(list, t)
<1>1. new \in Seq(S) /\ DOMAIN new = 1..(Len(list) + 1) /\ DOMAIN list = 1..Len(list)
  OBVIOUS
<1>2. new[Len(list) + 1] = t /\ \A i \in DOMAIN list : new[i] = list[i]
  OBVIOUS
<1>3. Members(new) = Members(list) \cup {t}
  BY <1>1, <1>2 DEF Members
<1>4. ASSUME Distinct(list), t \notin Members(list) PROVE Distinct(new)
  BY <1>1, <1>2, <1>4 DEF Distinct, Members
<1>5. QED
  BY <1>1, <1>3, <1>4

\* unlink_susp_tcb takes off the task and nobody else (task.c:452-491).
LEMMA UnlinkRemoves ==
    ASSUME NEW S, NEW list \in Seq(S), NEW t
    PROVE  /\ Without(list, t) \in Seq(S)
           /\ Members(Without(list, t)) \subseteq Members(list)
           /\ Members(list) \ {t} \subseteq Members(Without(list, t))
           /\ Distinct(list) => /\ Members(Without(list, t)) = Members(list) \ {t}
                                /\ Distinct(Without(list, t))
<1>1. CASE t \notin Members(list)
  BY <1>1 DEF Without
<1>2. CASE t \in Members(list)
  <2> DEFINE at == CHOOSE i \in DOMAIN list : list[i] = t
             new == [i \in 1..(Len(list) - 1) |-> list[IF i < at THEN i ELSE i + 1]]
  <2>1. DOMAIN list = 1..Len(list) /\ Len(list) \in Nat
    OBVIOUS
  <2>2. at \in 1..Len(list) /\ list[at] = t
    BY <1>2, <2>1 DEF Members
  <2>3. Without(list, t) = new
    BY <1>2 DEF Without
  <2> HIDE DEF at
  <2>4. new \in Seq(S) /\ DOMAIN new = 1..(Len(list) - 1)
    BY <2>1, <2>2
  <2>5. \A i \in DOMAIN new : \E j \in DOMAIN list \ {at} : new[i] = list[j]
    BY <2>1, <2>2, <2>4
  <2>6. ASSUME NEW j \in DOMAIN list \ {at} PROVE \E i \in DOMAIN new : new[i] = list[j]
    <3>1. CASE j < at
      BY <2>1, <2>2, <2>4, <3>1
    <3>2. CASE ~(j < at)
      <4>1. j - 1 \in DOMAIN new /\ ~(j - 1 < at) /\ (j - 1) + 1 = j
        BY <2>1, <2>2, <2>4, <2>6, <3>2
      <4>2. QED
        BY <2>4, <4>1
    <3>3. QED
      BY <3>1, <3>2
  <2>7. Members(new) = {list[j] : j \in DOMAIN list \ {at}}
    BY <2>5, <2>6 DEF Members
  <2>8. ASSUME Distinct(list), NEW i \in DOMAIN new, NEW j \in DOMAIN new, new[i] = new[j]
        PROVE  i = j
    <3> DEFINE Old(k) == IF k < at THEN k ELSE k + 1
    <3>1. new[i] = list[Old(i)] /\ new[j] = list[Old(j)]
      BY <2>4
    <3>2. Old(i) \in DOMAIN list /\ Old(j) \in DOMAIN list
      BY <2>1, <2>2, <2>4
    <3>3. Old(i) = Old(j)
      BY <2>8, <3>1, <3>2 DEF Distinct
    <3>4. QED
      BY <2>2, <2>4, <3>3
  <2> HIDE DEF new
  <2>9. ASSUME Distinct(list) PROVE Members(new) = Members(list) \ {t}
    <3>1. \A j \in DOMAIN list \ {at} : list[j] # t
      BY <2>2, <2>9 DEF Distinct
    <3>2. QED
      BY <2>2, <2>7, <3>1 DEF Members
  <2>10. Members(new) \subseteq Members(list) /\ Members(list) \ {t} \subseteq Members(new)
    BY <2>2, <2>7 DEF Members
  <2>11. QED
    BY <2>3, <2>4, <2>8, <2>9, <2>10 DEF Distinct
<1>3. QED
  BY <1>1, <1>2
==============================================================================
