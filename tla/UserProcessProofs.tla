--------------------------- MODULE UserProcessProofs ---------------------------
(***************************************************************************)
(* Proofs about UserProcess, for any number of processes and handles.      *)
(***************************************************************************)
EXTENDS UserProcess, NaturalsInduction, WellFoundedInduction, FiniteSetTheorems, TLAPS

(***************************************************************************)
(* Numbers.                                                                *)
(***************************************************************************)

\* A non-empty set of naturals has a least element.
LEMMA LeastElement ==
    ASSUME NEW S \in SUBSET Nat, S # {}
    PROVE  \E m \in S : \A x \in S : m <= x
<1> DEFINE R == OpToRel(<, Nat)
<1>1. IsWellFoundedOn(R, Nat)
  BY NatLessThanWellFounded
<1>2. \A x, y \in Nat : x < y => <<x, y>> \in R
  BY DEF OpToRel
<1> HIDE DEF R
<1>3. PICK m \in S : \A y \in Nat : <<y, m>> \in R => y \notin S
  BY <1>1, WFMin
<1>4. \A x \in S : x \in Nat /\ ~(x < m)
  BY <1>2, <1>3
<1>5. \A x \in S : m <= x
  BY <1>4
<1> QED
  BY <1>5

USE RootAssumption, MaxObjectsAssumption, SentinelAssumption

(***************************************************************************)
(* Consequences of the invariant.                                          *)
(***************************************************************************)

\* Everything that the current process owns, directly or not, is newer than
\* it, so it neither runs nor is current.
LEMMA DescendantsIdle ==
    ASSUME IInv, NEW p \in Proc, current = p,
           NEW c \in Proc, p \in older[c]
    PROVE  /\ c \in DestroyedWith(c)
           /\ \A x \in DestroyedWith(c) :
                x \in Live /\ p \in older[x] /\ x # p /\ MayDestroy(x)
<1> DEFINE S == {x \in Live : p \in older[x]}
<1>1. c \in S /\ c \in Live
  BY DEF IInv, ListOrder, Live
<1>2. Closed(S)
  <2> SUFFICES ASSUME NEW x \in S, NEW h \in Handles, objects[x][h] \in Proc
               PROVE  objects[x][h] \in S
    BY DEF Closed
  <2>1. x \in Proc /\ p \in older[x]
    BY DEF Live
  <2>2. x \in older[objects[x][h]]
    BY <2>1 DEF IInv, OwnersOlder
  <2>3. p \in older[objects[x][h]]
    BY <2>1, <2>2 DEF IInv, ListOrder
  <2>4. objects[x][h] \in Live
    BY <2>3 DEF IInv, ListOrder, Live
  <2> QED
    BY <2>3, <2>4
<1>3. c \in DestroyedWith(c)
  BY <1>1 DEF DestroyedWith
<1>4. ASSUME NEW x \in DestroyedWith(c)
      PROVE  x \in Live /\ p \in older[x] /\ x # p /\ MayDestroy(x)
  <2>1. x \in Live /\ x \in Proc
    BY DEF DestroyedWith, Live
  <2>2. p \in older[x]
    BY <1>1, <1>2, <1>4 DEF DestroyedWith
  <2>3. x # p
    BY <2>1, <2>2 DEF IInv, ListOrder
  <2>4. x \notin older[p]
    BY <2>1, <2>2 DEF IInv, ListOrder
  <2>5. x \notin Running
    BY <2>3, <2>4 DEF IInv, Chain
  <2>6. state[x] \in {"created", "exited"}
    BY <2>1, <2>5 DEF Running, Live, IInv, TypeOK
  <2> QED
    BY <2>1, <2>2, <2>3, <2>6 DEF MayDestroy
<1> QED
  BY <1>3, <1>4

\* The objects of a destroyed process are destroyed with it.
LEMMA DestroyedClosed ==
    ASSUME IInv, NEW c \in Live
    PROVE  Closed(DestroyedWith(c))
<1> DEFINE D == DestroyedWith(c)
<1> SUFFICES ASSUME NEW x \in D, NEW h \in Handles, objects[x][h] \in Proc,
                    NEW S \in SUBSET Live, c \in S, Closed(S)
             PROVE  objects[x][h] \in Live /\ objects[x][h] \in S
  <2>1. \A x \in D, h \in Handles : objects[x][h] \in Proc => objects[x][h] \in Live
    BY DEF DestroyedWith, IInv, OwnedOnce, Live
  <2> QED
    BY <2>1 DEF DestroyedWith, Closed
<1>1. x \in S
  BY DEF DestroyedWith
<1>2. objects[x][h] \in S
  BY <1>1 DEF Closed
<1> QED
  BY <1>2

\* Conversely, only c itself is in a slot of a process that survives.
LEMMA DestroyedOwners ==
    ASSUME IInv, NEW c \in Live,
           NEW p \in Proc, NEW h \in Handles,
           objects[p][h] \in DestroyedWith(c), objects[p][h] # c
    PROVE  p \in DestroyedWith(c)
<1> DEFINE D == DestroyedWith(c)
           x == objects[p][h]
           S == D \ {x}
<1> SUFFICES ASSUME p \notin D PROVE FALSE
  OBVIOUS
<1>1. c \in S /\ S \in SUBSET Live
  BY DEF DestroyedWith
<1>2. x \in Proc
  BY DEF DestroyedWith, Live
<1>3. Closed(S)
  <2> SUFFICES ASSUME NEW y \in S, NEW i \in Handles, objects[y][i] \in Proc
               PROVE  objects[y][i] \in S
    BY DEF Closed
  <2>1. objects[y][i] \in D
    BY DestroyedClosed DEF Closed
  <2>2. y \in Proc /\ y # p
    BY DEF DestroyedWith, Live
  <2>3. objects[y][i] # x
    BY <1>2, <2>2 DEF IInv, OwnedOnce
  <2> QED
    BY <2>1, <2>3
<1>4. x \in S
  BY <1>1, <1>3 DEF DestroyedWith
<1> QED
  BY <1>4

\* Every live process is Root or owned, in the end, by Root.
LEMMA AllOwnedByRoot ==
    ASSUME IInv, Root \in Live
    PROVE  DestroyedWith(Root) = Live
<1> SUFFICES ASSUME NEW S \in SUBSET Live, Root \in S, Closed(S),
                    Live \ S # {}
             PROVE  FALSE
  BY DEF DestroyedWith
<1> DEFINE N == {Cardinality(older[x]) : x \in Live \ S}
<1>1. \A x \in Proc : IsFiniteSet(older[x]) /\ Cardinality(older[x]) \in Nat
  BY FS_Subset, FS_CardinalityType DEF IInv, TypeOK
<1>2. N \in SUBSET Nat /\ N # {}
  BY <1>1 DEF Live
<1>3. PICK m \in N : \A k \in N : m <= k
  BY <1>2, LeastElement
<1>4. PICK x \in Live \ S : Cardinality(older[x]) = m
  BY <1>3
<1>5. x \in Live \ {Root} /\ x \in Proc
  BY DEF Live
<1>6. PICK p \in Proc, h \in Handles : objects[p][h] = x
  BY <1>5 DEF IInv, OwnedOnce
<1>7. p \in older[x] /\ p \in Live
  BY <1>5, <1>6 DEF IInv, OwnersOlder, ListOrder
<1>8. p \notin S
  BY <1>4, <1>5, <1>6 DEF Closed
<1>9. older[p] \subseteq older[x] /\ older[p] # older[x]
  BY <1>5, <1>7 DEF IInv, ListOrder
<1>10. Cardinality(older[p]) < Cardinality(older[x])
  BY <1>1, <1>5, <1>9, FS_Subset
<1>11. Cardinality(older[p]) \in N
  BY <1>7, <1>8
<1> QED
  BY <1>1, <1>3, <1>4, <1>5, <1>10, <1>11

(***************************************************************************)
(* The inductive invariant, one lemma per action.                          *)
(***************************************************************************)

LEMMA InitIInv == Init => IInv
<1> SUFFICES ASSUME Init PROVE IInv
  OBVIOUS
<1> USE DEF Init
<1>1. Live = {} /\ Running = {}
  BY DEF Live, Running
<1>2. NoObjects \in [Handles -> Proc \cup Devices \cup {NoObj}]
  BY DEF NoObjects
<1>3. \A p \in Proc, h \in Handles : objects[p][h] = NoObj
  BY DEF NoObjects
<1>4. TypeOK
  BY <1>2 DEF TypeOK
<1>5. NoKernelFault /\ AddressSpace /\ NothingLeaks /\ ListOrder /\ Phases
  BY <1>1 DEF NoKernelFault, KernelFaults, AddressSpace, NothingLeaks, ListOrder, Phases
<1>6. OwnedOnce /\ OwnersOlder
  BY <1>1, <1>3 DEF OwnedOnce, OwnersOlder
<1>7. WaitersSaved /\ Chain
  BY <1>1 DEF WaitersSaved, Chain
<1> QED
  BY <1>4, <1>5, <1>6, <1>7 DEF IInv

\* A panic a user program causes changes nothing else.
LEMMA PanicIInv ==
    ASSUME IInv, NEW why \in UserFaults, Panic(why)
    PROVE  IInv'
<1>1. UNCHANGED <<state, older, objects, context, starter, current, cr3, rsp0, phase>>
  BY DEF Panic
<1>2. panic' = why
  BY DEF Panic
<1>3. TypeOK' /\ NoKernelFault'
  BY <1>1, <1>2 DEF IInv, TypeOK, NoKernelFault, UserFaults, KernelFaults
<1>4. Live' = Live /\ Running' = Running
  BY <1>1 DEF Live, Running
<1> QED
  BY <1>1, <1>3, <1>4
  DEF IInv, OwnedOnce, AddressSpace, WaitersSaved, NothingLeaks, ListOrder,
      OwnersOlder, Chain, Phases

LEMMA EnterIInv ==
    ASSUME IInv, EnterUserMode
    PROVE  IInv'
<1>1. ~rsp0 /\ Live = {} /\ phase = "start" /\ panic = "no"
  BY DEF EnterUserMode, IInv, Phases
<1>2. /\ state' = [state EXCEPT ![Root] = "running"]
      /\ older' = [older EXCEPT ![Root] = {}]
      /\ context' = [context EXCEPT ![Root] = "used"]
      /\ current' = Root /\ cr3' = Root /\ rsp0' = TRUE /\ phase' = "user"
      /\ UNCHANGED <<objects, starter, panic>>
  BY <1>1 DEF EnterUserMode
<1>3. TypeOK'
  BY <1>2 DEF IInv, TypeOK
<1>4. \A p \in Proc : state[p] = "none" /\ older[p] = {}
  BY <1>1 DEF Live, IInv, ListOrder
<1>5. Live' = {Root} /\ Running' = {Root}
  BY <1>2, <1>4 DEF Live, Running, IInv, TypeOK
<1>6. \A p \in Proc, h \in Handles : objects[p][h] \notin Proc
  BY <1>4 DEF IInv, OwnedOnce
<1>7. OwnedOnce' /\ OwnersOlder'
  BY <1>2, <1>5, <1>6 DEF OwnedOnce, OwnersOlder
<1>8. NoKernelFault' /\ AddressSpace' /\ NothingLeaks' /\ Phases' /\ WaitersSaved'
  BY <1>2, <1>5 DEF IInv, TypeOK, NoKernelFault, KernelFaults, AddressSpace, NothingLeaks, Phases,
                    WaitersSaved
<1>9. ListOrder'
  BY <1>2, <1>4, <1>5 DEF ListOrder, IInv, TypeOK
<1>10. Chain'
  BY <1>2, <1>5 DEF Chain, IInv
<1> QED
  BY <1>3, <1>7, <1>8, <1>9, <1>10 DEF IInv

LEMMA CreateProcessIInv ==
    ASSUME IInv, NEW p \in Proc, CreateProcess(p)
    PROVE  IInv'
<1>1. CASE Panic("out of handles")
  BY <1>1, PanicIInv DEF UserFaults
<1>2. ASSUME NEW h \in Handles, NEW c \in Proc \ Live,
            /\ c # Root
            /\ FreeSlot(p, h)
            /\ state' = [state EXCEPT ![c] = "created"]
            /\ older' = [older EXCEPT ![c] = Live]
            /\ objects' = [objects EXCEPT ![p][h] = c, ![c] = NoObjects]
            /\ context' = [context EXCEPT ![c] = "zero"]
            /\ starter' = [starter EXCEPT ![c] = NoProc]
            /\ UNCHANGED <<current, cr3, rsp0, phase, panic>>
      PROVE  IInv'
  <2>1. current = p /\ phase = "user"
    BY DEF CreateProcess, InUserMode
  <2>2. state[c] = "none" /\ c \in Proc /\ c # Root
    BY <1>2 DEF Live
  <2>3. state[p] = "running" /\ p # c /\ p \in Live
    BY <2>1, <2>2 DEF IInv, AddressSpace, Live
  <2>4. TypeOK'
    <3>1. NoObjects \in [Handles -> Proc \cup Devices \cup {NoObj}]
      BY DEF NoObjects
    <3>2. Live \in SUBSET Proc
      BY DEF Live
    <3> QED
      BY <3>1, <3>2, <1>2 DEF IInv, TypeOK
  <2>5. /\ \A q \in Proc : q # c => /\ state'[q] = state[q]
                                    /\ older'[q] = older[q]
                                    /\ context'[q] = context[q]
                                    /\ starter'[q] = starter[q]
        /\ state'[c] = "created" /\ older'[c] = Live
        /\ UNCHANGED <<current, cr3, rsp0, phase, panic>>
    BY <1>2, <2>2 DEF IInv, TypeOK
  <2>6. Live' = Live \cup {c} /\ Running' = Running
    BY <2>2, <2>5 DEF Live, Running
  <2>7. objects[p][h] = NoObj /\ objects'[p][h] = c
    BY <1>2, <2>2, <2>3 DEF FreeSlot, IInv, TypeOK
  <2>8. \A q \in Proc, i \in Handles :
           objects[q][i] \in Proc => q # c /\ objects[q][i] # c
    BY <2>2 DEF IInv, OwnedOnce
  <2>9. \A q \in Proc, i \in Handles :
           q # c /\ ~(q = p /\ i = h) => objects'[q][i] = objects[q][i]
    BY <1>2, <2>2, <2>3 DEF IInv, TypeOK, NoObjects
  <2>10. \A i \in Handles : objects'[c][i] = NoObj
    BY <1>2, <2>2, <2>3 DEF IInv, TypeOK, NoObjects
  <2>11. \A q \in Proc, i \in Handles : objects'[q][i] \in Proc =>
           \/ q = p /\ i = h /\ objects'[q][i] = c
           \/ /\ q # c /\ ~(q = p /\ i = h) /\ objects'[q][i] = objects[q][i]
              /\ objects[q][i] \in Proc /\ objects[q][i] # c
    BY <2>7, <2>8, <2>9, <2>10
  <2>12. OwnedOnce'
    <3>1. ASSUME NEW q \in Proc, NEW i \in Handles, objects'[q][i] \in Proc
          PROVE  state'[q] # "none" /\ state'[objects'[q][i]] # "none" /\ objects'[q][i] # Root
      BY <3>1, <2>2, <2>3, <2>5, <2>11 DEF IInv, OwnedOnce
    <3>2. ASSUME NEW q \in Proc, NEW r \in Proc, NEW i \in Handles, NEW j \in Handles,
                 objects'[q][i] \in Proc, objects'[q][i] = objects'[r][j]
          PROVE  q = r /\ i = j
      BY <3>2, <2>11 DEF IInv, OwnedOnce
    <3>3. ASSUME NEW d \in Live' \ {Root}
          PROVE  \E q \in Proc, i \in Handles : objects'[q][i] = d
      <4>1. CASE d = c
        BY <4>1, <2>7
      <4>2. CASE d # c
        <5>1. PICK q \in Proc, i \in Handles : objects[q][i] = d
          BY <4>2, <2>6 DEF IInv, OwnedOnce
        <5>2. d \in Proc
          BY <4>2, <2>6 DEF Live
        <5> QED
          BY <5>1, <5>2, <2>7, <2>8, <2>9
      <4> QED
        BY <4>1, <4>2
    <3> QED
      BY <3>1, <3>2, <3>3 DEF OwnedOnce
  <2>13. ListOrder'
    BY <2>2, <2>5, <2>6 DEF IInv, ListOrder, Live
  <2>14. OwnersOlder'
    <3> SUFFICES ASSUME NEW q \in Proc, NEW i \in Handles, objects'[q][i] \in Proc
                 PROVE  q \in older'[objects'[q][i]]
      BY DEF OwnersOlder
    <3> QED
      BY <2>3, <2>5, <2>11 DEF IInv, OwnersOlder
  <2>15. \A q \in Running : q # c /\ older'[q] = older[q] /\ starter'[q] = starter[q]
    BY <2>2, <2>5 DEF Running
  <2>16. Chain'
    <3>1. older'[current] = older[current] /\ starter'[Root] = starter[Root]
      BY <2>1, <2>2, <2>3, <2>5
    <3>2. ASSUME NEW q \in Running \ {Root}
          PROVE  /\ starter'[q] \in Running /\ starter'[q] \in older'[q]
                 /\ \A r \in Running : r \in older'[q] =>
                      r = starter'[q] \/ r \in older'[starter'[q]]
      BY <2>15 DEF IInv, Chain
    <3> QED
      BY <3>1, <3>2, <2>5, <2>6 DEF IInv, Chain
  <2>17. WaitersSaved'
    BY <2>5, <2>6, <2>15 DEF IInv, WaitersSaved, Running
  <2>18. NoKernelFault' /\ AddressSpace' /\ NothingLeaks' /\ Phases'
    BY <2>1, <2>2, <2>3, <2>5 DEF IInv, NoKernelFault, AddressSpace, NothingLeaks, Phases
  <2> QED
    BY <2>4, <2>12, <2>13, <2>14, <2>16, <2>17, <2>18 DEF IInv
<1> QED
  BY <1>1, <1>2 DEF CreateProcess

\* Devices in slots do not matter to the order of the processes.
LEMMA SlotIInv ==
    ASSUME IInv, NEW p \in Proc, NEW h \in Handles, NEW v \in Devices \cup {NoObj},
           objects[p][h] \notin Proc,
           objects' = [objects EXCEPT ![p][h] = v],
           UNCHANGED <<state, older, context, starter, current, cr3, rsp0, phase, panic>>
    PROVE  IInv'
<1>1. TypeOK'
  BY DEF IInv, TypeOK
<1>2. Live' = Live /\ Running' = Running
  BY DEF Live, Running
<1>3. \A q \in Proc, i \in Handles :
         /\ objects'[q][i] \in Proc <=> objects[q][i] \in Proc
         /\ objects[q][i] \in Proc => objects'[q][i] = objects[q][i]
  BY DEF IInv, TypeOK
<1>4. OwnedOnce'
  <2>1. ASSUME NEW d \in Live \ {Root}
        PROVE  \E q \in Proc, i \in Handles : objects'[q][i] = d
    BY <1>3 DEF IInv, OwnedOnce, Live
  <2>2. \A q, r \in Proc, i, j \in Handles :
           objects'[q][i] \in Proc /\ objects'[q][i] = objects'[r][j] => q = r /\ i = j
    BY <1>3 DEF IInv, OwnedOnce
  <2>3. \A q \in Proc, i \in Handles : objects'[q][i] \in Proc =>
         state[q] # "none" /\ state[objects'[q][i]] # "none" /\ objects'[q][i] # Root
    BY <1>3 DEF IInv, OwnedOnce
  <2> QED
    BY <1>2, <2>1, <2>2, <2>3 DEF OwnedOnce
<1>5. OwnersOlder'
  BY <1>3 DEF IInv, OwnersOlder
<1> QED
  BY <1>1, <1>2, <1>4, <1>5
  DEF IInv, NoKernelFault, AddressSpace, WaitersSaved, NothingLeaks, ListOrder, Chain, Phases

LEMMA CreateDeviceIInv ==
    ASSUME IInv, NEW p \in Proc, NEW d \in Devices, CreateDevice(p, d)
    PROVE  IInv'
<1>1. CASE Panic("out of handles")
  BY <1>1, PanicIInv DEF UserFaults
<1>2. ASSUME NEW h \in Handles, FreeSlot(p, h),
             objects' = [objects EXCEPT ![p][h] = d],
             UNCHANGED <<state, older, context, starter, current, cr3, rsp0, phase, panic>>
      PROVE  IInv'
  <2>1. objects[p][h] \notin Proc
    BY <1>2 DEF FreeSlot
  <2> QED
    BY <1>2, <2>1, SlotIInv
<1> QED
  BY <1>1, <1>2 DEF CreateDevice

\* object_close of a process: its destructor runs, and those of all it owns.
LEMMA CloseProcessIInv ==
    ASSUME IInv, NEW p \in Proc, InUserMode(p), NEW h \in Handles,
           NEW c \in Proc, objects[p][h] = c,
           NEW D, D = DestroyedWith(c), Destroy(D),
           objects' = [x \in Proc |-> IF x \in D THEN NoObjects
                                      ELSE IF x = p THEN [objects[p] EXCEPT ![h] = NoObj]
                                      ELSE objects[x]],
           UNCHANGED <<current, cr3, rsp0, phase, panic>>
    PROVE  IInv'
<1>1. current = p /\ phase = "user" /\ p \in older[c] /\ c \in Live
  BY DEF InUserMode, IInv, OwnersOlder, OwnedOnce, Live
<1>2. c \in D /\ \A x \in D : x \in Live /\ x \in Proc /\ x # p /\ MayDestroy(x)
  BY <1>1, DescendantsIdle DEF Live
<1>3. Root \notin D
  BY <1>1, <1>2 DEF IInv, Phases, MayDestroy
<1>4. /\ \A q \in Proc \ D : /\ state'[q] = state[q] /\ older'[q] = older[q] \ D
                             /\ context'[q] = context[q] /\ starter'[q] = starter[q]
      /\ \A q \in D : state'[q] = "none" /\ older'[q] = {}
  BY <1>2 DEF Destroy
<1>5. TypeOK'
  <2>1. NoObjects \in [Handles -> Proc \cup Devices \cup {NoObj}]
    BY DEF NoObjects
  <2>2. objects' \in [Proc -> [Handles -> Proc \cup Devices \cup {NoObj}]]
    BY <2>1 DEF IInv, TypeOK
  <2> QED
    BY <2>2 DEF IInv, TypeOK, Destroy
<1>6. Live' = Live \ D /\ Running' = Running
  BY <1>2, <1>4 DEF Live, Running, MayDestroy
<1>7. \A q \in Running : q \notin D
  BY <1>2 DEF MayDestroy, Running
<1>8. \A q \in Proc, i \in Handles :
         objects'[q][i] = IF q \in D \/ (q = p /\ i = h) THEN NoObj ELSE objects[q][i]
  BY <1>2 DEF IInv, TypeOK, NoObjects
<1>9. ASSUME NEW q \in Proc, NEW i \in Handles, objects'[q][i] \in Proc
      PROVE  /\ q \notin D /\ objects'[q][i] = objects[q][i] /\ objects[q][i] \in Proc
             /\ objects[q][i] \notin D
  <2>1. q \notin D /\ ~(q = p /\ i = h) /\ objects'[q][i] = objects[q][i]
    BY <1>8, <1>9
  <2>2. objects[q][i] # c
    BY <2>1, <1>9 DEF IInv, OwnedOnce
  <2> QED
    BY <1>1, <1>9, <2>1, <2>2, DestroyedOwners
<1>10. OwnedOnce'
  <2>1. ASSUME NEW q \in Proc, NEW i \in Handles, objects'[q][i] \in Proc
        PROVE  state'[q] # "none" /\ state'[objects'[q][i]] # "none" /\ objects'[q][i] # Root
    BY <2>1, <1>4, <1>9 DEF IInv, OwnedOnce
  <2>2. ASSUME NEW q \in Proc, NEW r \in Proc, NEW i \in Handles, NEW j \in Handles,
               objects'[q][i] \in Proc, objects'[q][i] = objects'[r][j]
        PROVE  q = r /\ i = j
    BY <2>2, <1>9 DEF IInv, OwnedOnce
  <2>3. ASSUME NEW d \in Live' \ {Root}
        PROVE  \E q \in Proc, i \in Handles : objects'[q][i] = d
    <3>1. d \in Live /\ d \notin D /\ d \in Proc
      BY <1>6 DEF Live
    <3>2. PICK q \in Proc, i \in Handles : objects[q][i] = d
      BY <3>1 DEF IInv, OwnedOnce
    <3>3. q \notin D
      BY <3>1, <3>2, <1>1, DestroyedClosed DEF Closed
    <3> QED
      BY <3>1, <3>2, <3>3, <1>2, <1>8
  <2> QED
    BY <2>1, <2>2, <2>3 DEF OwnedOnce
<1>11. ListOrder'
  BY <1>3, <1>4, <1>6 DEF IInv, ListOrder, Live
<1>12. OwnersOlder'
  <2> SUFFICES ASSUME NEW q \in Proc, NEW i \in Handles, objects'[q][i] \in Proc
               PROVE  q \in older'[objects'[q][i]]
    BY DEF OwnersOlder
  <2> QED
    BY <1>4, <1>9 DEF IInv, OwnersOlder
<1>13. \A q \in Running : /\ q \in Proc \ D /\ starter'[q] = starter[q]
                          /\ \A r \in Running : r \in older'[q] <=> r \in older[q]
  BY <1>4, <1>7 DEF Running
<1>14. Chain'
  <2>1. ASSUME NEW q \in Running \ {Root}
        PROVE  /\ starter'[q] \in Running /\ starter'[q] \in older'[q]
               /\ \A r \in Running : r \in older'[q] =>
                    r = starter'[q] \/ r \in older'[starter'[q]]
    BY <1>13 DEF IInv, Chain
  <2>2. current' # NoProc => Running \subseteq {current'} \cup older'[current']
    BY <1>1, <1>13 DEF IInv, Chain, AddressSpace, Running
  <2>3. starter'[Root] = NoProc
    BY <1>3, <1>4 DEF IInv, Chain
  <2> QED
    BY <1>6, <2>1, <2>2, <2>3, current' = current DEF IInv, Chain
<1>15. WaitersSaved'
  BY <1>4, <1>6, <1>13 DEF IInv, WaitersSaved
<1>16. NoKernelFault' /\ AddressSpace' /\ NothingLeaks' /\ Phases'
  BY <1>1, <1>2, <1>3, <1>4
  DEF IInv, NoKernelFault, AddressSpace, NothingLeaks, Phases
<1> QED
  BY <1>5, <1>10, <1>11, <1>12, <1>14, <1>15, <1>16 DEF IInv

LEMMA CloseIInv ==
    ASSUME IInv, NEW p \in Proc, NEW h \in AnyHandle, Close(p, h)
    PROVE  IInv'
<1>0. InUserMode(p)
  BY DEF Close
<1>1. CASE Panic("bad handle")
  BY <1>1, PanicIInv DEF UserFaults
<1>2. CASE /\ HandleValid(p, h) /\ objects[p][h] \in Devices
           /\ objects' = [objects EXCEPT ![p][h] = NoObj]
           /\ UNCHANGED <<state, older, context, starter, current, cr3, rsp0, phase, panic>>
  <2>1. h \in Handles /\ objects[p][h] \notin Proc
    BY <1>2 DEF HandleValid
  <2> QED
    BY <1>2, <2>1, SlotIInv
<1>3. ASSUME HandleValid(p, h), objects[p][h] \in Proc,
             NEW D, D = DestroyedWith(objects[p][h])
      PROVE  ~\E x \in D : ~MayDestroy(x)
  <2>1. h \in Handles /\ current = p /\ p \in older[objects[p][h]]
    BY <1>0, <1>3 DEF HandleValid, InUserMode, IInv, OwnersOlder
  <2> QED
    BY <1>3, <2>1, DescendantsIdle
<1>4. ASSUME HandleValid(p, h), objects[p][h] \in Proc,
             NEW D, D = DestroyedWith(objects[p][h]), Destroy(D),
             objects' = [x \in Proc |-> IF x \in D THEN NoObjects
                                      ELSE IF x = p THEN [objects[p] EXCEPT ![h] = NoObj]
                                      ELSE objects[x]],
             UNCHANGED <<current, cr3, rsp0, phase, panic>>
      PROVE  IInv'
  <2>1. h \in Handles
    BY <1>4 DEF HandleValid
  <2> QED
    BY <1>0, <1>4, <2>1, CloseProcessIInv
<1> QED
  BY <1>1, <1>2, <1>3, <1>4 DEF Close

LEMMA StartExeIInv ==
    ASSUME IInv, NEW p \in Proc, NEW h \in AnyHandle, StartExe(p, h)
    PROVE  IInv'
<1>1. CASE \E why \in UserFaults : Panic(why)
  BY <1>1, PanicIInv
<1>2. CASE ~\E why \in UserFaults : Panic(why)
  <2> DEFINE c == objects[p][h]
  <2>1. /\ InUserMode(p) /\ HandleValid(p, h) /\ c \in Proc
        /\ state[c] = "created"
        /\ state' = [state EXCEPT ![c] = "running"]
        /\ context' = [context EXCEPT ![p] = "saved", ![c] = "used"]
        /\ starter' = [starter EXCEPT ![c] = p]
        /\ current' = c /\ cr3' = c
        /\ UNCHANGED <<older, objects, rsp0, phase, panic>>
    BY <1>2 DEF StartExe, UserFaults, SwitchContexts
  <2>2. h \in Handles /\ current = p /\ phase = "user"
    BY <2>1 DEF HandleValid, InUserMode
  <2>3. p \in older[c] /\ c # Root /\ state[p] = "running" /\ c # p
    BY <2>1, <2>2 DEF IInv, OwnersOlder, OwnedOnce, AddressSpace
  <2> HIDE DEF c
  <2>4. TypeOK'
    BY <2>1 DEF IInv, TypeOK
  <2>5. /\ \A q \in Proc : q # c => state'[q] = state[q] /\ starter'[q] = starter[q]
        /\ \A q \in Proc : q # c /\ q # p => context'[q] = context[q]
        /\ state'[c] = "running" /\ starter'[c] = p /\ context'[p] = "saved"
    BY <2>1, <2>3 DEF IInv, TypeOK
  <2>6. Live' = Live /\ Running' = Running \cup {c} /\ c \notin Running
    BY <2>1, <2>5 DEF Live, Running
  <2>7. OwnedOnce'
    BY <2>1, <2>5, <2>6 DEF IInv, OwnedOnce
  <2>8. ListOrder' /\ OwnersOlder'
    BY <2>1, <2>5, <2>6 DEF IInv, ListOrder, OwnersOlder
  <2>9. older[p] \subseteq older[c] /\ c \notin older[p] /\ c \notin older[c]
    BY <2>1, <2>3 DEF IInv, ListOrder
  <2>10. Running \subseteq {p} \cup older[p]
    BY <2>2, <2>3 DEF IInv, Chain
  <2>11. Chain'
    <3>1. ASSUME NEW q \in Running' \ {Root}
          PROVE  /\ starter'[q] \in Running' /\ starter'[q] \in older'[q]
                 /\ \A r \in Running' : r \in older'[q] =>
                      r = starter'[q] \/ r \in older'[starter'[q]]
      <4>1. CASE q = c
        <5>1. p \in Running
          BY <2>3 DEF Running
        <5> QED
          BY <4>1, <5>1, <2>1, <2>3, <2>5, <2>6, <2>9, <2>10
      <4>2. CASE q # c
        <5>1. q \in Running \ {Root} /\ q \in Proc
          BY <4>2, <2>6 DEF Running
        <5>2. c \notin older[q]
          BY <5>1, <2>9, <2>10, <2>3 DEF IInv, ListOrder
        <5> QED
          BY <4>2, <5>1, <5>2, <2>1, <2>5, <2>6 DEF IInv, Chain
      <4> QED
        BY <4>1, <4>2
    <3>2. Running' \subseteq {current'} \cup older'[current']
      BY <2>1, <2>3, <2>6, <2>9, <2>10
    <3>3. starter'[Root] = NoProc
      BY <2>3, <2>5 DEF IInv, Chain
    <3>4. current' # NoProc
      BY <2>1
    <3> QED
      BY <3>1, <3>2, <3>3, <3>4 DEF Chain
  <2>12. WaitersSaved'
    BY <2>1, <2>2, <2>5, <2>6 DEF IInv, WaitersSaved, Running
  <2>13. NoKernelFault' /\ AddressSpace' /\ NothingLeaks' /\ Phases'
    BY <2>1, <2>2, <2>3, <2>5 DEF IInv, NoKernelFault, AddressSpace, NothingLeaks, Phases
  <2> QED
    BY <2>4, <2>7, <2>8, <2>11, <2>12, <2>13 DEF IInv
<1> QED
  BY <1>1, <1>2

\* exit: the process that is resumed is the starter of the one that exits.
LEMMA FirstRunningIsStarter ==
    ASSUME IInv, NEW p \in Proc, InUserMode(p),
           NEW q \in Running \ {p}, FirstRunning(Running \ {p}, q)
    PROVE  p # Root /\ q = starter[p]
<1>1. current = p /\ state[p] = "running" /\ p \in Running /\ q \in Proc
  BY DEF InUserMode, IInv, AddressSpace, Running
<1>2. q \in older[p]
  BY <1>1 DEF IInv, Chain
<1>3. p # Root
  BY <1>2 DEF IInv, ListOrder
<1>4. /\ starter[p] \in Running /\ starter[p] \in older[p]
      /\ q = starter[p] \/ q \in older[starter[p]]
  BY <1>1, <1>2, <1>3 DEF IInv, Chain
<1>5. starter[p] # p
  BY <1>4 DEF IInv, ListOrder
<1>6. starter[p] = q \/ starter[p] \in older[q]
  BY <1>4, <1>5 DEF FirstRunning
<1>7. ~(q \in older[starter[p]] /\ starter[p] \in older[q])
  BY <1>1, <1>4 DEF IInv, ListOrder, Running
<1> QED
  BY <1>3, <1>4, <1>6, <1>7

LEMMA ExitIInv ==
    ASSUME IInv, NEW p \in Proc, Exit(p)
    PROVE  /\ IInv'
           /\ state'[p] = "exited" /\ current' = starter[p]
           /\ \A q \in Proc : q # p => state'[q] = state[q]
<1> DEFINE R == Running \ {p}
<1>1. /\ InUserMode(p) /\ current = p /\ state[p] = "running" /\ rsp0 /\ phase = "user"
      /\ p \in Running
  BY DEF Exit, InUserMode, IInv, AddressSpace, Phases, Running
<1>2. /\ state' = [state EXCEPT ![p] = "exited"]
      /\ UNCHANGED <<older, objects, starter, panic>>
      /\ \/ \E q \in R : FirstRunning(R, q) /\ ResumeProcess(q)
         \/ R = {} /\ ResumeKernel
  BY <1>1 DEF Exit
<1>3. state'[p] = "exited" /\ \A q \in Proc : q # p => state'[q] = state[q]
  BY <1>2 DEF IInv, TypeOK
<1>4. Live' = Live /\ Running' = R
  BY <1>1, <1>3 DEF Live, Running
<1>5. OwnedOnce' /\ ListOrder' /\ OwnersOlder'
  BY <1>1, <1>2, <1>3, <1>4 DEF IInv, OwnedOnce, ListOrder, OwnersOlder
<1>6. ASSUME NEW q \in R \ {Root}
      PROVE  /\ starter[q] \in R /\ starter[q] \in older[q]
             /\ \A r \in R : r \in older[q] => r = starter[q] \/ r \in older[starter[q]]
  <2>1. q \in older[p] /\ q \in Proc
    BY <1>1 DEF IInv, Chain, Running
  <2>2. starter[q] # p
    BY <2>1 DEF IInv, Chain, ListOrder
  <2> QED
    BY <2>2 DEF IInv, Chain
<1>7. ASSUME NEW q \in R, FirstRunning(R, q), ResumeProcess(q)
      PROVE  IInv' /\ current' = starter[p]
  <2>1. p # Root /\ q = starter[p] /\ q \in Proc
    BY <1>1, <1>7, FirstRunningIsStarter DEF Running
  <2>2. /\ current' = q /\ cr3' = q /\ UNCHANGED <<rsp0, phase>>
        /\ context' = [context EXCEPT ![q] = "used"]
    BY <1>7 DEF ResumeProcess
  <2>3. TypeOK'
    BY <1>2, <2>1, <2>2 DEF IInv, TypeOK
  <2>4. Chain'
    <3>1. R \subseteq {q} \cup older[q]
      BY <1>7 DEF FirstRunning
    <3>2. q # NoProc
      BY <2>1
    <3> QED
      BY <1>2, <1>4, <1>6, <2>2, <3>1, <3>2 DEF IInv, Chain
  <2>5. WaitersSaved'
    BY <1>1, <1>4, <2>2 DEF IInv, WaitersSaved, TypeOK, Running
  <2>6. NoKernelFault' /\ AddressSpace' /\ NothingLeaks' /\ Phases'
    BY <1>1, <1>2, <1>3, <2>1, <2>2
    DEF IInv, NoKernelFault, AddressSpace, NothingLeaks, Phases, Running
  <2> QED
    BY <1>5, <2>1, <2>2, <2>3, <2>4, <2>5, <2>6 DEF IInv
<1>8. ASSUME R = {}, ResumeKernel
      PROVE  IInv' /\ current' = starter[p]
  <2>1. p = Root
    <3> SUFFICES ASSUME p # Root PROVE FALSE
      OBVIOUS
    <3>1. starter[p] \in Running /\ starter[p] \in older[p]
      BY <1>1 DEF IInv, Chain
    <3> QED
      BY <1>8, <3>1 DEF IInv, ListOrder
  <2>2. /\ current' = NoProc /\ cr3' = Kernel /\ rsp0' = FALSE /\ phase' = "back"
        /\ context' = context
    BY <1>8 DEF ResumeKernel
  <2>3. TypeOK'
    BY <1>2, <2>1, <2>2 DEF IInv, TypeOK
  <2>4. Chain' /\ WaitersSaved'
    BY <1>2, <1>4, <1>8, <2>2 DEF IInv, Chain, WaitersSaved
  <2>5. NoKernelFault' /\ AddressSpace' /\ NothingLeaks' /\ Phases'
    BY <1>2, <1>3, <2>1, <2>2 DEF IInv, NoKernelFault, AddressSpace, NothingLeaks, Phases
  <2>6. current' = starter[p]
    BY <2>1, <2>2 DEF IInv, Chain
  <2> QED
    BY <1>5, <2>3, <2>4, <2>5, <2>6 DEF IInv
<1> QED
  BY <1>2, <1>3, <1>7, <1>8

LEMMA LeaveIInv ==
    ASSUME IInv, LeaveUserMode
    PROVE  IInv'
<1>1. /\ phase = "back" /\ current = NoProc /\ state[Root] = "exited" /\ Root \in Live
      /\ Running = {}
  BY DEF LeaveUserMode, IInv, Phases, Live, Chain
<1>2. DestroyedWith(Root) = Live
  BY <1>1, AllOwnedByRoot
<1>3. \A x \in Live : MayDestroy(x)
  BY <1>1 DEF MayDestroy, Live, Running, IInv, TypeOK
<1>4. /\ Destroy(Live)
      /\ objects' = [x \in Proc |-> IF x \in Live THEN NoObjects ELSE objects[x]]
      /\ phase' = "done"
      /\ UNCHANGED <<current, cr3, rsp0, panic>>
  BY <1>1, <1>2, <1>3 DEF LeaveUserMode
<1>5. \A x \in Proc : state'[x] = "none" /\ older'[x] = {} /\ starter'[x] \in {starter[x], NoProc}
  BY <1>4 DEF Destroy, Live, IInv, ListOrder
<1>6. Live' = {} /\ Running' = {}
  BY <1>5 DEF Live, Running
<1>7. TypeOK'
  <2>1. NoObjects \in [Handles -> Proc \cup Devices \cup {NoObj}]
    BY DEF NoObjects
  <2>2. objects' \in [Proc -> [Handles -> Proc \cup Devices \cup {NoObj}]]
    BY <1>4, <2>1 DEF IInv, TypeOK
  <2> QED
    BY <1>4, <2>2 DEF IInv, TypeOK, Destroy
<1>8. \A q \in Proc, i \in Handles : objects'[q][i] \notin Proc
  BY <1>4 DEF NoObjects, IInv, OwnedOnce, Live
<1>9. OwnedOnce' /\ OwnersOlder'
  BY <1>6, <1>8 DEF OwnedOnce, OwnersOlder
<1>10. ListOrder' /\ Chain' /\ WaitersSaved'
  BY <1>1, <1>4, <1>5, <1>6 DEF ListOrder, Chain, WaitersSaved, IInv
<1>11. NoKernelFault' /\ AddressSpace' /\ NothingLeaks' /\ Phases'
  BY <1>1, <1>4, <1>6 DEF IInv, NoKernelFault, AddressSpace, NothingLeaks, Phases
<1> QED
  BY <1>7, <1>9, <1>10, <1>11 DEF IInv

LEMMA SyscallIInv ==
    ASSUME IInv, NEW p \in Proc, Syscall(p)
    PROVE  IInv'
<1>1. ASSUME NEW h \in AnyHandle, ProcessExitCode(p, h) PROVE IInv'
  BY <1>1, PanicIInv DEF ProcessExitCode, UserFaults
<1>2. ASSUME NEW h \in AnyHandle, NEW proto, UseObject(p, h, proto) PROVE IInv'
  BY <1>2, PanicIInv DEF UseObject, UserFaults
<1>3. CASE BadRequest(p)
  BY <1>3, PanicIInv DEF BadRequest, UserFaults
<1> QED
  BY <1>1, <1>2, <1>3, CreateProcessIInv, CreateDeviceIInv, CloseIInv, StartExeIInv, ExitIInv
  DEF Syscall

LEMMA StutterIInv ==
    ASSUME IInv, UNCHANGED vars
    PROVE  IInv'
<1>1. Live' = Live /\ Running' = Running
  BY DEF vars, Live, Running
<1> QED
  BY <1>1
  DEF vars, IInv, TypeOK, NoKernelFault, OwnedOnce, AddressSpace, WaitersSaved,
      NothingLeaks, ListOrder, OwnersOlder, Chain, Phases

\* IInv is an invariant.
LEMMA IInvInvariant == Spec => []IInv
<1>1. IInv /\ [Next]_vars => IInv'
  BY EnterIInv, SyscallIInv, LeaveIInv, StutterIInv DEF Next
<1> QED
  BY <1>1, InitIInv, PTL DEF Spec

\* The members of the process objects keep their types.
THEOREM TypeCorrect == Spec => []TypeOK
<1>1. IInv => TypeOK
  BY DEF IInv
<1> QED
  BY <1>1, IInvInvariant, PTL

\* No sequence of system calls trips a REQUIRE about the kernel's own state,
\* in particular those of ~user_process.
THEOREM KernelSound == Spec => []NoKernelFault
<1>1. IInv => NoKernelFault
  BY DEF IInv
<1> QED
  BY <1>1, IInvInvariant, PTL

\* CR3 follows the current process, and who waits has the registers that its
\* start_exe saved.
THEOREM ContextsCorrect == Spec => []ContextsSound
<1>1. IInv => ContextsSound
  BY DEF IInv, ContextsSound
<1> QED
  BY <1>1, IInvInvariant, PTL

\* Handles own processes one to one, and none dangles.
THEOREM OwnershipSound == Spec => []OwnedOnce
<1>1. IInv => OwnedOnce
  BY DEF IInv
<1> QED
  BY <1>1, IInvInvariant, PTL

\* Leaving usermode_test leaks no process.
THEOREM NoLeak == Spec => []NothingLeaks
<1>1. IInv => NothingLeaks
  BY DEF IInv
<1> QED
  BY <1>1, IInvInvariant, PTL

\* Processes nest: exit resumes the process that called start_exe, found by
\* a search of the global list for the first running process.
THEOREM ExitResumesStarter == Spec => ResumesStarter
<1> DEFINE Resumes == \A p \in Proc : state[p] = "running" /\ state'[p] = "exited"
                                        => current' = starter[p]
<1>1. IInv /\ [Next]_vars => [Resumes]_vars
  <2> SUFFICES ASSUME IInv, Next,
                      NEW p \in Proc, state[p] = "running", state'[p] = "exited"
               PROVE  current' = starter[p]
    OBVIOUS
  <2>0. \A why : Panic(why) => state' = state
    BY DEF Panic
  <2>1. CASE EnterUserMode
    <3>1. Live = {}
      BY <2>1 DEF EnterUserMode, IInv, Phases
    <3> QED
      BY <3>1 DEF Live
  <2>2. CASE LeaveUserMode
    BY <2>0, <2>2 DEF LeaveUserMode, Destroy
  <2>3. ASSUME NEW q \in Proc, Syscall(q) PROVE current' = starter[p]
    <3>1. CASE Exit(q)
      BY <3>1, ExitIInv
    <3>2. CASE CreateProcess(q)
      BY <2>0, <3>2 DEF CreateProcess, IInv, TypeOK
    <3>3. ASSUME NEW d \in Devices, CreateDevice(q, d) PROVE state' = state
      BY <2>0, <3>3 DEF CreateDevice
    <3>4. ASSUME NEW h \in AnyHandle, Close(q, h) PROVE state'[p] \in {state[p], "none"}
      BY <2>0, <3>4 DEF Close, Destroy
    <3>5. ASSUME NEW h \in AnyHandle, StartExe(q, h) PROVE state'[p] \in {state[p], "running"}
      BY <2>0, <3>5 DEF StartExe, IInv, TypeOK
    <3>6. ASSUME NEW h \in AnyHandle, ProcessExitCode(q, h) PROVE state' = state
      BY <2>0, <3>6 DEF ProcessExitCode
    <3>7. ASSUME NEW h \in AnyHandle, NEW proto, UseObject(q, h, proto) PROVE state' = state
      BY <2>0, <3>7 DEF UseObject
    <3>8. CASE BadRequest(q)
      BY <2>0, <3>8 DEF BadRequest
    <3> QED
      BY <2>3, <3>1, <3>2, <3>3, <3>4, <3>5, <3>6, <3>7, <3>8 DEF Syscall
  <2> QED
    BY <2>1, <2>2, <2>3 DEF Next
<1> QED
  BY <1>1, IInvInvariant, PTL DEF Spec, ResumesStarter
===============================================================================
