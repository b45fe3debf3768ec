------------------------------ MODULE I825xProofs ------------------------------
(***************************************************************************)
(* Proofs about I825x, for rings of any size and any number of frames.     *)
(***************************************************************************)
EXTENDS I825x, SequencesExt, SequenceTheorems, FiniteSetTheorems, TLAPS

(***************************************************************************)
(* Indices of a ring.                                                      *)
(***************************************************************************)

\* The successor of an index wraps at the end of the ring.
LEMMA RingSuccessor ==
    ASSUME NEW n \in Nat \ {0}, NEW i \in 0 .. n - 1
    PROVE  (i + 1) % n = IF i + 1 = n THEN 0 ELSE i + 1
OBVIOUS

(***************************************************************************)
(* Prefixes of sequences.                                                  *)
(***************************************************************************)

\* A prefix, element by element.
LEMMA PrefixElements ==
    ASSUME NEW S, NEW s \in Seq(S), NEW t \in Seq(S)
    PROVE  IsPrefix(s, t) <=> /\ Len(s) <= Len(t)
                              /\ \A i \in 1 .. Len(s) : s[i] = t[i]
<1>1. /\ SubSeq(s, 1, Len(s)) \in Seq(S)
      /\ Len(SubSeq(s, 1, Len(s))) = Len(s)
      /\ \A i \in 1 .. Len(s) : SubSeq(s, 1, Len(s))[i] = s[i]
  OBVIOUS
<1>2. ASSUME Len(s) <= Len(t)
      PROVE  /\ SubSeq(t, 1, Len(s)) \in Seq(S)
             /\ Len(SubSeq(t, 1, Len(s))) = Len(s)
             /\ \A i \in 1 .. Len(s) : SubSeq(t, 1, Len(s))[i] = t[i]
  BY <1>2
<1>3. ASSUME Len(s) <= Len(t), \A i \in 1 .. Len(s) : s[i] = t[i]
      PROVE  SubSeq(s, 1, Len(s)) = SubSeq(t, 1, Len(s))
  BY <1>1, <1>2, <1>3, SeqEqual
<1> QED
  BY <1>1, <1>2, <1>3 DEF IsPrefix

\* A prefix stays one when the longer sequence grows.
LEMMA PrefixGrows ==
    ASSUME NEW S, NEW s \in Seq(S), NEW t \in Seq(S), NEW e \in S, IsPrefix(s, t)
    PROVE  IsPrefix(s, Append(t, e))
<1>1. Append(t, e) \in Seq(S) /\ Len(Append(t, e)) = Len(t) + 1
  OBVIOUS
<1>2. \A i \in 1 .. Len(t) : Append(t, e)[i] = t[i]
  OBVIOUS
<1>3. Len(s) <= Len(t) /\ \A i \in 1 .. Len(s) : s[i] = t[i]
  BY PrefixElements
<1>4. Len(s) <= Len(Append(t, e)) /\ \A i \in 1 .. Len(s) : s[i] = Append(t, e)[i]
  BY <1>1, <1>2, <1>3
<1> QED
  BY <1>1, <1>4, PrefixElements

\* A prefix may take the next element of the longer sequence.
LEMMA PrefixTakes ==
    ASSUME NEW S, NEW s \in Seq(S), NEW t \in Seq(S), IsPrefix(s, t),
           Len(s) < Len(t)
    PROVE  IsPrefix(Append(s, t[Len(s) + 1]), t)
<1> DEFINE u == Append(s, t[Len(s) + 1])
<1>1. u \in Seq(S) /\ Len(u) = Len(s) + 1
  OBVIOUS
<1>2. u[Len(s) + 1] = t[Len(s) + 1] /\ \A i \in 1 .. Len(s) : u[i] = s[i]
  OBVIOUS
<1>3. \A i \in 1 .. Len(s) : s[i] = t[i]
  BY PrefixElements
<1> HIDE DEF u
<1>4. Len(u) <= Len(t) /\ \A i \in 1 .. Len(u) : u[i] = t[i]
  BY <1>1, <1>2, <1>3
<1>5. IsPrefix(u, t)
  BY <1>1, <1>4, PrefixElements
<1> QED
  BY <1>5 DEF u

USE RingAssumption, BoundAssumption

(***************************************************************************)
(* The shape of the state.                                                 *)
(***************************************************************************)

\* The hardware and the driver step through their rings.
LEMMA RingSteps ==
    /\ \A i \in RxIndices : /\ NextRx(i) = IF i + 1 = NumRx THEN 0 ELSE i + 1
                            /\ (i + 1) % NumRx = NextRx(i)
                            /\ NextRx(i) \in RxIndices
    /\ \A i \in TxIndices : /\ NextTx(i) = IF i + 1 = NumTx THEN 0 ELSE i + 1
                            /\ (i + 1) % NumTx = NextTx(i)
                            /\ NextTx(i) \in TxIndices
<1>1. NumRx \in Nat \ {0} /\ NumTx \in Nat \ {0}
  OBVIOUS
<1>2. \A i \in 0 .. NumRx - 1 : (i + 1) % NumRx = IF i + 1 = NumRx THEN 0 ELSE i + 1
  BY <1>1, RingSuccessor
<1>3. \A i \in 0 .. NumTx - 1 : (i + 1) % NumTx = IF i + 1 = NumTx THEN 0 ELSE i + 1
  BY <1>1, RingSuccessor
<1> QED
  BY <1>2, <1>3 DEF NextRx, NextTx, RxIndices, TxIndices

\* No step leaves the types; the batch is counted down only while it lasts.
LEMMA TypeStep ==
    ASSUME TypeOK, RxRing, [Next]_vars
    PROVE  TypeOK'
<1>1. \A i \in RxIndices : (i + 1) % NumRx \in RxIndices /\ NextRx(i) \in RxIndices
  BY RingSteps
<1>2. \A i \in TxIndices : (i + 1) % NumTx \in TxIndices /\ NextTx(i) \in TxIndices
  BY RingSteps
<1>3. \A n \in Nat : n \in Frames
  BY DEF Frames
<1>4. \A s \in Seq(Frames), e \in Frames : Append(s, e) \in Seq(Frames)
  OBVIOUS
<1>5. arrived + 1 \in Frames /\ arrived + 1 \in Nat /\ Len(sent) + 1 \in Frames
  <2>1. arrived \in Nat /\ sent \in Seq(Frames)
    BY DEF TypeOK
  <2>2. Len(sent) \in Nat
    BY <2>1
  <2> QED
    BY <2>1, <2>2 DEF Frames
<1>6. /\ \A n \in 1 .. MaxBatch : n \in 0 .. MaxBatch
      /\ \A n \in 0 .. MaxBatch : n > 0 => n - 1 \in 0 .. MaxBatch
      /\ \A n \in 0 .. MaxHalts : n > 0 => n - 1 \in 0 .. MaxHalts
      /\ MaxHalts \in 0 .. MaxHalts
  OBVIOUS
<1> USE DEF TypeOK, rxVars, txVars, rxHardware, vars
<1>7. ASSUME NEW errors \in BOOLEAN, CardReceives(errors) PROVE TypeOK'
  <2>1. arrived' = arrived + 1 /\ rdt' = rdt /\ UNCHANGED <<rx_head, rxpc, batch, handled, txVars, panic>>
    BY <1>7 DEF CardReceives
  <2>2. CASE rdh # rdt
    <3>1. rdh' \in RxIndices
      <4>1. rdh' = (rdh + 1) % NumRx /\ rdh \in RxIndices
        BY <1>7, <2>2 DEF CardReceives
      <4> QED
        BY <1>1, <4>1
    <3>2. rxBuffer' \in [RxIndices -> Frames]
      BY <1>5, <1>7, <2>2 DEF CardReceives
    <3>3. rxStatus' \in [RxIndices -> BOOLEAN] /\ rxErrors' \in [RxIndices -> BOOLEAN]
      BY <1>7, <2>2 DEF CardReceives
    <3>4. stored' \in Seq(Frames)
      BY <1>4, <1>5, <1>7, <2>2 DEF CardReceives
    <3> QED
      BY <1>5, <2>1, <3>1, <3>2, <3>3, <3>4
  <2>3. CASE rdh = rdt
    BY <1>5, <1>7, <2>1, <2>3 DEF CardReceives
  <2> QED
    BY <2>2, <2>3
<1>8. ASSUME CardSends PROVE TypeOK'
  BY <1>2, <1>4, <1>8 DEF CardSends
<1>9. ASSUME NEW n \in 1 .. MaxBatch, ProcessPackets(n) PROVE TypeOK'
  BY <1>6, <1>9 DEF ProcessPackets
<1>10. ASSUME RxTest PROVE TypeOK'
  BY <1>10 DEF RxTest
<1>11. ASSUME RxHandled PROVE TypeOK'
  BY <1>4, <1>11 DEF RxHandled
<1>12. ASSUME RxClear PROVE TypeOK'
  BY <1>12 DEF RxClear
<1>13. ASSUME RxRelease PROVE TypeOK'
  <2>1. batch' \in 0 .. MaxBatch
    BY <1>6, <1>13 DEF RxRelease, RxRing
  <2> QED
    BY <1>1, <1>13, <2>1 DEF RxRelease, Released
<1>14. ASSUME Send PROVE TypeOK'
  BY <1>2, <1>4, <1>5, <1>6, <1>14 DEF Send
<1>15. ASSUME TxTest PROVE TypeOK'
  BY <1>15 DEF TxTest, ClearStatus
<1>16. ASSUME TxWake PROVE TypeOK'
  BY <1>6, <1>16 DEF TxWake
<1>17. ASSUME UNCHANGED vars PROVE TypeOK'
  BY <1>17
<1> QED
  BY <1>7, <1>8, <1>9, <1>10, <1>11, <1>12, <1>13, <1>14, <1>15, <1>16, <1>17
     DEF Next, Driver

(***************************************************************************)
(* The receive ring.                                                       *)
(***************************************************************************)

\* Behind numbers the descriptors from the driver's head around the ring.
LEMMA BehindNumbers ==
    ASSUME TypeOK
    PROVE  /\ \A i \in RxIndices : Behind(i) \in RxIndices
           /\ \A i, j \in RxIndices : Behind(i) = Behind(j) => i = j
           /\ \A i \in RxIndices : Behind(i) = 0 <=> i = rx_head
           /\ \A i \in RxIndices : NextRx(i) = rx_head => Behind(i) = NumRx - 1
           /\ \A i \in RxIndices : NextRx(i) # rx_head => Behind(NextRx(i)) = Behind(i) + 1
<1>1. rx_head \in 0 .. NumRx - 1 /\ NumRx \in Nat
  BY DEF TypeOK, RxIndices
<1>2. \A i \in 0 .. NumRx - 1 : NextRx(i) = IF i + 1 = NumRx THEN 0 ELSE i + 1
  BY RingSteps DEF RxIndices
<1> QED
  BY <1>1, <1>2 DEF Behind, RxIndices

\* When the head moves on by one, every other descriptor is one less behind.
LEMMA BehindRelease ==
    ASSUME TypeOK, rx_head' = NextRx(rx_head)
    PROVE  \A i \in RxIndices : Behind(i)' = IF i = rx_head THEN NumRx - 1 ELSE Behind(i) - 1
<1>1. rx_head \in 0 .. NumRx - 1 /\ NumRx \in Nat
  BY DEF TypeOK, RxIndices
<1>2. rx_head' = IF rx_head + 1 = NumRx THEN 0 ELSE rx_head + 1
  BY <1>1, RingSteps DEF RxIndices
<1> QED
  BY <1>1, <1>2 DEF Behind, RxIndices

\* The sets of waiting descriptors are finite.
LEMMA WaitingFinite ==
    /\ IsFiniteSet(RxIndices) /\ Cardinality(RxIndices) = NumRx
    /\ IsFiniteSet(Waiting) /\ Cardinality(Waiting) \in Nat
    /\ \A i : IsFiniteSet(Ahead(i)) /\ Cardinality(Ahead(i)) \in Nat
<1>1. IsFiniteSet(RxIndices) /\ Cardinality(RxIndices) = NumRx
  BY FS_Interval DEF RxIndices
<1>2. Waiting \in SUBSET RxIndices /\ \A i : Ahead(i) \in SUBSET RxIndices
  BY DEF Waiting, Ahead
<1> QED
  BY <1>1, <1>2, FS_Subset, FS_CardinalityType

\* The ring keeps its shape, whichever side moves.
LEMMA RingStep ==
    ASSUME TypeOK, RxRing, [Next]_vars
    PROVE  RxRing'
<1> DEFINE Full(i) == Behind(i) < Behind(rdh)
<1>1. rx_head = NextRx(rdt) /\ rdh \in RxIndices /\ rdt \in RxIndices /\ rx_head \in RxIndices
  BY DEF TypeOK, RxRing
<1>2. \A i \in RxIndices : rxStatus[i] <=> Full(i) /\ ~(i = rx_head /\ rxpc = "release")
  BY DEF RxRing
<1>3. \A i \in RxIndices : rx_head' = rx_head => Behind(i)' = Behind(i)
  BY DEF Behind
<1>4. rxpc \in {"ppf", "clear", "release"} => rdh # rx_head /\ batch > 0
  BY DEF RxRing
<1>5. \A i \in RxIndices : Behind(i) \in Nat
  BY BehindNumbers DEF RxIndices
<1>6. ASSUME NEW errors \in BOOLEAN, CardReceives(errors) PROVE RxRing'
  <2>1. CASE rdh = rdt
    BY <1>6, <2>1 DEF CardReceives, RxRing, Behind
  <2>2. CASE rdh # rdt
    <3>1. Behind(rdt) = NumRx - 1 /\ Behind(rdh) # NumRx - 1
      BY <1>1, <2>2, BehindNumbers
    <3>2. NextRx(rdh) # rx_head /\ Behind(NextRx(rdh)) = Behind(rdh) + 1
      BY <1>1, <3>1, BehindNumbers
    <3>3. rdh' = NextRx(rdh) /\ NextRx(rdh) \in RxIndices
      BY <1>1, <1>6, <2>2, RingSteps DEF CardReceives
    <3>4. UNCHANGED <<rx_head, rdt, rxpc, batch>>
      BY <1>6 DEF CardReceives
    <3>5. \A i \in RxIndices : rxStatus'[i] = (i = rdh \/ rxStatus[i])
      BY <1>1, <1>6, <2>2 DEF CardReceives, TypeOK
    <3>6. \A i \in RxIndices : Full(i)' <=> i = rdh \/ Full(i)
      BY <1>1, <1>3, <1>5, <3>2, <3>3, <3>4, BehindNumbers
    <3>7. \A i \in RxIndices : rxStatus'[i] <=> Full(i)' /\ ~(i = rx_head' /\ rxpc' = "release")
      BY <1>2, <1>4, <3>4, <3>5, <3>6
    <3>8. rxpc = "ppf" => rxErrors'[rx_head] = rxErrors[rx_head]
      BY <1>1, <1>4, <1>6, <2>2 DEF CardReceives, TypeOK
    <3> QED
      BY <3>2, <3>3, <3>4, <3>7, <3>8 DEF RxRing, NextRx
  <2> QED
    BY <2>1, <2>2
<1>7. ASSUME RxTest PROVE RxRing'
  <2>1. batch \in 0 .. MaxBatch
    BY DEF TypeOK
  <2>2. batch # 0 => batch > 0
    BY <2>1
  <2>3. rxStatus[rx_head] => rdh # rx_head
    BY <1>1, <1>2, <1>5
  <2> QED
    BY <1>7, <2>2, <2>3 DEF RxTest, rxHardware, RxRing, Behind
<1>8. ASSUME RxClear PROVE RxRing'
  <2>1. \A i \in RxIndices : rxStatus'[i] = (i # rx_head /\ rxStatus[i])
    BY <1>1, <1>8 DEF RxClear, TypeOK
  <2> QED
    BY <1>8, <2>1 DEF RxClear, RxRing, Behind
<1>9. ASSUME RxRelease PROVE RxRing'
  <2>1. rx_head' = NextRx(rx_head) /\ rdt' = rx_head /\ UNCHANGED <<rdh, rxStatus>> /\ rxpc' = "test"
    BY <1>9 DEF RxRelease, Released, rxHardware
  <2>2. rdh # rx_head /\ rxpc = "release"
    BY <1>4, <1>9 DEF RxRelease
  <2>3. \A i \in RxIndices : Behind(i)' = IF i = rx_head THEN NumRx - 1 ELSE Behind(i) - 1
    BY <2>1, BehindRelease
  <2>4. Behind(rdh)' = Behind(rdh) - 1
    BY <1>1, <2>1, <2>2, <2>3
  <2>5. Behind(rdh) <= NumRx - 1
    BY <1>1, BehindNumbers DEF RxIndices
  <2>6. \A i \in RxIndices : (Behind(i) < Behind(rdh))' <=> i # rx_head /\ Full(i)
    BY <1>5, <1>1, <2>3, <2>4, <2>5
  <2> QED
    BY <1>2, <2>1, <2>2, <2>6 DEF RxRing, NextRx
<1>10. ASSUME RxHandled PROVE RxRing'
  BY <1>10 DEF RxHandled, rxHardware, RxRing, Behind, NextRx
<1>11. ASSUME NEW n \in 1 .. MaxBatch, ProcessPackets(n) PROVE RxRing'
  BY <1>11 DEF ProcessPackets, rxHardware, RxRing, Behind, NextRx
<1>12. ASSUME UNCHANGED rxVars PROVE RxRing'
  BY <1>12 DEF rxVars, RxRing, Behind, NextRx
<1> QED
  BY <1>6, <1>7, <1>8, <1>9, <1>10, <1>11, <1>12
     DEF Next, Driver, CardSends, Send, TxTest, TxWake, vars

(***************************************************************************)
(* The frames in it.                                                       *)
(***************************************************************************)

\* Nothing is waiting, placed or known otherwise when the descriptors, the
\* head and the histories stay and no frame is handled.
LEMMA OrderStutter ==
    ASSUME RxInOrder, Waiting' = Waiting,
           UNCHANGED <<rx_head, rxBuffer, stored, handled>>
    PROVE  RxInOrder'
<1>1. \A i : Ahead(i)' = Ahead(i)
  BY DEF Ahead, Behind
<1> QED
  BY <1>1 DEF RxInOrder, Place

\* Good frames stay in order and intact, whichever side moves.
LEMMA OrderStep ==
    ASSUME TypeOK, RxRing, RxInOrder, [Next]_vars
    PROVE  RxInOrder'
<1>1. rdh \in RxIndices /\ rdt \in RxIndices /\ rx_head \in RxIndices
  BY DEF TypeOK
<1>2. \A i \in RxIndices : Behind(i) \in Nat
  BY BehindNumbers DEF RxIndices
<1>3. Waiting \subseteq RxIndices /\ \A i \in Waiting : Behind(i) < Behind(rdh)
  BY DEF Waiting, RxRing
<1>4. stored \in Seq(Frames) /\ handled \in Seq(Frames) /\ Len(stored) \in Nat /\ Len(handled) \in Nat
  <2>1. stored \in Seq(Frames) /\ handled \in Seq(Frames)
    BY DEF TypeOK
  <2> QED
    BY <2>1
<1>5. ASSUME NEW errors \in BOOLEAN, CardReceives(errors) PROVE RxInOrder'
  <2>1. UNCHANGED <<rx_head, rxpc, handled>>
    BY <1>5 DEF CardReceives
  <2>2. CASE rdh = rdt
    BY <1>5, <2>1, <2>2, OrderStutter DEF CardReceives, Waiting
  <2>3. CASE rdh # rdt
    <3>1. rdh \notin Waiting
      BY <1>1, <1>2, <1>3
    <3>2. rxStatus' = [rxStatus EXCEPT ![rdh] = TRUE] /\ rxErrors' = [rxErrors EXCEPT ![rdh] = errors]
      BY <1>5, <2>3 DEF CardReceives
    <3>3. \A i \in RxIndices : i # rdh => rxStatus'[i] = rxStatus[i] /\ rxErrors'[i] = rxErrors[i]
      BY <3>2 DEF TypeOK
    <3>4. rxStatus'[rdh] /\ rxErrors'[rdh] = errors
      BY <1>1, <3>2 DEF TypeOK
    <3>5. rdh = rx_head => rxpc # "clear"
      BY DEF RxRing
    <3>6. Waiting' = IF errors THEN Waiting ELSE Waiting \cup {rdh}
      BY <1>1, <2>1, <3>1, <3>3, <3>4, <3>5 DEF Waiting
    <3>7. rxBuffer'[rdh] = arrived + 1 /\ \A i \in RxIndices : i # rdh => rxBuffer'[i] = rxBuffer[i]
      BY <1>1, <1>5, <2>3 DEF CardReceives, TypeOK
    <3>8. CASE errors
      <4>1. stored' = stored /\ Waiting' = Waiting
        BY <1>5, <2>3, <3>6, <3>8 DEF CardReceives
      <4>2. \A i : Ahead(i)' = Ahead(i)
        BY <2>1, <4>1 DEF Ahead, Behind
      <4> QED
        BY <1>3, <2>1, <3>1, <3>7, <4>1, <4>2 DEF RxInOrder, Place
    <3>9. CASE ~errors
      <4>1. arrived + 1 \in Frames
        <5>1. arrived \in Nat
          BY DEF TypeOK
        <5> QED
          BY <5>1 DEF Frames
      <4> PICK h \in RxIndices : h = rdh
        BY <1>1
      <4>2. stored' = Append(stored, arrived + 1) /\ Waiting' = Waiting \cup {rdh}
        BY <1>5, <2>3, <3>6, <3>9 DEF CardReceives
      <4>3. /\ Len(stored') = Len(stored) + 1 /\ stored'[Len(stored) + 1] = arrived + 1
            /\ \A k \in 1 .. Len(stored) : stored'[k] = stored[k]
        BY <1>4, <4>1, <4>2
      <4>4. Cardinality(Waiting') = Cardinality(Waiting) + 1
        BY <3>1, <4>2, WaitingFinite, FS_AddElement
      <4>5. IsPrefix(handled, stored)'
        BY <1>4, <2>1, <4>1, <4>2, PrefixGrows DEF RxInOrder
      <4>6. Ahead(h)' = Waiting /\ \A i \in Waiting : Ahead(i)' = Ahead(i)
        <5>1. \A i : Behind(i)' = Behind(i)
          BY <2>1 DEF Behind
        <5> QED
          BY <1>2, <1>3, <4>2, <5>1 DEF Ahead
      <4>7. Place(h)' = Len(stored) + 1 /\ \A i \in Waiting : Place(i)' = Place(i)
        BY <2>1, <4>6 DEF Place, RxInOrder
      <4>8. \A i \in Waiting : Place(i) \in 1 .. Len(stored)
        <5>1. \A i \in Waiting : Ahead(i) \subseteq Waiting \ {i}
          BY <1>2, <1>3 DEF Ahead
        <5>2. ASSUME NEW i \in Waiting PROVE Cardinality(Ahead(i)) < Cardinality(Waiting)
          <6>1. IsFiniteSet(Waiting \ {i}) /\ Cardinality(Waiting \ {i}) = Cardinality(Waiting) - 1
            BY WaitingFinite, FS_RemoveElement
          <6>2. Cardinality(Ahead(i)) <= Cardinality(Waiting \ {i})
            BY <5>1, <6>1, FS_Subset
          <6> QED
            BY <6>1, <6>2, WaitingFinite
        <5> QED
          BY <1>4, <5>2, WaitingFinite DEF Place, RxInOrder
      <4>9. \A i \in Waiting' : rxBuffer'[i] = stored'[Place(i)']
        <5>1. \A i \in Waiting : rxBuffer'[i] = stored'[Place(i)']
          BY <1>3, <3>1, <3>7, <4>3, <4>7, <4>8 DEF RxInOrder
        <5>2. rxBuffer'[h] = stored'[Place(h)']
          BY <3>7, <4>3, <4>7
        <5> QED
          BY <4>2, <5>1, <5>2
      <4> QED
        BY <1>4, <2>1, <4>3, <4>4, <4>5, <4>9, WaitingFinite DEF RxInOrder
    <3> QED
      BY <3>8, <3>9
  <2> QED
    BY <2>2, <2>3
<1>6. ASSUME RxTest PROVE RxInOrder'
  <2>1. Waiting' = Waiting
    BY <1>6 DEF RxTest, rxHardware, Waiting
  <2> QED
    BY <1>6, <2>1, OrderStutter DEF RxTest, rxHardware
<1>7. ASSUME RxHandled PROVE RxInOrder'
  <2>1. rxpc = "ppf" /\ rxpc' = "clear" /\ handled' = Append(handled, rxBuffer[rx_head])
        /\ UNCHANGED <<rx_head, rxStatus, rxErrors, rxBuffer, stored>>
    BY <1>7 DEF RxHandled, rxHardware
  <2>2. Behind(rx_head) = 0 /\ rdh # rx_head
    BY <1>1, <2>1, BehindNumbers DEF RxRing
  <2>3. Behind(rdh) > 0
    BY <1>1, <1>2, <2>2, BehindNumbers
  <2>4. rx_head \in Waiting /\ Waiting' = Waiting \ {rx_head}
    BY <1>1, <2>1, <2>2, <2>3 DEF Waiting, RxRing
  <2>5. Cardinality(Waiting') = Cardinality(Waiting) - 1
    BY <2>4, WaitingFinite, FS_RemoveElement
  <2>6. Ahead(rx_head) = {}
    BY <1>2, <1>3, <2>2 DEF Ahead
  <2>7. rxBuffer[rx_head] = stored[Len(handled) + 1] /\ Len(handled) < Len(stored)
    <3>1. Cardinality(Ahead(rx_head)) = 0
      BY <2>6, FS_EmptySet
    <3>2. Cardinality(Waiting) > 0
      BY <2>4, WaitingFinite, FS_EmptySet
    <3> QED
      BY <1>4, <2>4, <3>1, <3>2, WaitingFinite DEF RxInOrder, Place
  <2>8. IsPrefix(handled, stored)'
    BY <1>4, <2>1, <2>7, PrefixTakes DEF RxInOrder
  <2>9. Len(handled') = Len(handled) + 1
    BY <1>4, <2>1
  <2>10. ASSUME NEW i \in Waiting' PROVE Place(i)' = Place(i)
    <3>1. Ahead(i)' = Ahead(i) \ {rx_head} /\ rx_head \in Ahead(i)
      <4>1. i # rx_head /\ i \in Waiting /\ i \in RxIndices
        BY <1>3, <2>4, <2>10
      <4>2. Behind(i) > 0
        BY <1>2, <4>1, BehindNumbers
      <4> QED
        BY <2>1, <2>2, <2>4, <4>2 DEF Ahead, Behind
    <3>2. Cardinality(Ahead(i)') = Cardinality(Ahead(i)) - 1
      <4>1. IsFiniteSet(Ahead(i))
        BY WaitingFinite
      <4>2. Cardinality(Ahead(i) \ {rx_head}) = Cardinality(Ahead(i)) - 1
        BY <3>1, <4>1, FS_RemoveElement
      <4> QED
        BY <3>1, <4>2
    <3> QED
      BY <1>4, <2>9, <3>2, WaitingFinite DEF Place
  <2> QED
    BY <1>4, <2>1, <2>4, <2>5, <2>8, <2>9, <2>10, WaitingFinite DEF RxInOrder
<1>8. ASSUME RxClear PROVE RxInOrder'
  <2>1. \A i \in RxIndices : rxStatus'[i] = (i # rx_head /\ rxStatus[i])
    BY <1>1, <1>8 DEF RxClear, TypeOK
  <2>2. Waiting' = Waiting
    BY <1>8, <2>1 DEF RxClear, Waiting
  <2> QED
    BY <1>8, <2>2, OrderStutter DEF RxClear
<1>9. ASSUME RxRelease PROVE RxInOrder'
  <2>1. /\ rxpc = "release" /\ rxpc' = "test" /\ rx_head' = NextRx(rx_head)
        /\ UNCHANGED <<rxStatus, rxErrors, rxBuffer, stored, handled>>
    BY <1>9 DEF RxRelease, rxHardware
  <2>2. rx_head \notin Waiting /\ Waiting' = Waiting
    BY <2>1 DEF Waiting, RxRing
  <2>3. \A i \in RxIndices : Behind(i)' = IF i = rx_head THEN NumRx - 1 ELSE Behind(i) - 1
    BY <2>1, BehindRelease
  <2>4. \A i \in Waiting : Ahead(i)' = Ahead(i)
    BY <1>2, <1>3, <2>2, <2>3 DEF Ahead
  <2> QED
    BY <2>1, <2>2, <2>4 DEF RxInOrder, Place
<1>10. ASSUME NEW n \in 1 .. MaxBatch, ProcessPackets(n) PROVE RxInOrder'
  <2>1. Waiting' = Waiting
    BY <1>10 DEF ProcessPackets, rxHardware, Waiting
  <2> QED
    BY <1>10, <2>1, OrderStutter DEF ProcessPackets, rxHardware
<1>11. ASSUME UNCHANGED rxVars PROVE RxInOrder'
  <2>1. Waiting' = Waiting
    BY <1>11 DEF rxVars, Waiting
  <2> QED
    BY <1>11, <2>1, OrderStutter DEF rxVars
<1> QED
  BY <1>5, <1>6, <1>7, <1>8, <1>9, <1>10, <1>11
     DEF Next, Driver, CardSends, Send, TxTest, TxWake, vars

\* When the card has no room, every descriptor but the last is in use.
LEMMA FullRing ==
    ASSUME TypeOK, RxRing
    PROVE  RxNoLeak
<1> SUFFICES ASSUME rdh = rdt
             PROVE  Cardinality({i \in RxIndices : rxStatus[i] \/ (i = rx_head /\ rxpc = "release")})
                      = NumRx - 1
  BY DEF RxNoLeak
<1>1. rdt \in RxIndices /\ rx_head \in RxIndices /\ rx_head = NextRx(rdt)
  BY DEF TypeOK, RxRing
<1>2. Behind(rdt) = NumRx - 1
  BY <1>1, BehindNumbers
<1>3. \A i \in RxIndices : Behind(i) < NumRx - 1 <=> i # rdt
  BY <1>1, <1>2, BehindNumbers DEF RxIndices
<1>4. {i \in RxIndices : rxStatus[i] \/ (i = rx_head /\ rxpc = "release")} = RxIndices \ {rdt}
  BY <1>2, <1>3 DEF RxRing
<1> QED
  BY <1>1, <1>4, WaitingFinite, FS_RemoveElement

\* The ring after reset.
LEMMA ReceiveInit == Init => TypeOK /\ RxRing /\ RxInOrder
<1> SUFFICES ASSUME Init PROVE TypeOK /\ RxRing /\ RxInOrder
  OBVIOUS
<1> USE DEF Init
<1>1. 0 \in RxIndices /\ NumRx - 1 \in RxIndices /\ 0 \in TxIndices
  BY DEF RxIndices, TxIndices
<1>2. /\ 0 \in 0 .. MaxBatch /\ 0 \in 0 .. MaxHalts /\ 0 \in Nat
      /\ NoFrame \in Frames /\ <<>> \in Seq(Frames)
  BY DEF Frames
<1>3. TypeOK
  BY <1>1, <1>2 DEF TypeOK, RxIndices, TxIndices
<1>4. Waiting = {}
  BY DEF Waiting, RxIndices
<1>5. RxRing
  <2>1. NextRx(rdt) = 0
    BY <1>1, RingSteps
  <2>2. Behind(rdh) = 0 /\ \A i \in RxIndices : Behind(i) \in Nat
    BY <1>1, <1>3, BehindNumbers DEF RxIndices
  <2>3. \A i \in RxIndices : ~rxStatus[i]
    BY DEF RxIndices
  <2>4. rx_head = 0 /\ rxpc = "idle"
    OBVIOUS
  <2> HIDE DEF Init
  <2> QED
    BY <2>1, <2>2, <2>3, <2>4 DEF RxRing
<1>6. RxInOrder
  BY <1>2, <1>4, FS_EmptySet, PrefixElements DEF RxInOrder
<1> QED
  BY <1>3, <1>5, <1>6

\* Receiving is sound: with the card at work between any two steps of
\* do_process_packets, every good frame it stored reaches the handler once, in
\* order and as it came, and no descriptor is lost.
THEOREM ReceiveCorrect == Spec => []ReceivesSound
<1> DEFINE Inv == TypeOK /\ RxRing /\ RxInOrder
<1>1. Init => Inv
  BY ReceiveInit
<1>2. Inv /\ [Next]_vars => Inv'
  BY TypeStep, RingStep, OrderStep
<1>3. Inv => ReceivesSound
  BY FullRing DEF ReceivesSound
<1> QED
  BY <1>1, <1>2, <1>3, PTL DEF Spec

(***************************************************************************)
(* The transmit ring.                                                      *)
(***************************************************************************)

\* A send waits for the last descriptor of the card's part of the ring.
LEMMA TxRingStep ==
    ASSUME TypeOK, TxRing, [Next]_vars
    PROVE  TxRing'
<1>1. tdh \in TxIndices /\ tdt \in TxIndices /\ td \in TxIndices /\ tx_tail \in TxIndices
      /\ txStatus \in [TxIndices -> BOOLEAN]
  BY DEF TypeOK
<1>2. ASSUME CardSends PROVE TxRing'
  <2>1. tdh' = NextTx(tdh) /\ UNCHANGED <<tdt, tx_tail, td, txpc, panic>>
    BY <1>1, <1>2, RingSteps DEF CardSends
  <2>2. txStatus' = [txStatus EXCEPT ![tdh] = TRUE] /\ tdh # tdt
    BY <1>2 DEF CardSends
  <2>3. txpc # "idle" /\ txStatus'[td] => tdh' = tdt
    BY <1>1, <2>1, <2>2 DEF TxRing
  <2> QED
    BY <2>1, <2>3 DEF TxRing, NextTx
<1>3. ASSUME Send PROVE TxRing'
  <2>1. CASE txStatus[tx_tail]
    BY <1>3, <2>1 DEF Send, TxRing
  <2>2. CASE ~txStatus[tx_tail]
    BY <1>3, <2>2 DEF Send, TxRing, NextTx, TxTurn
  <2> QED
    BY <2>1, <2>2
<1>4. ASSUME TxTest PROVE TxRing'
  BY <1>4 DEF TxTest, TxRing, NextTx, TxTurn
<1>5. ASSUME TxWake PROVE TxRing'
  BY <1>5 DEF TxWake, TxRing, NextTx
<1>6. ASSUME UNCHANGED <<txVars, panic>> PROVE TxRing'
  BY <1>6 DEF txVars, TxRing, NextTx
<1> QED
  BY <1>2, <1>3, <1>4, <1>5, <1>6
     DEF Next, Driver, CardReceives, ProcessPackets, RxTest, RxHandled, RxClear, RxRelease, vars

\* Until a send times out there is never more than its own frame to be sent.
LEMMA TxOneStep ==
    ASSUME TypeOK, TxRing, TxOneAtATime, TxSound, [Next]_vars
    PROVE  TxOneAtATime' /\ TxSound'
<1>1. tdh \in TxIndices /\ tdt \in TxIndices /\ td \in TxIndices /\ tx_tail \in TxIndices
      /\ txStatus \in [TxIndices -> BOOLEAN]
  BY DEF TypeOK
<1>2. \A i \in TxIndices : NextTx(i) # i
  BY RingSteps DEF TxIndices
<1>3. txpc \in {"idle", "test", "halt"} /\ timedOut \in BOOLEAN
  BY DEF TypeOK
<1>4. ASSUME CardSends PROVE TxOneAtATime' /\ TxSound'
  <2>1. tdh' = NextTx(tdh) /\ UNCHANGED <<tdt, td, txpc, data, sent, timedOut, panic>>
    BY <1>1, <1>4, RingSteps DEF CardSends
  <2>2. txStatus' = [txStatus EXCEPT ![tdh] = TRUE] /\ tdh # tdt /\ onWire' = Append(onWire, data)
    BY <1>4 DEF CardSends
  <2>3. ~timedOut => /\ txpc # "idle" /\ tdh = td /\ sent = Append(onWire, data)
                     /\ tdt = NextTx(td) /\ \A i \in TxIndices : ~txStatus[i]
    BY <2>2 DEF TxOneAtATime, TxRing
  <2>4. ~timedOut => \A i \in TxIndices : txStatus'[i] => i = td
    BY <1>1, <2>2, <2>3
  <2> QED
    BY <2>1, <2>2, <2>3, <2>4 DEF TxOneAtATime, TxSound
<1>5. ASSUME Send PROVE TxOneAtATime' /\ TxSound'
  <2>1. panic = "no" /\ txpc = "idle" /\ UNCHANGED <<tdh, txStatus, onWire, timedOut>>
    BY <1>5 DEF Send, TxTurn
  <2>2. ~timedOut => ~txStatus[tx_tail] /\ tdh = tdt /\ onWire = sent
    BY <1>1, <2>1 DEF TxOneAtATime
  <2>3. CASE txStatus[tx_tail]
    <3>1. timedOut /\ timedOut'
      BY <2>1, <2>2, <2>3
    <3>2. panic' = "descriptor in use"
      BY <1>5, <2>3 DEF Send
    <3> QED
      BY <3>1, <3>2 DEF TxOneAtATime, TxSound
  <2>4. CASE ~txStatus[tx_tail]
    <3>1. /\ data' = Len(sent) + 1 /\ sent' = Append(sent, Len(sent) + 1)
          /\ td' = tx_tail /\ tdt' = NextTx(tx_tail) /\ txpc' = "test" /\ panic' = panic
      BY <1>5, <2>4 DEF Send
    <3>2. ~timedOut => tdh = tx_tail /\ \A i \in TxIndices : ~txStatus[i]
      BY <2>1, <2>2 DEF TxRing, TxOneAtATime
    <3> QED
      BY <1>1, <1>2, <2>1, <2>2, <3>1, <3>2 DEF TxOneAtATime, TxSound
  <2> QED
    BY <2>3, <2>4
<1>6. ASSUME TxTest PROVE TxOneAtATime' /\ TxSound'
  <2>1. txpc = "test" /\ panic = "no" /\ UNCHANGED <<tdh, tdt, td, data, sent, onWire, timedOut>>
    BY <1>6 DEF TxTest, TxTurn
  <2>2. CASE ~txStatus[td]
    <3>1. txpc' = "halt" /\ UNCHANGED <<txStatus, panic>>
      BY <1>6, <2>2 DEF TxTest
    <3> QED
      BY <2>1, <3>1 DEF TxOneAtATime, TxSound
  <2>3. CASE txStatus[td]
    <3>1. txpc' = "idle" /\ txStatus' = [txStatus EXCEPT ![td] = FALSE] /\ tdh = tdt /\ panic' = "no"
      BY <1>6, <2>1, <2>3 DEF TxTest, ClearStatus, TxRing
    <3>2. \A i \in TxIndices : txStatus'[i] => txStatus[i] /\ i # td
      BY <1>1, <3>1
    <3> QED
      BY <2>1, <3>1, <3>2 DEF TxOneAtATime, TxSound
  <2> QED
    BY <2>2, <2>3
<1>7. ASSUME TxWake PROVE TxOneAtATime' /\ TxSound'
  <2>1. /\ panic = "no" /\ panic' = panic
        /\ UNCHANGED <<tdh, tdt, td, txStatus, data, sent, onWire>>
        /\ txpc = "halt" /\ ((txpc' = "test" /\ timedOut' = timedOut) \/ timedOut' = TRUE)
    BY <1>7 DEF TxWake, TxTurn
  <2> QED
    BY <2>1 DEF TxOneAtATime, TxSound
<1>8. ASSUME UNCHANGED <<txVars, panic>> PROVE TxOneAtATime' /\ TxSound'
  BY <1>8 DEF txVars, TxOneAtATime, TxSound
<1> QED
  BY <1>4, <1>5, <1>6, <1>7, <1>8
     DEF Next, Driver, CardReceives, ProcessPackets, RxTest, RxHandled, RxClear, RxRelease, vars

\* What went out is a prefix of what was to be sent.
LEMMA WireFollows ==
    ASSUME TypeOK, TxOneAtATime
    PROVE  WireIntact
<1> SUFFICES ASSUME ~timedOut PROVE IsPrefix(onWire, sent)
  BY DEF WireIntact
<1>1. onWire \in Seq(Frames) /\ data \in Frames
  BY DEF TypeOK
<1>2. IsPrefix(onWire, onWire)
  BY <1>1, PrefixElements
<1>3. IsPrefix(onWire, Append(onWire, data))
  BY <1>1, <1>2, PrefixGrows
<1> QED
  BY <1>2, <1>3 DEF TxOneAtATime

\* Sending is sound: until a send times out, frames go out whole and in order
\* although every send reuses the caller's buffer; and the only REQUIRE of
\* do_send_packet that can ever fail is the one for a descriptor still in use,
\* after a time-out.
THEOREM SendCorrect == Spec => []SendsSound
<1> DEFINE Inv == TypeOK /\ RxRing /\ TxRing /\ TxOneAtATime /\ TxSound
<1>1. Init => Inv
  <2> SUFFICES ASSUME Init PROVE TxRing /\ TxOneAtATime /\ TxSound
    BY ReceiveInit
  <2> QED
    BY DEF Init, TxRing, TxOneAtATime, TxSound, TxIndices
<1>2. Inv /\ [Next]_vars => Inv'
  BY TypeStep, RingStep, TxRingStep, TxOneStep
<1>3. Inv => SendsSound
  BY WireFollows DEF SendsSound
<1> QED
  BY <1>1, <1>2, <1>3, PTL DEF Spec
===============================================================================
