-------------------------- MODULE GapBufferProofs --------------------------
(***************************************************************************)
(* The gap buffer is the bounded set of packets the decoder takes it for,  *)
(* for every capacity, every set of packets and every hash.                *)
(***************************************************************************)
EXTENDS GapBuffer, FunctionTheorems, FiniteSetTheorems, TLAPS

\* The SMT solver may take up to two minutes on a step.
USE SMTT(120)

\* The entry in slot i is one of the table.
Holds(i) == i \in Live /\ slots[i] # Empty

Home(i) == slotFor[slots[i].seq]

\* Slot e comes before slot i on the probe path of the entry in i.
OnPath(e, i) == ProbeDistance(Home(i), e) < ProbeDistance(Home(i), i)

TableType ==
  /\ slotFor \in [Seqs -> Slots]
  /\ slots \in [Slots -> Packets \cup {Empty}]
  /\ pc \in {"idle", "shift"}
  /\ hole \in Slots /\ scan \in Slots /\ scanned \in 0 .. Capacity - 1

\* A probe meets no free slot before its entry, and no sequence number is in
\* the table twice.
PathInv ==
  /\ \A i \in Slots : Holds(i) => \A e \in Slots : OnPath(e, i) => slots[e] # Empty
  /\ \A i, j \in Slots : Holds(i) /\ Holds(j) /\ slots[i].seq = slots[j].seq => i = j

\* The number of slots between the slot after e and slot i.
Rank(e, i) == ProbeDistance(NextSlot(e), i)

\* The slot where the running erase began.
Origin == (scan - 1 - scanned) % Capacity

\* No probe path passes through all of the table: there is a slot e that is on
\* none.  In the order of the slots that begins behind e, a running erase moves
\* its hole away from where it began.
BreakInv ==
  \E e \in Slots :
    /\ \A i \in Slots : Holds(i) => ~OnPath(e, i)
    /\ pc = "shift" => Rank(e, Origin) <= Rank(e, hole)

\* The hole lies among the slots that were scanned, and is on the path only of
\* entries that are still to be scanned.
ShiftInv ==
  pc = "shift" =>
    /\ slots[hole] # Empty
    /\ ProbeDistance(Origin, hole) <= scanned
    /\ \A i \in Slots : Holds(i) /\ OnPath(hole, i) =>
         ProbeDistance(scan, i) <= Capacity - 2 - scanned

CountInv == IsFiniteSet(Stored) /\ Counted = Cardinality(Stored)

TableInv == TableType /\ PathInv /\ BreakInv /\ ShiftInv /\ CountInv
-----------------------------------------------------------------------------
\* The arithmetic of a table that wraps round.
LEMMA Wrapping ==
  /\ \A a, b \in Slots : /\ ProbeDistance(a, b) = IF b >= a THEN b - a ELSE b - a + Capacity
                         /\ ProbeDistance(a, b) \in Slots
  /\ \A a \in Slots : /\ NextSlot(a) = IF a = Capacity - 1 THEN 0 ELSE a + 1
                      /\ NextSlot(a) \in Slots
  /\ \A a, k \in Slots : /\ (a + k) % Capacity = IF a + k < Capacity THEN a + k ELSE a + k - Capacity
                         /\ (a + k) % Capacity \in Slots
                         /\ ProbeDistance(a, (a + k) % Capacity) = k
  /\ \A a, b \in Slots : (a + ProbeDistance(a, b)) % Capacity = b
  /\ \A a, n \in Slots : /\ (a - 1 - n) % Capacity = IF n < a THEN a - 1 - n ELSE a - 1 - n + Capacity
                         /\ (a - 1 - n) % Capacity \in Slots
<1> USE CapacityAssumption DEF Slots
<1>1. \A a, b \in Slots : /\ ProbeDistance(a, b) = IF b >= a THEN b - a ELSE b - a + Capacity
                          /\ ProbeDistance(a, b) \in Slots
  BY DEF ProbeDistance
<1>2. \A a \in Slots : /\ NextSlot(a) = IF a = Capacity - 1 THEN 0 ELSE a + 1
                       /\ NextSlot(a) \in Slots
  BY DEF NextSlot
<1>3. \A a, k \in Slots : /\ (a + k) % Capacity = IF a + k < Capacity THEN a + k ELSE a + k - Capacity
                          /\ (a + k) % Capacity \in Slots
  OBVIOUS
<1>4. \A a, n \in Slots : /\ (a - 1 - n) % Capacity = IF n < a THEN a - 1 - n ELSE a - 1 - n + Capacity
                          /\ (a - 1 - n) % Capacity \in Slots
  OBVIOUS
<1>5. ASSUME NEW a \in Slots, NEW k \in Slots
      PROVE  ProbeDistance(a, (a + k) % Capacity) = k
  <2>1. PICK b \in Slots : b = (a + k) % Capacity
    BY <1>3
  <2>2. b = IF a + k < Capacity THEN a + k ELSE a + k - Capacity
    BY <1>3, <2>1
  <2>3. ProbeDistance(a, b) = IF b >= a THEN b - a ELSE b - a + Capacity
    BY <1>1
  <2> QED
    BY <2>1, <2>2, <2>3
<1>6. ASSUME NEW a \in Slots, NEW b \in Slots
      PROVE  (a + ProbeDistance(a, b)) % Capacity = b
  <2>1. PICK k \in Slots : k = ProbeDistance(a, b)
    BY <1>1
  <2>2. k = IF b >= a THEN b - a ELSE b - a + Capacity
    BY <1>1, <2>1, Zenon
  <2>3. (a + k) % Capacity = IF a + k < Capacity THEN a + k ELSE a + k - Capacity
    BY <1>3
  <2> QED
    BY <2>1, <2>2, <2>3
<1> QED
  BY <1>1, <1>2, <1>3, <1>4, <1>5, <1>6

\* Ranks number the slots, and a path that avoids e is an interval of ranks.
LEMMA Ranks ==
  ASSUME NEW e \in Slots
  PROVE  /\ \A i \in Slots : Rank(e, i) \in 0 .. Capacity - 1
         /\ \A i, j \in Slots : Rank(e, i) = Rank(e, j) => i = j
         /\ \A i \in Slots : Rank(e, NextSlot(i)) =
                               IF Rank(e, i) = Capacity - 1 THEN 0 ELSE Rank(e, i) + 1
         /\ \A a, b \in Slots : ProbeDistance(a, b) =
              IF Rank(e, b) >= Rank(e, a) THEN Rank(e, b) - Rank(e, a)
              ELSE Rank(e, b) - Rank(e, a) + Capacity
         /\ \A a, b \in Slots :
              ProbeDistance(a, e) < ProbeDistance(a, b) <=> Rank(e, b) < Rank(e, a)
<1> USE CapacityAssumption
<1>1. PICK z \in Slots : z = NextSlot(e)
  BY Wrapping
<1>2. \A i \in Slots : Rank(e, i) = IF i >= z THEN i - z ELSE i - z + Capacity
  BY <1>1, Wrapping, Zenon DEF Rank
<1>3. e = IF z = 0 THEN Capacity - 1 ELSE z - 1
  <2>1. NextSlot(e) = IF e = Capacity - 1 THEN 0 ELSE e + 1
    BY Wrapping, Zenon
  <2> QED
    BY <1>1, <2>1 DEF Slots
<1>4. \A i \in Slots : NextSlot(i) = IF i = Capacity - 1 THEN 0 ELSE i + 1
  BY Wrapping, Zenon
<1>5. \A a, b \in Slots : ProbeDistance(a, b) = IF b >= a THEN b - a ELSE b - a + Capacity
  BY Wrapping
<1>6. \A i \in Slots : Rank(e, i) \in 0 .. Capacity - 1
  BY <1>2 DEF Slots
<1>7. \A i, j \in Slots : Rank(e, i) = Rank(e, j) => i = j
  BY <1>2 DEF Slots
<1>8. \A i \in Slots : Rank(e, NextSlot(i)) =
                         IF Rank(e, i) = Capacity - 1 THEN 0 ELSE Rank(e, i) + 1
  <2> SUFFICES ASSUME NEW i \in Slots
               PROVE  Rank(e, NextSlot(i)) =
                        IF Rank(e, i) = Capacity - 1 THEN 0 ELSE Rank(e, i) + 1
    OBVIOUS
  <2>1. PICK j \in Slots : j = NextSlot(i)
    BY Wrapping
  <2>2. /\ Rank(e, j) = IF j >= z THEN j - z ELSE j - z + Capacity
        /\ Rank(e, i) = IF i >= z THEN i - z ELSE i - z + Capacity
        /\ j = IF i = Capacity - 1 THEN 0 ELSE i + 1
    BY <1>2, <1>4, <2>1
  <2> QED
    BY <2>1, <2>2 DEF Slots
<1>9. ASSUME NEW a \in Slots, NEW b \in Slots
      PROVE  ProbeDistance(a, b) = IF Rank(e, b) >= Rank(e, a) THEN Rank(e, b) - Rank(e, a)
                                   ELSE Rank(e, b) - Rank(e, a) + Capacity
  <2>1. /\ ProbeDistance(a, b) = IF b >= a THEN b - a ELSE b - a + Capacity
        /\ Rank(e, a) = IF a >= z THEN a - z ELSE a - z + Capacity
        /\ Rank(e, b) = IF b >= z THEN b - z ELSE b - z + Capacity
    BY <1>2, <1>5
  <2> QED
    BY <2>1 DEF Slots
<1>10. ASSUME NEW a \in Slots, NEW b \in Slots
       PROVE  ProbeDistance(a, e) < ProbeDistance(a, b) <=> Rank(e, b) < Rank(e, a)
  <2>1. /\ ProbeDistance(a, e) = IF e >= a THEN e - a ELSE e - a + Capacity
        /\ ProbeDistance(a, b) = IF b >= a THEN b - a ELSE b - a + Capacity
        /\ Rank(e, a) = IF a >= z THEN a - z ELSE a - z + Capacity
        /\ Rank(e, b) = IF b >= z THEN b - z ELSE b - z + Capacity
    BY <1>2, <1>5
  <2> QED
    BY <1>3, <2>1 DEF Slots
<1> QED
  BY <1>6, <1>7, <1>8, <1>9, <1>10

LEMMA Interval ==
  ASSUME NEW e \in Slots, NEW a \in Slots, NEW b \in Slots, NEW f \in Slots,
         Rank(e, a) <= Rank(e, b)
  PROVE  /\ ProbeDistance(a, f) < ProbeDistance(a, b) <=>
              Rank(e, a) <= Rank(e, f) /\ Rank(e, f) < Rank(e, b)
<1>1. Rank(e, a) \in 0 .. Capacity - 1 /\ Rank(e, b) \in 0 .. Capacity - 1 /\ Rank(e, f) \in 0 .. Capacity - 1
  BY Ranks
<1>2. /\ ProbeDistance(a, b) = Rank(e, b) - Rank(e, a)
      /\ ProbeDistance(a, f) = IF Rank(e, f) >= Rank(e, a) THEN Rank(e, f) - Rank(e, a)
                               ELSE Rank(e, f) - Rank(e, a) + Capacity
  BY Ranks
<1> QED
  BY <1>1, <1>2, CapacityAssumption

LEMMA EntryType ==
  ASSUME TableType, NEW i \in Slots, slots[i] # Empty
  PROVE  slots[i] \in Packets /\ slots[i].seq \in Seqs /\ Home(i) \in Slots
BY DEF TableType, Home, Seqs

\* The probe for s meets the slot i at its distance from the natural slot.
LEMMA ProbeMeets ==
  ASSUME TableType, NEW s \in Seqs
  PROVE  /\ \A k \in Slots : /\ ProbeSlot(s, k) \in Slots
                             /\ ProbeDistance(slotFor[s], ProbeSlot(s, k)) = k
         /\ \A i \in Slots : /\ ProbeDistance(slotFor[s], i) \in Slots
                             /\ ProbeSlot(s, ProbeDistance(slotFor[s], i)) = i
<1>1. slotFor[s] \in Slots
  BY DEF TableType
<1> QED
  BY <1>1, Wrapping, Zenon DEF ProbeSlot

\* Where the probe for s ends at a free slot, s is not in the table.
LEMMA ProbeFree ==
  ASSUME TableInv, pc = "idle", NEW s \in Seqs, NEW k \in Slots,
         Reaches(s, k), slots[ProbeSlot(s, k)] = Empty, NEW i \in Slots, slots[i] # Empty
  PROVE  slots[i].seq # s
<1> SUFFICES ASSUME slots[i].seq = s
             PROVE  FALSE
  OBVIOUS
<1>1. TableType /\ Holds(i) /\ Home(i) = slotFor[s]
  BY DEF TableInv, Holds, Live, Home
<1>2. PICK d \in Slots : d = ProbeDistance(slotFor[s], i) /\ ProbeSlot(s, d) = i
  BY <1>1, ProbeMeets
<1>3. Stops(s, d)
  BY <1>2 DEF Stops
<1>4. ~(d < k)
  BY <1>2, <1>3, CapacityAssumption DEF Reaches, Slots
<1>5. d # k
  BY <1>2
<1>6. k < d
  BY <1>4, <1>5, CapacityAssumption DEF Slots
<1>7. PICK f \in Slots : f = ProbeSlot(s, k) /\ ProbeDistance(slotFor[s], f) = k
  BY <1>1, ProbeMeets
<1>8. OnPath(f, i)
  BY <1>1, <1>2, <1>6, <1>7 DEF OnPath
<1> QED
  BY <1>1, <1>7, <1>8 DEF TableInv, PathInv
-----------------------------------------------------------------------------
LEMMA InitTable == Init => TableInv
<1> SUFFICES ASSUME Init
             PROVE  TableInv
  OBVIOUS
<1>1. 0 \in Slots
  BY CapacityAssumption DEF Slots
<1>2. TableType
  BY <1>1, CapacityAssumption DEF Init, TableType
<1>3. \A i \in Slots : ~Holds(i)
  BY DEF Init, Holds
<1>4. PathInv /\ BreakInv /\ ShiftInv
  BY <1>1, <1>3 DEF Init, PathInv, BreakInv, ShiftInv
<1>5. Stored = {}
  BY DEF Init, Stored, Live
<1>6. CountInv
  BY <1>5, FS_EmptySet DEF CountInv, Counted, Init
<1> QED
  BY <1>2, <1>4, <1>6 DEF TableInv

\* What insert does to the table where its probe ends at the free slot j.
LEMMA InsertNewTable ==
  ASSUME TableInv, NEW p \in Packets, pc = "idle", InsertNew(p), UNCHANGED <<slotFor, eraseVars>>
  PROVE  /\ TableInv'
         /\ Stored' = Stored \cup {p}
         /\ \A q \in Stored : q.seq # p.seq
         /\ \E j \in Slots : slots[j] = Empty
<1>1. PICK k \in Slots : /\ Reaches(p.seq, k)
                         /\ slots[ProbeSlot(p.seq, k)] = Empty
                         /\ slots' = [slots EXCEPT ![ProbeSlot(p.seq, k)] = p]
  BY Zenon DEF InsertNew
<1>2. TableType /\ p.seq \in Seqs
  BY DEF TableInv, Seqs
<1>3. PICK j \in Slots : j = ProbeSlot(p.seq, k) /\ ProbeDistance(slotFor[p.seq], j) = k
  BY <1>2, ProbeMeets
<1>4. /\ slots[j] = Empty
      /\ slots' \in [Slots -> Packets \cup {Empty}]
      /\ \A i \in Slots : slots'[i] = IF i = j THEN p ELSE slots[i]
  BY <1>1, <1>2, <1>3 DEF TableType
<1>5. pc' = "idle" /\ slotFor' = slotFor /\ hole' = hole /\ scan' = scan /\ scanned' = scanned
  BY DEF eraseVars
<1>6. \A i \in Slots : /\ Holds(i) <=> slots[i] # Empty
                       /\ Holds(i)' <=> (i = j \/ Holds(i))
  BY <1>4, <1>5, PacketAssumption DEF Holds, Live
<1>7. \A i, e \in Slots : i # j => (OnPath(e, i)' <=> OnPath(e, i))
  BY <1>4, <1>5, Zenon DEF OnPath, Home
<1>8. \A e \in Slots : OnPath(e, j)' <=> ProbeDistance(slotFor[p.seq], e) < k
  BY <1>3, <1>4, <1>5 DEF OnPath, Home
<1>9. \A i \in Slots : Holds(i) => slots[i].seq # p.seq
  BY <1>1, <1>2, <1>6, ProbeFree
<1>10. TableType'
  BY <1>2, <1>4, <1>5 DEF TableType
<1>11. ASSUME NEW i \in Slots, Holds(i)', NEW e \in Slots, OnPath(e, i)'
       PROVE  slots'[e] # Empty
  <2>1. CASE i # j
    BY <1>4, <1>6, <1>7, <1>11, <2>1, PacketAssumption, Zenon DEF TableInv, PathInv
  <2>2. CASE i = j
    <3>1. PICK d \in Slots : d = ProbeDistance(slotFor[p.seq], e) /\ ProbeSlot(p.seq, d) = e
      BY <1>2, ProbeMeets
    <3>2. d \in 0 .. k - 1
      BY <1>8, <1>11, <2>2, <3>1, CapacityAssumption DEF Slots
    <3>3. ~Stops(p.seq, d)
      BY <1>1, <3>2 DEF Reaches
    <3> QED
      BY <1>4, <3>1, <3>3, PacketAssumption, Zenon DEF Stops
  <2> QED
    BY <2>1, <2>2
<1>12. \A a, b \in Slots : Holds(a)' /\ Holds(b)' /\ slots'[a].seq = slots'[b].seq => a = b
  BY <1>4, <1>6, <1>9 DEF TableInv, PathInv
<1>13. PathInv'
  BY <1>11, <1>12 DEF PathInv
<1>14. ~(k < k)
  BY CapacityAssumption DEF Slots
<1>15. \A i \in Slots : Holds(i)' => ~OnPath(j, i)'
  BY <1>3, <1>4, <1>6, <1>7, <1>8, <1>14 DEF TableInv, PathInv
<1>16. BreakInv' /\ ShiftInv'
  BY <1>5, <1>15 DEF BreakInv, ShiftInv
<1>17. \A x : /\ x \in Stored <=> \E i \in Slots : Holds(i) /\ slots[i] = x
              /\ x \in Stored' <=> \E i \in Slots : Holds(i)' /\ slots'[i] = x
  BY DEF Stored, Live, Holds
<1>18. Stored' = Stored \cup {p} /\ \A q \in Stored : q.seq # p.seq
  BY <1>4, <1>6, <1>9, <1>17
<1>19. CountInv'
  <2>1. p \notin Stored /\ IsFiniteSet(Stored) /\ Counted = Cardinality(Stored)
    BY <1>18 DEF TableInv, CountInv
  <2>2. Counted' = Counted + 1
    BY <1>5 DEF Counted, InsertNew
  <2> QED
    BY <1>18, <2>1, <2>2, FS_AddElement DEF CountInv
<1> QED
  BY <1>3, <1>4, <1>10, <1>13, <1>16, <1>18, <1>19 DEF TableInv

\* A step round the table.
LEMMA Stepping ==
  ASSUME NEW a \in Slots
  PROVE  /\ (NextSlot(a) - 1 - 0) % Capacity = a
         /\ \A i \in Slots : i # a => ProbeDistance(NextSlot(a), i) = ProbeDistance(a, i) - 1
         /\ \A i \in Slots : i # a => ProbeDistance(a, i) > 0
         /\ ProbeDistance(a, a) = 0
<1> USE CapacityAssumption
<1>1. NextSlot(a) \in Slots /\ NextSlot(a) = IF a = Capacity - 1 THEN 0 ELSE a + 1
  BY Wrapping
<1>2. PICK b \in Slots : b = NextSlot(a)
  BY <1>1
<1>3. (b - 1 - 0) % Capacity = IF 0 < b THEN b - 1 - 0 ELSE b - 1 - 0 + Capacity
  <2>1. 0 \in Slots
    BY DEF Slots
  <2> QED
    BY <2>1, Wrapping
<1>4. (NextSlot(a) - 1 - 0) % Capacity = a
  BY <1>1, <1>2, <1>3 DEF Slots
<1>5. ASSUME NEW i \in Slots, i # a
      PROVE  ProbeDistance(NextSlot(a), i) = ProbeDistance(a, i) - 1 /\ ProbeDistance(a, i) > 0
  <2>1. /\ ProbeDistance(b, i) = IF i >= b THEN i - b ELSE i - b + Capacity
        /\ ProbeDistance(a, i) = IF i >= a THEN i - a ELSE i - a + Capacity
    BY Wrapping
  <2> QED
    BY <1>1, <1>2, <1>5, <2>1 DEF Slots
<1>6. ProbeDistance(a, a) = 0
  BY Wrapping DEF Slots
<1> QED
  BY <1>4, <1>5, <1>6

\* What erase does when it finds s: its packet leaves the table.
LEMMA EraseStartTable ==
  ASSUME TableInv, NEW s \in Seqs, EraseStart(s)
  PROVE  TableInv' /\ Stored' = Stored \ {q \in Stored : q.seq = s}
<1> USE CapacityAssumption
<1>1. TableType /\ pc = "idle" /\ pc' = "shift" /\ slotFor' = slotFor /\ slots' = slots /\ size' = size
  BY DEF TableInv, EraseStart, tableVars
<1>2. PICK k \in Slots : Hits(s, k) /\ hole' = ProbeSlot(s, k)
  BY DEF EraseStart
<1>3. PICK j \in Slots : j = ProbeSlot(s, k)
  BY <1>1, ProbeMeets
<1>4. hole' = j /\ scan' = NextSlot(j) /\ scanned' = 0 /\ slots[j] # Empty /\ slots[j].seq = s
  BY <1>2, <1>3 DEF EraseStart, Hits, Reaches, Stops
<1>5. scan' \in Slots /\ 0 \in 0 .. Capacity - 1
  BY <1>4, Wrapping
<1>6. TableType'
  BY <1>1, <1>4, <1>5 DEF TableType
<1>7. \A i \in Slots : /\ Holds(i) <=> slots[i] # Empty
                       /\ Holds(i)' <=> (i # j /\ Holds(i))
  BY <1>1, <1>4 DEF Holds, Live
<1>8. \A i, e \in Slots : OnPath(e, i)' <=> OnPath(e, i)
  BY <1>1 DEF OnPath, Home
<1>9. PathInv'
  BY <1>1, <1>7, <1>8 DEF TableInv, PathInv
<1>10. Origin' = j
  BY <1>4, Stepping DEF Origin
<1>11. BreakInv'
  <2>1. PICK e \in Slots : \A i \in Slots : Holds(i) => ~OnPath(e, i)
    BY DEF TableInv, BreakInv
  <2>2. Rank(e, j) <= Rank(e, j)
    BY Ranks
  <2>3. Rank(e, Origin)' <= Rank(e, hole)'
    BY <1>4, <1>10, <2>2 DEF Rank
  <2> QED
    BY <1>7, <1>8, <2>1, <2>3, Zenon DEF BreakInv
<1>12. ASSUME NEW i \in Slots, Holds(i)'
       PROVE  ProbeDistance(scan', i) <= Capacity - 2 - scanned'
  <2>1. PICK n \in Slots : n = ProbeDistance(j, i)
    BY Wrapping
  <2>2. ProbeDistance(scan', i) = n - 1
    BY <1>4, <1>7, <1>12, <2>1, Stepping
  <2> QED
    BY <1>4, <2>2 DEF Slots
<1>13. ProbeDistance(Origin', hole') <= scanned'
  BY <1>4, <1>10, Stepping
<1>14. ShiftInv'
  BY <1>1, <1>4, <1>12, <1>13, Zenon DEF ShiftInv, ProbeDistance
<1>15. \A x : /\ x \in Stored <=> \E i \in Slots : Holds(i) /\ slots[i] = x
              /\ x \in Stored' <=> \E i \in Slots : Holds(i)' /\ slots'[i] = x
  BY DEF Stored, Live, Holds
<1>16. \A i \in Slots : Holds(i) /\ slots[i].seq = s <=> i = j
  BY <1>4, <1>7 DEF TableInv, PathInv
<1>17. Stored' = Stored \ {q \in Stored : q.seq = s} /\ Stored' = Stored \ {slots[j]} /\ slots[j] \in Stored
  BY <1>1, <1>4, <1>7, <1>15, <1>16
<1>18. CountInv'
  <2>1. IsFiniteSet(Stored) /\ size = Cardinality(Stored)
    BY <1>1 DEF TableInv, CountInv, Counted
  <2>2. Counted' = size - 1
    BY <1>1 DEF Counted
  <2>3. PICK q : q = slots[j]
    OBVIOUS
  <2>4. IsFiniteSet(Stored \ {q}) /\ Cardinality(Stored \ {q}) = Cardinality(Stored) - 1
    BY <1>17, <2>1, <2>3, FS_RemoveElement, Zenon
  <2> QED
    BY <1>17, <2>1, <2>2, <2>3, <2>4, Zenon DEF CountInv
<1> QED
  BY <1>6, <1>9, <1>11, <1>14, <1>17, <1>18, Zenon DEF TableInv

\* Where the scan of a running erase stands.
LEMMA ScanPlace ==
  ASSUME TableInv, scanned + 1 < Capacity
  PROVE  /\ Origin \in Slots
         /\ ProbeDistance(Origin, scan) = scanned + 1
         /\ (NextSlot(scan) - 1 - (scanned + 1)) % Capacity = Origin
<1> USE CapacityAssumption
<1>1. PICK a \in Slots, n \in Slots : a = scan /\ n = scanned
  BY DEF TableInv, TableType, Slots
<1>2. PICK o \in Slots : o = (a - 1 - n) % Capacity
  BY Wrapping
<1>3. o = IF n < a THEN a - 1 - n ELSE a - 1 - n + Capacity
  BY <1>2, Wrapping
<1>4. PICK b \in Slots : b = NextSlot(a) /\ b = IF a = Capacity - 1 THEN 0 ELSE a + 1
  BY Wrapping, Zenon
<1>5. n + 1 \in Slots
  BY <1>1 DEF Slots
<1>6. (b - 1 - (n + 1)) % Capacity = IF n + 1 < b THEN b - 1 - (n + 1) ELSE b - 1 - (n + 1) + Capacity
  BY <1>5, Wrapping
<1>7. ProbeDistance(o, a) = IF a >= o THEN a - o ELSE a - o + Capacity
  BY Wrapping
<1>8. Origin = o
  BY <1>1, <1>2 DEF Origin
<1>9. (b - 1 - (n + 1)) % Capacity = o
  BY <1>1, <1>3, <1>4, <1>6 DEF Slots
<1>10. ProbeDistance(o, a) = n + 1
  BY <1>1, <1>3, <1>7 DEF Slots
<1> QED
  BY <1>1, <1>4, <1>8, <1>9, <1>10, Zenon

\* A step of eraseAt, whether it moves the entry or passes it.
LEMMA EraseShiftTable ==
  ASSUME TableInv, EraseShift
  PROVE  TableInv' /\ Stored' = Stored
<1> USE CapacityAssumption
<1>1. /\ TableType /\ pc = "shift" /\ pc' = "shift" /\ slotFor' = slotFor /\ size' = size
      /\ scan' = NextSlot(scan) /\ scanned' = scanned + 1
      /\ scanned + 1 < Capacity /\ slots[scan] # Empty
  BY DEF TableInv, EraseShift, MoreToScan
<1>2. hole \in Slots /\ scan \in Slots /\ scan' \in Slots /\ scanned \in Nat /\ scanned' \in 0 .. Capacity - 1
  BY <1>1, Wrapping DEF TableType
<1>3. Origin \in Slots /\ ProbeDistance(Origin, scan) = scanned + 1 /\ Origin' = Origin
  BY <1>1, ScanPlace DEF Origin
<1>4. slots[hole] # Empty /\ ProbeDistance(Origin, hole) <= scanned
  BY <1>1 DEF TableInv, ShiftInv
<1>5. scan # hole
  BY <1>2, <1>3, <1>4, Wrapping DEF Slots
<1>6. \A i \in Slots : Holds(i) <=> i # hole /\ slots[i] # Empty
  BY <1>1 DEF Holds, Live
<1>7. Displaced <=> OnPath(hole, scan)
  BY DEF Displaced, OnPath, Home
<1>8. PICK e \in Slots : (\A i \in Slots : Holds(i) => ~OnPath(e, i)) /\ Rank(e, Origin) <= Rank(e, hole)
  BY <1>1 DEF TableInv, BreakInv
<1>9. \A x : /\ x \in Stored <=> \E i \in Slots : Holds(i) /\ slots[i] = x
             /\ x \in Stored' <=> \E i \in Slots : Holds(i)' /\ slots'[i] = x
  BY DEF Stored, Live, Holds
<1>10. \A i \in Slots : Holds(i) /\ OnPath(hole, i) => ProbeDistance(scan, i) <= Capacity - 2 - scanned
  BY <1>1 DEF TableInv, ShiftInv
<1>11. Counted' = Counted
  BY <1>1 DEF Counted
<1>12. CASE ~Displaced
  <2>1. slots' = slots /\ hole' = hole
    BY <1>12 DEF EraseShift
  <2>2. \A i \in Slots : /\ Holds(i)' <=> Holds(i)
                         /\ \A f \in Slots : OnPath(f, i)' <=> OnPath(f, i)
    BY <1>1, <2>1, Zenon DEF Holds, Live, OnPath, Home
  <2>3. TableType'
    BY <1>1, <1>2, <2>1, Zenon DEF TableType
  <2>4. PathInv'
    BY <2>1, <2>2 DEF TableInv, PathInv
  <2>5. BreakInv'
    <3>1. Rank(e, Origin)' <= Rank(e, hole)'
      BY <1>3, <1>8, <2>1, Zenon DEF Rank
    <3> QED
      BY <1>8, <2>2, <3>1, Zenon DEF BreakInv
  <2>6. ASSUME NEW i \in Slots, Holds(i), OnPath(hole, i)
        PROVE  ProbeDistance(scan', i) <= Capacity - 2 - scanned'
    <3>1. i # scan
      BY <1>7, <1>12, <2>6, Zenon
    <3>2. PICK n \in Slots : n = ProbeDistance(scan, i)
      BY <1>2, Wrapping, Zenon
    <3>3. ProbeDistance(scan', i) = n - 1 /\ n <= Capacity - 2 - scanned
      BY <1>1, <1>2, <1>10, <2>6, <3>1, <3>2, Stepping, Zenon
    <3> QED
      BY <1>1, <1>2, <3>3 DEF Slots
  <2>7. ShiftInv'
    <3>1. PICK n \in Slots : n = ProbeDistance(Origin, hole)
      BY <1>2, <1>3, Wrapping, Zenon
    <3>2. ProbeDistance(Origin', hole') <= scanned'
      BY <1>1, <1>2, <1>3, <1>4, <2>1, <3>1 DEF Slots
    <3>3. \A i \in Slots : Holds(i)' /\ OnPath(hole, i)' => ProbeDistance(scan', i) <= Capacity - 2 - scanned'
      BY <1>2, <2>1, <2>2, <2>6, Zenon
    <3> QED
      BY <1>1, <1>4, <2>1, <3>2, <3>3, Zenon DEF ShiftInv, ProbeDistance
  <2>8. Stored' = Stored
    BY <1>9, <2>1, <2>2, Zenon
  <2> QED
    BY <1>11, <2>3, <2>4, <2>5, <2>7, <2>8, Zenon DEF TableInv, CountInv
<1>13. CASE Displaced
  <2>1. PICK h \in Slots, c \in Slots : h = hole /\ c = scan
    BY <1>2
  <2>2. slots' = [slots EXCEPT ![h] = slots[c]] /\ hole' = c /\ h # c
    BY <1>5, <1>13, <2>1 DEF EraseShift
  <2>3. /\ slots' \in [Slots -> Packets \cup {Empty}]
        /\ \A i \in Slots : slots'[i] = IF i = h THEN slots[c] ELSE slots[i]
    BY <1>1, <2>1, <2>2, Zenon DEF TableType
  <2>4. Holds(c) /\ OnPath(h, c) /\ ~Holds(h) /\ slots[h] # Empty /\ slots[c] # Empty
    BY <1>1, <1>4, <1>6, <1>7, <1>13, <2>1, <2>2, Zenon
  <2>5. \A i \in Slots : Holds(i)' <=> (i = h \/ (Holds(i) /\ i # c))
    BY <1>1, <1>6, <2>1, <2>2, <2>3, <2>4, Zenon DEF Holds, Live
  <2>6. \A i, f \in Slots : i # h => (OnPath(f, i)' <=> OnPath(f, i))
    BY <1>1, <2>3, Zenon DEF OnPath, Home
  <2>7. \A f \in Slots : OnPath(f, h)' <=> ProbeDistance(Home(c), f) < ProbeDistance(Home(c), h)
    BY <1>1, <2>3, Zenon DEF OnPath, Home
  <2>8. PICK m \in Slots : m = Home(c)
    BY <1>1, <2>4, EntryType, Zenon
  <2>9. \A f \in Slots : OnPath(f, h)' => OnPath(f, c) /\ f # c
    <3>1. \A f \in Slots : ProbeDistance(m, f) \in Slots
      BY Wrapping
    <3>2. \A f \in Slots : OnPath(f, c) <=> ProbeDistance(m, f) < ProbeDistance(m, c)
      BY <2>8 DEF OnPath
    <3> QED
      BY <2>4, <2>7, <2>8, <3>1, <3>2 DEF Slots
  <2>10. TableType'
    BY <1>1, <1>2, <2>2, <2>3, Zenon DEF TableType
  <2>11. PathInv'
    <3>1. \A f \in Slots : slots[f] # Empty <=> slots'[f] # Empty
      BY <2>3, <2>4, Zenon
    <3>2. \A i \in Slots : Holds(i)' => \A f \in Slots : OnPath(f, i)' => slots'[f] # Empty
      BY <2>4, <2>5, <2>6, <2>9, <3>1, Zenon DEF TableInv, PathInv
    <3>3. \A i, j \in Slots : Holds(i)' /\ Holds(j)' /\ slots'[i].seq = slots'[j].seq => i = j
      BY <2>3, <2>4, <2>5 DEF TableInv, PathInv
    <3> QED
      BY <3>2, <3>3, Zenon DEF PathInv
  <2>12. \A i \in Slots : Holds(i)' => ~OnPath(e, i)'
    BY <1>8, <2>4, <2>5, <2>6, <2>9, Zenon
  <2>13. PICK o \in Slots : o = Origin
    BY <1>3
  <2>14. PICK ro \in Slots, rh \in Slots, rs \in Slots : ro = Rank(e, o) /\ rh = Rank(e, h) /\ rs = Rank(e, c)
    BY Ranks, Zenon DEF Slots
  <2>15. \A i \in Slots : Holds(i) => Rank(e, Home(i)) <= Rank(e, i)
    BY <1>1, <1>8, Ranks, EntryType DEF OnPath, Holds
  <2>16. \A i, f \in Slots : Holds(i) => (OnPath(f, i) <=> Rank(e, Home(i)) <= Rank(e, f) /\ Rank(e, f) < Rank(e, i))
    BY <1>1, <2>15, Interval, EntryType, Zenon DEF OnPath, Holds
  <2>17. ro <= rh /\ rh < rs
    BY <1>8, <2>1, <2>4, <2>13, <2>14, <2>16, Zenon
  <2>18. BreakInv'
    <3>1. Rank(e, o) <= Rank(e, c)
      BY <2>14, <2>17 DEF Slots
    <3>2. Rank(e, Origin)' <= Rank(e, hole)'
      BY <1>3, <2>2, <2>13, <3>1, Zenon DEF Rank
    <3> QED
      BY <2>12, <3>2, Zenon DEF BreakInv
  <2>19. ASSUME NEW i \in Slots, Holds(i)', OnPath(c, i)'
         PROVE  ProbeDistance(scan', i) <= Capacity - 2 - scanned'
    <3>1. i # h /\ i # c /\ Holds(i) /\ OnPath(c, i)
      BY <2>2, <2>5, <2>6, <2>9, <2>19
    <3>2. PICK ri \in Slots : ri = Rank(e, i)
      BY Ranks DEF Slots
    <3>3. rs < ri
      BY <2>14, <2>16, <3>1, <3>2, Zenon
    <3>4. PICK d \in Slots : d = ProbeDistance(c, i)
      BY Wrapping, Zenon
    <3>5. d = IF ri >= rs THEN ri - rs ELSE ri - rs + Capacity
      BY <2>14, <3>2, <3>4, Ranks
    <3>6. scanned + 1 = IF rs >= ro THEN rs - ro ELSE rs - ro + Capacity
      BY <1>3, <2>1, <2>13, <2>14, Ranks
    <3>7. ProbeDistance(NextSlot(c), i) = d - 1
      BY <3>1, <3>4, Stepping, Zenon
    <3>8. d <= Capacity - 2 - scanned
      BY <1>2, <2>17, <3>3, <3>6, <3>5 DEF Slots
    <3>9. ProbeDistance(scan', i) = d - 1
      BY <1>1, <2>1, <3>7, Zenon
    <3> QED
      BY <1>1, <1>2, <3>8, <3>9 DEF Slots
  <2>20. ShiftInv'
    <3>1. ProbeDistance(Origin', hole') <= scanned'
      BY <1>1, <1>2, <1>3, <2>1, <2>2
    <3>2. slots'[c] # Empty
      BY <2>2, <2>3, <2>4, Zenon
    <3> QED
      BY <1>1, <2>2, <2>19, <3>1, <3>2, Zenon DEF ShiftInv, ProbeDistance, OnPath
  <2>21. Stored' = Stored
    BY <1>9, <2>3, <2>4, <2>5
  <2> QED
    BY <1>11, <2>10, <2>11, <2>18, <2>20, <2>21, Zenon DEF TableInv, CountInv
<1> QED
  BY <1>12, <1>13, Zenon

\* When eraseAt stops, no entry has the hole on its probe path: it can be freed.
LEMMA HoleIsFree ==
  ASSUME TableInv, pc = "shift", ~MoreToScan, NEW i \in Slots, Holds(i)
  PROVE  ~OnPath(hole, i)
<1> USE CapacityAssumption
<1> SUFFICES ASSUME OnPath(hole, i)
             PROVE  FALSE
  OBVIOUS
<1>1. TableType /\ hole \in Slots /\ scan \in Slots /\ scanned \in Nat
  BY DEF TableInv, TableType
<1>2. ProbeDistance(scan, i) <= Capacity - 2 - scanned
  BY DEF TableInv, ShiftInv
<1>3. PICK d \in Slots : d = ProbeDistance(scan, i)
  BY <1>1, Wrapping, Zenon
<1>4. scanned + 1 < Capacity /\ slots[scan] = Empty
  BY <1>1, <1>2, <1>3 DEF MoreToScan, Slots
<1>5. Origin \in Slots /\ ProbeDistance(Origin, scan) = scanned + 1 /\ ProbeDistance(Origin, hole) <= scanned
  BY <1>4, ScanPlace DEF TableInv, ShiftInv
<1>6. PICK e \in Slots : (\A j \in Slots : Holds(j) => ~OnPath(e, j)) /\ Rank(e, Origin) <= Rank(e, hole)
  BY DEF TableInv, BreakInv
<1>7. PICK m \in Slots : m = Home(i)
  BY <1>1, EntryType, Zenon DEF Holds
<1>8. \A f \in Slots : OnPath(f, i) <=> ProbeDistance(m, f) < ProbeDistance(m, i)
  BY <1>7, Zenon DEF OnPath
<1>9. Rank(e, m) <= Rank(e, i)
  BY <1>6, <1>8, Ranks
<1>10. \A f \in Slots : OnPath(f, i) <=> Rank(e, m) <= Rank(e, f) /\ Rank(e, f) < Rank(e, i)
  BY <1>8, <1>9, Interval
<1>11. PICK ro \in Slots, rh \in Slots, rs \in Slots, ri \in Slots, rm \in Slots :
         /\ ro = Rank(e, Origin) /\ rh = Rank(e, hole) /\ rs = Rank(e, scan)
         /\ ri = Rank(e, i) /\ rm = Rank(e, m)
  BY <1>1, <1>5, Ranks, Zenon DEF Slots
<1>12. ro <= rh /\ rh < ri /\ rm <= rh
  BY <1>1, <1>6, <1>10, <1>11, Zenon
<1>13. /\ scanned + 1 = IF rs >= ro THEN rs - ro ELSE rs - ro + Capacity
       /\ ProbeDistance(Origin, hole) = IF rh >= ro THEN rh - ro ELSE rh - ro + Capacity
       /\ d = IF ri >= rs THEN ri - rs ELSE ri - rs + Capacity
  BY <1>1, <1>3, <1>5, <1>11, Ranks
<1>14. rh - ro <= scanned
  BY <1>5, <1>12, <1>13, Zenon DEF Slots
<1>15. rh < rs /\ rs <= ri
  BY <1>1, <1>2, <1>3, <1>4, <1>12, <1>13, <1>14 DEF Slots
<1>16. rs # ri
  BY <1>1, <1>4, <1>11, Ranks DEF Holds
<1>17. OnPath(scan, i)
  BY <1>1, <1>10, <1>11, <1>12, <1>15, <1>16 DEF Slots
<1> QED
  BY <1>1, <1>4, <1>17 DEF TableInv, PathInv

LEMMA EraseEndTable ==
  ASSUME TableInv, EraseEnd
  PROVE  TableInv' /\ Stored' = Stored
<1>1. /\ TableType /\ pc = "shift" /\ pc' = "idle" /\ slotFor' = slotFor /\ size' = size - 1
      /\ ~MoreToScan /\ hole' = 0 /\ scan' = 0 /\ scanned' = 0
  BY DEF TableInv, EraseEnd
<1>2. PICK h \in Slots : h = hole /\ slots' = [slots EXCEPT ![h] = Empty]
  BY <1>1, Zenon DEF TableType, EraseEnd
<1>3. /\ slots' \in [Slots -> Packets \cup {Empty}]
      /\ \A i \in Slots : slots'[i] = IF i = h THEN Empty ELSE slots[i]
  BY <1>1, <1>2, Zenon DEF TableType
<1>4. \A i \in Slots : /\ Holds(i)' <=> Holds(i)
                       /\ Holds(i) => i # h
  BY <1>1, <1>2, <1>3, Zenon DEF Holds, Live
<1>5. \A i \in Slots : Holds(i) => slots'[i] = slots[i] /\ \A f \in Slots : OnPath(f, i)' <=> OnPath(f, i)
  BY <1>1, <1>3, <1>4, Zenon DEF OnPath, Home
<1>6. TableType'
  BY <1>1, <1>3, CapacityAssumption DEF TableType, Slots
<1>7. \A i \in Slots : Holds(i) => ~OnPath(h, i)
  BY <1>1, <1>2, HoleIsFree, Zenon
<1>8. PathInv'
  <2>1. \A i \in Slots : Holds(i)' => \A f \in Slots : OnPath(f, i)' => slots'[f] # Empty
    BY <1>3, <1>4, <1>5, <1>7, Zenon DEF TableInv, PathInv
  <2>2. \A i, j \in Slots : Holds(i)' /\ Holds(j)' /\ slots'[i].seq = slots'[j].seq => i = j
    BY <1>4, <1>5, Zenon DEF TableInv, PathInv
  <2> QED
    BY <2>1, <2>2, Zenon DEF PathInv
<1>9. BreakInv' /\ ShiftInv'
  <2>1. PICK e \in Slots : \A i \in Slots : Holds(i) => ~OnPath(e, i)
    BY DEF TableInv, BreakInv
  <2> QED
    BY <1>1, <1>4, <1>5, <2>1, Zenon DEF BreakInv, ShiftInv
<1>10. \A x : /\ x \in Stored <=> \E i \in Slots : Holds(i) /\ slots[i] = x
              /\ x \in Stored' <=> \E i \in Slots : Holds(i)' /\ slots'[i] = x
  BY DEF Stored, Live, Holds
<1>11. Stored' = Stored
  BY <1>4, <1>5, <1>10, Zenon
<1>12. Counted' = Counted
  BY <1>1 DEF Counted
<1> QED
  BY <1>6, <1>8, <1>9, <1>11, <1>12, Zenon DEF TableInv, CountInv

LEMMA UnchangedTable ==
  ASSUME TableInv, UNCHANGED <<slotFor, tableVars, eraseVars>>
  PROVE  TableInv' /\ Stored' = Stored
<1>1. slotFor' = slotFor /\ slots' = slots /\ size' = size /\ pc' = pc /\ hole' = hole /\ scan' = scan /\ scanned' = scanned
  BY DEF tableVars, eraseVars
<1>2. Stored' = Stored /\ Counted' = Counted
  BY <1>1 DEF Stored, Live, Counted
<1>3. \A i \in Slots : Holds(i)' <=> Holds(i)
  BY <1>1, Zenon DEF Holds, Live
<1>4. \A i, e \in Slots : OnPath(e, i)' <=> OnPath(e, i)
  BY <1>1 DEF OnPath, Home
<1>5. Origin' = Origin
  BY <1>1, Zenon DEF Origin
<1>6. TableType' /\ PathInv' /\ CountInv'
  BY <1>1, <1>2, <1>3, <1>4, Zenon DEF TableInv, TableType, PathInv, CountInv
<1>7. BreakInv'
  BY <1>1, <1>3, <1>4, <1>5, Zenon DEF TableInv, BreakInv, Rank
<1>8. ShiftInv'
  BY <1>1, <1>5, Zenon DEF TableInv, ShiftInv, ProbeDistance, OnPath, Home, Holds, Live
<1> QED
  BY <1>2, <1>6, <1>7, <1>8, Zenon DEF TableInv

LEMMA TableStep == TableInv /\ [Next]_vars => TableInv'
<1> SUFFICES ASSUME TableInv, [Next]_vars
             PROVE  TableInv'
  OBVIOUS
<1>1. ASSUME NEW p \in Packets, Insert(p)
      PROVE  TableInv'
  <2>1. pc = "idle" /\ UNCHANGED <<slotFor, eraseVars>>
    BY <1>1, Zenon DEF Insert
  <2>2. CASE InsertNew(p)
    BY <2>1, <2>2, InsertNewTable, Zenon
  <2>3. CASE UNCHANGED tableVars
    BY <2>1, <2>3, UnchangedTable, Zenon
  <2> QED
    BY <1>1, <2>2, <2>3, Zenon DEF Insert, InsertInvalid, InsertDuplicate, InsertFull
<1>2. CASE UNCHANGED vars
  BY <1>2, UnchangedTable DEF vars, tableVars, eraseVars
<1> QED
  BY <1>1, <1>2, EraseStartTable, EraseShiftTable, EraseEndTable, Zenon DEF Next

\* No entry is out of its probe's reach, and none is there twice, at any time
\* of an insert or of a deletion.
THEOREM TableSound == Spec => []TableInv
BY InitTable, TableStep, PTL DEF Spec
-----------------------------------------------------------------------------
\* The occupied slots are as many as the packets.
LEMMA Occupancy ==
  ASSUME TableInv, pc = "idle"
  PROVE  /\ (\E j \in Slots : slots[j] = Empty) => Cardinality(Stored) < Capacity
         /\ (\A j \in Slots : slots[j] # Empty) => Cardinality(Stored) = Capacity
<1> DEFINE T == {i \in Slots : Holds(i)}
           f == [i \in T |-> slots[i]]
<1>1. \A i \in Slots : Holds(i) <=> slots[i] # Empty
  BY DEF Holds, Live
<1>2. \A x : x \in Stored <=> \E i \in Slots : Holds(i) /\ slots[i] = x
  BY DEF Stored, Live, Holds
<1>3. f \in Surjection(T, Stored)
  BY <1>2 DEF Surjection
<1>4. f \in Injection(T, Stored)
  BY <1>2 DEF Injection, IsInjective, TableInv, PathInv
<1>5. T \in SUBSET Slots
  OBVIOUS
<1>6. IsFiniteSet(Slots) /\ Cardinality(Slots) = Capacity
  BY CapacityAssumption, FS_Interval DEF Slots
<1> HIDE DEF T, f
<1>7. IsFiniteSet(T) /\ Cardinality(T) <= Capacity /\ (Cardinality(T) = Capacity => T = Slots)
  BY <1>5, <1>6, FS_Subset, Zenon
<1>8. Cardinality(Stored) = Cardinality(T)
  BY <1>3, <1>4, <1>7, FS_Surjection, Zenon
<1>9. Cardinality(T) \in Nat
  BY <1>7, FS_CardinalityType
<1>10. ASSUME NEW j \in Slots, slots[j] = Empty
       PROVE  T # Slots
  BY <1>1, <1>10 DEF T
<1>11. ASSUME \A j \in Slots : slots[j] # Empty
       PROVE  T = Slots
  BY <1>1, <1>11 DEF T
<1> QED
  BY <1>6, <1>7, <1>8, <1>9, <1>10, <1>11, CapacityAssumption

LEMMA SameCardinality == \A S : Store!Cardinality(S) = Cardinality(S)
BY DEF Store!Cardinality, Cardinality, Store!IsFiniteSet, IsFiniteSet

\* insert does what the store's Put does.
LEMMA InsertPuts ==
  ASSUME TableInv, NEW p \in Packets, Insert(p)
  PROVE  Store!Put(p)
<1>1. pc = "idle" /\ UNCHANGED <<slotFor, eraseVars>> /\ p.seq \in Seqs /\ TableType
  BY DEF Insert, Seqs, TableInv
<1>2. \A x : x \in Stored <=> \E i \in Slots : slots[i] # Empty /\ slots[i] = x
  BY <1>1 DEF Stored, Live
<1>3. ASSUME UNCHANGED tableVars
      PROVE  Stored' = Stored
  BY <1>1, <1>3, UnchangedTable, Zenon
<1>4. CASE InsertInvalid(p)
  BY <1>3, <1>4, Zenon DEF InsertInvalid, Store!Put, Store!PutInvalid
<1>5. CASE p.content # Oversize /\ InsertNew(p)
  <2>1. Stored' = Stored \cup {p} /\ (\A q \in Stored : q.seq # p.seq) /\ Cardinality(Stored) < Capacity
    BY <1>1, <1>5, InsertNewTable, Occupancy, Zenon
  <2> QED
    BY <1>5, <2>1, SameCardinality, Zenon DEF InsertNew, Store!Put, Store!PutNew, Store!At
<1>6. CASE p.content # Oversize /\ InsertDuplicate(p)
  <2>1. PICK k \in Slots :
          /\ Hits(p.seq, k)
          /\ result' = IF slots[ProbeSlot(p.seq, k)] = p THEN "DuplicateIdentical" ELSE "ConflictingDuplicate"
    BY <1>6, Zenon DEF InsertDuplicate
  <2>2. PICK j \in Slots : j = ProbeSlot(p.seq, k)
    BY <1>1, ProbeMeets, Zenon
  <2>3. slots[j] # Empty /\ slots[j].seq = p.seq
    BY <2>1, <2>2, Zenon DEF Hits, Reaches, Stops
  <2>4. slots[j] \in Stored
    BY <1>2, <2>3, Zenon
  <2>5. p \in Stored <=> slots[j] = p
    <3>1. \A i \in Slots : Holds(i) <=> slots[i] # Empty
      BY <1>1, Zenon DEF Holds, Live
    <3> QED
      BY <1>2, <2>3, <3>1, Zenon DEF TableInv, PathInv
  <2> QED
    BY <1>3, <1>6, <2>1, <2>2, <2>3, <2>4, <2>5, Zenon
       DEF InsertDuplicate, Store!Put, Store!PutAgain, Store!At
<1>7. CASE p.content # Oversize /\ InsertFull(p)
  <2>1. ASSUME NEW j \in Slots
        PROVE  slots[j] # Empty /\ slots[j].seq # p.seq
    <3>1. PICK k \in Slots : ProbeSlot(p.seq, k) = j
      BY <1>1, ProbeMeets, Zenon
    <3> QED
      BY <1>7, <3>1, Zenon DEF InsertFull, Stops
  <2>2. Cardinality(Stored) = Capacity
    BY <1>1, <2>1, Occupancy
  <2> QED
    BY <1>2, <1>3, <1>7, <2>1, <2>2, SameCardinality DEF InsertFull, Store!Put, Store!PutRefused, Store!At
<1> QED
  BY <1>4, <1>5, <1>6, <1>7, Zenon DEF Insert

\* The table is the bounded set of packets, one per sequence number, that the
\* decoder takes it for: insert answers as the set does, erase removes one
\* packet and no other, however many slots eraseAt shifts, and size_ counts.
THEOREM ImplementsStore == Spec => StoreSpec
<1>1. Init => Store!StoreInit
  <2>1. Init => Stored = {} /\ Counted = 0
    BY DEF Init, Stored, Live, Counted
  <2> QED
    BY <2>1 DEF Init, Store!StoreInit
<1>2. TableInv /\ TableInv' /\ [Next]_vars => [Store!StoreNext]_(Store!storeVars)
  <2> SUFFICES ASSUME TableInv, TableInv', [Next]_vars
               PROVE  [Store!StoreNext]_(Store!storeVars)
    OBVIOUS
  <2>1. Counted' = Cardinality(Stored') /\ Counted = Cardinality(Stored)
    BY DEF TableInv, CountInv
  <2>2. ASSUME NEW p \in Packets, Insert(p)
        PROVE  Store!StoreNext
    BY <2>1, <2>2, InsertPuts, SameCardinality, Zenon DEF Store!StoreNext
  <2>3. ASSUME NEW s \in Seqs, EraseStart(s)
        PROVE  Store!StoreNext
    <3>1. PICK p \in Packets : p.seq = s
      BY DEF Seqs
    <3>2. Stored' = Stored \ {q \in Stored : q.seq = s} /\ result' = result
      BY <2>3, EraseStartTable DEF EraseStart
    <3> QED
      BY <2>1, <3>1, <3>2, SameCardinality, Zenon DEF Store!StoreNext, Store!Remove, Store!At
  <2>4. ASSUME Stored' = Stored, result' = result
        PROVE  UNCHANGED Store!storeVars
    BY <2>1, <2>4, Zenon DEF Store!storeVars
  <2>5. CASE EraseShift
    BY <2>4, <2>5, EraseShiftTable, Zenon DEF EraseShift
  <2>6. CASE EraseEnd
    BY <2>4, <2>6, EraseEndTable, Zenon DEF EraseEnd
  <2>7. CASE UNCHANGED vars
    BY <2>4, <2>7, UnchangedTable DEF vars, tableVars, eraseVars
  <2> QED
    BY <2>2, <2>3, <2>5, <2>6, <2>7, Zenon DEF Next
<1> QED
  BY <1>1, <1>2, TableSound, PTL DEF Spec, StoreSpec, Store!StoreSpec

\* What find promises its callers while no deletion is running: the packet
\* with the sequence number if the table holds one, and nothing otherwise.
FindExact ==
  pc = "idle" =>
    \A s \in Seqs :
      IF \E q \in Stored : q.seq = s
        THEN Find(s) \in Stored /\ Find(s).seq = s
        ELSE Find(s) = Empty

\* find sees every packet insert was told is "Inserted" until it is erased.
THEOREM FindSound == Spec => []FindExact
<1>1. TableInv => FindExact
  <2> SUFFICES ASSUME TableInv, pc = "idle", NEW s \in Seqs
               PROVE  IF \E q \in Stored : q.seq = s
                        THEN Find(s) \in Stored /\ Find(s).seq = s
                        ELSE Find(s) = Empty
    BY DEF FindExact
  <2>1. TableType /\ \A x : x \in Stored <=> \E i \in Slots : Holds(i) /\ slots[i] = x
    BY DEF TableInv, Stored, Live, Holds
  <2>2. \A i \in Slots : Holds(i) <=> slots[i] # Empty
    BY Zenon DEF Holds, Live
  <2>3. \A k \in Slots : Hits(s, k) => slots[ProbeSlot(s, k)] \in Stored /\ slots[ProbeSlot(s, k)].seq = s
    BY <2>1, <2>2, ProbeMeets, Zenon DEF Hits, Reaches, Stops
  <2>4. ASSUME NEW i \in Slots, Holds(i), slots[i].seq = s
        PROVE  \E k \in Slots : Hits(s, k)
    <3>1. PICK k \in Slots : k = ProbeDistance(slotFor[s], i) /\ ProbeSlot(s, k) = i
      BY <2>1, ProbeMeets, Zenon
    <3>2. ASSUME NEW j \in 0 .. k - 1
          PROVE  ~Stops(s, j)
      <4>1. j \in Slots /\ j < k
        BY CapacityAssumption DEF Slots
      <4>2. PICK f \in Slots : f = ProbeSlot(s, j) /\ ProbeDistance(slotFor[s], f) = j
        BY <2>1, <4>1, ProbeMeets, Zenon
      <4>3. OnPath(f, i)
        BY <2>4, <3>1, <4>1, <4>2, Zenon DEF OnPath, Home
      <4>4. slots[f] # Empty /\ f # i
        BY <2>4, <3>1, <4>1, <4>2, <4>3, CapacityAssumption DEF TableInv, PathInv, Slots
      <4> QED
        BY <2>2, <2>4, <4>2, <4>4, Zenon DEF Stops, TableInv, PathInv
    <3> QED
      BY <2>2, <2>4, <3>1, <3>2, Zenon DEF Hits, Reaches, Stops
  <2>5. CASE \E k \in Slots : Hits(s, k)
    BY <2>3, <2>5 DEF Find
  <2>6. CASE ~\E k \in Slots : Hits(s, k)
    BY <2>1, <2>4, <2>6 DEF Find
  <2> QED
    BY <2>5, <2>6
<1> QED
  BY <1>1, TableSound, PTL
=============================================================================
