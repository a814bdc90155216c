----------------------------- MODULE GapBuffer -----------------------------
(***************************************************************************)
(* The gap buffer of a channel: an open-addressing hash table of packets   *)
(* keyed by sequence number, with linear probing and backward-shift        *)
(* deletion (no tombstones).                                               *)
(*                                                                         *)
(* insert and find are single steps: they follow the probe path to the     *)
(* first slot that is free or holds the sequence number.  erase is one     *)
(* step that finds the slot, then one step per slot eraseAt visits.  The   *)
(* hash is a parameter: slotFor is chosen once, in Init, among all         *)
(* functions, because nothing may depend on where 64-bit sequence numbers  *)
(* happen to hash.                                                         *)
(***************************************************************************)
EXTENDS Integers, FiniteSets

CONSTANTS
  Packets,     \* the packets that may be inserted
  Capacity,    \* kCapacity
  Oversize,    \* the content of a packet longer than kMaxPacketSize
  Empty        \* a slot that is not occupied

ASSUME CapacityAssumption == Capacity \in Nat \ {0}

ASSUME PacketAssumption ==
  /\ \A p \in Packets : {"seq", "content"} = DOMAIN p
  /\ Empty \notin Packets

Slots == 0 .. Capacity - 1

Seqs == {p.seq : p \in Packets}

VARIABLES
  slotFor,     \* the hash of a sequence number, masked to a slot
  slots,       \* slots_
  size,        \* size_
  pc,          \* "idle", or "shift" inside eraseAt
  hole,        \* eraseAt's gap: the slot to be filled or freed
  scan,        \* eraseAt's slot
  scanned,     \* eraseAt's loop counter
  result       \* what the last insert returned

tableVars == <<slots, size>>
eraseVars == <<pc, hole, scan, scanned>>
vars == <<slotFor, slots, size, pc, hole, scan, scanned, result>>

Init ==
  /\ slotFor \in [Seqs -> Slots]
  /\ slots = [i \in Slots |-> Empty]
  /\ size = 0
  /\ pc = "idle"
  /\ hole = 0
  /\ scan = 0
  /\ scanned = 0
  /\ result = "none"
-----------------------------------------------------------------------------
NextSlot(i) == (i + 1) % Capacity

ProbeDistance(natural, i) == (i - natural) % Capacity

\* The slot the probe for s looks at after k steps.
ProbeSlot(s, k) == (slotFor[s] + k) % Capacity

\* The probe for s ends at its k-th slot: free, or holding s.
Stops(s, k) ==
  slots[ProbeSlot(s, k)] # Empty => slots[ProbeSlot(s, k)].seq = s

Reaches(s, k) == Stops(s, k) /\ \A j \in 0 .. k - 1 : ~Stops(s, j)

Hits(s, k) == Reaches(s, k) /\ slots[ProbeSlot(s, k)] # Empty

\* find: the packet with sequence number s, or Empty.
Find(s) ==
  IF \E k \in Slots : Hits(s, k)
    THEN slots[ProbeSlot(s, CHOOSE k \in Slots : Hits(s, k))]
    ELSE Empty

InsertNew(p) ==
  /\ \E k \in Slots :
       /\ Reaches(p.seq, k)
       /\ slots[ProbeSlot(p.seq, k)] = Empty
       /\ slots' = [slots EXCEPT ![ProbeSlot(p.seq, k)] = p]
  /\ size' = size + 1
  /\ result' = "Inserted"

InsertDuplicate(p) ==
  /\ \E k \in Slots :
       /\ Hits(p.seq, k)
       /\ result' = IF slots[ProbeSlot(p.seq, k)] = p
                      THEN "DuplicateIdentical" ELSE "ConflictingDuplicate"
  /\ UNCHANGED tableVars

InsertFull(p) ==
  /\ \A k \in Slots : ~Stops(p.seq, k)
  /\ result' = "CapacityExceeded"
  /\ UNCHANGED tableVars

InsertInvalid(p) ==
  /\ p.content = Oversize
  /\ result' = "InvalidPacket"
  /\ UNCHANGED tableVars

Insert(p) ==
  /\ pc = "idle"
  /\ \/ InsertInvalid(p)
     \/ /\ p.content # Oversize
        /\ InsertNew(p) \/ InsertDuplicate(p) \/ InsertFull(p)
  /\ UNCHANGED <<slotFor, eraseVars>>

\* erase of a sequence number the table holds: eraseAt starts.  (The erase of
\* one it does not hold changes nothing.)
EraseStart(s) ==
  /\ pc = "idle"
  /\ \E k \in Slots :
       /\ Hits(s, k)
       /\ hole' = ProbeSlot(s, k)
  /\ scan' = NextSlot(hole')
  /\ scanned' = 0
  /\ pc' = "shift"
  /\ UNCHANGED <<slotFor, tableVars, result>>

MoreToScan == scanned + 1 < Capacity /\ slots[scan] # Empty

\* Mutant of Displaced: an entry is moved only when it sits next to the hole.
DisplacedAdjacent ==
  scan = NextSlot(hole) /\ slotFor[slots[scan].seq] # scan

\* The entry under the scan is closer to its natural slot in the hole.
Displaced ==
  LET natural == slotFor[slots[scan].seq]
  IN  ProbeDistance(natural, hole) < ProbeDistance(natural, scan)

EraseShift ==
  /\ pc = "shift"
  /\ MoreToScan
  /\ IF Displaced
       THEN /\ slots' = [slots EXCEPT ![hole] = slots[scan]]
            /\ hole' = scan
       ELSE UNCHANGED <<slots, hole>>
  /\ scan' = NextSlot(scan)
  /\ scanned' = scanned + 1
  /\ UNCHANGED <<slotFor, size, pc, result>>

EraseEnd ==
  /\ pc = "shift"
  /\ ~MoreToScan
  /\ slots' = [slots EXCEPT ![hole] = Empty]
  /\ size' = size - 1
  /\ pc' = "idle"
  /\ hole' = 0
  /\ scan' = 0
  /\ scanned' = 0
  /\ UNCHANGED <<slotFor, result>>

Next ==
  \/ \E p \in Packets : Insert(p)
  \/ \E s \in Seqs : EraseStart(s)
  \/ EraseShift
  \/ EraseEnd

Spec == Init /\ [][Next]_vars
-----------------------------------------------------------------------------
\* The packets the table holds; the hole of a running erase is not one.
Live == Slots \ (IF pc = "shift" THEN {hole} ELSE {})
Stored == {slots[i] : i \in {j \in Live : slots[j] # Empty}}

\* size_, less the packet of a running erase.
Counted == IF pc = "shift" THEN size - 1 ELSE size

Store == INSTANCE PacketStore WITH stored <- Stored, count <- Counted, answer <- result

\* The table is the bounded set of packets the decoder takes it for.  Deletion
\* breaks the probe path of no other sequence number, wherever the numbers
\* hash: a packet that its probe missed could be put a second time.  And size_,
\* from which empty() and through it the decoder's recovery test answer, counts
\* the packets.
StoreSpec == Store!StoreSpec
=============================================================================
