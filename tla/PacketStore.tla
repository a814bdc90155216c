---------------------------- MODULE PacketStore ----------------------------
(***************************************************************************)
(* What the decoder takes the gap buffer for: a bounded set of packets     *)
(* with at most one packet per sequence number.                            *)
(***************************************************************************)
EXTENDS Naturals, FiniteSets

CONSTANTS
  Packets,     \* the packets that may be put, records with fields seq, content
  Oversize,    \* the content of a packet that can never be held
  Capacity

VARIABLES
  stored,      \* the packets held
  count,       \* how many it says they are
  answer       \* what the last put was told

storeVars == <<stored, count, answer>>

At(s) == {q \in stored : q.seq = s}

StoreInit == stored = {} /\ count = 0 /\ answer = "none"

PutNew(p) ==
  /\ At(p.seq) = {}
  /\ Cardinality(stored) < Capacity
  /\ stored' = stored \cup {p}
  /\ answer' = "Inserted"

PutAgain(p) ==
  /\ At(p.seq) # {}
  /\ answer' = IF p \in stored THEN "DuplicateIdentical"
                               ELSE "ConflictingDuplicate"
  /\ UNCHANGED stored

PutRefused(p) ==
  /\ At(p.seq) = {}
  /\ Cardinality(stored) = Capacity
  /\ answer' = "CapacityExceeded"
  /\ UNCHANGED stored

PutInvalid(p) ==
  /\ p.content = Oversize
  /\ answer' = "InvalidPacket"
  /\ UNCHANGED stored

Put(p) ==
  \/ PutInvalid(p)
  \/ p.content # Oversize /\ (PutNew(p) \/ PutAgain(p) \/ PutRefused(p))

Remove(s) ==
  /\ stored' = stored \ At(s)
  /\ UNCHANGED answer

StoreNext ==
  /\ \E p \in Packets : Put(p) \/ Remove(p.seq)
  /\ count' = Cardinality(stored')

StoreSpec == StoreInit /\ [][StoreNext]_storeVars
=============================================================================
