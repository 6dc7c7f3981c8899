----------------------------- MODULE EthProofs -----------------------------
(* Proofs about the way of received words into the ring buffer (EthRing), for   *)
(* FIFOs of every size and every order of the two clocks' edges.                *)
EXTENDS EthRing, TLAPS

(* The only multiple of n nearer to 0 than n is 0.                              *)
LEMMA SmallMultiple ==
  ASSUME NEW n \in Nat \ {0}, NEW z \in Int, -n < n * z, n * z < n
  PROVE  z = 0
<1>1. z >= 1 => n * z >= n
  BY SMT
<1>2. z <= -1 => n * z <= -n
  BY SMT
<1>. QED
  BY <1>1, <1>2

(* Division with remainder.                                                     *)
LEMMA Division ==
  ASSUME NEW n \in Nat \ {0}, NEW a \in Nat
  PROVE  a % n \in 0 .. n - 1 /\ \E q \in Int : a = n * q + (a % n)
<1>1. a = n * (a \div n) + (a % n) /\ a \div n \in Int
  BY SMT
<1>2. a % n \in 0 .. n - 1
  BY SMT
<1>. QED
  BY <1>1, <1>2, Zenon

(* The remainder is the only one.                                               *)
LEMMA ModUnique ==
  ASSUME NEW n \in Nat \ {0}, NEW a \in Nat, NEW b \in 0 .. n - 1, NEW q \in Int,
         a = n * q + b
  PROVE  a % n = b
<1>1. PICK p \in Int : a = n * p + (a % n)
  BY Division
<1>2. n * (p - q) = b - (a % n) /\ a % n \in 0 .. n - 1
  BY <1>1, Division, SMT
<1>3. p - q = 0
  BY <1>2, SmallMultiple
<1>. QED
  BY <1>1, <1>3

(* A remainder may be taken before an addition as well.                         *)
LEMMA ModOnce ==
  ASSUME NEW n \in Nat \ {0}, NEW a \in Nat, NEW b \in Nat
  PROVE  ((a % n) + b) % n = (a + b) % n
<1> DEFINE c == (a % n) + b
<1>1. PICK p \in Int : a = n * p + (a % n)
  BY Division
<1>2. c \in Nat
  BY Division
<1>3. PICK q \in Int : c = n * q + (c % n)
  BY <1>2, Division
<1>4. a + b = n * (p + q) + (c % n)
  BY <1>1, <1>3
<1>5. c % n \in 0 .. n - 1
  BY <1>2, Division
<1>6. p + q \in Int /\ a + b \in Nat
  OBVIOUS
<1>7. (a + b) % n = c % n
  BY <1>4, <1>5, <1>6, ModUnique, Zenon
<1>. QED
  BY <1>7

(* Numbers less than n apart differ modulo n.                                   *)
LEMMA ModApart ==
  ASSUME NEW n \in Nat \ {0}, NEW a \in Nat, NEW b \in Nat, a < b, b - a < n
  PROVE  a % n # b % n
<1>1. PICK p \in Int : a = n * p + (a % n)
  BY Division
<1>2. PICK q \in Int : b = n * q + (b % n)
  BY Division
<1>3. SUFFICES ASSUME a % n = b % n
               PROVE  FALSE
  OBVIOUS
<1>4. n * (q - p) = b - a
  BY <1>1, <1>2, <1>3
<1>5. q - p = 0
  BY <1>4, SmallMultiple
<1>. QED
  BY <1>4, <1>5

----------------------------------------------------------------------------
(* Every register is in its range.                                              *)
TypeOK ==
  /\ rx_fifo_wr_en \in BOOLEAN /\ rx_fifo_wr_data \in 0 .. Numbers - 1
  /\ received \in 0 .. Numbers - 1
  /\ waddr \in 0 .. Depth - 1 /\ raddr \in 0 .. Depth - 1
  /\ dir \in BOOLEAN
  /\ empty_pipe \in BOOLEAN \X BOOLEAN /\ full_pipe \in BOOLEAN \X BOOLEAN
  /\ mem \in [0 .. Depth - 1 -> 0 .. Numbers - 1] /\ rdata \in 0 .. Numbers - 1
  /\ m_state_r \in {"m_s_idle", "m_s_begin_burst"}
  /\ fifo_ren \in BOOLEAN /\ m_wb_cyc_o \in BOOLEAN
  /\ m_wb_dat_o \in 0 .. Numbers - 1 /\ wp \in 0 .. Numbers - 1
  /\ bus \in {"eth", "other"}
  /\ state_r \in {"wb_s_idle", "wb_s_write", "wb_s_ack"}
  /\ held \in 0 .. Depth

(* The distance from the read to the write pointer counts the words, and the    *)
(* direction tells the two lengths apart that it leaves open when the pointers  *)
(* are in one quadrant.                                                          *)
PointersAt(w, r, d, h) ==
  /\ w = r + h \/ w = r + h - Depth
  /\ Quadrant(w) = Quadrant(r) => IF d THEN w = r + h - Depth ELSE w = r + h
  /\ Quadrant(w) = (Quadrant(r) + 1) % 4 => ~d
  /\ Quadrant(r) = (Quadrant(w) + 1) % 4 => d
Pointers == PointersAt(waddr, raddr, dir, held)

(* There is room for the word that the receiver is about to write.              *)
RoomAhead == rx_fifo_wr_en => held < Backlog

(* The master requests the bus for the word that it has taken, and until the    *)
(* slave has answered; the read enable of the FIFO is seen in the first cycle   *)
(* of that, in which the slave is still idle.                                    *)
MasterAndSlave ==
  /\ m_wb_cyc_o <=> m_state_r = "m_s_begin_burst"
  /\ state_r # "wb_s_idle" => m_wb_cyc_o /\ bus = "eth"
  /\ fifo_ren => m_wb_cyc_o /\ state_r = "wb_s_idle" /\ held > 0

(* Where the master may take a word, the output of the FIFO shows the oldest.   *)
OutputFresh ==
  (m_state_r = "m_s_idle" \/ state_r = "wb_s_ack") /\ ~rempty => rdata = mem[raddr]

(* The number of the word at the read pointer: the one after the word that the  *)
(* master holds, once the read enable has moved the pointer past that.           *)
oldest == wp + Bit(m_wb_cyc_o /\ ~fifo_ren)

(* The words in the FIFO, the one before it and the ones behind it, follow each *)
(* other.                                                                         *)
Numbered ==
  /\ \A k \in 0 .. held - 1 : mem[(raddr + k) % Depth] = (oldest + k) % Numbers
  /\ rx_fifo_wr_en => rx_fifo_wr_data = (oldest + held) % Numbers
  /\ received = (oldest + held + Bit(rx_fifo_wr_en)) % Numbers
  /\ m_wb_cyc_o => m_wb_dat_o = wp

RingInv ==
  TypeOK /\ Pointers /\ FlagsHonest /\ RoomAhead /\ MasterAndSlave /\ OutputFresh /\ Numbered

----------------------------------------------------------------------------
(* A pointer that is incremented wraps at the depth.                            *)
LEMMA Increment ==
  ASSUME NEW n \in Nat \ {0}, NEW p \in 0 .. n - 1
  PROVE  (p + 1) % n = IF p + 1 < n THEN p + 1 ELSE 0
<1>1. CASE p + 1 < n
  <2>1. p + 1 = n * 0 + (p + 1) /\ p + 1 \in 0 .. n - 1
    BY <1>1
  <2>. QED
    BY <1>1, <2>1, ModUnique
<1>2. CASE p + 1 = n
  <2>1. p + 1 = n * 1 + 0 /\ 0 \in 0 .. n - 1
    BY <1>2
  <2>. QED
    BY <1>2, <2>1, ModUnique
<1>. QED
  BY <1>1, <1>2

(* The quadrants, by their bounds.                                              *)
LEMMA QuadrantBounds ==
  ASSUME NEW p \in 0 .. Depth - 1
  PROVE  /\ Quadrant(p) \in 0 .. 3
         /\ Quadrant(p) = 0 <=> p < Quarter
         /\ Quadrant(p) = 1 <=> Quarter <= p /\ p < 2 * Quarter
         /\ Quadrant(p) = 2 <=> 2 * Quarter <= p /\ p < 3 * Quarter
         /\ Quadrant(p) = 3 <=> 3 * Quarter <= p
<1> DEFINE q == p \div Quarter
<1>1. p = Quarter * q + (p % Quarter) /\ p % Quarter \in 0 .. Quarter - 1 /\ q \in Int
  BY EthRingAssumption, SMT DEF Depth
<1>2. q >= 0
  <2>1. q <= -1 => Quarter * q <= - Quarter
    BY <1>1, EthRingAssumption, SMT
  <2>. QED
    BY <1>1, <2>1, EthRingAssumption
<1>3. q <= 3
  <2>1. q >= 4 => Quarter * q >= 4 * Quarter
    BY <1>1, EthRingAssumption, SMT
  <2>. QED
    BY <1>1, <2>1, EthRingAssumption DEF Depth
<1>4. q \in {0, 1, 2, 3}
  BY <1>1, <1>2, <1>3
<1>. QED
  BY <1>1, <1>4, EthRingAssumption DEF Quadrant, Depth

(* The sizes of the FIFO and of the numbering.                                  *)
LEMMA Sizes ==
  /\ Quarter \in Nat \ {0} /\ Depth = 4 * Quarter /\ Depth \in Nat \ {0}
  /\ Numbers = 2 * Depth /\ Numbers \in Nat \ {0} /\ Backlog \in 0 .. Depth
BY EthRingAssumption DEF Depth, Numbers

(* Pointers meet in one quadrant only, where the direction tells whether the    *)
(* FIFO is empty or full.                                                        *)
LEMMA Meeting ==
  ASSUME NEW w \in 0 .. Depth - 1, NEW r \in 0 .. Depth - 1, NEW h \in 0 .. Depth,
         NEW d \in BOOLEAN, PointersAt(w, r, d, h)
  PROVE  (w = r /\ ~d <=> h = 0) /\ (w = r /\ d <=> h = Depth)
<1>1. w = r => Quadrant(w) = Quadrant(r)
  OBVIOUS
<1>2. CASE w = r
  BY <1>1, <1>2, Sizes DEF PointersAt
<1>3. CASE w # r
  BY <1>3, Sizes DEF PointersAt
<1>. QED
  BY <1>2, <1>3

(* The write pointer is the held words behind the read pointer.                 *)
LEMMA Distance ==
  ASSUME NEW w \in 0 .. Depth - 1, NEW r \in 0 .. Depth - 1, NEW h \in 0 .. Depth,
         NEW d \in BOOLEAN, PointersAt(w, r, d, h)
  PROVE  w = (r + h) % Depth
<1>1. r + h = Depth * 0 + w \/ r + h = Depth * 1 + w
  BY Sizes DEF PointersAt
<1>2. r + h \in Nat
  BY Sizes
<1>. QED
  BY <1>1, <1>2, Sizes, ModUnique

(* The write pointer moves on when the FIFO is not full.                        *)
LEMMA WritePointer ==
  ASSUME NEW w \in 0 .. Depth - 1, NEW r \in 0 .. Depth - 1, NEW h \in 0 .. Depth - 1,
         dir \in BOOLEAN, PointersAt(w, r, dir, h)
  PROVE  LET w2 == (w + 1) % Depth
         IN  w2 \in 0 .. Depth - 1 /\ PointersAt(w2, r, Direction(w2, r), h + 1)
<1> DEFINE w2 == (w + 1) % Depth
<1>1. Depth = 4 * Quarter /\ Depth \in Nat \ {0} /\ Quarter \in Nat \ {0}
  BY EthRingAssumption DEF Depth
<1>2. w2 = (IF w + 1 < Depth THEN w + 1 ELSE 0) /\ w2 \in 0 .. Depth - 1
  <2>1. w2 = IF w + 1 < Depth THEN w + 1 ELSE 0
    BY <1>1, Increment, Zenon
  <2>. QED
    BY <1>1, <2>1
<1>. HIDE DEF w2
<1>3. PointersAt(w2, r, Direction(w2, r), h + 1)
  <2>1. /\ Quadrant(w) \in 0 .. 3 /\ Quadrant(r) \in 0 .. 3 /\ Quadrant(w2) \in 0 .. 3
    BY <1>2, QuadrantBounds
  <2>2. CASE w + 1 < Depth
    BY <1>1, <1>2, <2>1, <2>2, QuadrantBounds DEF PointersAt, Direction
  <2>3. CASE w + 1 = Depth
    BY <1>1, <1>2, <2>1, <2>3, QuadrantBounds DEF PointersAt, Direction
  <2>. QED
    BY <1>1, <2>2, <2>3
<1>. QED
  BY <1>2, <1>3 DEF w2

(* The read pointer moves on when the FIFO is not empty.                        *)
LEMMA ReadPointer ==
  ASSUME NEW w \in 0 .. Depth - 1, NEW r \in 0 .. Depth - 1, NEW h \in 1 .. Depth,
         dir \in BOOLEAN, PointersAt(w, r, dir, h)
  PROVE  LET r2 == (r + 1) % Depth
         IN  r2 \in 0 .. Depth - 1 /\ PointersAt(w, r2, Direction(w, r2), h - 1)
<1> DEFINE r2 == (r + 1) % Depth
<1>1. Depth = 4 * Quarter /\ Depth \in Nat \ {0} /\ Quarter \in Nat \ {0}
  BY EthRingAssumption DEF Depth
<1>2. r2 = (IF r + 1 < Depth THEN r + 1 ELSE 0) /\ r2 \in 0 .. Depth - 1
  <2>1. r2 = IF r + 1 < Depth THEN r + 1 ELSE 0
    BY <1>1, Increment, Zenon
  <2>. QED
    BY <1>1, <2>1
<1>. HIDE DEF r2
<1>3. PointersAt(w, r2, Direction(w, r2), h - 1)
  <2>1. /\ Quadrant(w) \in 0 .. 3 /\ Quadrant(r) \in 0 .. 3 /\ Quadrant(r2) \in 0 .. 3
    BY <1>2, QuadrantBounds
  <2>2. CASE r + 1 < Depth
    BY <1>1, <1>2, <2>1, <2>2, QuadrantBounds DEF PointersAt, Direction
  <2>3. CASE r + 1 = Depth
    BY <1>1, <1>2, <2>1, <2>3, QuadrantBounds DEF PointersAt, Direction
  <2>. QED
    BY <1>1, <2>2, <2>3
<1>. QED
  BY <1>2, <1>3 DEF r2

----------------------------------------------------------------------------
(* The reset values.                                                            *)
LEMMA InitRing == Init => RingInv
<1>. SUFFICES ASSUME Init PROVE RingInv
  OBVIOUS
<1>1. TypeOK
  <2>1. 0 \in 0 .. Depth - 1 /\ 0 \in 0 .. Numbers - 1 /\ 0 \in 0 .. Depth
    BY Sizes
  <2>2. mem \in [0 .. Depth - 1 -> 0 .. Numbers - 1]
    BY <2>1 DEF Init
  <2>. QED
    BY <2>1, <2>2 DEF Init, TypeOK, Sd!SdramInit
<1>2. Quadrant(0) = 0
  BY QuadrantBounds, Sizes
<1>3. Pointers
  BY <1>2, Sizes DEF Init, Pointers, PointersAt
<1>4. FlagsHonest /\ RoomAhead /\ MasterAndSlave /\ OutputFresh
  BY Sizes DEF Init, FlagsHonest, RoomAhead, MasterAndSlave, OutputFresh, rempty, Sd!SdramInit
<1>5. Numbered
  <2>1. oldest = 0 /\ held = 0 /\ Bit(rx_fifo_wr_en) = 0
    BY DEF Init, oldest, Bit
  <2>2. 0 % Numbers = 0
    BY Sizes, ModUnique
  <2>. QED
    BY <2>1, <2>2 DEF Init, Numbered
<1>. QED
  BY <1>1, <1>3, <1>4, <1>5 DEF RingInv

(* An edge of the receive clock.                                                *)
LEMMA WriteStep ==
  ASSUME RingInv, WriteClock
  PROVE  RingInv'
<1>. USE DEF RingInv
<1>1. PICK arrives \in BOOLEAN :
        /\ arrives => held + Bit(rx_fifo_wr_en) < Backlog
        /\ Receive(arrives)
  BY DEF WriteClock
<1>2. /\ UNCHANGED <<raddr, rdata, m_state_r, fifo_ren, m_wb_cyc_o, m_wb_dat_o, wp, bus, state_r>>
      /\ raddr' = raddr /\ oldest' = oldest
  BY DEF WriteClock, busVars, oldest
<1>3. /\ waddr' \in 0 .. Depth - 1 /\ held' \in 0 .. Depth
      /\ held <= held' /\ Pointers'
  <2>1. CASE rx_fifo_wr_en
    <3>1. held \in 0 .. Depth - 1
      BY <2>1, Sizes DEF RoomAhead, TypeOK
    <3>2. waddr' = (waddr + 1) % Depth /\ held' = held + 1 /\ dir' = Direction(waddr', raddr)
      BY <2>1 DEF WriteClock, Bit
    <3>3. /\ (waddr + 1) % Depth \in 0 .. Depth - 1
          /\ PointersAt((waddr + 1) % Depth, raddr,
                        Direction((waddr + 1) % Depth, raddr), held + 1)
      BY <3>1, WritePointer DEF TypeOK, Pointers
    <3>. QED
      BY <1>2, <3>1, <3>2, <3>3, Sizes DEF Pointers
  <2>2. CASE ~rx_fifo_wr_en
    <3>1. waddr' = waddr % Depth /\ held' = held /\ dir' = Direction(waddr', raddr)
      BY <2>2 DEF WriteClock, Bit, TypeOK
    <3>2. waddr' = waddr
      <4>1. waddr = Depth * 0 + waddr /\ waddr \in 0 .. Depth - 1
        BY Sizes DEF TypeOK
      <4>. QED
        BY <3>1, <4>1, Sizes, ModUnique
    <3>3. Direction(waddr, raddr) = dir
      BY QuadrantBounds DEF Direction, TypeOK, Pointers, PointersAt
    <3>4. dir' = dir
      BY <3>1, <3>2, <3>3
    <3>. QED
      BY <1>2, <3>1, <3>2, <3>4, Sizes DEF TypeOK, Pointers
  <2>. QED
    BY <2>1, <2>2 DEF TypeOK
<1>4. dir' \in BOOLEAN /\ dir' = Direction(waddr', raddr')
  BY <1>2 DEF WriteClock, Direction, TypeOK
<1>5. /\ waddr' = raddr' /\ ~dir' <=> held' = 0
      /\ waddr' = raddr' /\ dir' <=> held' = Depth
  BY <1>2, <1>3, <1>4, Meeting DEF Pointers, TypeOK
<1>6. /\ empty_pipe' \in BOOLEAN \X BOOLEAN /\ full_pipe' \in BOOLEAN \X BOOLEAN
      /\ ~rempty' => ~rempty
      /\ ~wfull' => held' < Depth
  <2>1. ~rempty' => ~rempty
    BY DEF WriteClock, Raised, rempty
  <2>2. ~wfull' => ~full'
    BY DEF WriteClock, Flag, wfull
  <2>3. ~wfull' => held' # Depth
    BY <2>2, <1>5 DEF full
  <2>4. empty_pipe' \in BOOLEAN \X BOOLEAN /\ full_pipe' \in BOOLEAN \X BOOLEAN
    BY DEF WriteClock, Raised, Flag, TypeOK
  <2>. QED
    BY <2>1, <2>3, <2>4, <1>3, Sizes DEF rempty
<1>7. FlagsHonest'
  BY <1>3, <1>6, Sizes DEF FlagsHonest, TypeOK
<1>8. RoomAhead'
  BY <1>1 DEF WriteClock, Receive, RoomAhead
<1>9. MasterAndSlave'
  BY <1>2, <1>3, Sizes DEF MasterAndSlave, TypeOK
<1>10. /\ rx_fifo_wr_en' \in BOOLEAN
       /\ rx_fifo_wr_data' \in 0 .. Numbers - 1 /\ received' \in 0 .. Numbers - 1
       /\ mem' \in [0 .. Depth - 1 -> 0 .. Numbers - 1]
  <2>1. received + Bit(arrives) \in Nat
    BY Sizes DEF TypeOK, Bit
  <2>. QED
    BY <1>1, <2>1, Sizes, Division DEF WriteClock, Receive, TypeOK
<1>11. TypeOK'
  BY <1>2, <1>3, <1>4, <1>6, <1>10 DEF TypeOK
<1>12. waddr = (raddr + held) % Depth
  BY Distance DEF TypeOK, Pointers
<1>13. OutputFresh'
  <2>1. ~rempty => mem'[raddr] = mem[raddr]
    <3>1. CASE rx_fifo_wr_en
      <4>1. held < Depth /\ (~rempty => held > 0)
        BY <3>1, Sizes DEF RoomAhead, TypeOK, FlagsHonest
      <4>2. held > 0 => waddr # raddr
        BY <4>1, Meeting DEF TypeOK, Pointers
      <4>. QED
        BY <3>1, <4>1, <4>2 DEF WriteClock, TypeOK
    <3>2. CASE ~rx_fifo_wr_en
      BY <3>2 DEF WriteClock
    <3>. QED
      BY <3>1, <3>2
  <2>. QED
    BY <1>2, <1>6, <2>1 DEF OutputFresh
<1>14. oldest \in Nat /\ held \in Nat /\ raddr \in Nat
  BY Sizes DEF oldest, Bit, TypeOK
<1>15. held' = held + Bit(rx_fifo_wr_en) /\ Bit(rx_fifo_wr_en) \in Nat
  BY DEF WriteClock, Bit
<1>16. \A k \in 0 .. held' - 1 : mem'[(raddr + k) % Depth] = (oldest + k) % Numbers
  <2>1. CASE rx_fifo_wr_en
    <3>1. mem' = [mem EXCEPT ![waddr] = rx_fifo_wr_data] /\ held' = held + 1
      BY <2>1 DEF WriteClock, Bit
    <3>2. ASSUME NEW k \in 0 .. held - 1
          PROVE  mem'[(raddr + k) % Depth] = (oldest + k) % Numbers
      <4>1. held - k < Depth
        BY <2>1, <1>14, Sizes DEF RoomAhead
      <4>2. (raddr + k) % Depth # waddr
        <5>1. raddr + k \in Nat /\ raddr + held \in Nat
              /\ raddr + k < raddr + held /\ (raddr + held) - (raddr + k) < Depth
          BY <4>1, <1>14
        <5>. QED
          BY <5>1, <1>12, Sizes, ModApart
      <4>3. (raddr + k) % Depth \in 0 .. Depth - 1
        BY <1>14, Sizes, Division
      <4>. QED
        BY <3>1, <4>2, <4>3 DEF Numbered, TypeOK
    <3>3. mem'[(raddr + held) % Depth] = (oldest + held) % Numbers
      BY <2>1, <3>1, <1>12 DEF Numbered, TypeOK
    <3>. QED
      BY <3>1, <3>2, <3>3, <1>14
  <2>2. CASE ~rx_fifo_wr_en
    BY <2>2, <1>15 DEF Numbered, WriteClock, Bit, TypeOK
  <2>. QED
    BY <2>1, <2>2 DEF TypeOK
<1>17. received = (oldest + held') % Numbers
  BY <1>14, <1>15 DEF Numbered
<1>18. rx_fifo_wr_en' => rx_fifo_wr_data' = (oldest + held') % Numbers
  BY <1>1, <1>17 DEF Receive
<1>19. received' = (oldest + held' + Bit(rx_fifo_wr_en')) % Numbers
  <2>1. received' = (received + Bit(arrives)) % Numbers /\ rx_fifo_wr_en' = arrives
    BY <1>1 DEF Receive
  <2>2. oldest + held' \in Nat /\ Bit(arrives) \in Nat
    BY <1>14, <1>15 DEF Bit
  <2>. QED
    BY <2>1, <2>2, <1>17, Sizes, ModOnce
<1>20. Numbered'
  BY <1>2, <1>16, <1>18, <1>19 DEF Numbered, Bit
<1>. QED
  BY <1>3, <1>7, <1>8, <1>9, <1>11, <1>13, <1>20

(* The slave, as the Ethernet master uses it: it acknowledges only a write, and *)
(* is idle in the cycle after that.                                              *)
LEMMA SlaveStep ==
  ASSUME TypeOK, NEW cyc \in BOOLEAN, NEW go \in BOOLEAN, NEW adr, adr.slave = "sdram",
         Sd!SdramCycle(cyc, TRUE, adr, TRUE, go)
  PROVE  /\ state_r = "wb_s_idle" => state_r' = IF cyc THEN "wb_s_write" ELSE "wb_s_idle"
         /\ state_r = "wb_s_write" => state_r' \in {"wb_s_idle", "wb_s_write", "wb_s_ack"}
         /\ state_r = "wb_s_ack" => state_r' = "wb_s_idle"
BY DEF TypeOK, Sd!SdramCycle, Sd!SdramIdle, Sd!SdramAccess, Sd!SdramAck

(* What the master does in a cycle: it waits, or takes a word that the FIFO     *)
(* shows, or gives up the bus after an acknowledge.                              *)
LEMMA MasterStep ==
  ASSUME RingInv, MasterIdle \/ MasterBurst
  PROVE  \/ /\ Rest /\ wp' = wp /\ state_r # "wb_s_ack"
         \/ /\ TakeWord /\ ~rempty /\ ~fifo_ren /\ rdata = mem[raddr] /\ held > 0
            /\ wp' = IF m_wb_cyc_o THEN (wp + 1) % Numbers ELSE wp
            /\ m_wb_cyc_o => state_r = "wb_s_ack"
            /\ ~m_wb_cyc_o => state_r = "wb_s_idle"
         \/ /\ ~fifo_ren /\ fifo_ren' = FALSE /\ state_r = "wb_s_ack" /\ m_wb_cyc_o
            /\ m_wb_cyc_o' = FALSE /\ m_state_r' = "m_s_idle"
            /\ wp' = (wp + 1) % Numbers /\ m_wb_dat_o' = m_wb_dat_o
<1>. USE DEF RingInv
<1>1. m_wb_ack_i <=> state_r = "wb_s_ack"
  BY DEF m_wb_ack_i, Sd!wb_ack_o, MasterAndSlave
<1>2. CASE MasterIdle
  <2>1. ~m_wb_cyc_o /\ ~fifo_ren /\ state_r = "wb_s_idle"
    BY <1>2 DEF MasterIdle, MasterAndSlave, TypeOK
  <2>. QED
    BY <1>2, <2>1 DEF MasterIdle, OutputFresh, FlagsHonest
<1>3. CASE MasterBurst
  <2>1. m_wb_cyc_o /\ (m_wb_ack_i => ~fifo_ren)
    BY <1>1, <1>3 DEF MasterBurst, MasterAndSlave, TypeOK
  <2>. QED
    BY <1>1, <1>3, <2>1 DEF MasterBurst, OutputFresh, FlagsHonest
<1>. QED
  BY <1>2, <1>3

(* An edge of the bus clock.                                                    *)
LEMMA ReadStep ==
  ASSUME RingInv, NEW leave \in BOOLEAN, NEW go \in BOOLEAN, ReadClock(leave, go)
  PROVE  RingInv'
<1>. USE DEF RingInv
<1>1. /\ UNCHANGED <<rx_fifo_wr_en, rx_fifo_wr_data, received, waddr, mem>>
      /\ MasterIdle \/ MasterBurst
      /\ rdata' = mem[raddr]
  BY DEF ReadClock, rxVars
<1>2. held \in Nat /\ wp \in Nat /\ raddr \in Nat /\ oldest \in Nat /\ oldest' = wp' + Bit(m_wb_cyc_o' /\ ~fifo_ren')
  BY Sizes DEF TypeOK, oldest, Bit
<1>3. /\ raddr' \in 0 .. Depth - 1 /\ held' \in 0 .. Depth
      /\ held' = held - Bit(fifo_ren) /\ held' <= held /\ Pointers'
      /\ raddr' = (raddr + Bit(fifo_ren)) % Depth
      /\ ~fifo_ren => raddr' = raddr /\ held' = held
      /\ fifo_ren => raddr' = (raddr + 1) % Depth /\ held' = held - 1
  <2>1. CASE fifo_ren
    <3>1. held \in 1 .. Depth
      BY <2>1, Sizes DEF MasterAndSlave, TypeOK
    <3>2. raddr' = (raddr + 1) % Depth /\ held' = held - 1 /\ dir' = Direction(waddr, raddr')
          /\ held' = held - Bit(fifo_ren) /\ raddr' = (raddr + Bit(fifo_ren)) % Depth
      BY <2>1 DEF ReadClock, Bit
    <3>3. /\ (raddr + 1) % Depth \in 0 .. Depth - 1
          /\ PointersAt(waddr, (raddr + 1) % Depth,
                        Direction(waddr, (raddr + 1) % Depth), held - 1)
      BY <3>1, ReadPointer DEF TypeOK, Pointers
    <3>4. Pointers'
      BY <1>1, <3>2, <3>3 DEF Pointers
    <3>5. held' \in 0 .. Depth /\ held' <= held
      BY <3>1, <3>2, Sizes
    <3>. QED
      BY <2>1, <3>2, <3>3, <3>4, <3>5, Zenon
  <2>2. CASE ~fifo_ren
    <3>1. raddr' = raddr % Depth /\ held' = held /\ dir' = Direction(waddr, raddr')
          /\ held' = held - Bit(fifo_ren) /\ raddr' = (raddr + Bit(fifo_ren)) % Depth
      BY <2>2 DEF ReadClock, Bit, TypeOK
    <3>2. raddr' = raddr
      <4>1. raddr = Depth * 0 + raddr /\ raddr \in 0 .. Depth - 1
        BY Sizes DEF TypeOK
      <4>. QED
        BY <3>1, <4>1, Sizes, ModUnique
    <3>3. Direction(waddr, raddr) = dir
      BY QuadrantBounds DEF Direction, TypeOK, Pointers, PointersAt
    <3>4. dir' = dir
      BY <3>1, <3>2, <3>3
    <3>5. Pointers'
      BY <1>1, <3>1, <3>2, <3>4 DEF Pointers
    <3>6. held' \in 0 .. Depth /\ held' <= held /\ raddr' \in 0 .. Depth - 1
      BY <3>1, <3>2, Sizes DEF TypeOK
    <3>. QED
      BY <2>2, <3>1, <3>2, <3>5, <3>6, Zenon
  <2>. QED
    BY <2>1, <2>2 DEF TypeOK
<1>4. dir' \in BOOLEAN /\ waddr' = waddr
  BY <1>1 DEF ReadClock, Direction, TypeOK
<1>5. /\ waddr' = raddr' /\ ~dir' <=> held' = 0
      /\ waddr' = raddr' /\ dir' <=> held' = Depth
  BY <1>3, <1>4, Meeting DEF Pointers, TypeOK
<1>6. /\ empty_pipe' \in BOOLEAN \X BOOLEAN /\ full_pipe' \in BOOLEAN \X BOOLEAN
      /\ ~rempty' => held' > 0
      /\ ~wfull' => held' < Depth
  <2>1. ~rempty' => ~empty'
    BY DEF ReadClock, Flag, rempty
  <2>2. ~rempty' => held' # 0
    BY <2>1, <1>5 DEF empty
  <2>3. ~wfull' => ~wfull
    BY DEF ReadClock, Raised, wfull
  <2>4. empty_pipe' \in BOOLEAN \X BOOLEAN /\ full_pipe' \in BOOLEAN \X BOOLEAN
    BY DEF ReadClock, Raised, Flag, TypeOK
  <2>. QED
    BY <2>2, <2>3, <2>4, <1>2, <1>3, Sizes DEF FlagsHonest
<1>7. FlagsHonest'
  BY <1>6 DEF FlagsHonest
<1>8. RoomAhead'
  BY <1>1, <1>2, <1>3, Sizes DEF RoomAhead
<1>9. /\ state_r' \in {"wb_s_idle", "wb_s_write", "wb_s_ack"}
      /\ state_r = "wb_s_idle" =>
            state_r' = IF bus = "eth" /\ m_wb_cyc_o THEN "wb_s_write" ELSE "wb_s_idle"
      /\ state_r = "wb_s_ack" => state_r' = "wb_s_idle"
  <2>1. (bus = "eth" /\ m_wb_cyc_o) \in BOOLEAN
    BY SMT
  <2>2. [slave |-> "sdram", word |-> wp].slave = "sdram"
    OBVIOUS
  <2>. QED
    BY <2>1, <2>2, SlaveStep DEF ReadClock, TypeOK
<1>10. bus' \in {"eth", "other"} /\ (bus = "eth" /\ m_wb_cyc_o => bus' = "eth")
  BY DEF ReadClock, Arbiter
<1>11. /\ m_state_r' \in {"m_s_idle", "m_s_begin_burst"}
       /\ fifo_ren' \in BOOLEAN /\ m_wb_cyc_o' \in BOOLEAN
       /\ m_wb_dat_o' \in 0 .. Numbers - 1 /\ wp' \in 0 .. Numbers - 1
       /\ rdata' \in 0 .. Numbers - 1
  <2>1. (wp + 1) % Numbers \in 0 .. Numbers - 1
    BY <1>2, Sizes, Division
  <2>. QED
    BY <1>1, <2>1, MasterStep DEF Rest, TakeWord, TypeOK
<1>12. TypeOK'
  BY <1>1, <1>3, <1>4, <1>6, <1>9, <1>10, <1>11 DEF TypeOK
<1>13. MasterAndSlave'
  <2>1. m_wb_cyc_o' <=> m_state_r' = "m_s_begin_burst"
    BY <1>1, <1>11, MasterStep DEF Rest, TakeWord, MasterAndSlave, TypeOK
  <2>2. state_r' # "wb_s_idle" => m_wb_cyc_o' /\ bus' = "eth"
    BY <1>1, <1>9, <1>10, MasterStep DEF Rest, TakeWord, MasterAndSlave, TypeOK
  <2>3. fifo_ren' => m_wb_cyc_o' /\ state_r' = "wb_s_idle" /\ held' > 0
    BY <1>1, <1>3, <1>9, MasterStep DEF Rest, TakeWord
  <2>. QED
    BY <2>1, <2>2, <2>3 DEF MasterAndSlave
<1>14. OutputFresh'
  <2>1. m_state_r' = "m_s_idle" \/ state_r' = "wb_s_ack" => ~fifo_ren
    BY <1>1, <1>9, MasterStep DEF Rest, TakeWord, MasterAndSlave
  <2>. QED
    BY <1>1, <1>3, <2>1 DEF OutputFresh
<1>15. wp' \in Nat /\ Bit(m_wb_cyc_o' /\ ~fifo_ren') \in Nat
  <2>1. wp' \in Nat
    BY ONLY <1>11, Sizes
  <2>. QED
    BY <2>1 DEF Bit
<1>16. Numbered'
  <2>1. CASE fifo_ren
    <3>1. /\ m_wb_cyc_o /\ ~fifo_ren' /\ m_wb_cyc_o' /\ wp' = wp
          /\ m_wb_dat_o' = m_wb_dat_o /\ oldest = wp /\ oldest' = wp + 1
      <4>1. m_wb_cyc_o /\ state_r = "wb_s_idle"
        BY <2>1 DEF MasterAndSlave
      <4>2. Rest /\ wp' = wp
        BY <1>1, <2>1, <4>1, MasterStep
      <4>3. ~fifo_ren' /\ m_wb_cyc_o' /\ m_wb_dat_o' = m_wb_dat_o
        BY <4>1, <4>2 DEF Rest
      <4>. QED
        BY <1>2, <2>1, <4>1, <4>2, <4>3 DEF oldest, Bit
    <3>2. ASSUME NEW k \in 0 .. held' - 1
          PROVE  mem'[(raddr' + k) % Depth] = (oldest' + k) % Numbers
      <4>1. k + 1 \in 0 .. held - 1 /\ k \in Nat
        <5>1. held' = held - 1
          BY <1>3, <2>1
        <5>. QED
          BY <1>2, <5>1
      <4>2. mem[(raddr + (k + 1)) % Depth] = (wp + (k + 1)) % Numbers
        BY <3>1, <4>1 DEF Numbered
      <4>3. (raddr' + k) % Depth = ((raddr + 1) + k) % Depth
        <5>1. raddr' = (raddr + 1) % Depth
          BY <1>3, <2>1
        <5>2. raddr + 1 \in Nat
          BY <1>2
        <5>3. (((raddr + 1) % Depth) + k) % Depth = ((raddr + 1) + k) % Depth
          <6>1. Depth \in Nat \ {0}
            BY Sizes
          <6>. QED
            BY <4>1, <5>2, <6>1, ModOnce, Zenon
        <5>. QED
          BY <5>1, <5>3
      <4>4. (raddr + 1) + k = raddr + (k + 1) /\ (wp + 1) + k = wp + (k + 1)
        BY <1>2, <4>1
      <4>. QED
        BY <1>1, <3>1, <4>2, <4>3, <4>4
    <3>3. oldest' + held' = oldest + held
      <4>1. held' = held - 1
        BY <1>3, <2>1
      <4>. QED
        BY <1>2, <3>1, <4>1
    <3>. QED
      BY <1>1, <3>1, <3>2, <3>3 DEF Numbered
  <2>2. CASE ~fifo_ren
    <3>1. \A n \in Nat : (oldest' + n) % Numbers = (oldest + n) % Numbers
      <4>1. oldest' = oldest \/ oldest' = oldest % Numbers
        <5>1. CASE Rest /\ wp' = wp
          BY <2>2, <5>1 DEF Rest, oldest
        <5>2. CASE ~m_wb_cyc_o /\ TakeWord /\ wp' = wp
          BY <2>2, <5>2 DEF TakeWord, oldest, Bit
        <5>3. CASE m_wb_cyc_o /\ (TakeWord \/ m_wb_cyc_o' = FALSE) /\ wp' = (wp + 1) % Numbers
          <6>1. ~(m_wb_cyc_o' /\ ~fifo_ren')
            BY <5>3 DEF TakeWord
          <6>2. wp' + 0 = wp'
            <7>1. \A n \in Nat : n + 0 = n
              OBVIOUS
            <7>. QED
              BY <1>15, <7>1, Zenon
          <6>. QED
            BY <2>2, <5>3, <6>1, <6>2 DEF oldest, Bit
        <5>. QED
          BY <1>1, <5>1, <5>2, <5>3, MasterStep DEF TypeOK
      <4>2. \A n \in Nat : ((oldest % Numbers) + n) % Numbers = (oldest + n) % Numbers
        BY <1>2, Sizes, ModOnce, Zenon
      <4>. QED
        BY <4>1, <4>2
    <3>2. \A k \in 0 .. held' - 1 : mem'[(raddr' + k) % Depth] = (oldest' + k) % Numbers
      BY <1>1, <1>2, <1>3, <2>2, <3>1 DEF Numbered
    <3>3. rx_fifo_wr_en' => rx_fifo_wr_data' = (oldest' + held') % Numbers
      BY <1>1, <1>2, <1>3, <2>2, <3>1 DEF Numbered
    <3>4. received' = (oldest' + held' + Bit(rx_fifo_wr_en')) % Numbers
      <4>1. held + Bit(rx_fifo_wr_en) \in Nat
        BY <1>2 DEF Bit
      <4>2. received = (oldest + (held + Bit(rx_fifo_wr_en))) % Numbers
        BY <1>2, <4>1 DEF Numbered, Bit
      <4>3. received' = (oldest' + (held + Bit(rx_fifo_wr_en))) % Numbers
        BY <1>1, <3>1, <4>1, <4>2
      <4>4. oldest' \in Nat
        BY <1>2, <1>15
      <4>5. oldest' + (held + Bit(rx_fifo_wr_en)) = oldest' + held + Bit(rx_fifo_wr_en)
        BY <1>2, <4>4 DEF Bit
      <4>6. held' = held /\ Bit(rx_fifo_wr_en)' = Bit(rx_fifo_wr_en)
        BY <1>1, <1>3, <2>2 DEF Bit
      <4>. QED
        BY <4>3, <4>5, <4>6
    <3>5. m_wb_cyc_o' => m_wb_dat_o' = wp'
      <4>1. CASE TakeWord /\ ~rempty
        <5>1. /\ m_wb_dat_o' = rdata /\ rdata = mem[raddr] /\ held > 0
              /\ wp' = IF m_wb_cyc_o THEN (wp + 1) % Numbers ELSE wp
          BY <1>1, <4>1, MasterStep DEF TakeWord, Rest
        <5>2. mem[raddr] = oldest % Numbers
          <6>1. raddr = Depth * 0 + raddr /\ raddr \in 0 .. Depth - 1
            BY Sizes DEF TypeOK
          <6>2. raddr = (raddr + 0) % Depth /\ oldest + 0 = oldest
            BY <1>2, <6>1, Sizes, ModUnique
          <6>3. 0 \in 0 .. held - 1
            BY <1>2, <5>1
          <6>. QED
            BY <6>2, <6>3 DEF Numbered
        <5>3. wp' = oldest % Numbers
          <6>1. CASE m_wb_cyc_o
            BY <2>2, <5>1, <6>1 DEF oldest, Bit
          <6>2. CASE ~m_wb_cyc_o
            <7>1. wp' = wp /\ oldest = wp
              BY <1>2, <5>1, <6>2 DEF oldest, Bit
            <7>2. wp = Numbers * 0 + wp /\ wp \in 0 .. Numbers - 1
              BY Sizes DEF TypeOK
            <7>. QED
              BY <1>2, <7>1, <7>2, Sizes, ModUnique
          <6>. QED
            BY <6>1, <6>2
        <5>. QED
          BY <5>1, <5>2, <5>3
      <4>2. CASE ~(TakeWord /\ ~rempty)
        BY <1>1, <4>2, MasterStep DEF Rest, Numbered
      <4>. QED
        BY <4>1, <4>2
    <3>. QED
      BY <1>1, <3>2, <3>3, <3>4, <3>5 DEF Numbered
  <2>. QED
    BY <2>1, <2>2 DEF TypeOK
<1>. QED
  BY <1>3, <1>7, <1>8, <1>12, <1>13, <1>14, <1>16

(* The inductive invariant, and what the runs check of it.                      *)
LEMMA RingInvHolds == Spec => []RingInv
<1>1. RingInv /\ [Next]_vars => RingInv'
  <2>1. RingInv /\ Next => RingInv'
    BY WriteStep, ReadStep DEF Next
  <2>2. RingInv /\ UNCHANGED vars => RingInv'
    BY DEF vars, rxVars, busVars, RingInv, TypeOK, Pointers, FlagsHonest, RoomAhead,
           MasterAndSlave, OutputFresh, Numbered, oldest, rempty, wfull
  <2>. QED
    BY <2>1, <2>2
<1>. QED
  BY <1>1, InitRing, PTL DEF Spec

(* The flags never promise too much: a FIFO that does not read as empty, on the *)
(* clock of the reader, holds a word, and one that does not read as full has     *)
(* room, for a FIFO of any size.  It rests on the reader never moving past the   *)
(* last word, which is what the handshake of the bus master sees to.             *)
THEOREM EthFlags == Spec => []FlagsHonest
BY RingInvHolds, PTL DEF RingInv

(* Each word is written into the ring buffer once, at the place of its number:  *)
(* the word on the bus when the SDRAM acknowledges is the one that was received  *)
(* as the wp-th, through the delays of the flag, of the read enable and of the   *)
(* output of the FIFO.                                                            *)
THEOREM EthWords == Spec => []RingWordOwn
<1>1. RingInv => RingWordOwn
  BY DEF RingInv, RingWordOwn, Numbered, MasterAndSlave, m_wb_ack_i, Sd!wb_ack_o
<1>. QED
  BY <1>1, RingInvHolds, PTL

=============================================================================
