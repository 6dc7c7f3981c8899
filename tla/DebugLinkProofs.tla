--------------------------- MODULE DebugLinkProofs ---------------------------
(***************************************************************************)
(* Proofs about the download path, for every command line, every file and  *)
(* every interleaving of the host, the serial line, the port and the bus.  *)
(*                                                                         *)
(* The invariant says what the bytes on the line mean: there are accesses  *)
(* q, sent and not yet done, and places p of them in the bytes, such that  *)
(* the registers of the port hold what has arrived of the first (Port);    *)
(* and of the memory m it says what it will hold at an address when all of *)
(* q is done (Due).  The words of a load are due from the moment they are  *)
(* sent, and the release of the cores comes after all of them (Memory).    *)
(***************************************************************************)
EXTENDS DebugLink, SequenceTheorems, TLAPS

Byte == 0 .. 255
BusAddr == {a \in Nat : a \div 65536 < 65536}

(* An access the host has asked for, and the command that asks for it.     *)
Access == [kind : {"write", "read"}, addr : BusAddr, data : Word]
CommandBytes(x) ==
  IF x.kind = "write" THEN wb_debug_w32(x.addr, x.data) ELSE Ask(x.addr)
Size(x) == IF x.kind = "write" THEN 9 ELSE 5

LEMMA AddressRoundTrip ==
  ASSUME NEW a \in BusAddr
  PROVE  AddrBytes(a) \in Word /\ WordAddr(AddrBytes(a)) = a
<1>1. a \in Nat /\ a \div 65536 < 65536
  BY DEF BusAddr
<1>2. a \div 16777216 < 256
  BY <1>1
<1>3. AddrBytes(a) \in [1 .. 4 -> 0 .. 255]
  BY <1>1 DEF AddrBytes
<1>4. WordAddr(AddrBytes(a)) = a
  BY <1>1, <1>2 DEF AddrBytes, WordAddr
<1>5. QED
  BY <1>3, <1>4 DEF Word

LEMMA Joined ==
  ASSUME NEW s \in Seq(Byte), NEW t \in Seq(Byte)
  PROVE  /\ s \o t \in Seq(Byte) /\ Len(s \o t) = Len(s) + Len(t)
         /\ \A i \in 1 .. Len(s) : (s \o t)[i] = s[i]
         /\ \A i \in 1 .. Len(t) : (s \o t)[i + Len(s)] = t[i]
<1>1. /\ s \o t \in Seq(Byte) /\ Len(s \o t) = Len(s) + Len(t)
      /\ Len(s) \in Nat /\ Len(t) \in Nat
      /\ \A i \in 1 .. Len(s) + Len(t) :
           (s \o t)[i] = IF i <= Len(s) THEN s[i] ELSE t[i - Len(s)]
  BY ConcatProperties, LenProperties
<1>2. ASSUME NEW i \in 1 .. Len(s)
      PROVE  (s \o t)[i] = s[i]
  BY <1>1
<1>3. ASSUME NEW i \in 1 .. Len(t)
      PROVE  (s \o t)[i + Len(s)] = t[i]
  <2>1. /\ i + Len(s) \in 1 .. Len(s) + Len(t) /\ ~(i + Len(s) <= Len(s))
        /\ (i + Len(s)) - Len(s) = i
    BY <1>1
  <2>2. QED
    BY <1>1, <2>1
<1>4. QED
  BY <1>1, <1>2, <1>3

(* The nine bytes of a write: command and address, then the data.          *)
LEMMA WriteJoined ==
  ASSUME NEW h \in Seq(Byte), NEW d \in Seq(Byte), Len(h) = 5, Len(d) = 4
  PROVE  /\ h \o d \in Seq(Byte) /\ Len(h \o d) = 9
         /\ \A i \in 1 .. 5 : (h \o d)[i] = h[i]
         /\ \A i \in 1 .. 4 : (h \o d)[i + 5] = d[i]
<1>1. PICK s : s = h \o d
  OBVIOUS
<1>2. /\ s \in Seq(Byte) /\ Len(s) = Len(h) + Len(d)
      /\ \A i \in 1 .. Len(h) : s[i] = h[i]
      /\ \A i \in 1 .. Len(d) : s[i + Len(h)] = d[i]
  BY <1>1, Joined, Zenon
<1>3. Len(s) = 9
  BY <1>2
<1>4. \A i \in 1 .. 5 : s[i] = h[i]
  BY <1>2
<1>5. \A i \in 1 .. 4 : s[i + 5] = d[i]
  BY <1>2
<1>6. QED
  BY <1>1, <1>2, <1>3, <1>4, <1>5, Zenon

(* Four bytes make a word, as do the halves of two; words with the same    *)
(* bytes are equal.                                                         *)
LEMMA FourBytes ==
  ASSUME NEW a \in 0 .. 255, NEW b \in 0 .. 255, NEW c \in 0 .. 255, NEW d \in 0 .. 255
  PROVE  <<a, b, c, d>> \in Word
<1> DEFINE w == <<a, b, c, d>>
<1>1. w = [j \in 1 .. 4 |-> w[j]]
  OBVIOUS
<1>2. ASSUME NEW j \in 1 .. 4
      PROVE  w[j] \in 0 .. 255
  <2>1. j = 1 \/ j = 2 \/ j = 3 \/ j = 4
    OBVIOUS
  <2>2. w[1] = a /\ w[2] = b /\ w[3] = c /\ w[4] = d
    OBVIOUS
  <2> HIDE DEF w
  <2>3. QED
    BY <2>1, <2>2
<1> HIDE DEF w
<1>3. w \in [1 .. 4 -> 0 .. 255]
  BY <1>1, <1>2, Zenon
<1>4. QED
  BY <1>3 DEF Word, w

LEMMA ByteOfWord ==
  ASSUME NEW w \in Word
  PROVE  w[1] \in 0 .. 255 /\ w[2] \in 0 .. 255 /\ w[3] \in 0 .. 255 /\ w[4] \in 0 .. 255
<1>1. \A j \in 1 .. 4 : w[j] \in 0 .. 255
  BY Zenon DEF Word
<1>2. QED
  BY <1>1

LEMMA HalvesMakeWord ==
  ASSUME NEW v \in Word, NEW w \in Word
  PROVE  <<v[1], v[2], w[1], w[2]>> \in Word
<1>1. /\ v[1] \in 0 .. 255 /\ v[2] \in 0 .. 255
      /\ w[1] \in 0 .. 255 /\ w[2] \in 0 .. 255
  BY ByteOfWord
<1>2. QED
  BY <1>1, FourBytes

LEMMA SameWord ==
  ASSUME NEW v \in Word, NEW w \in Word, \A j \in 1 .. 4 : v[j] = w[j]
  PROVE  v = w
<1>1. v = [j \in 1 .. 4 |-> v[j]] /\ w = [j \in 1 .. 4 |-> w[j]]
  BY Zenon DEF Word
<1>2. [j \in 1 .. 4 |-> v[j]] = [j \in 1 .. 4 |-> w[j]]
  BY Zenon
<1>3. QED
  BY <1>1, <1>2, Zenon

LEMMA CommandShape ==
  ASSUME NEW x \in Access
  PROVE  /\ CommandBytes(x) \in Seq(Byte)
         /\ Len(CommandBytes(x)) = Size(x)
         /\ CommandBytes(x)[1] = IF x.kind = "write" THEN CMD_WRITE ELSE CMD_READ
         /\ \A j \in 1 .. 4 : CommandBytes(x)[j + 1] = AddrBytes(x.addr)[j]
         /\ x.kind = "write" => \A j \in 1 .. 4 : CommandBytes(x)[j + 5] = x.data[j]
<1>1. x.addr \in BusAddr /\ x.data \in Word /\ x.kind \in {"write", "read"}
  BY DEF Access
<1>2. AddrBytes(x.addr) \in Word
  BY <1>1, AddressRoundTrip
<1>3. ASSUME NEW w \in Word
      PROVE  w \in Seq(Byte) /\ Len(w) = 4
  <2>1. w \in [1 .. 4 -> Byte]
    BY DEF Word, Byte
  <2>2. w \in Seq(Byte)
    <3>1. Seq(Byte) = UNION {[1 .. n -> Byte] : n \in Nat}
      BY SeqDef
    <3>2. [1 .. 4 -> Byte] \in {[1 .. n -> Byte] : n \in Nat}
      OBVIOUS
    <3>3. QED
      BY <2>1, <3>1, <3>2
  <2>3. DOMAIN w = 1 .. 4 /\ DOMAIN w = 1 .. Len(w) /\ Len(w) \in Nat
    BY <2>1, <2>2, LenProperties
  <2>4. 4 \in 1 .. Len(w) /\ Len(w) + 1 \notin 1 .. 4
    BY <2>3
  <2>5. QED
    BY <2>2, <2>3, <2>4
<1>4. /\ AddrBytes(x.addr) \in Seq(Byte) /\ Len(AddrBytes(x.addr)) = 4
      /\ x.data \in Seq(Byte) /\ Len(x.data) = 4
  BY <1>1, <1>2, <1>3
<1>5. ASSUME NEW c \in Byte
      PROVE  <<c>> \in Seq(Byte) /\ Len(<<c>>) = 1 /\ <<c>>[1] = c
  BY <1>5
<1>6. ASSUME NEW c \in Byte, NEW s \in Seq(Byte), Len(s) = 4
      PROVE  /\ <<c>> \o s \in Seq(Byte) /\ Len(<<c>> \o s) = 5
             /\ (<<c>> \o s)[1] = c
             /\ \A j \in 1 .. 4 : (<<c>> \o s)[j + 1] = s[j]
  <2> DEFINE h == <<c>>
  <2>1. h \in Seq(Byte) /\ Len(h) = 1 /\ h[1] = c
    BY <1>5
  <2> HIDE DEF h
  <2>2. /\ h \o s \in Seq(Byte) /\ Len(h \o s) = 5
        /\ \A i \in 1 .. 1 : (h \o s)[i] = h[i]
        /\ \A i \in 1 .. 4 : (h \o s)[i + 1] = s[i]
    <3>1. /\ h \o s \in Seq(Byte) /\ Len(h \o s) = Len(h) + Len(s)
          /\ \A i \in 1 .. Len(h) : (h \o s)[i] = h[i]
          /\ \A i \in 1 .. Len(s) : (h \o s)[i + Len(h)] = s[i]
      BY <2>1, <1>6, Joined
    <3>2. QED
      BY <2>1, <1>6, <3>1
  <2>3. (h \o s)[1] = c
    BY <2>1, <2>2
  <2>4. QED
    BY <2>2, <2>3 DEF h
<1>7. CMD_WRITE \in Byte /\ CMD_READ \in Byte
  BY DEF Byte, CMD_WRITE, CMD_READ
<1>8. CASE x.kind = "write"
  <2> DEFINE head == <<CMD_WRITE>> \o AddrBytes(x.addr)
  <2>1. CommandBytes(x) = head \o x.data /\ Size(x) = 9
    BY <1>8 DEF CommandBytes, wb_debug_w32, Size
  <2>2. /\ head \in Seq(Byte) /\ Len(head) = 5 /\ head[1] = CMD_WRITE
        /\ \A j \in 1 .. 4 : head[j + 1] = AddrBytes(x.addr)[j]
    BY <1>4, <1>6, <1>7
  <2> HIDE DEF head
  <2>3. /\ head \o x.data \in Seq(Byte) /\ Len(head \o x.data) = 9
        /\ (head \o x.data)[1] = CMD_WRITE
        /\ \A j \in 1 .. 4 : (head \o x.data)[j + 1] = AddrBytes(x.addr)[j]
        /\ \A j \in 1 .. 4 : (head \o x.data)[j + 5] = x.data[j]
    <3>1. /\ head \o x.data \in Seq(Byte) /\ Len(head \o x.data) = 9
          /\ \A i \in 1 .. 5 : (head \o x.data)[i] = head[i]
          /\ \A i \in 1 .. 4 : (head \o x.data)[i + 5] = x.data[i]
      <4>1. head \in Seq(Byte) /\ Len(head) = 5 /\ x.data \in Seq(Byte) /\ Len(x.data) = 4
        BY <2>2, <1>4
      <4>2. QED
        BY <4>1, WriteJoined, Zenon
    <3>2. (head \o x.data)[1] = CMD_WRITE
      BY <2>2, <3>1
    <3>3. ASSUME NEW j \in 1 .. 4
          PROVE  (head \o x.data)[j + 1] = AddrBytes(x.addr)[j]
      <4>1. j + 1 \in 1 .. 5
        OBVIOUS
      <4>2. QED
        BY <4>1, <2>2, <3>1
    <3>4. QED
      BY <3>1, <3>2, <3>3
  <2>4. QED
    BY <2>1, <2>3, <1>8
<1>9. CASE x.kind = "read"
  <2>1. CommandBytes(x) = <<CMD_READ>> \o AddrBytes(x.addr) /\ Size(x) = 5
    BY <1>9 DEF CommandBytes, Ask, Size
  <2>2. QED
    BY <2>1, <1>9, <1>4, <1>6, <1>7
<1>10. QED
  BY <1>1, <1>8, <1>9

-----------------------------------------------------------------------------
(* The accesses q are on the way: command k starts after byte p[k] of the  *)
(* bytes s, where p[k] is negative by what the port has received of it.    *)
Flight(s, q, p) ==
  /\ s \in Seq(Byte) /\ q \in Seq(Access) /\ p \in [1 .. Len(q) + 1 -> Int]
  /\ p[Len(q) + 1] = Len(s)
  /\ \A k \in 1 .. Len(q) + 1 : p[k] <= Len(s)
  /\ \A k \in 1 .. Len(q) : p[k + 1] = p[k] + Size(q[k])
  /\ \A k \in 1 .. Len(q) : \A j \in 1 .. Size(q[k]) :
       p[k] + j >= 1 => s[p[k] + j] = CommandBytes(q[k])[j]

Longer(s, q, p, x) ==
  [k \in 1 .. Len(q) + 2 |-> IF k <= Len(q) + 1 THEN p[k] ELSE Len(s) + Size(x)]

LEMMA FlightAppend ==
  ASSUME NEW s, NEW q, NEW p, NEW x \in Access, Flight(s, q, p)
  PROVE  Flight(s \o CommandBytes(x), Append(q, x), Longer(s, q, p, x))
<1> DEFINE c == CommandBytes(x)
           t == s \o c
           r == Append(q, x)
           l == Longer(s, q, p, x)
<1>1. /\ s \in Seq(Byte) /\ q \in Seq(Access) /\ p \in [1 .. Len(q) + 1 -> Int]
      /\ Len(q) \in Nat /\ Len(s) \in Nat /\ p[Len(q) + 1] = Len(s)
  BY LenProperties DEF Flight
<1>2. c \in Seq(Byte) /\ Len(c) = Size(x) /\ Size(x) \in {5, 9}
  BY CommandShape DEF Size
<1>3. /\ t \in Seq(Byte) /\ Len(t) = Len(s) + Size(x)
      /\ \A i \in 1 .. Len(t) : t[i] = IF i <= Len(s) THEN s[i] ELSE c[i - Len(s)]
  BY <1>1, <1>2, ConcatProperties
<1>4. /\ r \in Seq(Access) /\ Len(r) = Len(q) + 1
      /\ \A i \in 1 .. Len(q) : r[i] = q[i]
      /\ r[Len(q) + 1] = x
  BY <1>1, AppendProperties
<1>5. /\ l \in [1 .. Len(q) + 2 -> Int]
      /\ \A k \in 1 .. Len(q) + 1 : l[k] = p[k]
      /\ l[Len(q) + 2] = Len(s) + Size(x)
  BY <1>1, <1>2 DEF Longer
<1> HIDE DEF c, t, r, l
<1>6. ASSUME NEW k \in 1 .. Len(r) + 1
      PROVE  l[k] <= Len(t)
  <2>1. CASE k = Len(q) + 2
    BY <2>1, <1>1, <1>2, <1>3, <1>5
  <2>2. CASE k \in 1 .. Len(q) + 1
    <3>1. p[k] <= Len(s) /\ p[k] \in Int
      BY <2>2, <1>1 DEF Flight
    <3>2. QED
      BY <2>2, <3>1, <1>1, <1>2, <1>3, <1>5
  <2>3. QED
    BY <2>1, <2>2, <1>1, <1>4
<1>7. ASSUME NEW k \in 1 .. Len(r)
      PROVE  l[k + 1] = l[k] + Size(r[k])
  <2>1. CASE k = Len(q) + 1
    BY <2>1, <1>1, <1>4, <1>5
  <2>2. CASE k \in 1 .. Len(q)
    BY <2>2, <1>1, <1>4, <1>5 DEF Flight
  <2>3. QED
    BY <2>1, <2>2, <1>1, <1>4
<1>8. ASSUME NEW k \in 1 .. Len(r), NEW j \in 1 .. Size(r[k]), l[k] + j >= 1
      PROVE  t[l[k] + j] = CommandBytes(r[k])[j]
  <2>1. CASE k = Len(q) + 1
    <3>1. r[k] = x /\ l[k] = Len(s)
      BY <2>1, <1>1, <1>4, <1>5
    <3>2. l[k] + j \in 1 .. Len(t) /\ ~(l[k] + j <= Len(s)) /\ l[k] + j - Len(s) = j
      <4>1. PICK n \in Nat, z \in Nat : n = Len(s) /\ z = Size(x)
        BY <1>1, <1>2
      <4>2. j \in 1 .. z /\ l[k] = n /\ Len(t) = n + z
        BY <3>1, <4>1, <1>3
      <4>3. n + j \in 1 .. n + z /\ ~(n + j <= n) /\ n + j - n = j
        BY <4>2
      <4>4. QED
        BY <4>1, <4>2, <4>3
    <3>3. t[l[k] + j] = c[(l[k] + j) - Len(s)]
      BY <3>2, <1>3
    <3>4. QED
      BY <3>1, <3>2, <3>3 DEF c
  <2>2. CASE k \in 1 .. Len(q)
    <3>1. r[k] = q[k] /\ l[k] = p[k] /\ p[k] \in Int
      BY <2>2, <1>1, <1>4, <1>5
    <3>2. p[k + 1] = p[k] + Size(q[k]) /\ p[k + 1] <= Len(s)
      BY <2>2, <1>1 DEF Flight
    <3>3. Size(q[k]) \in Nat
      BY DEF Size
    <3>4. l[k] + j \in 1 .. Len(s)
      <4>1. PICK a \in Int, z \in Nat, n \in Nat : a = p[k] /\ z = Size(q[k]) /\ n = Len(s)
        BY <3>1, <3>3, <1>1
      <4>2. j \in 1 .. z /\ a + j >= 1 /\ a + z <= n
        BY <3>1, <3>2, <4>1, <1>8
      <4>3. a + j \in 1 .. n
        BY <4>2
      <4>4. QED
        BY <3>1, <4>1, <4>3
    <3>5. t[l[k] + j] = s[l[k] + j]
      BY <3>4, <1>1, <1>2, <1>3
    <3>6. s[p[k] + j] = CommandBytes(q[k])[j]
      BY <2>2, <1>8, <3>1 DEF Flight
    <3>7. QED
      BY <3>1, <3>5, <3>6
  <2>3. QED
    BY <2>1, <2>2, <1>1, <1>4
<1>9. Flight(t, r, l)
  BY <1>1, <1>3, <1>4, <1>5, <1>6, <1>7, <1>8 DEF Flight
<1>10. QED
  BY <1>9 DEF c, t, r, l

LEMMA FlightByte ==
  ASSUME NEW s, NEW q, NEW p, Flight(s, q, p), s # <<>>
  PROVE  Flight(Tail(s), q, [k \in 1 .. Len(q) + 1 |-> p[k] - 1])
<1> DEFINE l == [k \in 1 .. Len(q) + 1 |-> p[k] - 1]
           t == Tail(s)
<1>1. /\ s \in Seq(Byte) /\ q \in Seq(Access) /\ p \in [1 .. Len(q) + 1 -> Int]
      /\ Len(q) \in Nat /\ Len(s) \in Nat /\ p[Len(q) + 1] = Len(s)
  BY LenProperties DEF Flight
<1>2. /\ t \in Seq(Byte) /\ Len(t) = Len(s) - 1 /\ Len(t) \in Nat
      /\ \A i \in 1 .. Len(t) : t[i] = s[i + 1]
  BY <1>1, HeadTailProperties, LenProperties
<1>3. l \in [1 .. Len(q) + 1 -> Int] /\ \A k \in 1 .. Len(q) + 1 : l[k] = p[k] - 1
  BY <1>1
<1> HIDE DEF l, t
<1>4. ASSUME NEW k \in 1 .. Len(q) + 1
      PROVE  l[k] <= Len(t)
  <2>1. p[k] <= Len(s) /\ p[k] \in Int /\ l[k] = p[k] - 1
    BY <1>1, <1>3 DEF Flight
  <2>2. QED
    BY <2>1, <1>1, <1>2
<1>5. ASSUME NEW k \in 1 .. Len(q)
      PROVE  l[k + 1] = l[k] + Size(q[k])
  <2>1. k \in 1 .. Len(q) + 1 /\ k + 1 \in 1 .. Len(q) + 1
    BY <1>1
  <2>2. p[k + 1] = p[k] + Size(q[k]) /\ p[k] \in Int /\ p[k + 1] \in Int
    BY <2>1, <1>1 DEF Flight
  <2>3. l[k + 1] = p[k + 1] - 1 /\ l[k] = p[k] - 1
    BY <2>1, <1>3
  <2>4. Size(q[k]) \in Nat
    BY DEF Size
  <2>5. QED
    BY <2>2, <2>3, <2>4
<1>6. ASSUME NEW k \in 1 .. Len(q), NEW j \in 1 .. Size(q[k]), l[k] + j >= 1
      PROVE  t[l[k] + j] = CommandBytes(q[k])[j]
  <2> k \in 1 .. Len(q) + 1 /\ k + 1 \in 1 .. Len(q) + 1
    BY <1>1
  <2>1. l[k] = p[k] - 1 /\ p[k] \in Int /\ p[k + 1] = p[k] + Size(q[k]) /\ p[k + 1] <= Len(s)
    BY <1>1, <1>3 DEF Flight
  <2>2. Size(q[k]) \in Nat
    BY DEF Size
  <2>3. j \in Nat /\ j <= Size(q[k]) /\ j >= 1 /\ l[k] + j >= 1
    BY <2>2, <1>6
  <2>5. l[k] \in Int /\ p[k] = l[k] + 1 /\ p[k] + Size(q[k]) <= Len(s)
    BY <2>1, <2>2
  <2>6. l[k] + j \in 1 .. Len(t) /\ (l[k] + j) + 1 = p[k] + j /\ p[k] + j >= 1
    <3> DEFINE z == Size(q[k])
               u == l[k]
               v == p[k]
               n == Len(s)
               m == Len(t)
    <3>1. /\ u \in Int /\ v = u + 1 /\ v + z <= n /\ n \in Nat /\ m = n - 1 /\ z \in Nat
          /\ j \in Nat /\ j <= z /\ j >= 1 /\ u + j >= 1
      BY <2>2, <2>3, <2>5, <1>1, <1>2
    <3> HIDE DEF z, u, v, n, m
    <3>2. u + j \in 1 .. m /\ (u + j) + 1 = v + j /\ v + j >= 1
      BY <3>1
    <3>3. QED
      BY <3>2 DEF u, v, m
  <2>4. s[p[k] + j] = CommandBytes(q[k])[j]
    BY <2>6 DEF Flight
  <2>7. QED
    BY <2>6, <2>4, <1>2
<1>7. l[Len(q) + 1] = Len(t)
  BY <1>1, <1>2, <1>3
<1>8. Flight(t, q, l)
  BY <1>1, <1>2, <1>3, <1>4, <1>5, <1>6, <1>7 DEF Flight
<1>9. QED
  BY <1>8 DEF t, l

LEMMA FlightDrop ==
  ASSUME NEW s, NEW q, NEW p, Flight(s, q, p), q # <<>>
  PROVE  Flight(s, Tail(q), [k \in 1 .. Len(q) |-> p[k + 1]])
<1> DEFINE l == [k \in 1 .. Len(q) |-> p[k + 1]]
           r == Tail(q)
<1>1. /\ s \in Seq(Byte) /\ q \in Seq(Access) /\ p \in [1 .. Len(q) + 1 -> Int]
      /\ Len(q) \in Nat /\ Len(s) \in Nat /\ p[Len(q) + 1] = Len(s)
  BY LenProperties DEF Flight
<1>2. /\ r \in Seq(Access) /\ Len(r) = Len(q) - 1 /\ Len(r) \in Nat
      /\ \A i \in 1 .. Len(r) : r[i] = q[i + 1]
  BY <1>1, HeadTailProperties, LenProperties
<1>3. l \in [1 .. Len(r) + 1 -> Int] /\ \A k \in 1 .. Len(q) : l[k] = p[k + 1]
  BY <1>1, <1>2
<1> HIDE DEF l, r
<1>4. \A k \in 1 .. Len(r) + 1 : l[k] <= Len(s)
  BY <1>1, <1>2, <1>3 DEF Flight
<1>5. ASSUME NEW k \in 1 .. Len(r)
      PROVE  l[k + 1] = l[k] + Size(r[k])
  <2>1. k + 1 \in 1 .. Len(q) /\ k \in 1 .. Len(q)
    BY <1>1, <1>2
  <2>2. l[k] = p[k + 1] /\ l[k + 1] = p[(k + 1) + 1] /\ r[k] = q[k + 1]
    BY <2>1, <1>2, <1>3
  <2>3. QED
    BY <2>1, <2>2 DEF Flight
<1>6. ASSUME NEW k \in 1 .. Len(r), NEW j \in 1 .. Size(r[k]), l[k] + j >= 1
      PROVE  s[l[k] + j] = CommandBytes(r[k])[j]
  <2>1. k + 1 \in 1 .. Len(q) /\ k \in 1 .. Len(q)
    BY <1>1, <1>2
  <2>2. l[k] = p[k + 1] /\ r[k] = q[k + 1]
    BY <2>1, <1>2, <1>3
  <2>3. QED
    BY <2>1, <2>2, <1>6 DEF Flight
<1>7. Flight(s, r, l)
  BY <1>1, <1>2, <1>3, <1>4, <1>5, <1>6 DEF Flight
<1>8. QED
  BY <1>7 DEF r, l

-----------------------------------------------------------------------------
(* How many bytes of the present command the port has received.            *)
Got ==
  [S_IDLE |-> 0,
   S_WRITE_ADDR_0 |-> 1, S_WRITE_ADDR_1 |-> 2, S_WRITE_ADDR_2 |-> 3, S_WRITE_ADDR_3 |-> 4,
   S_WRITE_DATA_0 |-> 5, S_WRITE_DATA_1 |-> 6, S_WRITE_DATA_2 |-> 7, S_WRITE_DATA_3 |-> 8,
   S_READ_ADDR_0 |-> 1, S_READ_ADDR_1 |-> 2, S_READ_ADDR_2 |-> 3, S_READ_ADDR_3 |-> 4]
WriteStates ==
  {"S_WRITE_ADDR_0", "S_WRITE_ADDR_1", "S_WRITE_ADDR_2", "S_WRITE_ADDR_3",
   "S_WRITE_DATA_0", "S_WRITE_DATA_1", "S_WRITE_DATA_2", "S_WRITE_DATA_3"}
ReadStates == {"S_READ_ADDR_0", "S_READ_ADDR_1", "S_READ_ADDR_2", "S_READ_ADDR_3"}
States == {"S_IDLE"} \cup WriteStates \cup ReadStates
KindOf(s) == IF s \in WriteStates THEN "write" ELSE "read"

LEMMA StateTable ==
  ASSUME NEW s \in States
  PROVE  /\ Got[s] \in 0 .. 8 /\ (Got[s] = 0 <=> s = "S_IDLE")
         /\ s \in ReadStates => Got[s] <= 4
         /\ s \in DOMAIN AddrByte <=> Got[s] \in 1 .. 4
         /\ s \in DOMAIN AddrByte => AddrByte[s] = Got[s]
         /\ s \in DOMAIN DataByte <=> Got[s] \in 5 .. 8
         /\ s \in DOMAIN DataByte => DataByte[s] = Got[s] - 4
         /\ s \in {"S_WRITE_DATA_3", "S_READ_ADDR_3"} => After[s] = "S_IDLE"
         /\ s \notin {"S_IDLE", "S_WRITE_DATA_3", "S_READ_ADDR_3"} =>
              /\ After[s] \in States /\ Got[After[s]] = Got[s] + 1
              /\ After[s] # "S_IDLE" /\ KindOf(After[s]) = KindOf(s)
  BY DEF States, WriteStates, ReadStates, Got, After, AddrByte, DataByte, KindOf

(* The registers of the port hold the command that comes first, or, while  *)
(* the port waits for the bus, the one before it.                          *)
Busy == \/ Accessing
        \/ wb_state_r \in {"WB_WRITE_0", "WB_READ_0"} /\ state = "S_IDLE"
Cur == IF Busy THEN 2 ELSE 1

PortTypeOK ==
  /\ state \in States /\ addr_r \in Word /\ byte_r \in Word /\ waited \in Nat
  /\ wb_state_r \in {"WB_IDLE", "WB_WRITE_0", "WB_WRITE_1", "WB_WRITE_2",
                     "WB_READ_0", "WB_READ_1", "WB_READ_2"}
  /\ wb_state_r = "WB_WRITE_0" => state \in {"S_WRITE_DATA_3", "S_IDLE"}
  /\ wb_state_r = "WB_READ_0" => state \in {"S_READ_ADDR_3", "S_IDLE"}
  /\ wb_state_r \in {"WB_WRITE_1", "WB_WRITE_2", "WB_READ_1", "WB_READ_2"} => Got[state] <= 1
  /\ Accessing => waited = Got[state]

(* The access of a busy port is the first that is on the way.              *)
Ready(q) ==
  Busy => /\ addr_r = AddrBytes(q[1].addr)
          /\ wb_state_r \in {"WB_WRITE_0", "WB_WRITE_1"} =>
               q[1].kind = "write" /\ byte_r = q[1].data
          /\ wb_state_r \in {"WB_READ_0", "WB_READ_1"} => q[1].kind = "read"

(* What has been received of the present command.                          *)
Partial(q, p) ==
  /\ Cur <= Len(q) + 1 /\ p[Cur] = -Got[state]
  /\ state # "S_IDLE" =>
       /\ Cur <= Len(q) /\ q[Cur].kind = KindOf(state)
       /\ ~Busy =>
            /\ \A j \in 1 .. 4 : j < Got[state] => addr_r[j] = AddrBytes(q[1].addr)[j]
            /\ \A j \in 1 .. 4 : j + 4 < Got[state] => byte_r[j] = q[1].data[j]

Port(q, p) == Flight(to_port, q, p) /\ PortTypeOK /\ Ready(q) /\ Partial(q, p)

(* What a step of the clock, or one that only sends to the host, leaves.   *)
LEMMA PortClockKeeps ==
  ASSUME NEW q, NEW p, Port(q, p), PortClock
  PROVE  Port(q, p)'
<1>1. /\ wb_state_r' = NextWb /\ waited' = 0 /\ UNCHANGED <<state, addr_r, byte_r, to_port>>
  BY DEF PortClock
<1>2. PortTypeOK /\ Ready(q) /\ Partial(q, p) /\ Flight(to_port, q, p)
  BY DEF Port
<1>3. wb_state_r' = NextWb
  BY <1>1
<1>4. Busy' = Busy /\ Cur' = Cur
  <2>1. Busy' <=> Busy
    BY <1>1, <1>2, StateTable DEF NextWb, Busy, Accessing, PortTypeOK
  <2>2. QED
    BY <2>1, Zenon DEF Cur
<1>5. PortTypeOK'
  <2>1. ~Accessing
    BY DEF PortClock, Settled, NextWb, NextTx, Accessing
  <2>2. wb_state_r' \in {"WB_WRITE_1", "WB_READ_1"} => state = "S_IDLE"
    BY <1>1, <1>2, <2>1 DEF NextWb, Accessing
  <2>3. state \in States /\ Got[state] \in 0 .. 8 /\ (state = "S_IDLE" => Got[state] = 0)
    BY <1>2, StateTable DEF PortTypeOK
  <2>4. /\ state' = state /\ addr_r' = addr_r /\ byte_r' = byte_r /\ waited' = 0
        /\ Got[state'] = Got[state] /\ Accessing' => wb_state_r' \in {"WB_WRITE_1", "WB_READ_1"}
    BY <1>1 DEF Accessing
  <2>5. /\ wb_state_r' \in {"WB_IDLE", "WB_WRITE_0", "WB_WRITE_1", "WB_WRITE_2",
                            "WB_READ_0", "WB_READ_1", "WB_READ_2"}
        /\ wb_state_r' = "WB_WRITE_0" => state \in {"S_WRITE_DATA_3", "S_IDLE"}
        /\ wb_state_r' = "WB_READ_0" => state \in {"S_READ_ADDR_3", "S_IDLE"}
    BY <1>1, <1>2 DEF NextWb, PortTypeOK
  <2>6. wb_state_r' \in {"WB_WRITE_2", "WB_READ_2"} => FALSE
    BY <1>1, <1>2, <2>1 DEF NextWb, PortTypeOK
  <2>7. QED
    BY <1>2, <2>2, <2>3, <2>4, <2>5, <2>6 DEF PortTypeOK
<1>6. Ready(q)'
  BY <1>1, <1>2, <1>4 DEF NextWb, Ready, Busy, Accessing, PortTypeOK
<1>7. Partial(q, p)'
  BY <1>1, <1>2, <1>4 DEF Partial
<1>8. QED
  BY <1>1, <1>2, <1>5, <1>6, <1>7 DEF Port

(* The byte that arrives is the next one of the present command.           *)
LEMMA NextByte ==
  ASSUME NEW q, NEW p, Port(q, p), to_port # <<>>
  PROVE  /\ Cur \in 1 .. Len(q) /\ q[Cur] \in Access
         /\ Got[state] + 1 \in 1 .. Size(q[Cur])
         /\ Head(to_port) = CommandBytes(q[Cur])[Got[state] + 1]
<1>1. /\ to_port \in Seq(Byte) /\ q \in Seq(Access) /\ p \in [1 .. Len(q) + 1 -> Int]
      /\ Len(q) \in Nat /\ Len(to_port) \in Nat /\ p[Len(q) + 1] = Len(to_port)
  BY LenProperties DEF Flight, Port
<1>2. state \in States /\ Got[state] \in 0 .. 8 /\ (Got[state] = 0 <=> state = "S_IDLE")
  BY StateTable DEF Port, PortTypeOK
<1>3. Cur \in {1, 2} /\ Cur <= Len(q) + 1 /\ p[Cur] = -Got[state]
  BY DEF Cur, Port, Partial
<1>4. Len(to_port) > 0
  BY <1>1, EmptySeq
<1>5. Cur \in 1 .. Len(q)
  BY <1>1, <1>2, <1>3, <1>4
<1>6. q[Cur] \in Access
  BY <1>1, <1>5, ElementOfSeq
<1>7. Got[state] + 1 \in 1 .. Size(q[Cur])
  <2>1. CASE state = "S_IDLE"
    BY <2>1, <1>2 DEF Size
  <2>2. CASE state # "S_IDLE"
    <3>1. q[Cur].kind = KindOf(state)
      BY <2>2 DEF Port, Partial
    <3>2. state \in ReadStates => Got[state] <= 4
      BY <1>2, StateTable
    <3>3. QED
      BY <1>2, <2>2, <3>1, <3>2 DEF KindOf, Size, States
  <2>3. QED
    BY <2>1, <2>2
<1>8. p[Cur] + (Got[state] + 1) = 1
  BY <1>2, <1>3
<1>9. to_port[1] = CommandBytes(q[Cur])[Got[state] + 1]
  BY <1>5, <1>7, <1>8 DEF Port, Flight
<1>10. Head(to_port) = to_port[1]
  BY <1>1, <1>4
<1>11. QED
  BY <1>5, <1>6, <1>7, <1>9, <1>10

Less(q, p) == [k \in 1 .. Len(q) + 1 |-> p[k] - 1]

(* A byte arrives: an access that waits for the bus keeps its registers,   *)
(* because one byte is all that may arrive before it is over.              *)
LEMMA ReceiveKeeps ==
  ASSUME NEW q, NEW p, Port(q, p), ReceiveByte, BusBytes <= 1
  PROVE  Port(q, Less(q, p))'
<1> DEFINE g == Got[state]
           b == Head(to_port)
           l == Less(q, p)
<1>1. /\ to_port # <<>> /\ Settled /\ (Accessing => waited < BusBytes)
      /\ to_port' = Tail(to_port) /\ wb_state_r' = wb_state_r
      /\ waited' = IF Accessing THEN waited + 1 ELSE 0
      /\ state' = IF state # "S_IDLE" THEN After[state]
                  ELSE CASE b = CMD_WRITE -> "S_WRITE_ADDR_0"
                         [] b = CMD_READ -> "S_READ_ADDR_0"
                         [] OTHER -> "S_IDLE"
      /\ addr_r' = IF state \in DOMAIN AddrByte
                   THEN [addr_r EXCEPT ![AddrByte[state]] = b] ELSE addr_r
      /\ byte_r' = IF state \in DOMAIN DataByte
                   THEN [byte_r EXCEPT ![DataByte[state]] = b] ELSE byte_r
  BY DEF ReceiveByte
<1>2. PortTypeOK /\ Ready(q) /\ Partial(q, p) /\ Flight(to_port, q, p)
  BY DEF Port
<1>3. /\ state \in States /\ g \in 0 .. 8 /\ (g = 0 <=> state = "S_IDLE")
      /\ (state \in DOMAIN AddrByte <=> g \in 1 .. 4) /\ (state \in DOMAIN DataByte <=> g \in 5 .. 8)
      /\ (state \in DOMAIN AddrByte => AddrByte[state] = g)
      /\ (state \in DOMAIN DataByte => DataByte[state] = g - 4)
      /\ (state \in {"S_WRITE_DATA_3", "S_READ_ADDR_3"} => After[state] = "S_IDLE")
      /\ (state \notin {"S_IDLE", "S_WRITE_DATA_3", "S_READ_ADDR_3"} =>
            /\ After[state] \in States /\ Got[After[state]] = g + 1
            /\ After[state] # "S_IDLE" /\ KindOf(After[state]) = KindOf(state))
  BY <1>2, StateTable DEF PortTypeOK
<1>4. /\ Cur \in 1 .. Len(q) /\ q[Cur] \in Access /\ g + 1 \in 1 .. Size(q[Cur])
      /\ b = CommandBytes(q[Cur])[g + 1]
  BY <1>1, NextByte
<1>5. Flight(to_port, q, l)'
  BY <1>1, <1>2, FlightByte DEF Less
<1>6. /\ q \in Seq(Access) /\ p \in [1 .. Len(q) + 1 -> Int] /\ Len(q) \in Nat
      /\ \A k \in 1 .. Len(q) + 1 : l[k] = p[k] - 1
  BY <1>2, LenProperties DEF Flight, Less
<1>7. b \in 0 .. 255
  <2> DEFINE c == CommandBytes(q[Cur])
  <2>1. c \in Seq(Byte) /\ Len(c) = Size(q[Cur])
    BY <1>4, CommandShape
  <2>2. g + 1 \in 1 .. Len(c) /\ b = c[g + 1]
    BY <2>1, <1>4
  <2> HIDE DEF c, g, b
  <2>3. c[g + 1] \in Byte
    BY <2>1, <2>2, ElementOfSeq
  <2>4. QED
    BY <2>2, <2>3 DEF Byte
<1>8. addr_r' \in Word /\ byte_r' \in Word
  BY <1>1, <1>2, <1>3, <1>7 DEF PortTypeOK, Word
<1> HIDE DEF g, b, l
<1>9. CASE state = "S_IDLE"
  <2>0. /\ b = CMD_WRITE => state' = "S_WRITE_ADDR_0"
        /\ b = CMD_READ /\ CMD_READ # CMD_WRITE => state' = "S_READ_ADDR_0"
    <3>1. state' = CASE b = CMD_WRITE -> "S_WRITE_ADDR_0"
                     [] b = CMD_READ -> "S_READ_ADDR_0"
                     [] OTHER -> "S_IDLE"
      BY <1>1, <1>9, Zenon
    <3>2. CMD_WRITE # CMD_READ
      BY DEF CMD_WRITE, CMD_READ
    <3>3. QED
      BY <3>1, <3>2
  <2>1. g = 0 /\ b = IF q[Cur].kind = "write" THEN CMD_WRITE ELSE CMD_READ
    BY <1>3, <1>4, <1>9, CommandShape
  <2>2. /\ state' \in {"S_WRITE_ADDR_0", "S_READ_ADDR_0"} /\ KindOf(state') = q[Cur].kind
        /\ Got[state'] = 1 /\ UNCHANGED <<addr_r, byte_r>>
    <3>1. q[Cur].kind \in {"write", "read"}
      BY <1>4 DEF Access
    <3>2. addr_r' = addr_r /\ byte_r' = byte_r
      BY <2>1, <1>1, <1>3
    <3>3. CASE q[Cur].kind = "write"
      <4>1. state' = "S_WRITE_ADDR_0"
        <5>1. b = CMD_WRITE
          BY <3>3, <2>1
        <5>2. QED
          BY <5>1, <1>9, <2>0
      <4>2. QED
        BY <4>1, <3>2, <3>3 DEF KindOf, WriteStates, Got
    <3>4. CASE q[Cur].kind = "read"
      <4>1. state' = "S_READ_ADDR_0"
        <5>1. b = CMD_READ /\ CMD_READ # CMD_WRITE
          BY <3>4, <2>1 DEF CMD_WRITE, CMD_READ
        <5>2. QED
          BY <5>1, <1>9, <2>0
      <4>2. QED
        BY <4>1, <3>2, <3>4 DEF KindOf, WriteStates, Got
    <3>5. QED
      BY <3>1, <3>3, <3>4
  <2>3. wb_state_r \in {"WB_IDLE", "WB_WRITE_1", "WB_READ_1"}
    BY <1>1, <1>2, <1>9 DEF Settled, NextWb, PortTypeOK
  <2>4. (Busy' <=> Busy) /\ (Accessing' <=> Accessing) /\ (Busy <=> Accessing)
    BY <2>3, <1>1 DEF Busy, Accessing
  <2>5. Cur' = Cur
    BY <2>4, Zenon DEF Cur
  <2>6. PortTypeOK'
    <3>1. state' \in States
      BY <2>2 DEF States, WriteStates, ReadStates
    <3>2. waited' \in Nat /\ (Accessing => waited' = 1)
      <4>1. Accessing => waited = 0
        BY <1>2, <2>1 DEF PortTypeOK, g
      <4>2. QED
        BY <4>1, <1>1
    <3>3. wb_state_r' = wb_state_r
      BY <1>1
    <3>4. QED
      BY <1>8, <2>2, <2>3, <2>4, <3>1, <3>2, <3>3 DEF PortTypeOK
  <2>7. Ready(q)'
    BY <1>1, <1>2, <2>2, <2>4 DEF Ready
  <2>8. Partial(q, l)'
    <3>1. l[Cur] = -1
      <4>1. p[Cur] = -g /\ Cur \in 1 .. Len(q) + 1
        BY <1>2, <1>4, <1>6 DEF Partial, g
      <4>2. QED
        BY <4>1, <2>1, <1>6
    <3>2. QED
      BY <3>1, <2>2, <2>5, <1>4, <1>6 DEF Partial
  <2>9. QED
    BY <1>5, <2>6, <2>7, <2>8 DEF Port, l
<1>10. CASE state # "S_IDLE"
  <2>1. ~Accessing
    BY <1>1, <1>2, <1>3, <1>10, DebugLinkAssumption DEF PortTypeOK, g
  <2>2. ~Busy /\ Cur = 1
    BY <2>1, <1>10 DEF Busy, Cur
  <2>3. /\ wb_state_r \in {"WB_IDLE", "WB_WRITE_0", "WB_READ_0"}
        /\ state = "S_WRITE_DATA_3" => wb_state_r = "WB_WRITE_0"
        /\ state = "S_READ_ADDR_3" => wb_state_r = "WB_READ_0"
    <3>1. wb_state_r \notin {"WB_WRITE_1", "WB_READ_1", "WB_WRITE_2", "WB_READ_2"}
      BY <2>1, <1>1 DEF Settled, NextWb, Accessing
    <3>2. state = "S_WRITE_DATA_3" => wb_state_r \notin {"WB_IDLE", "WB_READ_0"}
      BY <1>1, <1>2 DEF Settled, NextWb, PortTypeOK
    <3>3. state = "S_READ_ADDR_3" => wb_state_r \notin {"WB_IDLE", "WB_WRITE_0"}
      BY <1>1, <1>2 DEF Settled, NextWb, PortTypeOK
    <3>4. QED
      BY <3>1, <3>2, <3>3, <1>2 DEF PortTypeOK
  <2>4. state' = After[state] /\ wb_state_r' = wb_state_r /\ waited' = 0 /\ ~Accessing'
    BY <1>1, <1>10, <2>1 DEF Accessing
  <2>5. /\ q[1].kind = KindOf(state)
        /\ \A j \in 1 .. 4 : j < g => addr_r[j] = AddrBytes(q[1].addr)[j]
        /\ \A j \in 1 .. 4 : j + 4 < g => byte_r[j] = q[1].data[j]
        /\ p[1] = -g
    BY <1>2, <1>10, <2>2 DEF Partial, g
  <2>6. /\ \A j \in 1 .. 4 : j < g + 1 => addr_r'[j] = AddrBytes(q[1].addr)[j]
        /\ \A j \in 1 .. 4 : j + 4 < g + 1 => byte_r'[j] = q[1].data[j]
    <3>1. /\ \A j \in 1 .. 4 : CommandBytes(q[1])[j + 1] = AddrBytes(q[1].addr)[j]
          /\ q[1].kind = "write" => \A j \in 1 .. 4 : CommandBytes(q[1])[j + 5] = q[1].data[j]
      BY <1>4, <2>2, CommandShape
    <3>2. addr_r \in [1 .. 4 -> 0 .. 255] /\ byte_r \in [1 .. 4 -> 0 .. 255]
      BY <1>2 DEF PortTypeOK, Word
    <3>3. CASE g \in 1 .. 4
      <4>1. addr_r' = [addr_r EXCEPT ![g] = b] /\ byte_r' = byte_r
        <5>1. g \notin 5 .. 8
          BY <3>3
        <5>2. state \in DOMAIN AddrByte /\ state \notin DOMAIN DataByte /\ AddrByte[state] = g
          BY <5>1, <3>3, <1>3, Zenon
        <5>3. QED
          BY <5>2, <1>1, Zenon
      <4>2. b = AddrBytes(q[1].addr)[g]
        BY <3>1, <3>3, <1>4, <2>2
      <4>3. ASSUME NEW j \in 1 .. 4, j < g + 1
            PROVE  addr_r'[j] = AddrBytes(q[1].addr)[j]
        <5>1. CASE j = g
          BY <4>1, <4>2, <3>2, <5>1
        <5>2. CASE j # g
          BY <4>1, <4>3, <3>2, <3>3, <2>5, <5>2
        <5>3. QED
          BY <5>1, <5>2
      <4>4. ASSUME NEW j \in 1 .. 4, j + 4 < g + 1
            PROVE  byte_r'[j] = q[1].data[j]
        BY <4>4, <3>3
      <4>5. QED
        BY <4>3, <4>4
    <3>4. CASE g \in 5 .. 8
      <4>1. byte_r' = [byte_r EXCEPT ![g - 4] = b] /\ addr_r' = addr_r
        <5>1. g \notin 1 .. 4
          BY <3>4
        <5>2. state \in DOMAIN DataByte /\ state \notin DOMAIN AddrByte /\ DataByte[state] = g - 4
          BY <5>1, <3>4, <1>3, Zenon
        <5>3. QED
          BY <5>2, <1>1, Zenon
      <4>2. q[1].kind = "write"
        <5>1. state \in States /\ ~(g <= 4)
          BY <3>4, <1>3
        <5>2. state \notin ReadStates
          BY <5>1, StateTable DEF g
        <5>3. state \in WriteStates
          BY <5>1, <5>2, <1>10 DEF States
        <5>4. QED
          BY <5>3, <2>5 DEF KindOf
      <4>3. g - 4 \in 1 .. 4 /\ (g - 4) + 5 = g + 1
        BY <3>4
      <4>4. b = q[1].data[g - 4]
        BY <3>1, <4>2, <4>3, <1>4, <2>2
      <4>5. ASSUME NEW j \in 1 .. 4, j < g + 1
            PROVE  addr_r'[j] = AddrBytes(q[1].addr)[j]
        <5>1. j < g
          BY <3>4
        <5>2. QED
          BY <4>1, <5>1, <2>5
      <4>6. ASSUME NEW j \in 1 .. 4, j + 4 < g + 1
            PROVE  byte_r'[j] = q[1].data[j]
        <5>1. CASE j = g - 4
          BY <4>1, <4>3, <4>4, <3>2, <5>1
        <5>2. CASE j # g - 4
          BY <4>1, <4>3, <4>6, <3>2, <3>4, <2>5, <5>2
        <5>3. QED
          BY <5>1, <5>2
      <4>7. QED
        BY <4>5, <4>6
    <3>5. QED
      BY <3>3, <3>4, <1>3, <1>10
  <2>7. 1 \in 1 .. Len(q) /\ l[1] = -(g + 1)
    <3>1. 1 \in 1 .. Len(q)
      BY <1>4, <2>2
    <3>2. 1 \in 1 .. Len(q) + 1
      BY <3>1, <1>6
    <3>3. l[1] = p[1] - 1
      BY <3>2, <1>6
    <3>4. \A n \in Int : -n - 1 = -(n + 1)
      OBVIOUS
    <3>5. g \in Int
      BY <1>3
    <3>6. -g - 1 = -(g + 1)
      BY <3>4, <3>5
    <3>7. QED
      BY <3>1, <3>3, <3>6, <2>5
  <2>8. CASE state \in {"S_WRITE_DATA_3", "S_READ_ADDR_3"}
    <3>1. state' = "S_IDLE" /\ Busy' /\ Cur' = 2
      BY <2>8, <2>4, <2>3, <1>3 DEF Busy, Cur
    <3>2. Got["S_IDLE"] = 0 /\ Got["S_WRITE_DATA_3"] = 8 /\ Got["S_READ_ADDR_3"] = 4
      BY DEF Got
    <3>3. addr_r' = AddrBytes(q[1].addr)
      <4>1. AddrBytes(q[1].addr) \in Word
        BY <1>4, <2>2, AddressRoundTrip DEF Access
      <4>2. \A j \in 1 .. 4 : addr_r'[j] = AddrBytes(q[1].addr)[j]
        BY <2>6, <2>8, <3>2, <1>3 DEF g
      <4>3. addr_r' \in Word
        BY <1>8
      <4>4. QED
        BY <4>1, <4>2, <4>3, SameWord
    <3>4. Ready(q)'
      <4>1. CASE state = "S_WRITE_DATA_3"
        <5>1. q[1].kind = "write" /\ q[1].data \in Word
          BY <4>1, <2>5, <1>4, <2>2 DEF KindOf, WriteStates, Access
        <5>2. \A j \in 1 .. 4 : byte_r'[j] = q[1].data[j]
          BY <4>1, <2>6, <3>2, <1>3 DEF g
        <5>3. byte_r' = q[1].data
          <6>1. byte_r' \in Word
            BY <1>8
          <6>2. QED
            BY <5>1, <5>2, <6>1, SameWord
        <5>4. wb_state_r' = "WB_WRITE_0"
          BY <4>1, <2>3, <2>4
        <5>5. QED
          BY <5>1, <5>3, <5>4, <3>3 DEF Ready
      <4>2. CASE state = "S_READ_ADDR_3"
        <5>1. q[1].kind = "read"
          BY <4>2, <2>5 DEF KindOf, WriteStates
        <5>2. wb_state_r' = "WB_READ_0"
          BY <4>2, <2>3, <2>4
        <5>3. QED
          BY <5>1, <5>2, <3>3 DEF Ready
      <4>3. QED
        BY <2>8, <4>1, <4>2
    <3>5. Partial(q, l)'
      <4>1. l[2] = l[1] + Size(q[1]) /\ l[1] = -(g + 1)
        <5>1. p[1 + 1] = p[1] + Size(q[1]) /\ p[1] \in Int
          BY <1>2, <1>6, <2>7 DEF Flight
        <5>2. 1 \in 1 .. Len(q) + 1 /\ 2 \in 1 .. Len(q) + 1 /\ 1 + 1 = 2
          BY <2>7, <1>6
        <5>3. l[1] = p[1] - 1 /\ l[2] = p[2] - 1 /\ Size(q[1]) \in Nat
          BY <5>2, <1>6 DEF Size
        <5>4. QED
          BY <5>1, <5>2, <5>3, <2>7
      <4>2. l[2] = 0
        <5>1. CASE state = "S_WRITE_DATA_3"
          BY <4>1, <5>1, <2>5, <3>2 DEF KindOf, WriteStates, Size, g
        <5>2. CASE state = "S_READ_ADDR_3"
          BY <4>1, <5>2, <2>5, <3>2 DEF KindOf, WriteStates, Size, g
        <5>3. QED
          BY <5>1, <5>2, <2>8
      <4>3. 2 <= Len(q) + 1
        BY <2>7, <1>6
      <4>4. QED
        BY <4>2, <4>3, <3>1, <3>2 DEF Partial
    <3>6. PortTypeOK'
      <4>1. waited' \in Nat /\ state' \in States
        BY <2>4, <3>1 DEF States
      <4>2. QED
        BY <4>1, <3>1, <2>3, <2>4, <1>8 DEF PortTypeOK
    <3>7. QED
      BY <1>5, <3>4, <3>5, <3>6 DEF Port, l
  <2>9. CASE state \notin {"S_WRITE_DATA_3", "S_READ_ADDR_3"}
    <3>1. /\ state' \in States /\ Got[state'] = g + 1 /\ state' # "S_IDLE"
          /\ KindOf(state') = KindOf(state)
      BY <2>9, <2>4, <1>3, <1>10
    <3>2. ~Busy' /\ Cur' = 1
      BY <3>1, <2>4 DEF Busy, Cur
    <3>3. wb_state_r = "WB_IDLE"
      BY <2>3, <2>9, <1>2, <1>10 DEF PortTypeOK
    <3>4. PortTypeOK'
      BY <3>1, <3>3, <2>4, <1>8 DEF PortTypeOK, Accessing
    <3>5. Ready(q)'
      BY <3>2 DEF Ready
    <3>6. Partial(q, l)'
      BY <3>1, <3>2, <2>5, <2>6, <2>7, <1>6 DEF Partial
    <3>7. QED
      BY <1>5, <3>4, <3>5, <3>6 DEF Port, l
  <2>10. QED
    BY <2>8, <2>9
<1>11. QED
  BY <1>9, <1>10

(* The slave has answered: the access is done and the next one is first.   *)
Rest(q, p) == [k \in 1 .. Len(q) |-> p[k + 1]]

LEMMA BusAckKeeps ==
  ASSUME NEW q, NEW p, Port(q, p), BusAck
  PROVE  /\ q \in Seq(Access) /\ q # <<>>
         /\ WordAddr(addr_r) = q[1].addr
         /\ q[1].kind = "write" =>
              /\ wb_state_r = "WB_WRITE_1" /\ wb_state_r' = "WB_WRITE_2"
              /\ byte_r = q[1].data
         /\ q[1].kind = "read" => wb_state_r = "WB_READ_1" /\ wb_state_r' = "WB_READ_2"
         /\ Port(Tail(q), Rest(q, p))'
<1> DEFINE r == Tail(q)
           l == Rest(q, p)
<1>1. PortTypeOK /\ Ready(q) /\ Partial(q, p) /\ Flight(to_port, q, p)
  BY DEF Port
<1>2. /\ Accessing /\ UNCHANGED <<to_port, state, addr_r, byte_r, waited>>
      /\ wb_state_r' = IF wb_state_r = "WB_WRITE_1" THEN "WB_WRITE_2" ELSE "WB_READ_2"
  BY DEF BusAck
<1>3. /\ q \in Seq(Access) /\ p \in [1 .. Len(q) + 1 -> Int] /\ Len(q) \in Nat
  BY <1>1, LenProperties DEF Flight
<1>4. Busy /\ Cur = 2
  BY <1>2 DEF Busy, Cur
<1>5. Len(q) >= 1 /\ q # <<>>
  BY <1>1, <1>3, <1>4, EmptySeq DEF Partial
<1>6. q[1] \in Access
  BY <1>3, <1>5, ElementOfSeq
<1>7. WordAddr(addr_r) = q[1].addr
  BY <1>1, <1>4, <1>6, AddressRoundTrip DEF Ready, Access
<1>8. /\ q[1].kind = "write" =>
           /\ wb_state_r = "WB_WRITE_1" /\ wb_state_r' = "WB_WRITE_2"
           /\ byte_r = q[1].data
      /\ q[1].kind = "read" => wb_state_r = "WB_READ_1" /\ wb_state_r' = "WB_READ_2"
  BY <1>1, <1>2, <1>4 DEF Ready, Accessing
<1>9. /\ r \in Seq(Access) /\ Len(r) = Len(q) - 1
      /\ \A i \in 1 .. Len(r) : r[i] = q[i + 1]
  BY <1>3, <1>5, HeadTailProperties
<1>10. Flight(to_port, r, l)'
  BY <1>1, <1>2, <1>5, FlightDrop DEF Rest
<1>11. \A k \in 1 .. Len(q) : l[k] = p[k + 1]
  BY DEF Rest
<1> HIDE DEF r, l
<1>12. wb_state_r' \in {"WB_WRITE_2", "WB_READ_2"} /\ ~Busy' /\ Cur' = 1 /\ ~Accessing'
  BY <1>2 DEF Busy, Cur, Accessing
<1>13. Got[state] <= 1 /\ Got[state] \in 0 .. 8
  BY <1>1, <1>2, StateTable DEF PortTypeOK, Accessing
<1>14. PortTypeOK'
  BY <1>1, <1>2, <1>12, <1>13 DEF PortTypeOK
<1>15. Ready(r)'
  BY <1>12 DEF Ready
<1>16. Partial(r, l)'
  <2>1. 1 <= Len(r) + 1 /\ l[1] = -Got[state]
    BY <1>1, <1>3, <1>4, <1>5, <1>9, <1>11 DEF Partial
  <2>2. state # "S_IDLE" => 1 <= Len(r) /\ r[1].kind = KindOf(state)
    <3>1. SUFFICES ASSUME state # "S_IDLE"
                   PROVE  1 <= Len(r) /\ r[1].kind = KindOf(state)
      OBVIOUS
    <3>2. 2 <= Len(q) /\ q[2].kind = KindOf(state)
      BY <1>1, <1>4, <3>1 DEF Partial
    <3>3. 1 \in 1 .. Len(r)
      BY <3>2, <1>9, <1>3
    <3>4. r[1] = q[1 + 1]
      BY <3>3, <1>9
    <3>5. QED
      BY <3>2, <3>3, <3>4
  <2>3. /\ \A j \in 1 .. 4 : ~(j < Got[state])
        /\ \A j \in 1 .. 4 : ~(j + 4 < Got[state])
    BY <1>13
  <2>4. QED
    BY <2>1, <2>2, <2>3, <1>2, <1>12 DEF Partial
<1>17. QED
  BY <1>3, <1>5, <1>7, <1>8, <1>10, <1>14, <1>15, <1>16 DEF Port, r, l

(* Commands are sent: they come after all the others.                      *)
LEMMA SendKeeps ==
  ASSUME NEW q, NEW p, NEW r, NEW l, Port(q, p), Flight(to_port', r, l),
         Len(r) >= Len(q), \A k \in 1 .. Len(q) : r[k] = q[k],
         \A k \in 1 .. Len(q) + 1 : l[k] = p[k],
         UNCHANGED <<portVars, waited>>
  PROVE  Port(r, l)'
<1>1. /\ PortTypeOK /\ Ready(q) /\ Partial(q, p)
      /\ q \in Seq(Access) /\ r \in Seq(Access) /\ Len(q) \in Nat /\ Len(r) \in Nat
  BY LenProperties DEF Port, Flight
<1>2. UNCHANGED <<state, addr_r, byte_r, wb_state_r, waited>>
  BY DEF portVars
<1>3. Busy' = Busy /\ Cur' = Cur /\ Cur \in {1, 2} /\ (Busy => Cur = 2) /\ PortTypeOK'
  BY <1>1, <1>2 DEF Busy, Cur, Accessing, PortTypeOK
<1>4. Cur <= Len(q) + 1
  BY <1>1 DEF Partial
<1>5. l[Cur] = p[Cur]
  BY <1>1, <1>3, <1>4
<1>6. Busy => r[1] = q[1]
  BY <1>1, <1>3, <1>4
<1>7. state # "S_IDLE" => Cur \in 1 .. Len(q) /\ r[Cur] = q[Cur] /\ r[1] = q[1]
  BY <1>1, <1>3 DEF Partial
<1>8. Ready(r)'
  BY <1>1, <1>2, <1>3, <1>6 DEF Ready
<1>9. Partial(r, l)'
  BY <1>1, <1>2, <1>3, <1>4, <1>5, <1>7 DEF Partial
<1>10. QED
  BY <1>3, <1>8, <1>9 DEF Port

LEMMA SendOne ==
  ASSUME NEW q, NEW p, NEW x \in Access, Port(q, p),
         to_port' = to_port \o CommandBytes(x), UNCHANGED <<portVars, waited>>
  PROVE  \E l : Port(Append(q, x), l)'
<1>1. Flight(to_port, q, p) /\ q \in Seq(Access) /\ Len(q) \in Nat
  BY LenProperties DEF Port, Flight
<1>2. PICK r : r = Append(q, x)
  OBVIOUS
<1>3. PICK l : l = Longer(to_port, q, p, x)
  OBVIOUS
<1>4. Flight(to_port', r, l)
  BY <1>1, <1>2, <1>3, FlightAppend
<1>5. \A k \in 1 .. Len(q) + 1 : l[k] = p[k]
  BY <1>1, <1>3 DEF Longer
<1>6. Len(r) = Len(q) + 1 /\ \A k \in 1 .. Len(q) : r[k] = q[k]
  BY <1>1, <1>2, AppendProperties
<1>7. Len(r) >= Len(q)
  BY <1>1, <1>6
<1>8. Port(r, l)'
  BY <1>4, <1>5, <1>6, <1>7, SendKeeps
<1>9. QED
  BY <1>2, <1>8

LEMMA SendTwo ==
  ASSUME NEW q, NEW p, NEW x \in Access, NEW y \in Access, Port(q, p),
         to_port' = to_port \o (CommandBytes(x) \o CommandBytes(y)),
         UNCHANGED <<portVars, waited>>
  PROVE  \E l : Port(Append(Append(q, x), y), l)'
<1>1. Flight(to_port, q, p) /\ q \in Seq(Access) /\ Len(q) \in Nat /\ to_port \in Seq(Byte)
  BY LenProperties DEF Port, Flight
<1>2. PICK r : r = Append(q, x)
  OBVIOUS
<1>3. PICK l : l = Longer(to_port, q, p, x)
  OBVIOUS
<1>4. PICK s : s = to_port \o CommandBytes(x)
  OBVIOUS
<1>5. Flight(s, r, l)
  BY <1>1, <1>2, <1>3, <1>4, FlightAppend
<1>6. \A k \in 1 .. Len(q) + 1 : l[k] = p[k]
  BY <1>1, <1>3 DEF Longer
<1>7. r \in Seq(Access) /\ Len(r) = Len(q) + 1 /\ \A k \in 1 .. Len(q) : r[k] = q[k]
  BY <1>1, <1>2, AppendProperties
<1>8. to_port' = s \o CommandBytes(y)
  <2>1. CommandBytes(x) \in Seq(Byte) /\ CommandBytes(y) \in Seq(Byte)
    BY CommandShape
  <2>2. (to_port \o CommandBytes(x)) \o CommandBytes(y)
          = to_port \o (CommandBytes(x) \o CommandBytes(y))
    <3>1. \A u, v, w \in Seq(Byte) : (u \o v) \o w = u \o (v \o w)
      BY ConcatAssociative
    <3>2. QED
      BY <1>1, <2>1, <3>1, Zenon
  <2>3. QED
    BY <2>2, <1>4
<1>9. PICK t : t = Append(r, y)
  OBVIOUS
<1>10. PICK m : m = Longer(s, r, l, y)
  OBVIOUS
<1>11. Flight(to_port', t, m)
  BY <1>5, <1>8, <1>9, <1>10, FlightAppend
<1>12. \A k \in 1 .. Len(r) + 1 : m[k] = l[k]
  BY <1>1, <1>7, <1>10 DEF Longer
<1>13. Len(t) = Len(r) + 1 /\ \A k \in 1 .. Len(r) : t[k] = r[k]
  BY <1>7, <1>9, AppendProperties
<1>14. /\ Len(t) >= Len(q) /\ \A k \in 1 .. Len(q) : t[k] = q[k]
       /\ \A k \in 1 .. Len(q) + 1 : m[k] = p[k]
  BY <1>1, <1>6, <1>7, <1>12, <1>13
<1>15. Port(t, m)'
  BY <1>11, <1>14, SendKeeps
<1>16. QED
  BY <1>2, <1>9, <1>15

-----------------------------------------------------------------------------
(* What memory m will hold at a when the accesses q are done.              *)
WritesAt(q, k, a) == q[k].kind = "write" /\ q[k].addr = a
Due(q, m, a, w) ==
  \/ \E k \in 1 .. Len(q) :
       /\ WritesAt(q, k, a) /\ q[k].data = w
       /\ \A j \in 1 .. Len(q) : j > k => ~WritesAt(q, j, a)
  \/ /\ \A j \in 1 .. Len(q) : ~WritesAt(q, j, a)
     /\ a \in DOMAIN m /\ m[a] = w
Done(q, m) ==
  IF q[1].kind = "write"
  THEN [a \in DOMAIN m \cup {q[1].addr} |-> IF a = q[1].addr THEN q[1].data ELSE m[a]]
  ELSE m

LEMMA DueOther ==
  ASSUME NEW q \in Seq(Access), NEW x \in Access, NEW m, NEW a, NEW w,
         Due(q, m, a, w), ~(x.kind = "write" /\ x.addr = a)
  PROVE  Due(Append(q, x), m, a, w)
<1> DEFINE r == Append(q, x)
<1>1. /\ Len(q) \in Nat /\ Len(r) = Len(q) + 1 /\ r[Len(q) + 1] = x
      /\ \A k \in 1 .. Len(q) : r[k] = q[k]
  BY AppendProperties, LenProperties
<1> HIDE DEF r
<1>2. \A j \in 1 .. Len(r) : j \in 1 .. Len(q) \/ j = Len(q) + 1
  BY <1>1
<1>3. ~WritesAt(r, Len(q) + 1, a) /\ \A k \in 1 .. Len(q) : WritesAt(r, k, a) <=> WritesAt(q, k, a)
  BY <1>1 DEF WritesAt
<1>4. CASE \E k \in 1 .. Len(q) :
             /\ WritesAt(q, k, a) /\ q[k].data = w
             /\ \A j \in 1 .. Len(q) : j > k => ~WritesAt(q, j, a)
  <2>1. PICK k \in 1 .. Len(q) :
          /\ WritesAt(q, k, a) /\ q[k].data = w
          /\ \A j \in 1 .. Len(q) : j > k => ~WritesAt(q, j, a)
    BY <1>4
  <2>2. /\ k \in 1 .. Len(r) /\ WritesAt(r, k, a) /\ r[k].data = w
        /\ \A j \in 1 .. Len(r) : j > k => ~WritesAt(r, j, a)
    BY <2>1, <1>1, <1>2, <1>3
  <2>3. QED
    BY <2>2 DEF Due, r
<1>5. CASE (\A j \in 1 .. Len(q) : ~WritesAt(q, j, a)) /\ a \in DOMAIN m /\ m[a] = w
  <2>1. \A j \in 1 .. Len(r) : ~WritesAt(r, j, a)
    BY <1>2, <1>3, <1>5
  <2>2. QED
    BY <2>1, <1>5 DEF Due, r
<1>6. QED
  BY <1>4, <1>5 DEF Due

LEMMA DueNew ==
  ASSUME NEW q \in Seq(Access), NEW x \in Access, NEW m, x.kind = "write"
  PROVE  Due(Append(q, x), m, x.addr, x.data)
<1> DEFINE r == Append(q, x)
<1>1. Len(q) \in Nat /\ Len(r) = Len(q) + 1 /\ r[Len(q) + 1] = x
  BY AppendProperties, LenProperties
<1> HIDE DEF r
<1>2. /\ Len(q) + 1 \in 1 .. Len(r) /\ WritesAt(r, Len(q) + 1, x.addr)
      /\ r[Len(q) + 1].data = x.data /\ \A j \in 1 .. Len(r) : ~(j > Len(q) + 1)
  BY <1>1 DEF WritesAt
<1>3. QED
  BY <1>2 DEF Due, r

LEMMA DueDone ==
  ASSUME NEW q \in Seq(Access), NEW m, NEW a, NEW w, q # <<>>, Due(q, m, a, w)
  PROVE  Due(Tail(q), Done(q, m), a, w)
<1> DEFINE r == Tail(q)
           d == Done(q, m)
<1>1. /\ Len(q) \in Nat /\ Len(q) >= 1 /\ Len(r) = Len(q) - 1
      /\ \A i \in 1 .. Len(r) : r[i] = q[i + 1]
  BY HeadTailProperties, LenProperties, EmptySeq
<1>2. /\ ~WritesAt(q, 1, a) /\ a \in DOMAIN m /\ m[a] = w => a \in DOMAIN d /\ d[a] = w
      /\ WritesAt(q, 1, a) => a \in DOMAIN d /\ d[a] = q[1].data
  BY DEF Done, WritesAt
<1> HIDE DEF r, d
<1>3. \A i \in 1 .. Len(r) : i + 1 \in 1 .. Len(q) /\ (WritesAt(r, i, a) <=> WritesAt(q, i + 1, a))
  BY <1>1 DEF WritesAt
<1>4. CASE \E k \in 1 .. Len(q) :
             /\ WritesAt(q, k, a) /\ q[k].data = w
             /\ \A j \in 1 .. Len(q) : j > k => ~WritesAt(q, j, a)
  <2>1. PICK k \in 1 .. Len(q) :
          /\ WritesAt(q, k, a) /\ q[k].data = w
          /\ \A j \in 1 .. Len(q) : j > k => ~WritesAt(q, j, a)
    BY <1>4
  <2>2. CASE k = 1
    <3>1. \A j \in 1 .. Len(r) : ~WritesAt(r, j, a)
      BY <2>1, <2>2, <1>3
    <3>2. QED
      BY <3>1, <2>1, <2>2, <1>2 DEF Due, r, d
  <2>3. CASE k > 1
    <3>1. k - 1 \in 1 .. Len(r) /\ (k - 1) + 1 = k
      BY <2>3, <1>1
    <3>2. WritesAt(r, k - 1, a) /\ r[k - 1].data = w
      BY <3>1, <2>1, <1>1, <1>3
    <3>3. \A j \in 1 .. Len(r) : j > k - 1 => ~WritesAt(r, j, a)
      BY <2>1, <1>3
    <3>4. QED
      BY <3>1, <3>2, <3>3 DEF Due, r
  <2>4. QED
    BY <2>2, <2>3
<1>5. CASE (\A j \in 1 .. Len(q) : ~WritesAt(q, j, a)) /\ a \in DOMAIN m /\ m[a] = w
  <2>1. 1 \in 1 .. Len(q)
    BY <1>1
  <2>2. \A j \in 1 .. Len(r) : ~WritesAt(r, j, a)
    BY <1>3, <1>5
  <2>3. QED
    BY <2>1, <2>2, <1>2, <1>5 DEF Due, r, d
<1>6. QED
  BY <1>4, <1>5 DEF Due

-----------------------------------------------------------------------------
LEMMA CommandParts ==
  ASSUME NEW c \in Command
  PROVE  /\ c.op \in {"w32", "dump", "load-imem", "load-dmem"}
         /\ c.addr \in Nat /\ c.addr \in BusAddr
         /\ c.op = "w32" => c.value \in Word
         /\ c.op # "w32" => c.len \in Nat /\ (c.addr + c.len) \div 65536 < 65536
         /\ c.op = "load-imem" => c.len >= 1 /\ c.file \in ImemFile
         /\ c.op = "load-dmem" => c.file \in DmemFile
  BY DEF Command, Addr, BusAddr, Length

LEMMA FileParts ==
  /\ \A f \in ImemFile :
       /\ Len(f) \in Nat /\ DOMAIN f = 1 .. Len(f)
       /\ \A i \in 1 .. Len(f) : f[i].low \in Word /\ f[i].high \in Word
  /\ \A f \in DmemFile :
       /\ Len(f) \in Nat /\ DOMAIN f = 1 .. Len(f)
       /\ \A i \in 1 .. Len(f) : f[i] \in Word
<1>1. ASSUME NEW f \in ImemFile
      PROVE  /\ Len(f) \in Nat /\ DOMAIN f = 1 .. Len(f)
             /\ \A i \in 1 .. Len(f) : f[i].low \in Word /\ f[i].high \in Word
  <2>1. f \in Seq([low : Word, high : Word])
    BY DEF ImemFile
  <2>2. \A i \in 1 .. Len(f) : f[i] \in [low : Word, high : Word]
    BY <2>1, ElementOfSeq
  <2>3. QED
    BY <2>1, <2>2, LenProperties
<1>2. ASSUME NEW f \in DmemFile
      PROVE  /\ Len(f) \in Nat /\ DOMAIN f = 1 .. Len(f)
             /\ \A i \in 1 .. Len(f) : f[i] \in Word
  BY LenProperties, ElementOfSeq DEF DmemFile
<1>3. QED
  BY <1>1, <1>2

(* Every write that is done or on the way is in a range of the command     *)
(* line.                                                                   *)
Named(a) == \E i \in DOMAIN argv : MayWrite(argv[i]) /\ a \in Cells(argv[i])
AllNamed(q, m) ==
  /\ \A k \in 1 .. Len(q) : q[k].kind = "write" => Named(q[k].addr)
  /\ \A a \in DOMAIN m : Named(a) /\ m[a] \in Word

(* The words of the loads that are over are due; the write that releases   *)
(* the cores comes after all of them.                                      *)
Kept(q, m) ==
  \A i \in DOMAIN argv : i < arg /\ IsLoad(argv[i]) =>
    \A w \in Words(argv[i]) : Due(q, m, Place(argv[i], w), WordOfFile(argv[i], w))
Releases(q, m) == ResetCtrl \in DOMAIN m \/ \E k \in 1 .. Len(q) : WritesAt(q, k, ResetCtrl)
LoadsFirst(q, m) == Releases(q, m) => \A i \in DOMAIN argv : IsLoad(argv[i]) => i < arg
InLoad(a) == \E i \in DOMAIN argv : IsLoad(argv[i]) /\ a \in Cells(argv[i])
LoadsBefore(q, m) ==
  \A k \in 1 .. Len(q) : q[k].kind = "write" /\ InLoad(q[k].addr) =>
    /\ ResetCtrl \notin DOMAIN m
    /\ \A j \in 1 .. Len(q) : j < k => ~WritesAt(q, j, ResetCtrl)
Memory(q, m) ==
  /\ AllNamed(q, m)
  /\ Orderly(argv) => Kept(q, m) /\ LoadsFirst(q, m) /\ LoadsBefore(q, m)

LEMMA PlaceInCells ==
  ASSUME NEW c \in Command, IsLoad(c), NEW w \in Words(c)
  PROVE  Place(c, w) \in Cells(c)
<1>1. c.addr \in Nat /\ c.len \in Nat /\ c.op # "w32"
  BY CommandParts DEF IsLoad
<1>2. w \in Nat /\ w >= 1 /\ 4 * (w - 1) < c.len
  BY DEF Words
<1>3. c.addr + 4 * (w - 1) \in c.addr .. c.addr + c.len - 1
  BY <1>1, <1>2
<1>4. QED
  BY <1>1, <1>3 DEF Place, Cells

(* A write of the present command leaves all this.                         *)
LEMMA MemoryWrite ==
  ASSUME NEW q \in Seq(Access), NEW m, Memory(q, m), argv \in Seq(Command),
         arg \in DOMAIN argv, MayWrite(argv[arg]),
         NEW x \in Access, x.kind = "write", x.addr \in Cells(argv[arg])
  PROVE  Memory(Append(q, x), m)
<1> DEFINE r == Append(q, x)
<1>1. /\ Len(q) \in Nat /\ Len(r) = Len(q) + 1 /\ r[Len(q) + 1] = x
      /\ \A k \in 1 .. Len(q) : r[k] = q[k]
  BY AppendProperties, LenProperties
<1> HIDE DEF r
<1>2. \A k \in 1 .. Len(r) : (k \in 1 .. Len(q) /\ r[k] = q[k]) \/ (k = Len(q) + 1 /\ r[k] = x)
  BY <1>1
<1>3. AllNamed(r, m)
  BY <1>2 DEF AllNamed, Memory, Named
<1>4. ASSUME Orderly(argv)
      PROVE  Kept(r, m) /\ LoadsFirst(r, m) /\ LoadsBefore(r, m)
  <2>1. Kept(q, m) /\ LoadsFirst(q, m) /\ LoadsBefore(q, m)
    BY <1>4 DEF Memory
  <2>2. ASSUME NEW i \in DOMAIN argv, i < arg, IsLoad(argv[i])
        PROVE  x.addr \notin Cells(argv[i])
    <3>1. Cells(argv[i]) \cap Cells(argv[arg]) = {}
      BY <2>2, <1>4 DEF Orderly
    <3>2. QED
      BY <3>1
  <2>3. Kept(r, m)
    <3>1. SUFFICES ASSUME NEW i \in DOMAIN argv, i < arg, IsLoad(argv[i]), NEW w \in Words(argv[i])
                   PROVE  Due(r, m, Place(argv[i], w), WordOfFile(argv[i], w))
      BY DEF Kept
    <3>2. argv[i] \in Command
      BY ElementOfSeq, LenProperties
    <3>3. Place(argv[i], w) # x.addr
      BY <3>1, <3>2, <2>2, PlaceInCells
    <3>4. Due(q, m, Place(argv[i], w), WordOfFile(argv[i], w))
      BY <3>1, <2>1 DEF Kept
    <3>5. QED
      BY <3>3, <3>4, DueOther DEF r
  <2>4. LoadsFirst(r, m)
    <3>1. SUFFICES ASSUME Releases(r, m), NEW i \in DOMAIN argv, IsLoad(argv[i])
                   PROVE  i < arg
      BY DEF LoadsFirst
    <3>2. CASE Releases(q, m)
      BY <3>1, <3>2, <2>1 DEF LoadsFirst
    <3>3. CASE ~Releases(q, m)
      <4>1. x.addr = ResetCtrl
        BY <3>1, <3>3, <1>2 DEF Releases, WritesAt
      <4>2. ResetCtrl \in Cells(argv[arg])
        BY <4>1
      <4>3. QED
        BY <4>2, <3>1, <1>4 DEF Orderly
    <3>4. QED
      BY <3>2, <3>3
  <2>5. LoadsBefore(r, m)
    <3>1. SUFFICES ASSUME NEW k \in 1 .. Len(r), r[k].kind = "write", InLoad(r[k].addr)
                   PROVE  /\ ResetCtrl \notin DOMAIN m
                          /\ \A j \in 1 .. Len(r) : j < k => ~WritesAt(r, j, ResetCtrl)
      BY DEF LoadsBefore
    <3>2. CASE k \in 1 .. Len(q) /\ r[k] = q[k]
      <4>1. /\ ResetCtrl \notin DOMAIN m
            /\ \A j \in 1 .. Len(q) : j < k => ~WritesAt(q, j, ResetCtrl)
        BY <3>1, <3>2, <2>1 DEF LoadsBefore
      <4>2. ASSUME NEW j \in 1 .. Len(r), j < k
            PROVE  ~WritesAt(r, j, ResetCtrl)
        <5>1. j \in 1 .. Len(q) /\ r[j] = q[j]
          BY <4>2, <3>2, <1>1
        <5>2. QED
          BY <5>1, <4>1, <4>2 DEF WritesAt
      <4>3. QED
        BY <4>1, <4>2
    <3>3. CASE k = Len(q) + 1 /\ r[k] = x
      <4>1. PICK i \in DOMAIN argv : IsLoad(argv[i]) /\ x.addr \in Cells(argv[i])
        BY <3>1, <3>3 DEF InLoad
      <4>2. ~Releases(q, m)
        <5>1. SUFFICES ASSUME Releases(q, m) PROVE FALSE
          OBVIOUS
        <5>2. i < arg
          BY <4>1, <5>1, <2>1 DEF LoadsFirst
        <5>3. QED
          BY <4>1, <5>2, <2>2
      <4>3. ASSUME NEW j \in 1 .. Len(r), j < k
            PROVE  ~WritesAt(r, j, ResetCtrl)
        <5>1. j \in 1 .. Len(q) /\ r[j] = q[j]
          BY <4>3, <3>3, <1>1
        <5>2. QED
          BY <5>1, <4>2 DEF WritesAt, Releases
      <4>4. QED
        BY <4>2, <4>3 DEF Releases
    <3>4. QED
      BY <1>2, <3>2, <3>3
  <2>6. QED
    BY <2>3, <2>4, <2>5
<1>5. QED
  BY <1>3, <1>4 DEF Memory, r

(* So does a read.                                                         *)
LEMMA MemoryRead ==
  ASSUME NEW q \in Seq(Access), NEW m, Memory(q, m), argv \in Seq(Command),
         NEW x \in Access, x.kind = "read"
  PROVE  Memory(Append(q, x), m)
<1> DEFINE r == Append(q, x)
<1>1. /\ Len(q) \in Nat /\ Len(r) = Len(q) + 1 /\ r[Len(q) + 1] = x
      /\ \A k \in 1 .. Len(q) : r[k] = q[k]
  BY AppendProperties, LenProperties
<1>3. Kept(q, m) => Kept(r, m)
  BY DueOther DEF Kept
<1> HIDE DEF r
<1>4. \A k \in 1 .. Len(r) : (k \in 1 .. Len(q) /\ r[k] = q[k]) \/ (k = Len(q) + 1 /\ r[k] = x)
  BY <1>1
<1>5. AllNamed(q, m) => AllNamed(r, m)
  BY <1>4 DEF AllNamed, Named
<1>6. Releases(r, m) => Releases(q, m)
  BY <1>4 DEF Releases, WritesAt
<1>7. LoadsFirst(q, m) => LoadsFirst(r, m)
  BY <1>6 DEF LoadsFirst
<1>8. LoadsBefore(q, m) => LoadsBefore(r, m)
  BY <1>1, <1>4 DEF LoadsBefore, WritesAt
<1>9. QED
  BY <1>3, <1>5, <1>7, <1>8 DEF Memory, r

(* An access is done.                                                      *)
LEMMA MemoryDone ==
  ASSUME NEW q \in Seq(Access), NEW m, Memory(q, m), q # <<>>
  PROVE  Memory(Tail(q), Done(q, m))
<1> DEFINE r == Tail(q)
           d == Done(q, m)
<1>1. /\ Len(q) \in Nat /\ Len(q) >= 1 /\ Len(r) = Len(q) - 1 /\ q[1] \in Access
      /\ \A i \in 1 .. Len(r) : r[i] = q[i + 1] /\ i + 1 \in 1 .. Len(q)
  BY HeadTailProperties, LenProperties, EmptySeq, ElementOfSeq
<1>2. \A a \in DOMAIN d : \/ a \in DOMAIN m /\ d[a] = m[a]
                          \/ a = q[1].addr /\ q[1].kind = "write" /\ d[a] = q[1].data
  BY DEF Done
<1>3. Kept(q, m) => Kept(r, d)
  BY DueDone DEF Kept
<1> HIDE DEF r, d
<1>4. 1 \in 1 .. Len(q)
  BY <1>1
<1>5. AllNamed(q, m) => AllNamed(r, d)
  <2>1. SUFFICES ASSUME AllNamed(q, m) PROVE AllNamed(r, d)
    OBVIOUS
  <2>2. q[1].data \in Word
    BY <1>1 DEF Access
  <2>3. \A a \in DOMAIN d : Named(a) /\ d[a] \in Word
    BY <2>1, <2>2, <1>2, <1>4 DEF AllNamed
  <2>4. \A k \in 1 .. Len(r) : r[k].kind = "write" => Named(r[k].addr)
    BY <2>1, <1>1 DEF AllNamed
  <2>5. QED
    BY <2>3, <2>4 DEF AllNamed
<1>6. Releases(r, d) => Releases(q, m)
  BY <1>1, <1>2, <1>4 DEF Releases, WritesAt
<1>7. LoadsFirst(q, m) => LoadsFirst(r, d)
  BY <1>6 DEF LoadsFirst
<1>8. LoadsBefore(q, m) => LoadsBefore(r, d)
  <2>1. SUFFICES ASSUME LoadsBefore(q, m),
                        NEW k \in 1 .. Len(r), r[k].kind = "write", InLoad(r[k].addr)
                 PROVE  /\ ResetCtrl \notin DOMAIN d
                        /\ \A j \in 1 .. Len(r) : j < k => ~WritesAt(r, j, ResetCtrl)
    BY DEF LoadsBefore
  <2>2. /\ ResetCtrl \notin DOMAIN m
        /\ \A j \in 1 .. Len(q) : j < k + 1 => ~WritesAt(q, j, ResetCtrl)
    BY <2>1, <1>1 DEF LoadsBefore
  <2>3. ~WritesAt(q, 1, ResetCtrl)
    BY <2>2, <1>4
  <2>4. ResetCtrl \notin DOMAIN d
    BY <2>2, <2>3, <1>2 DEF WritesAt
  <2>5. ASSUME NEW j \in 1 .. Len(r), j < k
        PROVE  ~WritesAt(r, j, ResetCtrl)
    <3>1. r[j] = q[j + 1] /\ j + 1 \in 1 .. Len(q) /\ j + 1 < k + 1
      BY <2>5, <1>1
    <3>2. QED
      BY <3>1, <2>2 DEF WritesAt
  <2>6. QED
    BY <2>4, <2>5
<1>9. QED
  BY <1>3, <1>5, <1>7, <1>8 DEF Memory, r, d

-----------------------------------------------------------------------------
Loading == host \in {"load-imem", "load-dmem"}
HostOK ==
  /\ argv \in Seq(Command) /\ arg \in Nat \ {0}
  /\ host \in {"off", "args", "done", "load-imem", "load-dmem", "dump", "read"}
  /\ host \in {"load-imem", "load-dmem", "dump", "read"} => arg \in DOMAIN argv
  /\ Loading => Now.op = host
  /\ host \in {"dump", "read"} =>
       /\ Now.op = "dump" /\ job.addr \in Nat /\ job.len \in Int
       /\ job.addr + job.len = Now.addr + Now.len
  /\ DOMAIN locals = {"low", "high", "data"} /\ locals.low \in Word /\ locals.high \in Word
Off(q, m) == host = "off" => q = <<>> /\ DOMAIN m = {} /\ arg = 1

(* How far the present load is: the words it has sent, those after the end *)
(* of the file included, are due.                                          *)
SentWords ==
  IF host = "load-imem" THEN 2 * line + (IF eof THEN 2 ELSE 0)
                        ELSE line \div 2 + (IF eof THEN 1 ELSE 0)
DueUpTo(q, m, c, n) ==
  \A w \in 1 .. WordCount(c) : w <= n => Due(q, m, Place(c, w), WordOfFile(c, w))
Progress(q, m) ==
  Loading =>
    /\ eof \in BOOLEAN /\ line \in 0 .. Len(Now.file)
    /\ eof => line = Len(Now.file)
    /\ job.addr = Now.addr + 4 * SentWords
    /\ job.len = Now.len - 4 * SentWords
    /\ host = "load-imem" => job.len > 0
    /\ host = "load-dmem" /\ ~eof => line % 2 = 0
    /\ DueUpTo(q, m, Now, SentWords)

Base(q, m) == HostOK /\ Off(q, m) /\ Memory(q, m) /\ Progress(q, m)

LEMMA MemoryStays ==
  ASSUME NEW q, NEW m, Memory(q, m), UNCHANGED <<argv, arg>>
  PROVE  Memory(q, m)'
BY DEF Memory, AllNamed, Named, Kept, LoadsFirst, LoadsBefore, InLoad, Releases

(* The command that is over was not a load, or all its words are due.      *)
LEMMA MemoryNext ==
  ASSUME NEW q, NEW m, Memory(q, m), argv \in Seq(Command), arg \in Nat,
         argv' = argv, arg' = arg + 1,
         arg \in DOMAIN argv /\ IsLoad(argv[arg]) =>
           \A w \in Words(argv[arg]) :
             Due(q, m, Place(argv[arg], w), WordOfFile(argv[arg], w))
  PROVE  Memory(q, m)'
<1>1. AllNamed(q, m)'
  BY DEF Memory, AllNamed, Named
<1>2. DOMAIN argv \subseteq Nat
  BY LenProperties
<1>3. \A i \in DOMAIN argv : (i < arg + 1 <=> i < arg \/ i = arg)
  BY <1>2
<1>4. Kept(q, m) => Kept(q, m)'
  BY <1>3 DEF Kept
<1>5. LoadsFirst(q, m) => LoadsFirst(q, m)'
  BY <1>3 DEF LoadsFirst, Releases
<1>6. LoadsBefore(q, m) => LoadsBefore(q, m)'
  BY DEF LoadsBefore, InLoad
<1>7. QED
  BY <1>1, <1>4, <1>5, <1>6 DEF Memory

LEMMA HostStays ==
  ASSUME NEW q, NEW m, Base(q, m), UNCHANGED hostVars
  PROVE  Base(q, m)'
<1>1. UNCHANGED <<argv, arg, host, job, line, eof, locals>>
  BY DEF hostVars
<1>2. Memory(q, m)'
  BY <1>1, MemoryStays DEF Base
<1>3. QED
  BY <1>1, <1>2 DEF Base, HostOK, Loading, Now, Off, Progress, SentWords, DueUpTo

LEMMA DueOneMore ==
  ASSUME NEW q \in Seq(Access), NEW m, NEW c \in Command, IsLoad(c), NEW n \in Nat,
         DueUpTo(q, m, c, n), NEW x \in Access, x.kind = "write", x.addr = c.addr + 4 * n,
         n + 1 <= WordCount(c) => x.data = WordOfFile(c, n + 1)
  PROVE  DueUpTo(Append(q, x), m, c, n + 1)
<1> SUFFICES ASSUME NEW w \in 1 .. WordCount(c), w <= n + 1
             PROVE  Due(Append(q, x), m, Place(c, w), WordOfFile(c, w))
  BY DEF DueUpTo
<1>1. w \in Nat /\ w >= 1 /\ c.addr \in Nat
  BY CommandParts
<1>2. CASE w = n + 1
  <2>1. Place(c, w) = x.addr
    BY <1>1, <1>2 DEF Place
  <2>2. WordCount(c) \in Int
    BY CommandParts, FileParts DEF WordCount, IsLoad
  <2>3. WordOfFile(c, w) = x.data
    BY <1>2, <2>2
  <2>4. QED
    BY <2>1, <2>3, DueNew
<1>3. CASE w <= n
  <2>1. Place(c, w) # x.addr
    BY <1>1, <1>3 DEF Place
  <2>2. Due(q, m, Place(c, w), WordOfFile(c, w))
    BY <1>3 DEF DueUpTo
  <2>3. QED
    BY <2>1, <2>2, DueOther
<1>4. QED
  BY <1>1, <1>2, <1>3

LEMMA BusAckBase ==
  ASSUME NEW q, NEW p, NEW m, Port(q, p), Base(q, mem), BusAck, m = mem'
  PROVE  Base(Tail(q), m)' /\ m = Done(q, mem)
<1>1. /\ q \in Seq(Access) /\ q # <<>> /\ WordAddr(addr_r) = q[1].addr
      /\ q[1].kind = "write" => wb_state_r = "WB_WRITE_1" /\ byte_r = q[1].data
      /\ q[1].kind = "read" => wb_state_r = "WB_READ_1"
  BY BusAckKeeps
<1>2. q[1].kind \in {"write", "read"}
  <2>1. 1 \in 1 .. Len(q)
    BY <1>1, EmptySeq
  <2>2. q[1] \in Access
    BY <1>1, <2>1, ElementOfSeq
  <2>3. QED
    BY <2>2 DEF Access
<1>3. mem' = Done(q, mem)
  BY <1>1, <1>2 DEF BusAck, Done
<1>4. UNCHANGED hostVars
  BY DEF BusAck
<1>5. Memory(Tail(q), m)
  BY <1>1, <1>3, MemoryDone DEF Base
<1>6. Progress(Tail(q), m)
  BY <1>1, <1>3, DueDone DEF Base, Progress, DueUpTo
<1>7. Off(Tail(q), m)
  BY <1>1 DEF Base, Off
<1>8. Base(Tail(q), m)
  BY <1>5, <1>6, <1>7 DEF Base
<1>9. QED
  BY <1>3, <1>4, <1>8, HostStays

-----------------------------------------------------------------------------
(* Steps of the host.                                                      *)
OnlyWrites(q) == \A k \in 1 .. Len(q) : q[k].kind = "write"

LEMMA AppendWrite ==
  ASSUME NEW q \in Seq(Access), NEW x \in Access, x.kind = "write"
  PROVE  /\ Append(q, x) \in Seq(Access)
         /\ OnlyWrites(q) => OnlyWrites(Append(q, x))
BY AppendProperties DEF OnlyWrites

LEMMA NextArgBase ==
  ASSUME NEW q, NEW p, NEW m, Port(q, p), Base(q, m), NextArg
  PROVE  \E r, l : Port(r, l)' /\ Base(r, m)' /\ (OnlyWrites(q) => OnlyWrites(r))
<1>1. HostOK /\ Off(q, m) /\ Memory(q, m) /\ Progress(q, m) /\ q \in Seq(Access)
  BY DEF Base, Port, Flight
<1>2. /\ host = "args" /\ arg <= Len(argv) /\ argv \in Seq(Command) /\ arg \in Nat \ {0}
      /\ argv' = argv /\ locals' = locals
      /\ UNCHANGED <<portVars, waited>>
  BY <1>1 DEF NextArg, HostOK, busVars
<1>3. arg \in DOMAIN argv /\ Now \in Command
  BY <1>2, LenProperties, ElementOfSeq DEF Now
<1>4. CASE Now.op = "w32"
  <2>1. /\ to_port' = to_port \o wb_debug_w32(Now.addr, Now.value)
        /\ host' = "args" /\ arg' = arg + 1
    BY <1>4 DEF NextArg, Sent, EndJob
  <2>2. PICK x : x = [kind |-> "write", addr |-> Now.addr, data |-> Now.value]
    OBVIOUS
  <2>3. x \in Access /\ x.kind = "write" /\ x.addr = Now.addr
    BY <2>2, <1>3, <1>4, CommandParts DEF Access
  <2>4. CommandBytes(x) = wb_debug_w32(Now.addr, Now.value)
    BY <2>2 DEF CommandBytes
  <2>5. PICK l : Port(Append(q, x), l)'
    BY <2>1, <2>3, <2>4, <1>2, SendOne
  <2>6. Memory(Append(q, x), m)
    <3>1. MayWrite(argv[arg]) /\ x.addr \in Cells(argv[arg])
      BY <1>4, <2>3 DEF MayWrite, Cells, Now
    <3>2. QED
      BY <3>1, <1>1, <1>2, <1>3, <2>3, MemoryWrite
  <2>7. Memory(Append(q, x), m)'
    <3>1. ~IsLoad(argv[arg])
      BY <1>4 DEF IsLoad, Now
    <3>2. QED
      BY <3>1, <2>1, <2>6, <1>2, MemoryNext
  <2>8. HostOK' /\ ~Loading' /\ host' # "off"
    BY <2>1, <1>1, <1>2 DEF HostOK, Loading
  <2>9. Base(Append(q, x), m)'
    BY <2>7, <2>8 DEF Base, Off, Progress
  <2>10. QED
    BY <1>1, <2>3, <2>5, <2>9, AppendWrite
<1>5. CASE Now.op # "w32"
  <2>1. /\ host' = Now.op /\ job' = [addr |-> Now.addr, len |-> Now.len]
        /\ line' = 0 /\ eof' = FALSE /\ arg' = arg /\ to_port' = to_port
    BY <1>5 DEF NextArg
  <2>2. /\ Now.op \in {"dump", "load-imem", "load-dmem"} /\ Now.addr \in Nat /\ Now.len \in Nat
        /\ Now.op = "load-imem" => Now.len >= 1 /\ Now.file \in ImemFile
        /\ Now.op = "load-dmem" => Now.file \in DmemFile
    <3>1. PICK c \in Command : c = Now
      BY <1>3
    <3>2. /\ c.op \in {"w32", "dump", "load-imem", "load-dmem"} /\ c.addr \in Nat
          /\ c.op # "w32" => c.len \in Nat
          /\ c.op = "load-imem" => c.len >= 1 /\ c.file \in ImemFile
          /\ c.op = "load-dmem" => c.file \in DmemFile
      BY CommandParts
    <3>3. QED
      BY <1>5, <3>1, <3>2
  <2>3. Now' = Now
    BY <1>2, <2>1 DEF Now
  <2>4. Memory(q, m)'
    BY <1>1, <1>2, <2>1, MemoryStays
  <2>5. HostOK'
    <3>1. arg' \in DOMAIN argv' /\ argv' \in Seq(Command) /\ arg' \in Nat \ {0}
      BY <1>2, <1>3, <2>1
    <3>2. host' \in {"dump", "load-imem", "load-dmem"} /\ Now'.op = host'
      BY <2>1, <2>2, <2>3
    <3>3. job'.addr = Now'.addr /\ job'.len = Now'.len /\ Now'.addr \in Nat /\ Now'.len \in Nat
      BY <2>1, <2>2, <2>3
    <3>4. DOMAIN locals' = {"low", "high", "data"} /\ locals'.low \in Word /\ locals'.high \in Word
      BY <1>1, <1>2 DEF HostOK
    <3>5. QED
      BY <3>1, <3>2, <3>3, <3>4 DEF HostOK, Loading
  <2>6. Progress(q, m)'
    <3>1. SUFFICES ASSUME Loading'
                   PROVE  /\ eof' \in BOOLEAN /\ line' \in 0 .. Len(Now'.file)
                          /\ eof' => line' = Len(Now'.file)
                          /\ job'.addr = Now'.addr + 4 * SentWords'
                          /\ job'.len = Now'.len - 4 * SentWords'
                          /\ host' = "load-imem" => job'.len > 0
                          /\ host' = "load-dmem" /\ ~eof' => line' % 2 = 0
                          /\ DueUpTo(q, m, Now, SentWords)'
      BY DEF Progress
    <3>2. SentWords' = 0
      BY <2>1 DEF SentWords
    <3>3. Len(Now.file) \in Nat
      BY <3>1, <2>1, <2>2, FileParts DEF Loading
    <3>4. DueUpTo(q, m, Now, SentWords)'
      BY <3>2 DEF DueUpTo
    <3>5. /\ eof' \in BOOLEAN /\ ~eof'
          /\ line' \in 0 .. Len(Now'.file) /\ line' % 2 = 0
      <4>1. eof' \in BOOLEAN /\ ~eof'
        BY <2>1, Zenon
      <4>2. line' = 0 /\ Len(Now'.file) \in Nat
        BY <2>1, <2>3, <3>3, Zenon
      <4>3. QED
        BY <4>1, <4>2
    <3>6. job'.addr = Now'.addr + 4 * SentWords' /\ job'.len = Now'.len - 4 * SentWords'
      BY <2>1, <2>2, <2>3, <3>2
    <3>7. host' = "load-imem" => job'.len > 0
      BY <2>1, <2>2
    <3>8. QED
      BY <3>4, <3>5, <3>6, <3>7
  <2>7. Port(q, p)'
    BY <1>2, <2>1 DEF Port, Flight, PortTypeOK, Ready, Partial, Busy, Cur, Accessing, portVars
  <2>8. Base(q, m)'
    BY <2>1, <2>2, <2>4, <2>5, <2>6 DEF Base, Off
  <2>9. QED
    BY <2>7, <2>8
<1>6. QED
  BY <1>4, <1>5

LEMMA QuietKeeps ==
  ASSUME NEW q, NEW p, Port(q, p), UNCHANGED <<to_port, portVars, waited>>
  PROVE  Port(q, p)'
BY DEF Port, Flight, PortTypeOK, Ready, Partial, Busy, Cur, Accessing, portVars

(* A function of the host returns to main.                                 *)
LEMMA JobOver ==
  ASSUME NEW q, NEW m, HostOK, Memory(q, m), arg \in DOMAIN argv, argv' = argv, EndJob,
         DOMAIN locals' = {"low", "high", "data"}, locals'.low \in Word, locals'.high \in Word,
         IsLoad(Now) => \A w \in Words(Now) : Due(q, m, Place(Now, w), WordOfFile(Now, w))
  PROVE  Base(q, m)'
<1>1. Memory(q, m)'
  BY MemoryNext DEF EndJob, HostOK, Now
<1>2. HostOK' /\ ~Loading' /\ host' # "off"
  BY DEF HostOK, Loading, EndJob
<1>3. QED
  BY <1>1, <1>2 DEF Base, Off, Progress

(* A load is over when all the words of its file that fit are sent.        *)
LEMMA LoadOver ==
  ASSUME NEW q, NEW m, Base(q, m), Loading, argv' = argv, EndJob, locals' = locals,
         \/ eof
         \/ job.len <= 0
  PROVE  Base(q, m)'
<1>1. HostOK /\ Memory(q, m) /\ Progress(q, m) /\ arg \in DOMAIN argv /\ arg \in Nat \ {0}
  BY DEF Base, HostOK, Loading
<1>2. Now \in Command /\ IsLoad(Now) /\ Now.op = host
  BY <1>1, ElementOfSeq, LenProperties DEF HostOK, Now, Loading, IsLoad
<1>3. /\ Now.len \in Nat /\ Now.addr \in Nat /\ Len(Now.file) \in Nat
  BY <1>2, CommandParts, FileParts DEF IsLoad
<1>4. /\ eof \in BOOLEAN /\ line \in 0 .. Len(Now.file) /\ (eof => line = Len(Now.file))
      /\ job.len = Now.len - 4 * SentWords /\ DueUpTo(q, m, Now, SentWords)
  BY <1>1 DEF Progress
<1>5. ASSUME NEW w \in Words(Now)
      PROVE  Due(q, m, Place(Now, w), WordOfFile(Now, w))
  <2>1. w \in 1 .. WordCount(Now) /\ 4 * (w - 1) < Now.len /\ w \in Nat
    BY DEF Words
  <2>2. SentWords \in Int
    BY <1>3, <1>4 DEF SentWords
  <2>3. w <= SentWords
    <3>1. CASE eof
      <4>1. line = Len(Now.file)
        BY <3>1, <1>4
      <4>2. CASE host = "load-imem"
        <5>1. WordCount(Now) = 2 * Len(Now.file) /\ SentWords = 2 * Len(Now.file) + 2
          BY <3>1, <4>1, <4>2, <1>2 DEF SentWords, WordCount
        <5>2. QED
          BY <5>1, <2>1, <1>3
      <4>3. CASE host = "load-dmem"
        <5>1. WordCount(Now) = Len(Now.file) \div 2 /\ SentWords = Len(Now.file) \div 2 + 1
          BY <3>1, <4>1, <4>3, <1>2 DEF SentWords, WordCount
        <5>2. PICK n \in Nat : n = Len(Now.file)
          BY <1>3, Zenon
        <5>3. WordCount(Now) = n \div 2 /\ SentWords = n \div 2 + 1
          BY <5>1, <5>2, Zenon
        <5>4. PICK h \in Int : h = n \div 2
          <6>1. n \div 2 \in Int
            BY <5>2
          <6>2. QED
            BY <6>1, Zenon
        <5>5. WordCount(Now) = h /\ SentWords = h + 1
          BY <5>3, <5>4, Zenon
        <5>6. QED
          BY <5>5, <2>1
      <4>4. QED
        BY <4>2, <4>3 DEF Loading
    <3>2. CASE job.len <= 0
      <4>1. job.len = Now.len - 4 * SentWords
        BY <1>4
      <4>2. PICK n \in Int, d \in Nat, k \in Int : n = SentWords /\ d = Now.len /\ k = job.len
        <5>1. job.len \in Int
          BY <4>1, <2>2, <1>3
        <5>2. QED
          BY <5>1, <2>2, <1>3, Zenon
      <4>3. k = d - 4 * n /\ k <= 0 /\ 4 * (w - 1) < d
        BY <3>2, <4>1, <4>2, <2>1
      <4>4. w <= n
        BY <4>2, <4>3, <2>1
      <4>5. QED
        BY <4>2, <4>4
    <3>3. QED
      BY <3>1, <3>2
  <2>4. QED
    BY <2>1, <2>3, <1>4 DEF DueUpTo
<1>6. QED
  BY <1>1, <1>5, JobOver DEF HostOK

(* The words of a load lie within the range of the command.                *)
LEMMA LoadAddress ==
  ASSUME HostOK, Loading, NEW n \in Nat, 4 * n < Now.len
  PROVE  /\ Now \in Command /\ IsLoad(Now) /\ MayWrite(Now) /\ Now.op = host
         /\ arg \in DOMAIN argv
         /\ Now.addr + 4 * n \in BusAddr /\ Now.addr + 4 * n \in Cells(Now)
<1>1. arg \in DOMAIN argv /\ argv \in Seq(Command) /\ Now.op = host
  BY DEF HostOK, Loading
<1>2. Now \in Command /\ IsLoad(Now) /\ MayWrite(Now) /\ Now.op # "w32"
  BY <1>1, ElementOfSeq, LenProperties DEF Now, Loading, IsLoad, MayWrite
<1> DEFINE fits(a, d) == (a + d) \div 65536 < 65536
<1>3. Now.addr \in Nat /\ Now.len \in Nat /\ fits(Now.addr, Now.len)
  BY <1>2, CommandParts
<1>4. \A a, d \in Nat : fits(a, d) /\ 4 * n < d =>
        a + 4 * n \in BusAddr /\ a + 4 * n \in a .. a + d - 1
  BY DEF BusAddr
<1> HIDE DEF fits
<1>5. Now.addr + 4 * n \in BusAddr /\ Now.addr + 4 * n \in Now.addr .. Now.addr + Now.len - 1
  BY <1>3, <1>4, Zenon
<1>6. Cells(Now) = Now.addr .. Now.addr + Now.len - 1
  BY <1>2, Zenon DEF Cells
<1>7. QED
  BY <1>1, <1>2, <1>5, <1>6, Zenon

(* The load sends its next word.                                           *)
LEMMA WordSent ==
  ASSUME NEW q \in Seq(Access), NEW m, HostOK, Loading, Memory(q, m),
         NEW n \in Nat, 4 * n < Now.len, DueUpTo(q, m, Now, n),
         NEW x \in Access, x.kind = "write", x.addr = Now.addr + 4 * n,
         n + 1 <= WordCount(Now) => x.data = WordOfFile(Now, n + 1)
  PROVE  Memory(Append(q, x), m) /\ DueUpTo(Append(q, x), m, Now, n + 1)
<1>1. /\ Now \in Command /\ IsLoad(Now) /\ MayWrite(argv[arg])
      /\ x.addr \in Cells(argv[arg]) /\ argv \in Seq(Command) /\ arg \in DOMAIN argv
  BY LoadAddress DEF Now, HostOK
<1>2. Memory(Append(q, x), m)
  BY <1>1, MemoryWrite
<1>3. QED
  BY <1>1, <1>2, DueOneMore

LEMMA WordsOfLines ==
  ASSUME NEW c, NEW i \in Nat
  PROVE  /\ c.op = "load-imem" =>
              /\ WordOfFile(c, 2 * i + 1) = c.file[i + 1].low
              /\ WordOfFile(c, (2 * i + 1) + 1) = c.file[i + 1].high
         /\ c.op = "load-dmem" =>
              WordOfFile(c, i + 1) = <<c.file[2 * i + 1][1], c.file[2 * i + 1][2],
                                       c.file[2 * i + 2][1], c.file[2 * i + 2][2]>>
<1>1. /\ (2 * i + 1) % 2 = 1 /\ ((2 * i + 1) + 1) \div 2 = i + 1
      /\ ((2 * i + 1) + 1) % 2 = 0
      /\ 2 * (i + 1) - 1 = 2 * i + 1 /\ 2 * (i + 1) = 2 * i + 2
  OBVIOUS
<1>2. QED
  BY <1>1 DEF WordOfFile

LEMMA AllDue ==
  ASSUME NEW q, NEW m, NEW c, NEW k \in Nat, DueUpTo(q, m, c, k), NEW d \in Nat, d = c.len, d <= 4 * k
  PROVE  \A w \in Words(c) : Due(q, m, Place(c, w), WordOfFile(c, w))
<1> SUFFICES ASSUME NEW w \in Words(c) PROVE Due(q, m, Place(c, w), WordOfFile(c, w))
  OBVIOUS
<1>1. w \in 1 .. WordCount(c) /\ w \in Nat /\ 4 * (w - 1) < d
  BY DEF Words
<1>2. w <= k
  BY <1>1
<1>3. QED
  BY <1>1, <1>2 DEF DueUpTo

LEMMA LoadImemBase ==
  ASSUME NEW q, NEW p, NEW m, Port(q, p), Base(q, m), target_load_imem
  PROVE  \E r, l : Port(r, l)' /\ Base(r, m)' /\ (OnlyWrites(q) => OnlyWrites(r))
<1>1. /\ host = "load-imem" /\ Loading /\ argv' = argv /\ UNCHANGED <<portVars, waited>>
  BY DEF target_load_imem, Loading, busVars
<1>2. HostOK /\ Memory(q, m) /\ Progress(q, m) /\ q \in Seq(Access)
  BY DEF Base, Port, Flight
<1>3. CASE eof
  <2>1. EndJob /\ UNCHANGED <<locals, to_port>>
    BY <1>3 DEF target_load_imem, LeaveJob
  <2>2. Base(q, m)'
    BY <2>1, <1>1, <1>3, LoadOver
  <2>3. Port(q, p)'
    BY <2>1, <1>1, QuietKeeps
  <2>4. QED
    BY <2>2, <2>3
<1>4. CASE ~eof
  <2>1. PICK low \in Scan(1, Lows, locals.low), high \in Scan(1, Highs, locals.high) :
          /\ locals' = [locals EXCEPT !.low = low, !.high = high]
          /\ Sent(wb_debug_w32(job.addr, low)
                  \o IF job.len > 4 THEN wb_debug_w32(job.addr + 4, high) ELSE <<>>)
    BY <1>4 DEF target_load_imem
  <2>2. /\ Read(1) /\ Advance(8)
        /\ IF job.len > 8 THEN StayInJob ELSE EndJob
    BY <1>4 DEF target_load_imem
  <2>3. arg \in DOMAIN argv /\ Now \in Command /\ Now.op = "load-imem"
    BY <1>1, <1>2, ElementOfSeq, LenProperties DEF HostOK, Now
  <2>4. /\ Now.addr \in Nat /\ Now.len \in Nat /\ Len(Now.file) \in Nat
        /\ DOMAIN Now.file = 1 .. Len(Now.file)
        /\ \A i \in 1 .. Len(Now.file) : Now.file[i].low \in Word /\ Now.file[i].high \in Word
    BY <2>3, CommandParts, FileParts
  <2>5. line \in 0 .. Len(Now.file)
    BY <1>1, <1>2 DEF Progress
  <2>6. PICK d \in Nat, a \in Nat, i \in Nat : d = Now.len /\ a = Now.addr /\ i = line
    <3>1. Now.len \in Nat /\ Now.addr \in Nat /\ line \in Nat
      BY <2>4, <2>5
    <3>2. QED
      BY <3>1, Zenon
  <2>7. SentWords = 2 * i
    BY <2>6, <1>1, <1>4 DEF SentWords
  <2>8. /\ job.addr = a + 4 * (2 * i) /\ job.len = d - 4 * (2 * i) /\ job.len > 0
        /\ DueUpTo(q, m, Now, 2 * i)
    BY <2>6, <2>7, <1>1, <1>2 DEF Progress
  <2>9. /\ low \in Word /\ high \in Word
        /\ i + 1 <= Len(Now.file) => low = Now.file[i + 1].low /\ high = Now.file[i + 1].high
    <3>1. CASE i + 1 <= Len(Now.file)
      <4>1. i + 1 \in 1 .. Len(Now.file)
        BY <3>1, <2>4
      <4>2. low = Lows[i + 1] /\ high = Highs[i + 1]
        BY <3>1, <2>1, <2>6 DEF Scan
      <4>3. low = Now.file[i + 1].low /\ high = Now.file[i + 1].high
        BY <4>1, <4>2, <2>4 DEF Lows, Highs
      <4>4. QED
        BY <4>1, <4>3, <2>4
    <3>2. CASE ~(i + 1 <= Len(Now.file))
      <4>1. low \in Garbage \cup {locals.low} /\ high \in Garbage \cup {locals.high}
        BY <3>2, <2>1, <2>6 DEF Scan
      <4>2. QED
        BY <3>2, <4>1, <1>2, DebugLinkAssumption DEF HostOK
    <3>3. QED
      BY <3>1, <3>2
  <2>10. PICK x, y : /\ x = [kind |-> "write", addr |-> job.addr, data |-> low]
                     /\ y = [kind |-> "write", addr |-> job.addr + 4, data |-> high]
    OBVIOUS
  <2>11. /\ Memory(Append(q, x), m) /\ DueUpTo(Append(q, x), m, Now, 2 * i + 1)
         /\ x \in Access /\ Append(q, x) \in Seq(Access)
         /\ OnlyWrites(q) => OnlyWrites(Append(q, x))
    <3>1. 2 * i \in Nat /\ 4 * (2 * i) < Now.len
      BY <2>6, <2>8
    <3>2. Now.addr + 4 * (2 * i) \in BusAddr
      BY <3>1, <1>1, <1>2, LoadAddress
    <3>3. x \in Access /\ x.kind = "write" /\ x.addr = Now.addr + 4 * (2 * i)
      BY <3>2, <2>6, <2>8, <2>9, <2>10 DEF Access
    <3>4. 2 * i + 1 <= WordCount(Now) => x.data = WordOfFile(Now, 2 * i + 1)
      <4>1. 2 * i + 1 <= WordCount(Now) => i + 1 <= Len(Now.file)
        BY <2>3, <2>4 DEF WordCount
      <4>2. QED
        BY <4>1, <2>3, <2>9, <2>10, WordsOfLines
    <3>5. Memory(Append(q, x), m) /\ DueUpTo(Append(q, x), m, Now, 2 * i + 1)
      BY <3>1, <3>3, <3>4, <2>8, <1>1, <1>2, WordSent
    <3>6. QED
      BY <3>3, <3>5, <1>2, AppendWrite
  <2>12. CASE job.len > 4
    <3>1. PICK r : r = Append(q, x)
      OBVIOUS
    <3>2. /\ Memory(Append(r, y), m) /\ DueUpTo(Append(r, y), m, Now, (2 * i + 1) + 1)
          /\ y \in Access /\ Append(r, y) \in Seq(Access)
          /\ OnlyWrites(r) => OnlyWrites(Append(r, y))
      <4>1. 2 * i + 1 \in Nat /\ 4 * (2 * i + 1) < Now.len
        BY <2>12, <2>6, <2>8
      <4>2. Now.addr + 4 * (2 * i + 1) \in BusAddr
        BY <4>1, <1>1, <1>2, LoadAddress
      <4>3. job.addr + 4 = Now.addr + 4 * (2 * i + 1)
        BY <2>6, <2>8
      <4>4. y \in Access /\ y.kind = "write" /\ y.addr = Now.addr + 4 * (2 * i + 1)
        BY <4>2, <4>3, <2>9, <2>10 DEF Access
      <4>5. (2 * i + 1) + 1 <= WordCount(Now) => y.data = WordOfFile(Now, (2 * i + 1) + 1)
        <5>1. (2 * i + 1) + 1 <= WordCount(Now) => i + 1 <= Len(Now.file)
          BY <2>3, <2>4 DEF WordCount
        <5>2. QED
          BY <5>1, <2>3, <2>9, <2>10, WordsOfLines
      <4>6. Memory(Append(r, y), m) /\ DueUpTo(Append(r, y), m, Now, (2 * i + 1) + 1)
        BY <4>1, <4>4, <4>5, <3>1, <2>11, <1>1, <1>2, WordSent
      <4>7. QED
        BY <4>4, <4>6, <3>1, <2>11, AppendWrite
    <3>3. PICK l : Port(Append(r, y), l)'
      <4>1. to_port' = to_port \o (CommandBytes(x) \o CommandBytes(y))
        BY <2>1, <2>10, <2>12 DEF Sent, CommandBytes
      <4>2. QED
        BY <4>1, <3>1, <3>2, <2>11, <1>1, SendTwo
    <3>4. CASE job.len > 8
      <4>1. host' = host /\ arg' = arg /\ Now' = Now
        BY <3>4, <2>2, <1>1 DEF StayInJob, Now
      <4>2. Loading' /\ HostOK' /\ host' # "off"
        BY <4>1, <2>1, <2>9, <1>1, <1>2 DEF HostOK, Loading
      <4>3. Memory(Append(r, y), m)'
        BY <4>1, <3>2, <1>1, MemoryStays
      <4>4. job'.addr = a + 4 * (2 * i + 2) /\ job'.len = d - 4 * (2 * i + 2) /\ job'.len > 0
        BY <3>4, <2>2, <2>6, <2>8 DEF Advance
      <4>5. /\ eof' \in BOOLEAN /\ line' \in 0 .. Len(Now.file)
            /\ eof' => line' = Len(Now.file)
            /\ SentWords' = 2 * i + 2
        <5>1. PICK z \in Nat : z = Len(Now.file)
          BY <2>4, Zenon
        <5>2. /\ eof' = (i + 1 > z) /\ line' = IF i + 1 > z THEN z ELSE i + 1
              /\ i <= z /\ SentWords' = 2 * line' + (IF eof' THEN 2 ELSE 0)
          BY <5>1, <4>1, <2>2, <2>5, <2>6, <1>1 DEF Read, SentWords
        <5>3. CASE i + 1 > z
          <6>1. eof' = TRUE
            BY <5>2, <5>3, Zenon
          <6>2. line' = z
            BY <5>2, <5>3, Zenon
          <6>3. SentWords' = 2 * z + 2
            BY <5>2, <6>1, <6>2, Zenon
          <6>4. z = i
            <7>1. i <= z
              BY <5>2
            <7>2. QED
              BY <7>1, <5>3
          <6>5. SentWords' = 2 * i + 2 /\ line' \in 0 .. z
            BY <6>2, <6>3, <6>4
          <6>6. QED
            BY <5>1, <6>1, <6>2, <6>5, Zenon
        <5>4. CASE ~(i + 1 > z)
          <6>1. eof' = FALSE
            <7>1. eof' = (i + 1 > z)
              BY <5>2
            <7>2. (i + 1 > z) = FALSE
              BY <5>4
            <7>3. QED
              BY <7>1, <7>2, Zenon
          <6>2. line' = i + 1
            BY <5>2, <5>4, Zenon
          <6>3. SentWords' = 2 * (i + 1) + 0
            BY <5>2, <6>1, <6>2, Zenon
          <6>4. SentWords' = 2 * i + 2 /\ line' \in 0 .. z
            BY <5>4, <6>2, <6>3
          <6>5. QED
            BY <5>1, <6>1, <6>4, Zenon
        <5>5. QED
          BY <5>3, <5>4
      <4>6. DueUpTo(Append(r, y), m, Now, SentWords)'
        BY <3>2, <4>1, <4>5 DEF DueUpTo
      <4>7. Progress(Append(r, y), m)'
        BY <4>1, <4>4, <4>5, <4>6, <2>6, <1>1 DEF Progress
      <4>8. Base(Append(r, y), m)'
        BY <4>2, <4>3, <4>7 DEF Base, Off
      <4>9. QED
        BY <4>8, <3>1, <3>2, <3>3, <2>11
    <3>5. CASE ~(job.len > 8)
      <4>1. \A w \in Words(Now) : Due(Append(r, y), m, Place(Now, w), WordOfFile(Now, w))
        <5>1. d <= 4 * ((2 * i + 1) + 1) /\ (2 * i + 1) + 1 \in Nat
          BY <3>5, <2>6, <2>8
        <5>2. QED
          BY <5>1, <3>2, <2>6, AllDue
      <4>2. Base(Append(r, y), m)'
        BY <4>1, <3>2, <3>5, <2>1, <2>2, <2>3, <2>9, <1>1, <1>2, JobOver DEF HostOK
      <4>3. QED
        BY <4>2, <3>1, <3>2, <3>3, <2>11
    <3>6. QED
      BY <3>1, <3>2, <3>3, <3>4, <3>5, <2>11
  <2>13. CASE ~(job.len > 4)
    <3>1. PICK l : Port(Append(q, x), l)'
      <4>1. CommandBytes(x) \in Seq(Byte)
        BY <2>11, CommandShape
      <4>2. CommandBytes(x) \o <<>> = CommandBytes(x)
        BY <4>1, ConcatEmptySeq
      <4>3. to_port' = to_port \o CommandBytes(x)
        BY <4>2, <2>1, <2>10, <2>13 DEF Sent, CommandBytes
      <4>4. QED
        BY <4>3, <2>11, <1>1, SendOne
    <3>2. \A w \in Words(Now) : Due(Append(q, x), m, Place(Now, w), WordOfFile(Now, w))
      <4>1. d <= 4 * (2 * i + 1) /\ 2 * i + 1 \in Nat
        BY <2>13, <2>6, <2>8
      <4>2. QED
        BY <4>1, <2>6, <2>11, AllDue
    <3>3. EndJob
      BY <2>2, <2>8, <2>6, <2>13
    <3>4. Base(Append(q, x), m)'
      BY <3>2, <3>3, <2>1, <2>3, <2>9, <2>11, <1>1, <1>2, JobOver DEF HostOK
    <3>5. QED
      BY <3>1, <3>4, <2>11
  <2>20. QED
    BY <2>12, <2>13
<1>5. QED
  BY <1>3, <1>4

LEMMA LoadDmemBase ==
  ASSUME NEW q, NEW p, NEW m, Port(q, p), Base(q, m), target_load_dmem
  PROVE  \E r, l : Port(r, l)' /\ Base(r, m)' /\ (OnlyWrites(q) => OnlyWrites(r))
<1>1. /\ host = "load-dmem" /\ Loading /\ argv' = argv /\ UNCHANGED <<portVars, waited>>
  BY DEF target_load_dmem, Loading, busVars
<1>2. HostOK /\ Memory(q, m) /\ Progress(q, m) /\ q \in Seq(Access)
  BY DEF Base, Port, Flight
<1>3. CASE eof \/ job.len <= 0
  <2>0. job.len \in Int
    <3>1. Now \in Command /\ Now.op = "load-dmem"
      BY <1>1, <1>2, ElementOfSeq, LenProperties DEF HostOK, Now
    <3>2. Now.len \in Nat /\ line \in Nat
      BY <3>1, <1>1, <1>2, CommandParts, FileParts DEF Progress
    <3>3. job.len = Now.len - 4 * (line \div 2 + (IF eof THEN 1 ELSE 0))
      BY <1>1, <1>2 DEF Progress, SentWords
    <3>4. QED
      BY <3>2, <3>3
  <2>1. EndJob /\ UNCHANGED <<locals, to_port>>
    <3>1. job.len <= 0 => ~(job.len > 0)
      BY <2>0
    <3>2. QED
      BY <1>3, <3>1, Zenon DEF target_load_dmem, LeaveJob
  <2>2. Base(q, m)'
    BY <2>1, <1>1, <1>3, LoadOver
  <2>3. Port(q, p)'
    BY <2>1, <1>1, QuietKeeps
  <2>4. QED
    BY <2>2, <2>3
<1>4. CASE ~(eof \/ job.len <= 0)
  <2>1. PICK low \in Scan(1, Now.file, locals.low), high \in Scan(2, Now.file, locals.high) :
          /\ locals' = [locals EXCEPT !.low = low, !.high = high]
          /\ Sent(wb_debug_w32(job.addr, <<low[1], low[2], high[1], high[2]>>))
    BY <1>4 DEF target_load_dmem
  <2>2. Read(2) /\ Advance(4) /\ host' = host /\ arg' = arg /\ Now' = Now
    BY <1>1, <1>4 DEF target_load_dmem, StayInJob, Now
  <2>3. arg \in DOMAIN argv /\ Now \in Command /\ Now.op = "load-dmem"
    BY <1>1, <1>2, ElementOfSeq, LenProperties DEF HostOK, Now
  <2>4. /\ Now.addr \in Nat /\ Now.len \in Nat /\ Len(Now.file) \in Nat
        /\ \A i \in 1 .. Len(Now.file) : Now.file[i] \in Word
    BY <2>3, CommandParts, FileParts
  <2>5. line \in 0 .. Len(Now.file) /\ line % 2 = 0
    BY <1>1, <1>2, <1>4 DEF Progress
  <2>6. PICK d \in Nat, a \in Nat, z \in Nat, i \in Nat :
          d = Now.len /\ a = Now.addr /\ z = Len(Now.file) /\ 2 * i = line
    <3>1. PICK k \in Nat : k = line
      <4>1. line \in Nat
        BY <2>4, <2>5
      <4>2. QED
        BY <4>1, Zenon
    <3>2. 2 * (k \div 2) = k /\ k \div 2 \in Nat
      BY <3>1, <2>5
    <3>3. QED
      BY <3>1, <3>2, <2>4, Zenon
  <2>7. SentWords = i
    <3>1. SentWords = (2 * i) \div 2 + 0
      BY <2>6, <1>1, <1>4, Zenon DEF SentWords
    <3>2. QED
      BY <3>1
  <2>8. /\ job.addr = a + 4 * i /\ job.len = d - 4 * i /\ job.len > 0
        /\ DueUpTo(q, m, Now, i)
    <3>1. job.addr = a + 4 * i /\ job.len = d - 4 * i /\ DueUpTo(q, m, Now, i)
      BY <2>6, <2>7, <1>1, <1>2 DEF Progress
    <3>2. QED
      BY <3>1, <2>6, <1>4
  <2>9. /\ low \in Word /\ high \in Word
        /\ 2 * i + 2 <= z => low = Now.file[2 * i + 1] /\ high = Now.file[2 * i + 2]
    <3>1. low \in Word
      <4>1. CASE 2 * i + 1 <= z
        <5>1. low = Now.file[2 * i + 1] /\ 2 * i + 1 \in 1 .. Len(Now.file)
          BY <4>1, <2>1, <2>6 DEF Scan
        <5>2. QED
          BY <5>1, <2>4
      <4>2. CASE ~(2 * i + 1 <= z)
        BY <4>2, <2>1, <2>6, <1>2, DebugLinkAssumption DEF Scan, HostOK
      <4>3. QED
        BY <4>1, <4>2
    <3>2. high \in Word
      <4>1. CASE 2 * i + 2 <= z
        <5>1. high = Now.file[2 * i + 2] /\ 2 * i + 2 \in 1 .. Len(Now.file)
          BY <4>1, <2>1, <2>6 DEF Scan
        <5>2. QED
          BY <5>1, <2>4
      <4>2. CASE ~(2 * i + 2 <= z)
        BY <4>2, <2>1, <2>6, <1>2, DebugLinkAssumption DEF Scan, HostOK
      <4>3. QED
        BY <4>1, <4>2
    <3>3. QED
      BY <3>1, <3>2, <2>1, <2>6 DEF Scan
  <2>10. PICK x : x = [kind |-> "write", addr |-> job.addr,
                       data |-> <<low[1], low[2], high[1], high[2]>>]
    OBVIOUS
  <2>11. /\ Memory(Append(q, x), m) /\ DueUpTo(Append(q, x), m, Now, i + 1)
         /\ x \in Access /\ Append(q, x) \in Seq(Access)
         /\ OnlyWrites(q) => OnlyWrites(Append(q, x))
    <3>1. 4 * i < Now.len
      BY <2>6, <2>8
    <3>2. Now.addr + 4 * i \in BusAddr
      BY <3>1, <1>1, <1>2, LoadAddress
    <3>3. <<low[1], low[2], high[1], high[2]>> \in Word
      <4>1. low \in Word /\ high \in Word
        BY <2>9
      <4>2. QED
        BY <4>1, HalvesMakeWord, Zenon
    <3>4. x \in Access /\ x.kind = "write" /\ x.addr = Now.addr + 4 * i
      BY <3>2, <3>3, <2>6, <2>8, <2>10 DEF Access
    <3>5. i + 1 <= WordCount(Now) => x.data = WordOfFile(Now, i + 1)
      <4>1. WordCount(Now) = z \div 2
        BY <2>3, <2>6, Zenon DEF WordCount
      <4>2. i + 1 <= WordCount(Now) => 2 * i + 2 <= z
        BY <4>1
      <4>3. QED
        BY <4>2, <2>3, <2>9, <2>10, WordsOfLines
    <3>6. Memory(Append(q, x), m) /\ DueUpTo(Append(q, x), m, Now, i + 1)
      BY <3>1, <3>4, <3>5, <2>8, <1>1, <1>2, WordSent
    <3>7. QED
      BY <3>4, <3>6, <1>2, AppendWrite
  <2>12. PICK l : Port(Append(q, x), l)'
    <3>1. to_port' = to_port \o CommandBytes(x)
      BY <2>1, <2>10 DEF Sent, CommandBytes
    <3>2. QED
      BY <3>1, <2>11, <1>1, SendOne
  <2>13. Loading' /\ HostOK' /\ host' # "off"
    BY <2>1, <2>2, <2>9, <1>1, <1>2 DEF HostOK, Loading
  <2>14. Memory(Append(q, x), m)'
    BY <2>2, <2>11, <1>1, MemoryStays
  <2>15. job'.addr = a + 4 * (i + 1) /\ job'.len = d - 4 * (i + 1)
    <3>1. job'.addr = job.addr + 4 /\ job'.len = job.len - 4
      BY <2>2, Zenon DEF Advance
    <3>2. job'.addr = (a + 4 * i) + 4 /\ job'.len = (d - 4 * i) - 4
      BY <3>1, <2>8, Zenon
    <3>3. (a + 4 * i) + 4 = a + 4 * (i + 1) /\ (d - 4 * i) - 4 = d - 4 * (i + 1)
      BY <2>6
    <3>4. QED
      BY <3>2, <3>3, Zenon
  <2>16. /\ eof' \in BOOLEAN /\ line' \in 0 .. z
         /\ eof' => line' = z
         /\ ~eof' => line' % 2 = 0
         /\ SentWords' = i + 1
    <3>1. /\ eof' = (2 * i + 2 > z) /\ line' = IF 2 * i + 2 > z THEN z ELSE 2 * i + 2
          /\ 2 * i <= z /\ SentWords' = line' \div 2 + (IF eof' THEN 1 ELSE 0)
      <4>1. eof' = (2 * i + 2 > z) /\ line' = IF 2 * i + 2 > z THEN z ELSE 2 * i + 2
        BY <2>2, <2>6 DEF Read
      <4>2. 2 * i <= z
        BY <2>5, <2>6
      <4>3. SentWords' = line' \div 2 + (IF eof' THEN 1 ELSE 0)
        BY <2>2, <1>1, Zenon DEF SentWords
      <4>4. QED
        BY <4>1, <4>2, <4>3, Zenon
    <3>2. CASE 2 * i + 2 > z
      <4>1. eof' = TRUE /\ line' = z
        BY <3>1, <3>2, Zenon
      <4>2. SentWords' = z \div 2 + 1
        BY <3>1, <4>1, Zenon
      <4>3. z \div 2 = i
        <5>1. 2 * i <= z
          BY <3>1
        <5>2. QED
          BY <5>1, <3>2
      <4>4. SentWords' = i + 1 /\ line' \in 0 .. z
        <5>1. SentWords' = i + 1
          BY <4>2, <4>3, Zenon
        <5>2. QED
          BY <5>1, <4>1
      <4>5. QED
        BY <4>1, <4>4, Zenon
    <3>3. CASE ~(2 * i + 2 > z)
      <4>1. eof' = FALSE
        <5>1. eof' = (2 * i + 2 > z)
          BY <3>1
        <5>2. (2 * i + 2 > z) = FALSE
          BY <3>3
        <5>3. QED
          BY <5>1, <5>2, Zenon
      <4>2. line' = 2 * i + 2
        BY <3>1, <3>3, Zenon
      <4>3. SentWords' = (2 * i + 2) \div 2 + 0
        BY <3>1, <4>1, <4>2, Zenon
      <4>4. SentWords' = i + 1 /\ line' \in 0 .. z /\ line' % 2 = 0
        BY <3>3, <4>2, <4>3
      <4>5. QED
        BY <4>1, <4>4, Zenon
    <3>4. QED
      BY <3>2, <3>3
  <2>17. DueUpTo(Append(q, x), m, Now, SentWords)'
    BY <2>2, <2>11, <2>16 DEF DueUpTo
  <2>18. Progress(Append(q, x), m)'
    BY <2>2, <2>6, <2>15, <2>16, <2>17, <1>1 DEF Progress
  <2>19. QED
    BY <2>11, <2>12, <2>13, <2>14, <2>18 DEF Base, Off
<1>5. QED
  BY <1>3, <1>4

(* The last access on the way is a read, and the only one.                 *)
LastReads(q, a) ==
  /\ q # <<>> /\ q[Len(q)].kind = "read" /\ q[Len(q)].addr = a
  /\ \A k \in 1 .. Len(q) : k < Len(q) => q[k].kind = "write"

LEMMA DumpBase ==
  ASSUME NEW q, NEW p, NEW m, Port(q, p), Base(q, m), dump_mem
  PROVE  \E r, l : /\ Port(r, l)' /\ Base(r, m)'
                   /\ OnlyWrites(q) =>
                        IF host' = "read" THEN LastReads(r, job'.addr) ELSE OnlyWrites(r)
<1>1. /\ host = "dump" /\ UNCHANGED <<argv, job, locals, portVars, waited>>
  BY DEF dump_mem, busVars
<1>2. /\ HostOK /\ Memory(q, m) /\ q \in Seq(Access) /\ argv \in Seq(Command)
      /\ arg \in DOMAIN argv /\ Now.op = "dump" /\ job.addr \in Nat /\ job.len \in Int
      /\ job.addr + job.len = Now.addr + Now.len
  BY <1>1 DEF Base, Port, Flight, HostOK
<1>3. CASE job.len <= 0
  <2>1. EndJob /\ to_port' = to_port
    BY <1>3 DEF dump_mem
  <2>2. Base(q, m)'
    <3>1. ~IsLoad(Now)
      BY <1>2 DEF IsLoad
    <3>2. DOMAIN locals' = {"low", "high", "data"} /\ locals'.low \in Word /\ locals'.high \in Word
      BY <1>1, <1>2 DEF HostOK
    <3>3. QED
      BY <3>1, <3>2, <2>1, <1>1, <1>2, JobOver
  <2>3. Port(q, p)'
    BY <2>1, <1>1, QuietKeeps
  <2>4. host' # "read"
    BY <2>1 DEF EndJob
  <2>5. QED
    BY <2>2, <2>3, <2>4
<1>4. CASE ~(job.len <= 0)
  <2>1. host' = "read" /\ arg' = arg /\ to_port' = to_port \o Ask(job.addr)
    BY <1>4 DEF dump_mem, Sent
  <2>2. job.addr \in BusAddr
    <3> DEFINE fits(s) == s \div 65536 < 65536
    <3>1. fits(Now.addr + Now.len)
      <4>1. Now \in Command
        BY <1>2, ElementOfSeq, LenProperties DEF Now
      <4>2. QED
        BY <4>1, <1>2, CommandParts
    <3>2. \A a \in Nat, d \in Int : d > 0 /\ fits(a + d) => a \in BusAddr
      BY DEF BusAddr
    <3> HIDE DEF fits
    <3>3. fits(job.addr + job.len)
      BY <3>1, <1>2, Zenon
    <3>4. job.len > 0
      BY <1>2, <1>4
    <3>5. QED
      BY <3>2, <3>3, <3>4, <1>2, Zenon
  <2>3. PICK x : x = [kind |-> "read", addr |-> job.addr, data |-> ZeroWord]
    OBVIOUS
  <2>4. x \in Access /\ x.kind = "read" /\ x.addr = job.addr /\ CommandBytes(x) = Ask(job.addr)
    <3>1. ZeroWord \in Word
      BY DEF ZeroWord, Word
    <3>2. QED
      BY <3>1, <2>2, <2>3 DEF Access, CommandBytes
  <2>5. PICK l : Port(Append(q, x), l)'
    BY <2>1, <2>4, <1>1, SendOne
  <2>6. Memory(Append(q, x), m)'
    <3>1. Memory(Append(q, x), m)
      BY <2>4, <1>2, MemoryRead
    <3>2. QED
      BY <3>1, <2>1, <1>1, MemoryStays
  <2>7. HostOK' /\ ~Loading' /\ host' # "off"
    BY <2>1, <1>1, <1>2 DEF HostOK, Loading, Now
  <2>8. OnlyWrites(q) => LastReads(Append(q, x), job'.addr)
    <3>1. /\ Len(q) \in Nat /\ Len(Append(q, x)) = Len(q) + 1
          /\ Append(q, x)[Len(q) + 1] = x /\ \A k \in 1 .. Len(q) : Append(q, x)[k] = q[k]
          /\ Append(q, x) # <<>>
      BY <2>4, <1>2, AppendProperties, LenProperties
    <3>2. job' = job
      BY <1>1
    <3>3. ASSUME NEW k \in 1 .. Len(q) + 1, k < Len(q) + 1
          PROVE  k \in 1 .. Len(q)
      BY <3>1, <3>3
    <3>4. QED
      BY <3>1, <3>2, <3>3, <2>4 DEF OnlyWrites, LastReads
  <2>9. QED
    BY <2>1, <2>5, <2>6, <2>7, <2>8 DEF Base, Off, Progress
<1>5. QED
  BY <1>3, <1>4

LEMMA ReadBase ==
  ASSUME NEW q, NEW p, NEW m, Port(q, p), Base(q, m), wb_debug_r32
  PROVE  Port(q, p)' /\ Base(q, m)'
<1>1. /\ host = "read" /\ host' = "dump" /\ UNCHANGED <<argv, arg, to_port, portVars, waited>>
      /\ job' = [addr |-> job.addr + 4, len |-> job.len - 4]
  BY DEF wb_debug_r32, busVars, Advance
<1>2. \E data : locals' = [locals EXCEPT !.data = data]
  BY DEF wb_debug_r32
<1>3. HostOK /\ Memory(q, m)
  BY DEF Base
<1>4. HostOK'
  <2>1. DOMAIN locals' = {"low", "high", "data"} /\ locals'.low \in Word /\ locals'.high \in Word
    BY <1>2, <1>3 DEF HostOK
  <2>2. /\ Now' = Now /\ Now.op = "dump" /\ job.addr \in Nat /\ job.len \in Int
        /\ job.addr + job.len = Now.addr + Now.len
    BY <1>1, <1>3 DEF HostOK, Now
  <2>3. job'.addr \in Nat /\ job'.len \in Int /\ job'.addr + job'.len = job.addr + job.len
    BY <2>2, <1>1
  <2>4. QED
    BY <2>1, <2>2, <2>3, <1>1, <1>3 DEF HostOK, Loading
<1>5. Memory(q, m)'
  BY <1>1, <1>3, MemoryStays
<1>6. Port(q, p)'
  BY <1>1, QuietKeeps
<1>7. QED
  BY <1>1, <1>4, <1>5, <1>6 DEF Base, Off, Progress, Loading

LEMMA CloseBase ==
  ASSUME NEW q, NEW p, NEW m, Port(q, p), Base(q, m), CloseTty
  PROVE  Port(q, p)' /\ Base(q, m)'
<1>1. host' = "done" /\ UNCHANGED <<argv, arg, locals, to_port, portVars, waited>>
  BY DEF CloseTty, busVars
<1>2. HostOK' /\ ~Loading'
  BY <1>1 DEF Base, HostOK, Loading
<1>3. Memory(q, m)'
  BY <1>1, MemoryStays DEF Base
<1>4. QED
  BY <1>1, <1>2, <1>3, QuietKeeps DEF Base, Off, Progress

LEMMA StartBase ==
  ASSUME NEW q, NEW p, NEW m, Port(q, p), Base(q, m),
         NEW commands \in Seq(Command), StartHost(commands)
  PROVE  Port(q, p)' /\ Base(q, m)'
<1>1. /\ host = "off" /\ host' = "args" /\ argv' = commands
      /\ UNCHANGED <<arg, locals, to_port, portVars, waited>>
  BY DEF StartHost, busVars
<1>2. q = <<>> /\ DOMAIN m = {} /\ arg' = 1
  BY <1>1 DEF Base, Off
<1>3. HostOK' /\ ~Loading'
  BY <1>1, <1>2 DEF Base, HostOK, Loading
<1>4. Memory(q, m)'
  <2>1. AllNamed(q, m)' /\ LoadsFirst(q, m)' /\ LoadsBefore(q, m)'
    BY <1>2 DEF AllNamed, LoadsFirst, LoadsBefore, Releases
  <2>2. Kept(q, m)'
    <3>1. \A i \in DOMAIN argv' : ~(i < arg')
      BY <1>1, <1>2, LenProperties
    <3>2. QED
      BY <3>1 DEF Kept
  <2>3. QED
    BY <2>1, <2>2 DEF Memory
<1>5. QED
  BY <1>1, <1>3, <1>4, QuietKeeps DEF Base, Off, Progress

LEMMA InitBase ==
  ASSUME LinkInit, NEW m, m = mem
  PROVE  Port(<<>>, [k \in 1 .. 1 |-> 0]) /\ Base(<<>>, m)
<1>1. Flight(to_port, <<>>, [k \in 1 .. 1 |-> 0])
  BY DEF LinkInit, Flight
<1>2. PortTypeOK /\ ~Busy /\ Cur = 1 /\ Got[state] = 0 /\ state = "S_IDLE"
  BY DEF LinkInit, PortTypeOK, Busy, Cur, Accessing, Got, States, ZeroWord, Word
<1>3. Port(<<>>, [k \in 1 .. 1 |-> 0])
  <2>1. Len(<<>>) = 0 /\ [k \in 1 .. 1 |-> 0][1] = -Got[state]
    <3>1. [k \in 1 .. 1 |-> 0][1] = 0
      OBVIOUS
    <3>2. \A n \in Int : -n = 0 - n
      OBVIOUS
    <3>3. Got[state] \in Int
      BY <1>2
    <3>4. -Got[state] = 0 - Got[state]
      BY <3>2, <3>3, Zenon
    <3>5. 0 - Got[state] = 0
      BY <1>2
    <3>6. QED
      BY <3>1, <3>4, <3>5, Zenon
  <2>2. Partial(<<>>, [k \in 1 .. 1 |-> 0])
    BY <2>1, <1>2 DEF Partial
  <2>3. QED
    BY <2>2, <1>1, <1>2 DEF Port, Ready
<1>4. HostOK /\ ~Loading /\ Off(<<>>, m) /\ argv = <<>>
  BY DEF LinkInit, HostOK, Loading, Off, ZeroWord, Word
<1>5. Memory(<<>>, m)
  BY <1>4 DEF LinkInit, Memory, AllNamed, Kept, LoadsFirst, LoadsBefore, Off
<1>6. QED
  BY <1>3, <1>4, <1>5 DEF Base, Progress

-----------------------------------------------------------------------------
(* Where the word is that the host waits for: still in the memory, or on   *)
(* its way through the port to the host.                                   *)
NoAnswer == wb_state_r # "WB_READ_2" /\ tx_state = "TX_IDLE" /\ to_host = <<>>
FirstBytes(w, k) == [i \in 1 .. k |-> w[i]]
Answering ==
  \/ /\ wb_state_r = "WB_READ_2" /\ tx_state = "TX_IDLE" /\ to_host = <<>>
     /\ wb_dat_i = MemAt(job.addr)
  \/ /\ wb_state_r = "WB_IDLE" /\ tx_state = "TX_WAIT" /\ to_host = <<>>
     /\ rd_data_32_r = MemAt(job.addr)
  \/ /\ wb_state_r = "WB_IDLE" /\ tx_state \in DOMAIN TxByte
     /\ rd_data_32_r = MemAt(job.addr)
     /\ to_host = FirstBytes(rd_data_32_r, TxByte[tx_state] - 1)
  \/ wb_state_r = "WB_IDLE" /\ tx_state = "TX_IDLE" /\ to_host = MemAt(job.addr)
Row == [addr : Int, data : Word]
Reading(q) ==
  /\ shown \in Seq(Row)
  /\ host = "read" => \/ LastReads(q, job.addr) /\ NoAnswer
                      \/ q = <<>> /\ Answering
  /\ host # "read" => OnlyWrites(q) /\ NoAnswer

(* With nothing on the way the port waits for the first byte of a command. *)
LEMMA PortWaits ==
  ASSUME NEW p, Port(<<>>, p)
  PROVE  to_port = <<>> /\ state = "S_IDLE" /\ ~Busy
<1>1. /\ Cur <= Len(<<>>) + 1 /\ p[Cur] = -Got[state] /\ (state # "S_IDLE" => Cur <= Len(<<>>))
      /\ to_port \in Seq(Byte) /\ p[Len(<<>>) + 1] = Len(to_port) /\ state \in States
  BY DEF Port, Partial, Flight, PortTypeOK
<1>2. Len(<<>>) = 0
  OBVIOUS
<1>3. Cur = 1 /\ ~Busy
  BY <1>1, <1>2 DEF Cur
<1>4. state = "S_IDLE"
  BY <1>1, <1>2, <1>3
<1>5. to_port = <<>>
  <2>1. Got[state] = 0 /\ Got[state] \in Int /\ Len(to_port) \in Nat
    BY <1>1, <1>4, LenProperties DEF Got
  <2>2. Len(to_port) = -Got[state]
    BY <1>1, <1>2, <1>3
  <2>3. \A n \in Int : -n = 0 - n
    OBVIOUS
  <2>4. Len(to_port) = 0 - Got[state]
    BY <2>1, <2>2, <2>3, Zenon
  <2>5. Len(to_port) = 0
    BY <2>1, <2>4
  <2>6. QED
    BY <2>5, <1>1, EmptySeq
<1>6. QED
  BY <1>3, <1>4, <1>5

LEMMA BytesGrow ==
  ASSUME NEW w \in Word
  PROVE  /\ \A k \in 1 .. 4 : Append(FirstBytes(w, k - 1), w[k]) = FirstBytes(w, k)
         /\ FirstBytes(w, 0) = <<>> /\ FirstBytes(w, 4) = w
<1>1. w \in [1 .. 4 -> Byte]
  BY DEF Word, Byte
<1>2. ASSUME NEW k \in 1 .. 4
      PROVE  Append(FirstBytes(w, k - 1), w[k]) = FirstBytes(w, k)
  <2> DEFINE f == FirstBytes(w, k - 1)
  <2>1. f \in Seq(Byte) /\ Len(f) = k - 1 /\ \A i \in 1 .. k - 1 : f[i] = w[i]
    BY <1>1 DEF FirstBytes
  <2> HIDE DEF f
  <2>2. /\ Append(f, w[k]) \in Seq(Byte) /\ Len(Append(f, w[k])) = k
        /\ \A i \in 1 .. k : Append(f, w[k])[i] = w[i]
    BY <1>1, <2>1, AppendProperties
  <2>3. /\ FirstBytes(w, k) \in Seq(Byte) /\ Len(FirstBytes(w, k)) = k
        /\ \A i \in 1 .. k : FirstBytes(w, k)[i] = w[i]
    BY <1>1 DEF FirstBytes
  <2>4. QED
    BY <2>2, <2>3, SeqEqual DEF f
<1>3. FirstBytes(w, 0) = <<>> /\ FirstBytes(w, 4) = w
  BY <1>1 DEF FirstBytes
<1>4. QED
  BY <1>2, <1>3

LEMMA ReadingHost ==
  ASSUME NEW q, NEW r, Reading(q), host # "read", host' # "read",
         UNCHANGED <<shown, to_host, portVars>>, OnlyWrites(q) => OnlyWrites(r)
  PROVE  Reading(r)'
<1>1. UNCHANGED <<shown, to_host, wb_state_r, tx_state>>
  BY DEF portVars
<1>2. QED
  BY <1>1 DEF Reading, NoAnswer, OnlyWrites

LEMMA ReadingDump ==
  ASSUME NEW q, NEW r, Reading(q), dump_mem,
         OnlyWrites(q) => IF host' = "read" THEN LastReads(r, job'.addr) ELSE OnlyWrites(r)
  PROVE  Reading(r)'
<1>1. host = "dump" /\ UNCHANGED <<shown, to_host, wb_state_r, tx_state>>
  BY DEF dump_mem, portVars
<1>2. QED
  BY <1>1 DEF Reading, NoAnswer, OnlyWrites, LastReads

LEMMA ReadingClock ==
  ASSUME NEW q, NEW p, Port(q, p), Reading(q), PortClock
  PROVE  Reading(q)'
<1>1. /\ wb_state_r' = NextWb /\ tx_state' = NextTx
      /\ rd_data_32_r' = IF wb_state_r = "WB_READ_2" THEN wb_dat_i ELSE rd_data_32_r
      /\ UNCHANGED <<host, job, shown, to_host, mem>> /\ ~Settled
  BY DEF PortClock, hostVars
<1>2. NoAnswer => NoAnswer'
  BY <1>1 DEF NoAnswer, NextWb, NextTx
<1>3. MemAt(job.addr)' = MemAt(job.addr)
  BY <1>1 DEF MemAt
<1>4. q = <<>> /\ Answering => Answering'
  <2>1. SUFFICES ASSUME q = <<>>, Answering PROVE Answering'
    OBVIOUS
  <2>2. state = "S_IDLE"
    BY <2>1, PortWaits
  <2>3. CASE tx_state = "TX_WAIT"
    <3>1. wb_state_r' = "WB_IDLE" /\ tx_state' = "TX_0" /\ rd_data_32_r' = rd_data_32_r
      BY <2>1, <2>2, <2>3, <1>1 DEF Answering, NextWb, NextTx, TxByte
    <3>2. rd_data_32_r = MemAt(job.addr) /\ to_host = <<>>
      BY <2>1, <2>3 DEF Answering, TxByte
    <3>3. FirstBytes(rd_data_32_r, TxByte["TX_0"] - 1) = <<>> /\ "TX_0" \in DOMAIN TxByte
      BY DEF FirstBytes, TxByte
    <3>4. QED
      BY <3>1, <3>2, <3>3, <1>1, <1>3 DEF Answering
  <2>4. CASE tx_state # "TX_WAIT"
    <3>1. /\ wb_state_r = "WB_READ_2" /\ tx_state = "TX_IDLE" /\ to_host = <<>>
          /\ wb_dat_i = MemAt(job.addr)
      BY <2>1, <2>2, <2>4, <1>1 DEF Answering, NextWb, NextTx, Settled, TxByte
    <3>2. wb_state_r' = "WB_IDLE" /\ tx_state' = "TX_WAIT" /\ rd_data_32_r' = wb_dat_i
      BY <3>1, <1>1 DEF NextWb, NextTx
    <3>3. QED
      BY <3>1, <3>2, <1>1, <1>3 DEF Answering
  <2>5. QED
    BY <2>3, <2>4
<1>5. QED
  BY <1>1, <1>2, <1>4 DEF Reading, OnlyWrites, LastReads

LEMMA ReadingReceive ==
  ASSUME NEW q, NEW p, Port(q, p), Reading(q), ReceiveByte
  PROVE  Reading(q)'
<1>1. to_port # <<>> /\ UNCHANGED <<host, job, shown, to_host, wb_state_r, tx_state>>
  BY DEF ReceiveByte, hostVars
<1>2. q # <<>>
  BY <1>1, PortWaits
<1>3. QED
  BY <1>1, <1>2 DEF Reading, OnlyWrites, LastReads, NoAnswer

LEMMA ReadingSend ==
  ASSUME NEW q, NEW m, Base(q, m), m = mem, Reading(q), SendByte
  PROVE  Reading(q)'
<1>1. /\ tx_state \in DOMAIN TxByte
      /\ to_host' = Append(to_host, rd_data_32_r[TxByte[tx_state]])
      /\ tx_state' = NextTxByte[tx_state]
      /\ UNCHANGED <<host, job, shown, wb_state_r, rd_data_32_r, mem>>
  BY DEF SendByte, hostVars, busVars
<1>2. host = "read" /\ q = <<>> /\ Answering
  BY <1>1 DEF Reading, NoAnswer, TxByte
<1>3. MemAt(job.addr)' = MemAt(job.addr)
  BY <1>1 DEF MemAt
<1>4. MemAt(job.addr) \in Word
  <2>1. ZeroWord \in Word
    BY DEF ZeroWord, Word
  <2>2. \A a \in DOMAIN mem : mem[a] \in Word
    BY DEF Base, Memory, AllNamed
  <2>3. QED
    BY <2>1, <2>2 DEF MemAt
<1>5. /\ wb_state_r = "WB_IDLE" /\ rd_data_32_r = MemAt(job.addr)
      /\ to_host = FirstBytes(rd_data_32_r, TxByte[tx_state] - 1)
  BY <1>1, <1>2 DEF Answering, TxByte
<1>6. PICK w \in Word : w = rd_data_32_r
  BY <1>4, <1>5
<1>7. PICK k \in 1 .. 4 : k = TxByte[tx_state]
  BY <1>1 DEF TxByte
<1>8. to_host' = FirstBytes(w, k)
  BY <1>1, <1>5, <1>6, <1>7, BytesGrow
<1>9. Answering'
  <2>1. CASE tx_state = "TX_3"
    <3>1. tx_state' = "TX_IDLE" /\ k = 4
      BY <2>1, <1>1, <1>7 DEF TxByte, NextTxByte
    <3>2. to_host' = w
      BY <3>1, <1>8, BytesGrow
    <3>3. QED
      BY <3>1, <3>2, <1>1, <1>3, <1>5, <1>6 DEF Answering
  <2>2. CASE tx_state # "TX_3"
    <3>1. tx_state' \in DOMAIN TxByte /\ TxByte[tx_state'] - 1 = k
      BY <2>2, <1>1, <1>7 DEF TxByte, NextTxByte
    <3>2. QED
      BY <3>1, <1>1, <1>3, <1>5, <1>6, <1>8 DEF Answering
  <2>3. QED
    BY <2>1, <2>2
<1>10. QED
  BY <1>1, <1>2, <1>9 DEF Reading

LEMMA ReadingAck ==
  ASSUME NEW q, NEW p, Port(q, p), Reading(q), BusAck
  PROVE  Reading(Tail(q))'
<1>1. /\ q \in Seq(Access) /\ q # <<>> /\ WordAddr(addr_r) = q[1].addr
      /\ q[1].kind = "write" => wb_state_r = "WB_WRITE_1" /\ wb_state_r' = "WB_WRITE_2"
      /\ q[1].kind = "read" => wb_state_r = "WB_READ_1" /\ wb_state_r' = "WB_READ_2"
  BY BusAckKeeps
<1>2. UNCHANGED <<host, job, shown, to_host, tx_state>>
  BY DEF BusAck, hostVars
<1>3. PICK r : r = Tail(q)
  OBVIOUS
<1>4. /\ Len(q) \in Nat /\ Len(q) >= 1 /\ Len(r) = Len(q) - 1 /\ r \in Seq(Access)
      /\ \A i \in 1 .. Len(r) : r[i] = q[i + 1]
  BY <1>1, <1>3, HeadTailProperties, LenProperties, EmptySeq
<1>5. CASE host # "read"
  <2>1. OnlyWrites(q) /\ NoAnswer
    BY <1>5 DEF Reading
  <2>2. q[1].kind = "write" /\ OnlyWrites(r)
    BY <2>1, <1>4 DEF OnlyWrites
  <2>3. NoAnswer'
    BY <2>1, <2>2, <1>1, <1>2 DEF NoAnswer
  <2>4. Reading(r)'
    BY <2>2, <2>3, <1>2, <1>5 DEF Reading, OnlyWrites
  <2>5. QED
    BY <2>4, <1>3
<1>6. CASE host = "read" /\ Len(q) = 1
  <2>1. LastReads(q, job.addr) /\ NoAnswer
    BY <1>1, <1>6 DEF Reading
  <2>2. q[1].kind = "read" /\ q[1].addr = job.addr
    BY <2>1, <1>6 DEF LastReads
  <2>3. wb_dat_i' = MemAt(WordAddr(addr_r)) /\ mem' = mem
    BY <2>2, <1>1 DEF BusAck
  <2>4. MemAt(job.addr)' = MemAt(job.addr)
    BY <2>3, <1>2 DEF MemAt
  <2>5. Answering'
    BY <2>1, <2>2, <2>3, <2>4, <1>1, <1>2 DEF Answering, NoAnswer
  <2>6. r = <<>>
    BY <1>4, <1>6, EmptySeq
  <2>7. Reading(r)'
    BY <2>5, <2>6, <1>2, <1>6 DEF Reading
  <2>8. QED
    BY <2>7, <1>3
<1>7. CASE host = "read" /\ Len(q) # 1
  <2>1. LastReads(q, job.addr) /\ NoAnswer
    BY <1>1, <1>7 DEF Reading
  <2>2. q[1].kind = "write"
    BY <2>1, <1>4, <1>7 DEF LastReads
  <2>3. Len(r) \in 1 .. Len(r) /\ Len(r) + 1 = Len(q) /\ Len(r) \in Nat
    BY <1>4, <1>7
  <2>4. r # <<>> /\ r[Len(r)] = q[Len(q)]
    BY <2>3, <1>4, EmptySeq
  <2>5. ASSUME NEW k \in 1 .. Len(r), k < Len(r)
        PROVE  r[k].kind = "write"
    <3>1. k + 1 \in 1 .. Len(q) /\ k + 1 < Len(q)
      BY <2>3, <2>5
    <3>2. r[k] = q[k + 1]
      BY <1>4
    <3>3. QED
      BY <3>1, <3>2, <2>1 DEF LastReads
  <2>6. LastReads(r, job.addr)
    BY <2>1, <2>4, <2>5 DEF LastReads
  <2>7. NoAnswer'
    BY <2>1, <2>2, <1>1, <1>2 DEF NoAnswer
  <2>8. Reading(r)'
    BY <2>6, <2>7, <1>2, <1>7 DEF Reading, LastReads
  <2>9. QED
    BY <2>8, <1>3
<1>8. QED
  BY <1>5, <1>6, <1>7

(* The host reads the word whole, and when it has it nothing is on the way. *)
LEMMA ReadingRead ==
  ASSUME NEW q, NEW p, NEW m, Port(q, p), Base(q, m), m = mem, Reading(q), ReadSizes = {4},
         wb_debug_r32
  PROVE  /\ Reading(q)' /\ to_port = <<>>
         /\ shown' = Append(shown, [addr |-> job.addr, data |-> MemAt(job.addr)])
<1>1. /\ host = "read" /\ host' = "dump" /\ 4 <= Len(to_host)
      /\ LET data == SubSeq(to_host, 1, 4) \o SubSeq(locals.data, 5, 4)
         IN shown' = Append(shown, [addr |-> job.addr, data |-> data])
      /\ to_host' = SubSeq(to_host, 5, Len(to_host))
      /\ UNCHANGED <<wb_state_r, tx_state>>
  BY DEF wb_debug_r32, portVars
<1>2. MemAt(job.addr) \in Word
  <2>1. ZeroWord \in Word
    BY DEF ZeroWord, Word
  <2>2. \A a \in DOMAIN mem : mem[a] \in Word
    BY DEF Base, Memory, AllNamed
  <2>3. QED
    BY <2>1, <2>2 DEF MemAt
<1>3. ASSUME NEW w \in Word
      PROVE  \A k \in 0 .. 4 : Len(FirstBytes(w, k)) = k
  BY DEF FirstBytes
<1>4. /\ q = <<>> /\ wb_state_r = "WB_IDLE" /\ tx_state = "TX_IDLE" /\ to_host = MemAt(job.addr)
  <2>1. to_host # <<>>
    <3>1. Len(<<>>) = 0
      OBVIOUS
    <3>2. QED
      BY <3>1, <1>1
  <2>2. q = <<>> /\ Answering
    BY <2>1, <1>1 DEF Reading, NoAnswer
  <2>3. ASSUME tx_state \in DOMAIN TxByte
        PROVE  FALSE
    <3>1. rd_data_32_r = MemAt(job.addr) /\ to_host = FirstBytes(rd_data_32_r, TxByte[tx_state] - 1)
      BY <2>2, <2>3 DEF Answering, TxByte
    <3>2. TxByte[tx_state] - 1 \in 0 .. 3
      BY <2>3 DEF TxByte
    <3>3. PICK k \in 0 .. 4 : k = TxByte[tx_state] - 1 /\ k < 4
      BY <3>2
    <3>4. PICK w \in Word : w = rd_data_32_r
      BY <3>1, <1>2
    <3>5. Len(to_host) = k
      BY <3>1, <3>3, <3>4, <1>3
    <3>6. QED
      BY <3>3, <3>5, <1>1
  <2>4. QED
    BY <2>1, <2>2, <2>3 DEF Answering
<1>5. to_port = <<>>
  BY <1>4, PortWaits
<1>6. PICK w \in Word : w = to_host
  BY <1>2, <1>4
<1>7. w \in Seq(Byte) /\ Len(w) = 4
  <2>1. FirstBytes(w, 4) = w
    BY BytesGrow
  <2>2. FirstBytes(w, 4) \in Seq(Byte) /\ Len(FirstBytes(w, 4)) = 4
    BY DEF FirstBytes, Word, Byte
  <2>3. QED
    BY <2>1, <2>2
<1>8. SubSeq(w, 1, 4) = w /\ SubSeq(w, 5, 4) = <<>> /\ w \o <<>> = w
  BY <1>7, SubSeqFull, SubSeqEmpty, ConcatEmptySeq
<1>9. SubSeq(locals.data, 5, 4) = <<>>
  OBVIOUS
<1>10. to_host' = <<>> /\ shown' = Append(shown, [addr |-> job.addr, data |-> w])
  BY <1>1, <1>6, <1>7, <1>8, <1>9
<1>11. shown' \in Seq(Row)
  <2>1. job.addr \in Nat
    BY <1>1 DEF Base, HostOK
  <2>2. [addr |-> job.addr, data |-> w] \in Row
    BY <2>1 DEF Row
  <2>3. shown \in Seq(Row)
    BY DEF Reading
  <2>4. QED
    BY <2>2, <2>3, <1>10, AppendProperties
<1>12. Reading(q)'
  BY <1>1, <1>4, <1>10, <1>11 DEF Reading, NoAnswer, OnlyWrites
<1>13. QED
  BY <1>4, <1>5, <1>6, <1>10, <1>12

-----------------------------------------------------------------------------
(* The bytes on the line are commands that keep all this.                  *)
LinkInv ==
  \E q, p, m : /\ m = mem /\ Port(q, p) /\ Base(q, m)
               /\ ReadSizes = {4} => Reading(q)

LEMMA LinkStart ==
  ASSUME LinkInit
  PROVE  LinkInv
<1>1. PICK q, p, m : q = <<>> /\ p = [k \in 1 .. 1 |-> 0] /\ m = mem
  OBVIOUS
<1>2. Port(q, p) /\ Base(q, m)
  BY <1>1, InitBase
<1>3. Reading(q)
  BY <1>1 DEF LinkInit, Reading, OnlyWrites, NoAnswer
<1>4. QED
  BY <1>1, <1>2, <1>3 DEF LinkInv

LEMMA HostKeeps ==
  ASSUME LinkInv, HostNext
  PROVE  LinkInv'
<1>1. PICK q, p, m : m = mem /\ Port(q, p) /\ Base(q, m) /\ (ReadSizes = {4} => Reading(q))
  BY DEF LinkInv
<1>2. m = mem'
  BY <1>1 DEF HostNext, NextArg, CloseTty, target_load_imem, target_load_dmem, dump_mem,
              wb_debug_r32, busVars
<1>3. CASE NextArg
  <2>1. PICK r, l : Port(r, l)' /\ Base(r, m)' /\ (OnlyWrites(q) => OnlyWrites(r))
    BY <1>1, <1>3, NextArgBase
  <2>2. host # "read" /\ host' # "read" /\ UNCHANGED <<shown, to_host, portVars>>
    <3>1. host = "args" /\ arg <= Len(argv) /\ HostOK
      BY <1>1, <1>3 DEF NextArg, Base
    <3>2. Now \in Command
      BY <3>1, LenProperties, ElementOfSeq DEF HostOK, Now
    <3>3. Now.op # "read"
      BY <3>2, CommandParts
    <3>4. QED
      BY <3>1, <3>3, <1>3 DEF NextArg, EndJob
  <2>3. ReadSizes = {4} => Reading(r)'
    BY <1>1, <2>1, <2>2, ReadingHost
  <2>4. QED
    BY <1>2, <2>1, <2>3 DEF LinkInv
<1>4. CASE CloseTty
  <2>1. Port(q, p)' /\ Base(q, m)'
    BY <1>1, <1>4, CloseBase
  <2>2. host # "read" /\ host' # "read" /\ UNCHANGED <<shown, to_host, portVars>>
    BY <1>4 DEF CloseTty
  <2>3. ReadSizes = {4} => Reading(q)'
    BY <1>1, <2>2, ReadingHost
  <2>4. QED
    BY <1>2, <2>1, <2>3 DEF LinkInv
<1>5. CASE target_load_imem
  <2>1. PICK r, l : Port(r, l)' /\ Base(r, m)' /\ (OnlyWrites(q) => OnlyWrites(r))
    BY <1>1, <1>5, LoadImemBase
  <2>2. host # "read" /\ host' # "read" /\ UNCHANGED <<shown, to_host, portVars>>
    BY <1>5 DEF target_load_imem, LeaveJob, EndJob, StayInJob
  <2>3. ReadSizes = {4} => Reading(r)'
    BY <1>1, <2>1, <2>2, ReadingHost
  <2>4. QED
    BY <1>2, <2>1, <2>3 DEF LinkInv
<1>6. CASE target_load_dmem
  <2>1. PICK r, l : Port(r, l)' /\ Base(r, m)' /\ (OnlyWrites(q) => OnlyWrites(r))
    BY <1>1, <1>6, LoadDmemBase
  <2>2. host # "read" /\ host' # "read" /\ UNCHANGED <<shown, to_host, portVars>>
    BY <1>6 DEF target_load_dmem, LeaveJob, EndJob, StayInJob
  <2>3. ReadSizes = {4} => Reading(r)'
    BY <1>1, <2>1, <2>2, ReadingHost
  <2>4. QED
    BY <1>2, <2>1, <2>3 DEF LinkInv
<1>7. CASE dump_mem
  <2>1. PICK r, l : /\ Port(r, l)' /\ Base(r, m)'
                    /\ OnlyWrites(q) =>
                         IF host' = "read" THEN LastReads(r, job'.addr) ELSE OnlyWrites(r)
    BY <1>1, <1>7, DumpBase
  <2>2. ReadSizes = {4} => Reading(r)'
    BY <1>1, <1>7, <2>1, ReadingDump
  <2>3. QED
    BY <1>2, <2>1, <2>2 DEF LinkInv
<1>8. CASE wb_debug_r32
  <2>1. Port(q, p)' /\ Base(q, m)'
    BY <1>1, <1>8, ReadBase
  <2>2. ReadSizes = {4} => Reading(q)'
    BY <1>1, <1>8, ReadingRead
  <2>3. QED
    BY <1>2, <2>1, <2>2 DEF LinkInv
<1>9. QED
  BY <1>3, <1>4, <1>5, <1>6, <1>7, <1>8 DEF HostNext

LEMMA PortKeeps ==
  ASSUME LinkInv, PortNext, BusBytes <= 1
  PROVE  LinkInv'
<1>1. PICK q, p, m : m = mem /\ Port(q, p) /\ Base(q, m) /\ (ReadSizes = {4} => Reading(q))
  BY DEF LinkInv
<1>2. CASE PortClock
  <2>1. m = mem' /\ UNCHANGED hostVars
    BY <1>1, <1>2 DEF PortClock
  <2>2. Port(q, p)' /\ Base(q, m)'
    BY <1>1, <1>2, <2>1, PortClockKeeps, HostStays
  <2>3. ReadSizes = {4} => Reading(q)'
    BY <1>1, <1>2, ReadingClock
  <2>4. QED
    BY <2>1, <2>2, <2>3 DEF LinkInv
<1>3. CASE ReceiveByte
  <2>1. m = mem' /\ UNCHANGED hostVars
    BY <1>1, <1>3 DEF ReceiveByte
  <2>2. PICK l : l = Less(q, p)
    OBVIOUS
  <2>3. Port(q, l)' /\ Base(q, m)'
    BY <1>1, <1>3, <2>1, <2>2, ReceiveKeeps, HostStays
  <2>4. ReadSizes = {4} => Reading(q)'
    BY <1>1, <1>3, ReadingReceive
  <2>5. QED
    BY <2>1, <2>3, <2>4 DEF LinkInv
<1>4. CASE SendByte
  <2>1. m = mem' /\ UNCHANGED hostVars
    BY <1>1, <1>4 DEF SendByte, busVars
  <2>2. Port(q, p)'
    <3>1. UNCHANGED <<to_port, state, addr_r, byte_r, wb_state_r, waited>>
      BY <1>4 DEF SendByte, busVars
    <3>2. QED
      BY <1>1, <3>1 DEF Port, Flight, PortTypeOK, Ready, Partial, Busy, Cur, Accessing
  <2>3. Base(q, m)'
    BY <1>1, <2>1, HostStays
  <2>4. ReadSizes = {4} => Reading(q)'
    BY <1>1, <1>4, ReadingSend
  <2>5. QED
    BY <2>1, <2>2, <2>3, <2>4 DEF LinkInv
<1>5. CASE BusAck
  <2>1. PICK n, r, l : n = mem' /\ r = Tail(q) /\ l = Rest(q, p)
    OBVIOUS
  <2>2. Port(r, l)'
    BY <1>1, <1>5, <2>1, BusAckKeeps
  <2>3. Base(r, n)'
    <3>1. Base(q, mem)
      BY <1>1
    <3>2. QED
      BY <1>1, <1>5, <2>1, <3>1, BusAckBase
  <2>4. ReadSizes = {4} => Reading(r)'
    BY <1>1, <1>5, <2>1, ReadingAck
  <2>5. QED
    BY <2>1, <2>2, <2>3, <2>4 DEF LinkInv
<1>6. QED
  BY <1>2, <1>3, <1>4, <1>5 DEF PortNext

LEMMA LinkStutters ==
  ASSUME LinkInv, UNCHANGED linkVars
  PROVE  LinkInv'
<1>1. PICK q, p, m : m = mem /\ Port(q, p) /\ Base(q, m) /\ (ReadSizes = {4} => Reading(q))
  BY DEF LinkInv
<1>2. UNCHANGED <<hostVars, to_port, to_host, portVars, busVars>>
  BY DEF linkVars
<1>3. m = mem' /\ UNCHANGED <<waited, wb_dat_i, mem>>
  BY <1>1, <1>2 DEF busVars
<1>4. Port(q, p)' /\ Base(q, m)'
  BY <1>1, <1>2, <1>3, QuietKeeps, HostStays
<1>5. Reading(q) => Reading(q)'
  <2>1. UNCHANGED <<host, job, shown, wb_state_r, tx_state, rd_data_32_r, to_host, wb_dat_i, mem>>
    BY <1>2, <1>3 DEF hostVars, portVars
  <2>2. (Answering => Answering') /\ (NoAnswer => NoAnswer')
    BY <2>1 DEF Answering, NoAnswer, MemAt
  <2>3. QED
    BY <2>1, <2>2 DEF Reading, OnlyWrites, LastReads
<1>6. QED
  BY <1>1, <1>3, <1>4, <1>5 DEF LinkInv

LEMMA LinkStep ==
  ASSUME LinkInv, BusBytes <= 1,
         [LinkNext \/ \E commands \in Seq(Command) : StartHost(commands)]_linkVars
  PROVE  LinkInv'
<1>1. CASE HostNext
  BY <1>1, HostKeeps
<1>2. CASE PortNext
  BY <1>2, PortKeeps
<1>3. CASE \E commands \in Seq(Command) : StartHost(commands)
  <2>1. PICK commands \in Seq(Command) : StartHost(commands)
    BY <1>3
  <2>2. PICK q, p, m : m = mem /\ Port(q, p) /\ Base(q, m) /\ (ReadSizes = {4} => Reading(q))
    BY DEF LinkInv
  <2>3. Port(q, p)' /\ Base(q, m)'
    BY <2>1, <2>2, StartBase
  <2>4. m = mem' /\ host # "read" /\ host' # "read" /\ UNCHANGED <<shown, to_host, portVars>>
    BY <2>1, <2>2 DEF StartHost, busVars
  <2>5. ReadSizes = {4} => Reading(q)'
    BY <2>2, <2>4, ReadingHost
  <2>6. QED
    BY <2>3, <2>4, <2>5 DEF LinkInv
<1>4. CASE UNCHANGED linkVars
  BY <1>4, LinkStutters
<1>5. QED
  BY <1>1, <1>2, <1>3, <1>4 DEF LinkNext

LEMMA LinkHolds ==
  ASSUME BusBytes <= 1
  PROVE  LinkSpec => []LinkInv
<1>1. LinkInit => LinkInv
  BY LinkStart
<1>2. LinkInv /\ [LinkNext \/ \E commands \in Seq(Command) : StartHost(commands)]_linkVars
        => LinkInv'
  BY LinkStep
<1>3. QED
  BY <1>1, <1>2, PTL DEF LinkSpec

(* Whatever the commands and however their bytes, the bus and the slaves   *)
(* interleave, the port writes only where the command line says: no byte   *)
(* of a command is ever taken for one of another.  An access must be over  *)
(* before the second byte after it (wb_debug.v, S_WRITE_DATA_3).           *)
THEOREM LinkWritesInRange ==
  ASSUME BusBytes <= 1
  PROVE  LinkSpec => []WritesInRange
<1>1. LinkInv => WritesInRange
  <2>1. SUFFICES ASSUME LinkInv PROVE WritesInRange
    OBVIOUS
  <2>2. PICK q, p, m : m = mem /\ Port(q, p) /\ Base(q, m)
    BY <2>1 DEF LinkInv
  <2>3. AllNamed(q, m)
    BY <2>2 DEF Base, Memory
  <2>4. QED
    BY <2>2, <2>3 DEF AllNamed, Named, WritesInRange
<1>2. QED
  BY <1>1, LinkHolds, PTL

(* When the cores are released every word of every image is at its place,  *)
(* for every orderly command line: target_load_imem and target_load_dmem   *)
(* send their words, and those after the last line, before main goes on.   *)
THEOREM LinkBootsLoadedProgram ==
  ASSUME BusBytes <= 1
  PROVE  LinkSpec => []BootsLoadedProgram
<1>1. LinkInv => BootsLoadedProgram
  <2>1. SUFFICES ASSUME LinkInv, Orderly(argv), ResetCtrl \in DOMAIN mem,
                        NEW k \in DOMAIN argv, IsLoad(argv[k]), NEW i \in Words(argv[k])
                 PROVE  /\ Place(argv[k], i) \in DOMAIN mem
                        /\ mem[Place(argv[k], i)] = WordOfFile(argv[k], i)
    BY DEF BootsLoadedProgram
  <2>2. PICK q, p, m : m = mem /\ Port(q, p) /\ Base(q, m)
    BY <2>1 DEF LinkInv
  <2>3. Kept(q, m) /\ LoadsFirst(q, m) /\ LoadsBefore(q, m)
    BY <2>1, <2>2 DEF Base, Memory
  <2>4. k < arg
    BY <2>1, <2>2, <2>3 DEF LoadsFirst, Releases
  <2>5. Due(q, m, Place(argv[k], i), WordOfFile(argv[k], i))
    BY <2>1, <2>3, <2>4 DEF Kept
  <2>6. argv[k] \in Command
    BY <2>2, ElementOfSeq, LenProperties DEF Base, HostOK
  <2>7. Place(argv[k], i) \in Cells(argv[k])
    BY <2>1, <2>6, PlaceInCells
  <2>8. ASSUME NEW j \in 1 .. Len(q), WritesAt(q, j, Place(argv[k], i))
        PROVE  FALSE
    <3>1. q[j].kind = "write" /\ InLoad(q[j].addr)
      BY <2>1, <2>7, <2>8 DEF WritesAt, InLoad
    <3>2. ResetCtrl \notin DOMAIN m
      BY <2>3, <3>1 DEF LoadsBefore
    <3>3. QED
      BY <3>2, <2>1, <2>2
  <2>9. QED
    BY <2>2, <2>5, <2>8 DEF Due
<1>2. QED
  BY <1>1, LinkHolds, PTL

(* A dump shows the memory, after every write of the commands before it,   *)
(* where read returns the four bytes of a word together: wb_debug_r32 does *)
(* not look at how many it was given.                                      *)
THEOREM LinkDumpShowsMemory ==
  ASSUME BusBytes <= 1, ReadSizes = {4}
  PROVE  LinkSpec => DumpShowsMemory
<1> DEFINE Shows == shown' # shown =>
                      LET row == shown'[Len(shown')]
                      IN to_port = <<>> /\ row.data = MemAt(row.addr)
<1>1. ASSUME LinkInv,
             [LinkNext \/ \E commands \in Seq(Command) : StartHost(commands)]_linkVars
      PROVE  [Shows]_linkVars
  <2>1. CASE wb_debug_r32
    <3>1. PICK q, p, m : m = mem /\ Port(q, p) /\ Base(q, m) /\ Reading(q)
      BY <1>1 DEF LinkInv
    <3>2. PICK w : w = [addr |-> job.addr, data |-> MemAt(job.addr)]
      OBVIOUS
    <3>3. to_port = <<>> /\ shown' = Append(shown, w) /\ shown \in Seq(Row)
      BY <2>1, <3>1, <3>2, ReadingRead DEF Reading
    <3>4. shown'[Len(shown')] = w
      BY <3>3, AppendProperties
    <3>5. QED
      BY <3>2, <3>3, <3>4
  <2>2. CASE ~wb_debug_r32
    <3>1. shown' = shown
      BY <1>1, <2>2 DEF LinkNext, HostNext, PortNext, NextArg, CloseTty, target_load_imem,
         target_load_dmem, dump_mem, PortClock, ReceiveByte, SendByte, BusAck, StartHost,
         linkVars, hostVars
    <3>2. QED
      BY <3>1
  <2>3. QED
    BY <2>1, <2>2
<1>2. QED
  BY <1>1, LinkHolds, PTL DEF LinkSpec, DumpShowsMemory
=============================================================================
