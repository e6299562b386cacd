------------------------ MODULE CommandBufferProofs -------------------------
(***************************************************************************)
(* For every buffer size and every set of commands: handle reads whole     *)
(* commands in the order of the pushes, and push never overwrites a byte   *)
(* that was not released.                                                  *)
(***************************************************************************)
EXTENDS CommandBuffer, SequenceTheorems, TLAPS

(* The bytes stored by the push in progress lie behind the published ones, *)
(* and the whole command will fit in front of the unreleased ones.         *)
WriterInv ==
  writer.pc = "store" =>
    /\ writer.cmd \in Command
    /\ writer.pos <= 1 + PayloadSize[writer.cmd]
    /\ Len(unread) + 1 + PayloadSize[writer.cmd] < COMMAND_BUFFER_SIZE
    /\ writer.idx = Offset(pending_index, writer.pos)
    /\ \A k \in 0 .. writer.pos - 1 :
         buffer[Offset(pending_index, k)] = <<writer.cmd, k>>

(* A sequence of whole commands: every byte but the last of a command is   *)
(* followed by the next one, the last one by the first of another command. *)
IsFramed(s) ==
  /\ \A j \in 1 .. Len(s) :
       /\ s[j][1] \in Command
       /\ s[j][2] \in 0 .. PayloadSize[s[j][1]]
       /\ j + (PayloadSize[s[j][1]] - s[j][2]) <= Len(s)
       /\ s[j][2] < PayloadSize[s[j][1]] => s[j + 1] = <<s[j][1], s[j][2] + 1>>
       /\ s[j][2] = PayloadSize[s[j][1]] /\ j < Len(s) => s[j + 1][2] = 0
  /\ Len(s) > 0 => s[1][2] = 0

Framed == IsFramed(unread)

(* What handle has read is a prefix of the oldest unreleased command. *)
ReaderInv ==
  reader.pc # "idle" =>
    /\ unread # <<>>
    /\ Len(reader.got) <= 1 + PayloadSize[unread[1][1]]
    /\ Len(reader.got) <= Len(unread)
    /\ \A k \in 1 .. Len(reader.got) :
         reader.got[k] = unread[k] /\ reader.got[k] = <<unread[1][1], k - 1>>
    /\ reader.idx = Offset(completed_index, Len(reader.got))
    /\ reader.pc = "release" => Len(reader.got) = 1 + PayloadSize[unread[1][1]]

(* The commands cs are encoded in the bytes bs: the i-th one begins after  *)
(* byte start[i], and the last one ends where bs ends.                     *)
Encodes(start, cs, bs) ==
  /\ start[1] = 0 /\ start[Len(cs) + 1] = Len(bs)
  /\ \A i, j \in 1 .. Len(cs) + 1 : i < j => start[i] < start[j]
  /\ \A i \in 1 .. Len(cs) : /\ start[i + 1] = start[i] + 1 + PayloadSize[cs[i]]
                             /\ bs[start[i] + 1][1] = cs[i]

QueueInv == \E start \in [1 .. Len(pushed) + 1 -> Nat] : Encodes(start, pushed, unread)

IInv == TypeOK /\ UnreadIntact /\ WriterInv /\ Framed /\ ReaderInv /\ QueueInv

-----------------------------------------------------------------------------
LEMMA OffsetType ==
  ASSUME NEW i \in Index, NEW k \in Nat, k < COMMAND_BUFFER_SIZE
  PROVE  Offset(i, k) \in Index /\ Offset(i, 0) = i
  BY BufferAssumption DEF Offset, Index

LEMMA OffsetNext ==
  ASSUME NEW i \in Index, NEW k \in Nat, k + 1 < COMMAND_BUFFER_SIZE
  PROVE  NextIndex(Offset(i, k)) = Offset(i, k + 1)
  BY BufferAssumption DEF Offset, NextIndex, Index

LEMMA OffsetAdd ==
  ASSUME NEW i \in Index, NEW k \in Nat, NEW l \in Nat, k + l < COMMAND_BUFFER_SIZE
  PROVE  Offset(Offset(i, k), l) = Offset(i, k + l)
  BY BufferAssumption DEF Offset, Index

LEMMA OffsetInjective ==
  ASSUME NEW i \in Index, NEW k \in Nat, NEW l \in Nat, k # l,
         k < COMMAND_BUFFER_SIZE, l < COMMAND_BUFFER_SIZE
  PROVE  Offset(i, k) # Offset(i, l)
  BY BufferAssumption DEF Offset, Index

(* push computes the free space exactly. *)
LEMMA CapacityExact ==
  ASSUME TypeOK, UnreadIntact
  PROVE  AvailableCapacity = COMMAND_BUFFER_SIZE - 1 - Len(unread)
  <1>1. Len(unread) \in Nat
    BY DEF TypeOK
  <1> QED
    BY <1>1, BufferAssumption DEF TypeOK, UnreadIntact, AvailableCapacity, Offset, Index

LEMMA BytesType ==
  ASSUME NEW c \in Command
  PROVE  /\ Bytes(c) \in Seq(Byte)
         /\ Len(Bytes(c)) = 1 + PayloadSize[c]
         /\ \A k \in 1 .. 1 + PayloadSize[c] : Bytes(c)[k] = <<c, k - 1>>
  <1>1. PayloadSize[c] \in Nat
    BY BufferAssumption
  <1>2. \A k \in 1 .. 1 + PayloadSize[c] : <<c, k - 1>> \in Byte
    BY <1>1 DEF Byte
  <1> QED
    BY <1>1, <1>2, IsASeq DEF Bytes

(* The facts IsFramed states of the j-th byte of a sequence of length n. *)
FramedAt(s, j, n) ==
  /\ s[j][1] \in Command
  /\ s[j][2] \in 0 .. PayloadSize[s[j][1]]
  /\ j + (PayloadSize[s[j][1]] - s[j][2]) <= n
  /\ s[j][2] < PayloadSize[s[j][1]] => s[j + 1] = <<s[j][1], s[j][2] + 1>>
  /\ s[j][2] = PayloadSize[s[j][1]] /\ j < n => s[j + 1][2] = 0

(* t is s, of length n, followed by command c with q bytes of payload. *)
IsPushed(t, s, n, c, q) ==
  /\ n = Len(s) /\ q = PayloadSize[c]
  /\ Len(t) = n + 1 + q
  /\ \A i \in 1 .. n : t[i] = s[i]
  /\ \A i \in 1 .. 1 + q : t[n + i] = <<c, i - 1>>

LEMMA FramedConcat ==
  ASSUME NEW s, NEW t, NEW c \in Command, NEW n \in Nat, NEW q \in Nat,
         IsFramed(s), IsPushed(t, s, n, c, q)
  PROVE  IsFramed(t)
  <1>1. ASSUME NEW j \in 1 .. n + 1 + q
        PROVE  FramedAt(t, j, n + 1 + q)
    <2>1. CASE j < n
      <3>1. j \in 1 .. n /\ j + 1 \in 1 .. n /\ j < n + 1 + q
        BY <2>1
      <3>2. t[j] = s[j] /\ t[j + 1] = s[j + 1]
        BY <3>1 DEF IsPushed
      <3>3. FramedAt(s, j, n)
        BY <3>1 DEF IsFramed, FramedAt, IsPushed
      <3>4. PayloadSize[s[j][1]] \in Nat
        BY <3>3, BufferAssumption DEF FramedAt
      <3> QED
        BY <2>1, <3>1, <3>2, <3>3, <3>4 DEF FramedAt
    <2>2. CASE j = n
      <3>1. j \in 1 .. n /\ 1 \in 1 .. 1 + q /\ 1 - 1 = 0
        BY <2>2
      <3>2. t[j] = s[j] /\ t[j + 1] = <<c, 0>>
        BY <3>1, <2>2 DEF IsPushed
      <3>3. FramedAt(s, j, n)
        BY <3>1 DEF IsFramed, FramedAt, IsPushed
      <3>4. PayloadSize[s[j][1]] \in Nat
        BY <3>3, BufferAssumption DEF FramedAt
      <3>5. s[j][2] = PayloadSize[s[j][1]]
        BY <2>2, <3>3, <3>4 DEF FramedAt
      <3> QED
        BY <2>2, <3>1, <3>2, <3>3, <3>4, <3>5 DEF FramedAt
    <2>3. CASE j > n
      <3>1. PICK i \in 1 .. 1 + q : j = n + i
        <4>1. j - n \in 1 .. 1 + q /\ j = n + (j - n)
          BY <2>3
        <4> QED
          BY <4>1
      <3>2. i < 1 + q => i + 1 \in 1 .. 1 + q /\ j + 1 = n + (i + 1) /\ (i + 1) - 1 = i
        BY <3>1
      <3>3. t[j] = <<c, i - 1>> /\ PayloadSize[c] = q
        BY <3>1 DEF IsPushed
      <3>4. i < 1 + q => t[j + 1] = <<c, i>>
        BY <3>2 DEF IsPushed
      <3> QED
        BY <3>1, <3>3, <3>4 DEF FramedAt
    <2> QED
      BY <2>1, <2>2, <2>3
  <1>2. t[1][2] = 0
    <2>1. CASE n = 0
      <3>1. 1 \in 1 .. 1 + q /\ n + 1 = 1 /\ 1 - 1 = 0
        BY <2>1
      <3> QED
        BY <3>1 DEF IsPushed
    <2>2. CASE n > 0
      <3>1. 1 \in 1 .. n
        BY <2>2
      <3>2. t[1] = s[1] /\ Len(s) = n
        BY <3>1 DEF IsPushed
      <3> QED
        BY <2>2, <3>2 DEF IsFramed
    <2> QED
      BY <2>1, <2>2
  <1> QED
    BY <1>1, <1>2 DEF IsFramed, FramedAt, IsPushed

(* t is s, of length n, without its first z bytes. *)
IsReleased(t, s, n, z) ==
  /\ n = Len(s) /\ z > 0 /\ z <= n /\ s[z][2] = PayloadSize[s[z][1]]
  /\ Len(t) = n - z
  /\ \A i \in 1 .. n - z : t[i] = s[z + i]

LEMMA FramedDrop ==
  ASSUME NEW s, NEW t, NEW n \in Nat, NEW z \in Nat, IsFramed(s), IsReleased(t, s, n, z)
  PROVE  IsFramed(t)
  <1>0. z > 0 /\ z <= n
    BY DEF IsReleased
  <1>1. ASSUME NEW j \in 1 .. n - z
        PROVE  FramedAt(t, j, n - z)
    <2>1. PICK i \in 1 .. n : i = z + j
      <3>1. z + j \in 1 .. n
        BY <1>0
      <3> QED
        BY <3>1
    <2>2. t[j] = s[i]
      BY <2>1 DEF IsReleased
    <2>3. FramedAt(s, i, n)
      BY <2>1 DEF IsFramed, FramedAt, IsReleased
    <2>4. PayloadSize[s[i][1]] \in Nat
      BY <2>3, BufferAssumption DEF FramedAt
    <2>5. j < n - z => i < n /\ j + 1 \in 1 .. n - z /\ z + (j + 1) = i + 1
      BY <1>0, <2>1
    <2>6. j < n - z => t[j + 1] = s[i + 1]
      BY <2>5 DEF IsReleased
    <2>7. s[i][2] < PayloadSize[s[i][1]] => j < n - z
      BY <1>0, <2>1, <2>3, <2>4 DEF FramedAt
    <2> QED
      BY <1>0, <2>1, <2>2, <2>3, <2>4, <2>5, <2>6, <2>7 DEF FramedAt
  <1>2. n - z > 0 => t[1][2] = 0
    <2>1. n - z > 0 => 1 \in 1 .. n - z /\ z \in 1 .. n /\ z < n
      BY <1>0
    <2>2. n - z > 0 => t[1] = s[z + 1]
      BY <2>1 DEF IsReleased
    <2>3. n - z > 0 => FramedAt(s, z, n)
      BY <2>1 DEF IsFramed, FramedAt, IsReleased
    <2> QED
      BY <2>1, <2>2, <2>3 DEF FramedAt, IsReleased
  <1> QED
    BY <1>1, <1>2 DEF IsFramed, FramedAt, IsReleased

(* push appends the bytes of one command. *)
LEMMA EncodesPushed ==
  ASSUME NEW cs \in Seq(Command), NEW s, NEW t, NEW c \in Command, NEW n \in Nat, NEW q \in Nat,
         IsPushed(t, s, n, c, q),
         NEW start \in [1 .. Len(cs) + 1 -> Nat], Encodes(start, cs, s)
  PROVE  \E new \in [1 .. Len(Append(cs, c)) + 1 -> Nat] : Encodes(new, Append(cs, c), t)
  <1>1. PICK m \in Nat : m = Len(cs)
    OBVIOUS
  <1>2. /\ Append(cs, c) \in Seq(Command) /\ Len(Append(cs, c)) = m + 1
        /\ \A i \in 1 .. m : Append(cs, c)[i] = cs[i]
        /\ Append(cs, c)[m + 1] = c
    BY <1>1, AppendProperties
  <1>3. PICK new : new = [i \in 1 .. m + 2 |-> IF i = m + 2 THEN n + 1 + q ELSE start[i]]
    OBVIOUS
  <1>4. /\ \A i \in 1 .. m + 1 : new[i] = start[i] /\ start[i] \in Nat
        /\ new[m + 2] = n + 1 + q /\ start[m + 1] = n /\ start[1] = 0
        /\ 1 \in 1 .. m + 1 /\ m + 1 \in 1 .. m + 1
    BY <1>1, <1>3 DEF Encodes, IsPushed
  <1>5. new \in [1 .. Len(Append(cs, c)) + 1 -> Nat]
    BY <1>1, <1>2, <1>3, <1>4
  <1>6. ASSUME NEW i \in 1 .. m + 2, NEW j \in 1 .. m + 2, i < j
        PROVE  new[i] < new[j]
    <2>1. i \in 1 .. m + 1 /\ (j \in 1 .. m + 1 \/ j = m + 2)
      BY <1>6
    <2>2. i < m + 1 => start[i] < n
      BY <1>1, <1>4, <2>1 DEF Encodes
    <2>3. j \in 1 .. m + 1 => start[i] < start[j]
      BY <1>1, <1>6, <2>1 DEF Encodes
    <2>4. /\ new[i] = start[i] /\ start[i] \in Nat
          /\ j \in 1 .. m + 1 => new[j] = start[j]
      BY <1>4, <2>1
    <2>5. start[i] <= n
      BY <1>4, <2>1, <2>2, <2>4
    <2> QED
      BY <1>4, <2>1, <2>3, <2>4, <2>5
  <1>7. ASSUME NEW i \in 1 .. m + 1
        PROVE  /\ new[i + 1] = new[i] + 1 + PayloadSize[Append(cs, c)[i]]
               /\ t[new[i] + 1][1] = Append(cs, c)[i]
    <2>1. CASE i = m + 1
      <3>1. i + 1 = m + 2 /\ new[i] = n /\ Append(cs, c)[i] = c /\ q = PayloadSize[c]
        BY <1>2, <1>4, <2>1 DEF IsPushed
      <3>2. 1 \in 1 .. 1 + q /\ t[n + 1] = <<c, 1 - 1>>
        BY DEF IsPushed
      <3> QED
        BY <1>4, <3>1, <3>2
    <2>2. CASE i # m + 1
      <3>1. i \in 1 .. m /\ i + 1 \in 1 .. m + 1 /\ i < m + 1
        BY <2>2
      <3>2. /\ start[i + 1] = start[i] + 1 + PayloadSize[cs[i]]
            /\ s[start[i] + 1][1] = cs[i]
            /\ start[i] < n
        BY <1>1, <1>4, <3>1 DEF Encodes
      <3>3. start[i] \in Nat /\ start[i] + 1 \in 1 .. n
        <4>1. start[i] \in Nat
          BY <1>4
        <4> QED
          BY <3>2, <4>1
      <3>4. t[start[i] + 1] = s[start[i] + 1]
        BY <3>3 DEF IsPushed
      <3> QED
        BY <1>2, <1>4, <3>1, <3>2, <3>4
    <2> QED
      BY <2>1, <2>2
  <1>8. Encodes(new, Append(cs, c), t)
    <2>1. Len(Append(cs, c)) + 1 = m + 2
      BY <1>2
    <2>2. new[1] = 0 /\ new[m + 2] = Len(t)
      BY <1>4 DEF IsPushed
    <2> QED
      BY <1>2, <1>6, <1>7, <2>1, <2>2 DEF Encodes
  <1> QED
    BY <1>5, <1>8

(* The first of the commands cs has z bytes. *)
IsFirst(cs, z) == cs # <<>> /\ z = 1 + PayloadSize[cs[1]]

(* Without its first command, the buffer encodes the others. *)
LEMMA EncodesReleased ==
  ASSUME NEW cs \in Seq(Command), NEW s, NEW t, NEW n \in Nat, NEW z \in Nat,
         IsReleased(t, s, n, z), IsFirst(cs, z),
         NEW start \in [1 .. Len(cs) + 1 -> Nat], Encodes(start, cs, s)
  PROVE  \E new \in [1 .. Len(Tail(cs)) + 1 -> Nat] : Encodes(new, Tail(cs), t)
  <1>1. PICK m \in Nat : Len(cs) = m + 1
    <2>1. Len(cs) \in Nat /\ Len(cs) # 0
      BY DEF IsFirst
    <2>2. Len(cs) - 1 \in Nat /\ Len(cs) = (Len(cs) - 1) + 1
      BY <2>1
    <2> QED
      BY <2>2
  <1>2. /\ Tail(cs) \in Seq(Command) /\ Len(Tail(cs)) = m
        /\ \A i \in 1 .. m : Tail(cs)[i] = cs[i + 1]
    BY <1>1, HeadTailProperties DEF IsFirst
  <1>3. PICK new : new = [i \in 1 .. m + 1 |-> start[i + 1] - z]
    OBVIOUS
  <1>4. /\ start[1] = 0 /\ start[2] = z /\ start[m + 2] = n
        /\ \A i \in 1 .. m + 2 : start[i] \in Nat
        /\ 1 \in 1 .. m + 1 /\ 2 \in 1 .. m + 2
    BY <1>1 DEF Encodes, IsReleased, IsFirst
  <1>5. ASSUME NEW i \in 1 .. m + 1
        PROVE  new[i] = start[i + 1] - z /\ new[i] \in Nat /\ i + 1 \in 1 .. m + 2
    <2>1. i + 1 \in 1 .. m + 2 /\ (i = 1 \/ 2 < i + 1)
      OBVIOUS
    <2>2. start[i + 1] \in Nat
      BY <1>4, <2>1
    <2>3. start[i + 1] >= z
      <3>1. CASE i = 1
        <4>1. i + 1 = 2
          BY <3>1
        <4> QED
          BY <1>4, <4>1
      <3>2. CASE 2 < i + 1
        <4>1. 2 \in 1 .. Len(cs) + 1 /\ i + 1 \in 1 .. Len(cs) + 1
          BY <1>1, <2>1
        <4>2. start[2] < start[i + 1]
          BY <3>2, <4>1 DEF Encodes
        <4> QED
          BY <1>4, <2>2, <4>2
      <3> QED
        BY <2>1, <3>1, <3>2
    <2>4. new[i] = start[i + 1] - z
      BY <1>3
    <2> QED
      BY <2>1, <2>2, <2>3, <2>4
  <1>6. new \in [1 .. Len(Tail(cs)) + 1 -> Nat]
    BY <1>2, <1>3, <1>5
  <1>7. ASSUME NEW i \in 1 .. m + 1, NEW j \in 1 .. m + 1, i < j
        PROVE  new[i] < new[j]
    <2>1. start[i + 1] < start[j + 1]
      BY <1>1, <1>5, <1>7 DEF Encodes
    <2>2. start[i + 1] \in Nat /\ start[j + 1] \in Nat
      BY <1>4, <1>5
    <2>3. new[i] = start[i + 1] - z /\ new[j] = start[j + 1] - z
      BY <1>5
    <2> QED
      BY <2>1, <2>2, <2>3
  <1>8. ASSUME NEW i \in 1 .. m
        PROVE  /\ new[i + 1] = new[i] + 1 + PayloadSize[Tail(cs)[i]]
               /\ t[new[i] + 1][1] = Tail(cs)[i]
    <2>1. /\ i \in 1 .. m + 1 /\ i + 1 \in 1 .. m + 1 /\ (i + 1) + 1 \in 1 .. m + 2
          /\ m + 2 \in 1 .. m + 2 /\ i + 1 < m + 2
      OBVIOUS
    <2>2. /\ start[(i + 1) + 1] = start[i + 1] + 1 + PayloadSize[cs[i + 1]]
          /\ s[start[i + 1] + 1][1] = cs[i + 1]
          /\ start[i + 1] < n
          /\ start[i + 1] \in Nat
      <3>1. i + 1 \in 1 .. Len(cs) /\ m + 2 = Len(cs) + 1 /\ i + 1 \in 1 .. Len(cs) + 1
        BY <1>1, <2>1
      <3>2. start[i + 1] < start[m + 2]
        BY <2>1, <3>1 DEF Encodes
      <3>3. start[i + 1] \in Nat
        BY <1>4, <2>1
      <3> QED
        BY <1>4, <3>1, <3>2, <3>3 DEF Encodes
    <2>3. PayloadSize[cs[i + 1]] \in Nat
      BY <1>1, <2>1, BufferAssumption
    <2>4. PICK u \in Nat : u = start[i + 1] /\ u < n
      BY <2>2
    <2>5. PICK k \in Nat : k = new[i] /\ u = k + z
      <3>1. new[i] \in Nat /\ new[i] = u - z
        BY <1>5, <2>1, <2>4
      <3>2. u = new[i] + z
        BY <3>1
      <3> QED
        BY <3>1, <3>2
    <2>6. k + 1 \in 1 .. n - z /\ z + (k + 1) = u + 1
      <3>1. u = k + z /\ u < n
        BY <2>4, <2>5
      <3> QED
        BY <3>1
    <2>7. t[k + 1] = s[u + 1]
      <3>1. t[k + 1] = s[z + (k + 1)]
        BY <2>6 DEF IsReleased
      <3> QED
        BY <2>6, <3>1
    <2>8. new[i + 1] = start[(i + 1) + 1] - z
      BY <1>5, <2>1
    <2>9. new[i + 1] = k + 1 + PayloadSize[cs[i + 1]]
      <3>1. start[(i + 1) + 1] = u + 1 + PayloadSize[cs[i + 1]]
        BY <2>2, <2>4
      <3>2. PICK q \in Nat : q = PayloadSize[cs[i + 1]]
        BY <2>3
      <3>3. u = k + z
        BY <2>5
      <3>4. (u + 1 + q) - z = k + 1 + q
        BY <3>3
      <3> QED
        BY <2>8, <3>1, <3>2, <3>4
    <2> QED
      BY <1>2, <2>2, <2>4, <2>5, <2>7, <2>9
  <1>9. new[1] = 0 /\ new[m + 1] = n - z
    <2>1. 1 \in 1 .. m + 1 /\ m + 1 \in 1 .. m + 1 /\ 1 + 1 = 2 /\ (m + 1) + 1 = m + 2
      OBVIOUS
    <2>2. new[1] = start[1 + 1] - z /\ new[m + 1] = start[(m + 1) + 1] - z
      BY <1>5, <2>1
    <2> QED
      BY <1>4, <2>1, <2>2
  <1>10. Encodes(new, Tail(cs), t)
    BY <1>2, <1>7, <1>8, <1>9 DEF Encodes, IsReleased
  <1> QED
    BY <1>6, <1>10

-----------------------------------------------------------------------------
LEMMA InitInv == Init => IInv
  <1> SUFFICES ASSUME Init PROVE IInv
    OBVIOUS
  <1>1. TypeOK
    BY BufferAssumption DEF Init, TypeOK, IdleWriter, IdleReader, Index, Byte, NoByte
  <1>2. UnreadIntact /\ Framed
    BY BufferAssumption DEF Init, UnreadIntact, Framed, IsFramed, Offset
  <1>3. WriterInv /\ ReaderInv
    BY DEF Init, WriterInv, ReaderInv, IdleWriter, IdleReader
  <1>4. QueueInv
    <2>1. pushed = <<>> /\ unread = <<>> /\ Len(pushed) = 0 /\ Len(unread) = 0
      BY DEF Init
    <2>2. PICK start : start = [i \in 1 .. 1 |-> 0]
      OBVIOUS
    <2>3. Encodes(start, pushed, unread) /\ start \in [1 .. Len(pushed) + 1 -> Nat]
      BY <2>1, <2>2 DEF Encodes
    <2> QED
      BY <2>3 DEF QueueInv
  <1> QED
    BY <1>1, <1>2, <1>3, <1>4 DEF IInv

LEMMA BeginPushInv ==
  ASSUME IInv, NEW c \in Command, BeginPush(c)
  PROVE  IInv'
  <1> USE DEF IInv, BeginPush
  <1>1. PayloadSize[c] \in Nat /\ Len(unread) \in Nat /\ pending_index \in Index
    BY BufferAssumption DEF TypeOK
  <1>2. TypeOK'
    BY <1>1 DEF TypeOK
  <1>3. UnreadIntact'
    BY DEF UnreadIntact
  <1>4. WriterInv'
    BY <1>1, CapacityExact, OffsetType, BufferAssumption DEF WriterInv
  <1>5. Framed' /\ ReaderInv'
    BY DEF Framed, ReaderInv
  <1>6. QueueInv'
    BY DEF QueueInv, Encodes
  <1> QED
    BY <1>2, <1>3, <1>4, <1>5, <1>6

LEMMA StoreByteInv ==
  ASSUME IInv, StoreByte
  PROVE  IInv'
  <1> DEFINE p == writer.pos
             n == Len(unread)
             c == writer.cmd
  <1>1. /\ c \in Command /\ PayloadSize[c] \in Nat
        /\ p \in Nat /\ p <= PayloadSize[c]
        /\ n \in Nat /\ n + 1 + PayloadSize[c] < COMMAND_BUFFER_SIZE
        /\ pending_index \in Index /\ completed_index \in Index
        /\ pending_index = Offset(completed_index, n)
        /\ writer.idx = Offset(pending_index, p) /\ writer.idx \in Index
        /\ writer \in [pc : {"idle", "store"}, cmd : Command \cup {NoCommand},
                       idx : Index, pos : Nat]
        /\ buffer \in [Index -> Byte \cup {NoByte}]
    BY BufferAssumption DEF IInv, StoreByte, TypeOK, WriterInv, UnreadIntact
  <1>2. /\ writer'.idx = NextIndex(writer.idx) /\ writer'.pc = "store"
        /\ writer'.cmd = c /\ writer'.pos = p + 1
        /\ writer' = [pc |-> writer'.pc, cmd |-> writer'.cmd,
                      idx |-> writer'.idx, pos |-> writer'.pos]
        /\ buffer' \in [Index -> Byte \cup {NoByte}]
        /\ buffer'[writer.idx] = <<c, p>>
        /\ \A i \in Index \ {writer.idx} : buffer'[i] = buffer[i]
    BY <1>1 DEF StoreByte, Byte
  <1>3. UNCHANGED <<completed_index, pending_index, reader, dispatched, unread, pushed>>
    BY DEF StoreByte
  <1>4. p + 1 \in Nat /\ p + 1 < COMMAND_BUFFER_SIZE /\ n + p \in Nat /\ n + p < COMMAND_BUFFER_SIZE
    BY <1>1, BufferAssumption
  <1>5. writer'.idx = Offset(pending_index, p + 1) /\ writer'.idx \in Index
    <2>1. NextIndex(Offset(pending_index, p)) = Offset(pending_index, p + 1)
      BY <1>1, <1>4, OffsetNext
    <2>2. Offset(pending_index, p + 1) \in Index
      BY <1>1, <1>4, OffsetType
    <2> QED
      BY <1>1, <1>2, <2>1, <2>2
  <1>6. TypeOK'
    <2>1. writer' \in [pc : {"idle", "store"}, cmd : Command \cup {NoCommand}, idx : Index, pos : Nat]
      BY <1>1, <1>2, <1>4, <1>5
    <2> QED
      BY <1>2, <1>3, <2>1 DEF TypeOK, IInv
  <1>7. UnreadIntact'
    <2>1. ASSUME NEW k \in 1 .. n
          PROVE  buffer'[Offset(completed_index, k - 1)] = buffer[Offset(completed_index, k - 1)]
      <3>1. writer.idx = Offset(completed_index, n + p)
        BY <1>1, <1>4, OffsetAdd
      <3>2. /\ k - 1 \in Nat /\ k - 1 # n + p /\ k - 1 < COMMAND_BUFFER_SIZE
        BY <1>1, BufferAssumption
      <3>3. Offset(completed_index, k - 1) # writer.idx
        BY <1>1, <1>4, <3>1, <3>2, OffsetInjective
      <3>4. Offset(completed_index, k - 1) \in Index
        BY <1>1, <3>2, OffsetType
      <3> QED
        BY <1>2, <3>3, <3>4
    <2> QED
      BY <1>3, <2>1 DEF UnreadIntact, IInv, Offset
  <1>8. WriterInv'
    <2>1. ASSUME NEW k \in 0 .. p
          PROVE  buffer'[Offset(pending_index, k)] = <<c, k>>
      <3>1. CASE k = p
        BY <1>1, <1>2, <3>1
      <3>2. CASE k # p
        <4>1. k \in Nat /\ k < COMMAND_BUFFER_SIZE /\ p < COMMAND_BUFFER_SIZE /\ k \in 0 .. p - 1
          BY <1>1, <3>2, BufferAssumption
        <4>2. Offset(pending_index, k) # writer.idx
          BY <1>1, <3>2, <4>1, OffsetInjective
        <4>3. Offset(pending_index, k) \in Index
          BY <1>1, <4>1, OffsetType
        <4> QED
          BY <1>2, <4>1, <4>2, <4>3 DEF WriterInv, IInv, StoreByte
      <3> QED
        BY <3>1, <3>2
    <2>2. p + 1 <= 1 + PayloadSize[c] /\ (p + 1) - 1 = p
      BY <1>1
    <2>3. \A k \in 0 .. writer'.pos - 1 : buffer'[Offset(pending_index, k)] = <<writer'.cmd, k>>
      BY <1>2, <2>1, <2>2
    <2>4. /\ writer'.cmd \in Command /\ writer'.pos <= 1 + PayloadSize[writer'.cmd]
          /\ Len(unread) + 1 + PayloadSize[writer'.cmd] < COMMAND_BUFFER_SIZE
          /\ writer'.idx = Offset(pending_index, writer'.pos)
      BY <1>1, <1>2, <1>5, <2>2
    <2> QED
      BY <1>3, <2>3, <2>4 DEF WriterInv, Offset
  <1>9. Framed' /\ ReaderInv'
    BY <1>3 DEF Framed, ReaderInv, Offset, IInv
  <1>10. QueueInv'
    BY <1>3 DEF IInv, QueueInv, Encodes
  <1> QED
    BY <1>6, <1>7, <1>8, <1>9, <1>10 DEF IInv

LEMMA PublishInv ==
  ASSUME IInv, Publish
  PROVE  IInv'
  <1>0. /\ writer.cmd \in Command /\ PayloadSize[writer.cmd] \in Nat
        /\ Len(unread) \in Nat /\ unread \in Seq(Byte)
        /\ writer.pos \in Nat
    BY BufferAssumption DEF IInv, Publish, TypeOK, WriterInv
  <1>1. PICK n \in Nat, c \in Command, q \in Nat :
          n = Len(unread) /\ c = writer.cmd /\ q = PayloadSize[writer.cmd]
    BY <1>0
  <1>2. /\ writer.pos = 1 + q /\ n + 1 + q < COMMAND_BUFFER_SIZE
        /\ pending_index \in Index /\ completed_index \in Index
        /\ pending_index = Offset(completed_index, n)
        /\ writer.idx = Offset(pending_index, 1 + q) /\ writer.idx \in Index
    <2>1. pending_index \in Index /\ completed_index \in Index /\ writer.idx \in Index
      BY DEF IInv, TypeOK
    <2>2. pending_index = Offset(completed_index, n)
      BY <1>1 DEF IInv, UnreadIntact
    <2>3. /\ writer.pos <= 1 + q /\ writer.pos > q /\ n + 1 + q < COMMAND_BUFFER_SIZE
          /\ writer.idx = Offset(pending_index, writer.pos)
      BY <1>0, <1>1 DEF IInv, Publish, WriterInv
    <2>4. writer.pos = 1 + q
      BY <1>0, <2>3
    <2> QED
      BY <2>1, <2>2, <2>3, <2>4
  <1>3. ASSUME NEW k \in 0 .. q
        PROVE  buffer[Offset(pending_index, k)] = <<c, k>>
    <2>1. k \in 0 .. writer.pos - 1
      BY <1>2
    <2> QED
      BY <1>1, <2>1 DEF IInv, WriterInv, Publish
  <1>4. /\ pending_index' = writer.idx /\ unread' = unread \o Bytes(c)
        /\ writer' = IdleWriter /\ pushed' = Append(pushed, c)
        /\ UNCHANGED <<completed_index, buffer, reader, dispatched>>
    BY <1>1 DEF Publish
  <1>5. unread' \in Seq(Byte) /\ IsPushed(unread', unread, n, c, q)
    <2>1. /\ Bytes(c) \in Seq(Byte) /\ Len(Bytes(c)) = 1 + q
          /\ \A k \in 1 .. 1 + q : Bytes(c)[k] = <<c, k - 1>>
      BY <1>1, BytesType
    <2>2. /\ unread \o Bytes(c) \in Seq(Byte)
          /\ Len(unread \o Bytes(c)) = Len(unread) + Len(Bytes(c))
          /\ \A i \in 1 .. Len(unread) + Len(Bytes(c)) : (unread \o Bytes(c))[i] =
                IF i <= Len(unread) THEN unread[i] ELSE Bytes(c)[i - Len(unread)]
      BY <1>0, <2>1, ConcatProperties
    <2>3. ASSUME NEW i \in 1 .. 1 + q
          PROVE  unread'[n + i] = <<c, i - 1>>
      <3>1. n + i \in 1 .. n + (1 + q) /\ ~(n + i <= n) /\ (n + i) - n = i
        OBVIOUS
      <3> QED
        BY <1>1, <1>4, <2>1, <2>2, <3>1
    <2>4. ASSUME NEW i \in 1 .. n
          PROVE  unread'[i] = unread[i]
      <3>1. i \in 1 .. n + (1 + q) /\ i <= n
        OBVIOUS
      <3> QED
        BY <1>1, <1>4, <2>1, <2>2, <3>1
    <2>5. Len(unread') = n + 1 + q
      <3>1. Len(unread') = n + (1 + q)
        BY <1>1, <1>4, <2>1, <2>2
      <3> QED
        BY <3>1
    <2> QED
      BY <1>1, <1>4, <2>2, <2>3, <2>4, <2>5 DEF IsPushed
  <1>6. TypeOK'
    <2>1. IdleWriter \in [pc : {"idle", "store"}, cmd : Command \cup {NoCommand},
                          idx : Index, pos : Nat]
      BY BufferAssumption DEF IdleWriter, Index
    <2>2. pushed' \in Seq(Command)
      BY <1>4, AppendProperties DEF TypeOK, IInv
    <2> QED
      BY <1>2, <1>4, <1>5, <2>1, <2>2 DEF TypeOK, IInv
  <1>7. UnreadIntact'
    <2>1. Len(unread') = n + 1 + q
      BY <1>5 DEF IsPushed
    <2>2. pending_index' = Offset(completed_index, n + 1 + q)
      <3>1. n + (1 + q) = n + 1 + q /\ 1 + q \in Nat /\ n + (1 + q) < COMMAND_BUFFER_SIZE
        BY <1>2, BufferAssumption
      <3> QED
        BY <1>2, <1>4, <3>1, OffsetAdd
    <2>3. ASSUME NEW k \in 1 .. n + 1 + q
          PROVE  buffer[Offset(completed_index, k - 1)] = unread'[k]
      <3>1. CASE k <= n
        <4>1. k \in 1 .. n
          BY <3>1
        <4>2. unread'[k] = unread[k]
          BY <1>5, <4>1 DEF IsPushed
        <4> QED
          BY <1>1, <4>1, <4>2 DEF UnreadIntact, IInv
      <3>2. CASE k > n
        <4>1. PICK i \in 0 .. q : k = n + (i + 1)
          <5>1. k - n - 1 \in 0 .. q /\ k = n + ((k - n - 1) + 1)
            BY <3>2
          <5> QED
            BY <5>1
        <4>2. /\ i \in Nat /\ n + i < COMMAND_BUFFER_SIZE /\ k - 1 = n + i
              /\ i + 1 \in 1 .. 1 + q /\ (i + 1) - 1 = i
          BY <1>2, <4>1, BufferAssumption
        <4>3. Offset(pending_index, i) = Offset(completed_index, k - 1)
          BY <1>2, <4>2, OffsetAdd
        <4>4. unread'[k] = <<c, i>>
          BY <1>5, <4>1, <4>2 DEF IsPushed
        <4> QED
          BY <1>3, <4>3, <4>4
      <3> QED
        BY <3>1, <3>2
    <2> QED
      BY <1>2, <1>4, <2>1, <2>2, <2>3 DEF UnreadIntact, Offset
  <1>8. WriterInv'
    BY <1>4 DEF WriterInv, IdleWriter
  <1>9. Framed'
    BY <1>5, FramedConcat DEF IInv, Framed
  <1>10. ReaderInv'
    <2> SUFFICES ASSUME reader.pc # "idle" PROVE ReaderInv'
      BY <1>4 DEF ReaderInv
    <2>1. PICK g \in Nat : g = Len(reader.got)
      BY DEF IInv, TypeOK
    <2>2. g <= n /\ 1 \in 1 .. n /\ n <= n + 1 + q
      BY <1>0, <1>1, <2>1 DEF IInv, ReaderInv
    <2>3. unread'[1] = unread[1] /\ Len(unread') = n + 1 + q /\ unread' # <<>>
      BY <2>2, <1>5 DEF IsPushed
    <2>4. \A k \in 1 .. g : unread'[k] = unread[k]
      BY <2>2, <1>5 DEF IsPushed
    <2> QED
      BY <1>1, <1>4, <2>1, <2>2, <2>3, <2>4 DEF IInv, ReaderInv, Offset
  <1>11. QueueInv'
    <2>1. pushed \in Seq(Command)
      BY DEF IInv, TypeOK
    <2>2. PICK start \in [1 .. Len(pushed) + 1 -> Nat] : Encodes(start, pushed, unread)
      BY DEF IInv, QueueInv
    <2> QED
      BY <1>4, <1>5, <2>1, <2>2, EncodesPushed DEF QueueInv
  <1> QED
    BY <1>6, <1>7, <1>8, <1>9, <1>10, <1>11 DEF IInv

LEMMA BeginHandleInv ==
  ASSUME IInv, BeginHandle
  PROVE  IInv'
  <1>1. completed_index \in Index /\ Len(unread) \in Nat
    BY DEF IInv, TypeOK
  <1>2. /\ reader' = [pc |-> "load", idx |-> completed_index, got |-> <<>>]
        /\ UNCHANGED <<completed_index, pending_index, buffer, writer, dispatched, unread, pushed>>
    BY DEF BeginHandle
  <1>3. unread # <<>>
    <2>1. Offset(completed_index, 0) = completed_index
      BY <1>1, OffsetType, BufferAssumption
    <2> QED
      BY <2>1 DEF BeginHandle, IInv, UnreadIntact
  <1>4. TypeOK'
    BY <1>1, <1>2 DEF IInv, TypeOK
  <1>5. ReaderInv'
    <2>1. PayloadSize[unread[1][1]] \in Nat
      <3>1. 1 \in 1 .. Len(unread)
        BY <1>1, <1>3 DEF IInv, TypeOK
      <3>2. unread[1][1] \in Command
        BY <3>1 DEF IInv, Framed, IsFramed
      <3> QED
        BY <3>2, BufferAssumption
    <2>2. Offset(completed_index, 0) = completed_index
      BY <1>1, OffsetType, BufferAssumption
    <2> QED
      BY <1>1, <1>2, <1>3, <2>1, <2>2 DEF ReaderInv, Offset
  <1>6. UnreadIntact' /\ WriterInv' /\ Framed' /\ QueueInv'
    BY <1>2 DEF IInv, UnreadIntact, WriterInv, Framed, IsFramed, Offset, QueueInv, Encodes
  <1> QED
    BY <1>4, <1>5, <1>6 DEF IInv

LEMMA LoadByteInv ==
  ASSUME IInv, LoadByte
  PROVE  IInv'
  <1>1. /\ reader \in [pc : {"idle", "load", "release"}, idx : Index, got : Seq(Byte \cup {NoByte})]
        /\ Len(reader.got) \in Nat /\ Len(unread) \in Nat
        /\ completed_index \in Index
        /\ unread # <<>> /\ 1 \in 1 .. Len(unread)
        /\ Len(unread) < COMMAND_BUFFER_SIZE
    BY DEF IInv, TypeOK, LoadByte, ReaderInv, UnreadIntact
  <1>2. PICK g \in Nat, n \in Nat : g = Len(reader.got) /\ n = Len(unread)
    BY <1>1
  <1>3. FramedAt(unread, 1, n) /\ unread[1][2] = 0
    BY <1>1, <1>2 DEF IInv, Framed, IsFramed, FramedAt
  <1>4. PICK c \in Command, q \in Nat : c = unread[1][1] /\ q = PayloadSize[c] /\ 1 + q <= n
    BY <1>2, <1>3, BufferAssumption DEF FramedAt
  <1>5. /\ g <= q /\ g < n
        /\ reader.idx = Offset(completed_index, g)
        /\ g > 0 => reader.got[g] = <<c, g - 1>> /\ unread[g] = <<c, g - 1>>
    <2>1. g <= 1 + q /\ reader.idx = Offset(completed_index, g)
      BY <1>2, <1>4 DEF IInv, ReaderInv, LoadByte
    <2>2. g > 0 => /\ reader.got[1] = <<c, 0>>
                   /\ reader.got[g] = <<c, g - 1>> /\ unread[g] = <<c, g - 1>>
      <3>1. g > 0 => 1 \in 1 .. g /\ g \in 1 .. g
        OBVIOUS
      <3> QED
        BY <1>2, <1>4, <3>1 DEF IInv, ReaderInv, LoadByte
    <2>3. g > 0 => ~(g > q)
      BY <1>1, <1>2, <1>4, <2>2 DEF LoadByte, HaveCommand
    <2> QED
      BY <1>4, <2>1, <2>2, <2>3
  <1>6. unread[g + 1] = <<c, g>>
    <2>1. CASE g = 0
      BY <1>1, <1>3, <1>4, <2>1 DEF IInv, TypeOK, Byte
    <2>2. CASE g > 0
      <3>1. g \in 1 .. n
        BY <1>5, <2>2
      <3>2. FramedAt(unread, g, n)
        BY <1>2, <3>1 DEF IInv, Framed, IsFramed, FramedAt
      <3> QED
        BY <1>4, <1>5, <2>2, <3>2 DEF FramedAt
    <2> QED
      BY <2>1, <2>2
  <1>7. buffer[reader.idx] = <<c, g>>
    <2>1. g + 1 \in 1 .. n /\ (g + 1) - 1 = g
      BY <1>5
    <2>2. buffer[Offset(completed_index, (g + 1) - 1)] = unread[g + 1]
      BY <1>2, <2>1 DEF IInv, UnreadIntact
    <2> QED
      BY <1>5, <1>6, <2>1, <2>2
  <1>8. /\ reader'.pc = "load" /\ reader'.idx = NextIndex(reader.idx)
        /\ reader'.got = Append(reader.got, <<c, g>>)
        /\ reader' = [pc |-> reader'.pc, idx |-> reader'.idx, got |-> reader'.got]
        /\ UNCHANGED <<completed_index, pending_index, buffer, writer, dispatched, unread, pushed>>
    BY <1>1, <1>7 DEF LoadByte
  <1>9. /\ reader'.got \in Seq(Byte \cup {NoByte}) /\ Len(reader'.got) = g + 1
        /\ \A k \in 1 .. g : reader'.got[k] = reader.got[k]
        /\ reader'.got[g + 1] = <<c, g>>
    <2>1. <<c, g>> \in Byte \cup {NoByte}
      BY DEF Byte
    <2> QED
      BY <1>1, <1>2, <1>8, <2>1, AppendProperties
  <1>10. reader'.idx = Offset(completed_index, g + 1) /\ reader'.idx \in Index
    <2>1. g + 1 \in Nat /\ g + 1 < COMMAND_BUFFER_SIZE
      BY <1>1, <1>2, <1>5, BufferAssumption
    <2> QED
      BY <1>1, <1>5, <1>8, <2>1, OffsetNext, OffsetType
  <1>11. TypeOK'
    BY <1>8, <1>9, <1>10 DEF IInv, TypeOK
  <1>12. ReaderInv'
    <2>1. ASSUME NEW k \in 1 .. g + 1
          PROVE  reader'.got[k] = unread[k] /\ reader'.got[k] = <<c, k - 1>>
      <3>1. CASE k = g + 1
        <4>1. k - 1 = g
          BY <3>1
        <4> QED
          BY <1>6, <1>9, <3>1, <4>1
      <3>2. CASE k \in 1 .. g
        BY <1>2, <1>4, <1>9, <3>2 DEF IInv, ReaderInv, LoadByte
      <3> QED
        BY <3>1, <3>2
    <2>2. g + 1 <= 1 + q /\ g + 1 <= n
      BY <1>5
    <2> QED
      BY <1>1, <1>2, <1>4, <1>8, <1>9, <1>10, <2>1, <2>2 DEF ReaderInv, Offset
  <1>13. UnreadIntact' /\ WriterInv' /\ Framed' /\ QueueInv'
    BY <1>8 DEF IInv, UnreadIntact, WriterInv, Framed, IsFramed, Offset, QueueInv, Encodes
  <1> QED
    BY <1>11, <1>12, <1>13 DEF IInv

LEMMA DispatchInv ==
  ASSUME IInv, Dispatch
  PROVE  IInv'
  <1>1. /\ reader \in [pc : {"idle", "load", "release"}, idx : Index, got : Seq(Byte \cup {NoByte})]
        /\ Len(reader.got) \in Nat /\ reader.got # <<>> /\ 1 \in 1 .. Len(reader.got)
        /\ reader.got[1][1] \in Command /\ reader.pc = "load"
        /\ Len(reader.got) > PayloadSize[reader.got[1][1]]
    BY DEF IInv, TypeOK, Dispatch, HaveCommand
  <1>2. /\ reader'.pc = "release" /\ reader'.idx = reader.idx /\ reader'.got = reader.got
        /\ reader' = [pc |-> "release", idx |-> reader.idx, got |-> reader.got]
        /\ dispatched' = reader.got[1][1]
        /\ UNCHANGED <<completed_index, pending_index, buffer, writer, unread, pushed>>
    BY <1>1 DEF Dispatch
  <1>3. TypeOK'
    BY <1>1, <1>2 DEF IInv, TypeOK
  <1>4. /\ reader.got[1][1] = unread[1][1] /\ PayloadSize[unread[1][1]] \in Nat
        /\ Len(reader.got) <= 1 + PayloadSize[unread[1][1]]
    BY <1>1, BufferAssumption DEF IInv, ReaderInv
  <1>5. Len(reader.got) = 1 + PayloadSize[unread[1][1]]
    BY <1>1, <1>4
  <1>6. ReaderInv'
    BY <1>1, <1>2, <1>5 DEF IInv, ReaderInv, Offset
  <1>7. UnreadIntact' /\ WriterInv' /\ Framed' /\ QueueInv'
    BY <1>2 DEF IInv, UnreadIntact, WriterInv, Framed, IsFramed, Offset, QueueInv, Encodes
  <1> QED
    BY <1>3, <1>6, <1>7 DEF IInv

(* The command whose bytes come first is the oldest one. *)
LEMMA OldestFirst ==
  ASSUME IInv, unread # <<>>
  PROVE  pushed \in Seq(Command) /\ pushed # <<>> /\ pushed[1] = unread[1][1]
  <1>1. PICK start \in [1 .. Len(pushed) + 1 -> Nat] : Encodes(start, pushed, unread)
    BY DEF IInv, QueueInv
  <1>2. pushed \in Seq(Command) /\ Len(pushed) \in Nat /\ Len(unread) # 0
    BY DEF IInv, TypeOK
  <1>3. Len(pushed) # 0
    <2>1. Len(pushed) = 0 => Len(pushed) + 1 = 1
      BY <1>2
    <2> QED
      BY <1>1, <1>2, <2>1 DEF Encodes
  <1>4. 1 \in 1 .. Len(pushed) /\ 0 + 1 = 1
    BY <1>2, <1>3
  <1>5. start[1] = 0 /\ unread[start[1] + 1][1] = pushed[1]
    BY <1>1, <1>4 DEF Encodes
  <1> QED
    BY <1>2, <1>3, <1>4, <1>5

LEMMA ReleaseInv ==
  ASSUME IInv, Release
  PROVE  IInv'
  <1>1. /\ Len(reader.got) \in Nat /\ Len(unread) \in Nat /\ unread \in Seq(Byte)
        /\ completed_index \in Index /\ reader.idx \in Index /\ pending_index \in Index
        /\ unread # <<>> /\ 1 \in 1 .. Len(unread)
        /\ Len(unread) < COMMAND_BUFFER_SIZE
        /\ writer.pos \in Nat
    BY DEF IInv, TypeOK, Release, ReaderInv, UnreadIntact
  <1>2. PICK g \in Nat, n \in Nat : g = Len(reader.got) /\ n = Len(unread)
    BY <1>1
  <1>3. PICK c \in Command, q \in Nat : c = unread[1][1] /\ q = PayloadSize[c]
    BY <1>1, BufferAssumption DEF IInv, Framed, IsFramed
  <1>4. g = 1 + q /\ g <= n /\ reader.idx = Offset(completed_index, g)
    BY <1>2, <1>3 DEF IInv, ReaderInv, Release
  <1>5. unread[g] = <<c, q>>
    <2>1. g \in 1 .. g /\ g - 1 = q
      BY <1>4
    <2> QED
      BY <1>2, <1>3, <1>4, <2>1 DEF IInv, ReaderInv, Release
  <1>6. /\ completed_index' = reader.idx /\ reader' = IdleReader
        /\ unread' = SubSeq(unread, g + 1, n) /\ pushed' = Tail(pushed)
        /\ UNCHANGED <<pending_index, buffer, writer, dispatched>>
    BY <1>2 DEF Release
  <1>7. unread' \in Seq(Byte) /\ IsReleased(unread', unread, n, g)
    <2>1. \A i \in g + 1 .. n : unread[i] \in Byte
      BY <1>1, <1>2
    <2>2. /\ SubSeq(unread, g + 1, n) \in Seq(Byte)
          /\ Len(SubSeq(unread, g + 1, n)) = IF g + 1 <= n THEN n - (g + 1) + 1 ELSE 0
          /\ \A i \in 1 .. n - (g + 1) + 1 : SubSeq(unread, g + 1, n)[i] = unread[(g + 1) + i - 1]
      <3>1. g + 1 \in Int /\ n \in Int
        OBVIOUS
      <3> QED
        BY <2>1, <3>1, SubSeqProperties
    <2>3. Len(unread') = n - g
      BY <1>4, <1>6, <2>2
    <2>4. ASSUME NEW i \in 1 .. n - g
          PROVE  unread'[i] = unread[g + i]
      <3>1. i \in 1 .. n - (g + 1) + 1 /\ (g + 1) + i - 1 = g + i
        OBVIOUS
      <3> QED
        BY <1>6, <2>2, <3>1
    <2>5. unread[g][2] = PayloadSize[unread[g][1]] /\ g > 0
      BY <1>3, <1>4, <1>5
    <2> QED
      BY <1>2, <1>4, <1>6, <2>2, <2>3, <2>4, <2>5 DEF IsReleased
  <1>p. pushed \in Seq(Command) /\ pushed # <<>> /\ pushed[1] = c
    BY <1>3, OldestFirst DEF IInv, TypeOK, Release, ReaderInv
  <1>8. TypeOK'
    <2>1. IdleReader \in [pc : {"idle", "load", "release"}, idx : Index,
                          got : Seq(Byte \cup {NoByte})]
      BY BufferAssumption DEF IdleReader, Index
    <2>2. pushed' \in Seq(Command)
      BY <1>6, <1>p, HeadTailProperties
    <2> QED
      BY <1>1, <1>6, <1>7, <2>1, <2>2 DEF IInv, TypeOK
  <1>9. UnreadIntact'
    <2>1. Len(unread') = n - g /\ n - g \in Nat /\ g + (n - g) = n /\ n - g < COMMAND_BUFFER_SIZE
      <3>1. Len(unread') = n - g
        BY <1>7 DEF IsReleased
      <3> QED
        BY <1>1, <1>2, <1>4, <3>1, BufferAssumption
    <2>2. pending_index = Offset(completed_index', n - g)
      <3>1. pending_index = Offset(completed_index, n) /\ g + (n - g) < COMMAND_BUFFER_SIZE
        BY <1>1, <1>2, <2>1 DEF IInv, UnreadIntact
      <3> QED
        BY <1>1, <1>4, <1>6, <2>1, <3>1, OffsetAdd
    <2>3. ASSUME NEW k \in 1 .. n - g
          PROVE  buffer[Offset(completed_index', k - 1)] = unread'[k]
      <3>1. /\ g + k \in 1 .. n /\ k - 1 \in Nat /\ (g + k) - 1 = g + (k - 1)
            /\ g + (k - 1) < COMMAND_BUFFER_SIZE
        BY <1>1, <1>2, BufferAssumption
      <3>2. Offset(completed_index', k - 1) = Offset(completed_index, (g + k) - 1)
        BY <1>1, <1>4, <1>6, <3>1, OffsetAdd
      <3>3. unread'[k] = unread[g + k]
        BY <1>7 DEF IsReleased
      <3>4. buffer[Offset(completed_index, (g + k) - 1)] = unread[g + k]
        BY <1>2, <3>1 DEF IInv, UnreadIntact
      <3> QED
        BY <3>2, <3>3, <3>4
    <2> QED
      BY <1>6, <2>1, <2>2, <2>3 DEF UnreadIntact, Offset
  <1>10. WriterInv'
    <2>1. Len(unread') = n - g
      BY <1>7 DEF IsReleased
    <2>2. writer.pc = "store" =>
            /\ writer.cmd \in Command /\ PayloadSize[writer.cmd] \in Nat
            /\ n + 1 + PayloadSize[writer.cmd] < COMMAND_BUFFER_SIZE
      BY <1>2, BufferAssumption DEF IInv, WriterInv
    <2>3. writer.pc = "store" => n - g + 1 + PayloadSize[writer.cmd] < COMMAND_BUFFER_SIZE
      BY <2>2, BufferAssumption
    <2> QED
      BY <1>6, <2>1, <2>3 DEF IInv, WriterInv, Offset
  <1>11. Framed'
    BY <1>7, FramedDrop DEF IInv, Framed
  <1>12. ReaderInv'
    BY <1>6 DEF ReaderInv, IdleReader
  <1>13. QueueInv'
    <2>1. PICK start \in [1 .. Len(pushed) + 1 -> Nat] : Encodes(start, pushed, unread)
      BY DEF IInv, QueueInv
    <2>2. IsFirst(pushed, g)
      BY <1>3, <1>4, <1>p DEF IsFirst
    <2> QED
      BY <1>6, <1>7, <1>p, <2>1, <2>2, EncodesReleased DEF QueueInv
  <1> QED
    BY <1>8, <1>9, <1>10, <1>11, <1>12, <1>13 DEF IInv

LEMMA StutterInv ==
  ASSUME IInv, UNCHANGED vars
  PROVE  IInv'
  <1>1. TypeOK'
    BY DEF vars, IInv, TypeOK
  <1>2. UnreadIntact' /\ WriterInv' /\ ReaderInv'
    BY DEF vars, IInv, UnreadIntact, WriterInv, ReaderInv, Offset
  <1>3. Framed' /\ QueueInv'
    BY DEF vars, IInv, Framed, IsFramed, QueueInv, Encodes
  <1> QED
    BY <1>1, <1>2, <1>3 DEF IInv

-----------------------------------------------------------------------------
(* IInv is an invariant of push and handle under every interleaving. *)
THEOREM Inductive == Spec => []IInv
  <1>1. IInv /\ [Next]_vars => IInv'
    <2> SUFFICES ASSUME IInv, [Next]_vars PROVE IInv'
      OBVIOUS
    <2>1. CASE \E c \in Command : BeginPush(c)
      BY <2>1, BeginPushInv
    <2>2. CASE StoreByte \/ Publish
      BY <2>2, StoreByteInv, PublishInv
    <2>3. CASE BeginHandle \/ LoadByte \/ Dispatch \/ Release
      BY <2>3, BeginHandleInv, LoadByteInv, DispatchInv, ReleaseInv
    <2>4. CASE UNCHANGED vars
      BY <2>4, StutterInv
    <2> QED
      BY <2>1, <2>2, <2>3, <2>4 DEF Next, WriterNext, ReaderNext
  <1> QED
    BY InitInv, <1>1, PTL DEF Spec

(* The indices, the two cursors and the bytes read keep their types: both  *)
(* cursors wrap around at the end of the ring and never leave it.          *)
THEOREM TypeCorrect == Spec => []TypeOK
  <1>1. IInv => TypeOK
    BY DEF IInv
  <1> QED
    BY Inductive, <1>1, PTL

(* handle never reads a torn or overwritten command. *)
THEOREM ReadsWholeCommands == Spec => []CommandIntact
  <1>1. IInv => CommandIntact
    <2> SUFFICES ASSUME IInv, reader.pc # "idle", NEW k \in 1 .. Len(reader.got)
                 PROVE  /\ reader.got[k] = unread[k]
                        /\ reader.got[k] = <<reader.got[1][1], k - 1>>
      BY DEF IInv, ReaderInv, CommandIntact
    <2>1. 1 \in 1 .. Len(reader.got)
      BY DEF IInv, TypeOK
    <2> QED
      BY <2>1 DEF IInv, ReaderInv
  <1> QED
    BY Inductive, <1>1, PTL

(* push never overwrites an unreleased byte nor fills the last one. *)
THEOREM NeverOverwrites == Spec => []UnreadIntact
  <1>1. IInv => UnreadIntact
    BY DEF IInv
  <1> QED
    BY Inductive, <1>1, PTL

-----------------------------------------------------------------------------
(* The ring implements CommandQueue. *)
Mapped == IF reader.pc = "release" THEN Tail(pushed) ELSE pushed

(* Publish is the push of the abstract queue, also between the dispatch of *)
(* a command and its release.                                              *)
LEMMA PublishPushes ==
  ASSUME IInv, Publish
  PROVE  Queue!Next
  <1>1. writer.cmd \in Command /\ pushed \in Seq(Command)
    BY DEF IInv, TypeOK, WriterInv, Publish
  <1>2. pushed' = Append(pushed, writer.cmd) /\ reader' = reader /\ dispatched' = dispatched
    BY DEF Publish
  <1>3. Mapped' = Append(Mapped, writer.cmd)
    <2>1. CASE reader.pc = "release"
      <3>1. pushed # <<>>
        BY <2>1, OldestFirst DEF IInv, ReaderInv
      <3>2. Tail(Append(pushed, writer.cmd)) = Append(Tail(pushed), writer.cmd)
        BY <1>1, <3>1, HeadTailAppend
      <3> QED
        BY <1>2, <2>1, <3>2 DEF Mapped
    <2>2. CASE reader.pc # "release"
      BY <1>2, <2>2 DEF Mapped
    <2> QED
      BY <2>1, <2>2
  <1>4. Queue!Push(writer.cmd)
    BY <1>2, <1>3 DEF Queue!Push, Mapped
  <1> QED
    BY <1>1, <1>4 DEF Queue!Next

(* Dispatch takes the oldest command from the abstract queue. *)
LEMMA DispatchDispatches ==
  ASSUME IInv, Dispatch
  PROVE  Queue!Dispatch
  <1>1. /\ reader.pc = "load" /\ reader'.pc = "release"
        /\ reader \in [pc : {"idle", "load", "release"}, idx : Index, got : Seq(Byte \cup {NoByte})]
        /\ dispatched' = reader.got[1][1] /\ pushed' = pushed
        /\ reader.got # <<>>
    BY DEF Dispatch, HaveCommand, IInv, TypeOK
  <1>2. unread # <<>> /\ 1 \in 1 .. Len(reader.got)
    BY <1>1 DEF IInv, ReaderInv
  <1>3. reader.got[1] = unread[1]
    BY <1>1, <1>2 DEF IInv, ReaderInv
  <1>4. pushed \in Seq(Command) /\ pushed # <<>> /\ pushed[1] = unread[1][1]
    BY <1>2, OldestFirst
  <1>5. Mapped = pushed /\ Mapped' = Tail(pushed) /\ Head(pushed) = pushed[1]
    BY <1>1, <1>4 DEF Mapped
  <1> QED
    BY <1>1, <1>3, <1>4, <1>5 DEF Queue!Dispatch, Mapped

(* The other steps, Release among them, leave the abstract queue alone. *)
LEMMA OthersStutter ==
  ASSUME IInv,
         \/ StoreByte \/ BeginHandle \/ LoadByte \/ Release \/ UNCHANGED vars
         \/ \E c \in Command : BeginPush(c)
  PROVE  UNCHANGED Queue!vars
  <1>1. reader \in [pc : {"idle", "load", "release"}, idx : Index, got : Seq(Byte \cup {NoByte})]
    BY DEF IInv, TypeOK
  <1>2. Mapped' = Mapped /\ dispatched' = dispatched
    <2>1. CASE StoreByte \/ UNCHANGED vars \/ \E c \in Command : BeginPush(c)
      BY <2>1 DEF Mapped, StoreByte, vars, BeginPush
    <2>2. CASE BeginHandle
      BY <2>2 DEF Mapped, BeginHandle
    <2>3. CASE LoadByte
      BY <1>1, <2>3 DEF Mapped, LoadByte
    <2>4. CASE Release
      BY <2>4 DEF Mapped, Release, IdleReader
    <2> QED
      BY <2>1, <2>2, <2>3, <2>4
  <1> QED
    BY <1>2 DEF Queue!vars, Mapped

(* The refinement: push and handle on the ring of bytes behave as a queue  *)
(* of commands.  A command becomes visible when pending_index is stored    *)
(* and leaves the queue when it is dispatched, in the order of the pushes. *)
THEOREM RingIsAQueue == Spec => ImplementsQueue
  <1>1. Init => Queue!Init
    BY DEF Init, Queue!Init, IdleReader
  <1>2. IInv /\ [Next]_vars => [Queue!Next]_Queue!vars
    <2> SUFFICES ASSUME IInv, [Next]_vars PROVE [Queue!Next]_Queue!vars
      OBVIOUS
    <2>1. CASE Publish
      BY <2>1, PublishPushes
    <2>2. CASE Dispatch
      BY <2>2, DispatchDispatches DEF Queue!Next
    <2>3. CASE \/ StoreByte \/ BeginHandle \/ LoadByte \/ Release \/ UNCHANGED vars
               \/ \E c \in Command : BeginPush(c)
      BY <2>3, OthersStutter
    <2> QED
      BY <2>1, <2>2, <2>3 DEF Next, WriterNext, ReaderNext
  <1> QED
    BY Inductive, <1>1, <1>2, PTL DEF Spec, ImplementsQueue, Queue!Spec

(* All that a run of CommandBuffer checks of its states: the types, that    *)
(* handle reads whole commands, and that push leaves unreleased bytes alone. *)
THEOREM RingSound == Spec => []BufferSound
  BY TypeCorrect, ReadsWholeCommands, NeverOverwrites, PTL DEF BufferSound
=============================================================================
