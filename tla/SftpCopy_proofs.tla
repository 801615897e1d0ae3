--------------------------- MODULE SftpCopy_proofs ---------------------------
(***************************************************************************)
(* Theorems about SftpCopy for every source, of any length, and every size *)
(* of the buffer.                                                          *)
(***************************************************************************)
EXTENDS SftpCopy, TLAPS

(* The first n bytes of the remote file are those of the source.           *)
Arrived(n) ==
    /\ n <= Len(remote)
    /\ \A i \in 1..n : remote[i] = file[i]

(* However little of a block a failed write leaves behind, the remote file *)
(* is ahead of what was read only after the last block, which is written as*)
(* a whole buffer.                                                         *)
LengthBound ==
    IF step = "write"
    THEN /\ Len(remote) < offset
         /\ offset # Len(file) => Len(remote) + BufSize <= offset
    ELSE /\ Len(remote) < offset + BufSize
         /\ offset # Len(file) => Len(remote) <= offset

(* A block that is about to be written begins where the remote file ends,  *)
(* and holds what was read after that.                                     *)
BlockToWrite ==
    /\ Arrived(Len(remote))
    /\ offset - Len(remote) \in 1..BufSize
    /\ \A i \in 1..(offset - Len(remote)) : buf[i] = file[Len(remote) + i]

(* What was read has arrived, or is in the buffer.                         *)
InOrder ==
    "write" \notin faults =>
        IF step = "write" THEN BlockToWrite ELSE Arrived(offset)

(* Without a failure the copy ends at the end of the source.               *)
AtEnd == step = "returned" /\ faults = {} => offset = Len(file)

Progress == LengthBound /\ InOrder /\ AtEnd

Inv == TypeOK /\ Progress

-----------------------------------------------------------------------------

LEMMA FilesAreSequences ==
  ASSUME NEW f \in Files
  PROVE  f \in Seq(Bytes) /\ Len(f) \in 0..MaxLen
BY SftpAssumption DEF Files

LEMMA BufferIsSequence ==
  ASSUME NEW b \in [1..BufSize -> Bytes \cup {Zero}]
  PROVE  b \in Seq(Bytes \cup {Zero}) /\ Len(b) = BufSize
BY SftpAssumption

LEMMA InitInv == Init => Inv
<1>. SUFFICES ASSUME Init PROVE Inv
  OBVIOUS
<1>. USE SftpAssumption DEF Init
<1>1. file \in Seq(Bytes) /\ Len(file) \in Nat
  BY FilesAreSequences
<1>2. TypeOK
  BY <1>1 DEF TypeOK
<1>3. Progress
  BY <1>1 DEF Progress, LengthBound, InOrder, AtEnd, Arrived
<1>. QED
  BY <1>2, <1>3 DEF Inv

(* A read takes as much as is left and fits, and nothing only at the end.  *)
LEMMA AvailableBounds ==
  ASSUME TypeOK
  PROVE  /\ Available \in 0..BufSize
         /\ offset + Available \in 0..Len(file)
         /\ Available < BufSize => offset + Available = Len(file)
<1>1. Len(file) \in Nat /\ offset \in 0..Len(file)
  BY FilesAreSequences DEF TypeOK
<1>. QED
  BY <1>1, SftpAssumption DEF Available

LEMMA ReadInv == Inv /\ Read => Inv'
<1>. SUFFICES ASSUME Inv, Read PROVE Inv'
  OBVIOUS
<1>. USE SftpAssumption
<1>1. /\ file \in Seq(Bytes) /\ Len(file) \in Nat /\ offset \in 0..Len(file)
      /\ remote \in Seq(Bytes \cup {Zero}) /\ Len(remote) \in Nat
  BY FilesAreSequences DEF Inv, TypeOK
<1>2. PICK n \in 0..BufSize :
         /\ n = Available
         /\ offset' = offset + n
         /\ offset + n \in 0..Len(file)
         /\ n < BufSize => offset + n = Len(file)
  BY AvailableBounds DEF Inv, Read
<1>3. /\ step = "read" /\ step' = IF n = 0 THEN "returned" ELSE "write"
      /\ buf' = [i \in 1..BufSize |-> IF i <= n THEN file[offset + i] ELSE buf[i]]
      /\ UNCHANGED <<file, remote, faults>>
  BY <1>2 DEF Read, Filled
<1>4. \A i \in 1..n : file[offset + i] \in Bytes
  BY <1>1, <1>2
<1>5. buf' \in [1..BufSize -> Bytes \cup {Zero}]
  <2>1. buf \in [1..BufSize -> Bytes \cup {Zero}]
    BY DEF Inv, TypeOK
  <2>2. ASSUME NEW i \in 1..BufSize
        PROVE  (IF i <= n THEN file[offset + i] ELSE buf[i]) \in Bytes \cup {Zero}
    BY <1>2, <1>4, <2>1
  <2>. QED
    BY <1>3, <2>2
<1>6. TypeOK'
  BY <1>1, <1>2, <1>3, <1>5 DEF Inv, TypeOK
<1>7. LengthBound' /\ AtEnd'
  <2>1. LengthBound
    BY DEF Inv, Progress
  <2>. QED
    BY <1>1, <1>2, <1>3, <2>1 DEF LengthBound, AtEnd
<1>8. InOrder'
  <2>. SUFFICES ASSUME "write" \notin faults
                PROVE  IF n = 0 THEN Arrived(offset)' ELSE BlockToWrite'
    BY <1>3 DEF InOrder
  <2>1. Arrived(offset) /\ (offset # Len(file) => Len(remote) <= offset)
    BY <1>3 DEF Inv, Progress, InOrder, LengthBound
  <2>2. CASE n = 0
    BY <1>1, <1>2, <1>3, <2>1, <2>2 DEF Arrived
  <2>3. CASE n # 0
    <3>1. Len(remote) = offset
      BY <1>1, <1>2, <2>1, <2>3 DEF Arrived
    <3>2. \A i \in 1..n : buf'[i] = file[offset + i]
      BY <1>2, <1>3
    <3>3. BlockToWrite'
      BY <1>1, <1>2, <1>3, <2>1, <2>3, <3>1, <3>2 DEF BlockToWrite, Arrived
    <3>. QED
      BY <2>3, <3>3
  <2>. QED
    BY <2>2, <2>3
<1>. QED
  BY <1>6, <1>7, <1>8 DEF Inv, Progress

LEMMA WriteInv == Inv /\ Write => Inv'
<1>. SUFFICES ASSUME Inv, Write PROVE Inv'
  OBVIOUS
<1>. USE SftpAssumption
<1>1. /\ file \in Seq(Bytes) /\ Len(file) \in Nat /\ offset \in 0..Len(file)
      /\ remote \in Seq(Bytes \cup {Zero}) /\ Len(remote) \in Nat
      /\ buf \in Seq(Bytes \cup {Zero}) /\ Len(buf) = BufSize
  BY FilesAreSequences, BufferIsSequence DEF Inv, TypeOK
<1>2. /\ step = "write" /\ step' = "read"
      /\ remote' = remote \o buf
      /\ UNCHANGED <<file, offset, buf, faults>>
  BY DEF Write
<1>3. /\ remote' \in Seq(Bytes \cup {Zero})
      /\ Len(remote') = Len(remote) + BufSize
      /\ \A i \in 1..Len(remote) : remote'[i] = remote[i]
      /\ \A i \in 1..BufSize : remote'[Len(remote) + i] = buf[i]
  <2>1. remote' \in Seq(Bytes \cup {Zero}) /\ Len(remote') = Len(remote) + BufSize
    <3>1. ASSUME NEW S, NEW s \in Seq(S), NEW t \in Seq(S)
          PROVE  s \o t \in Seq(S) /\ Len(s \o t) = Len(s) + Len(t)
      OBVIOUS
    <3>. QED
      BY <1>1, <1>2, <3>1
  <2>2. \A i \in 1..(Len(remote) + BufSize) :
           remote'[i] = IF i <= Len(remote) THEN remote[i] ELSE buf[i - Len(remote)]
    BY <1>1, <1>2
  <2>3. ASSUME NEW i \in 1..BufSize
        PROVE  remote'[Len(remote) + i] = buf[i]
    <3>1. /\ Len(remote) + i \in 1..(Len(remote) + BufSize)
          /\ ~(Len(remote) + i <= Len(remote))
          /\ (Len(remote) + i) - Len(remote) = i
      BY <1>1
    <3>. QED
      BY <2>2, <3>1
  <2>4. \A i \in 1..Len(remote) : remote'[i] = remote[i]
    BY <1>1, <2>2
  <2>. QED
    BY <2>1, <2>3, <2>4
<1>4. TypeOK'
  BY <1>2, <1>3 DEF Inv, TypeOK
<1>5. LengthBound' /\ AtEnd'
  <2>1. LengthBound
    BY DEF Inv, Progress
  <2>. QED
    BY <1>1, <1>2, <1>3, <2>1 DEF LengthBound, AtEnd
<1>6. InOrder'
  <2>. SUFFICES ASSUME "write" \notin faults PROVE Arrived(offset)'
    BY <1>2 DEF InOrder
  <2>1. BlockToWrite
    BY <1>2 DEF Inv, Progress, InOrder
  <2>2. ASSUME NEW i \in 1..offset
        PROVE  remote'[i] = file[i]
    <3>1. CASE i <= Len(remote)
      BY <1>1, <1>3, <2>1, <3>1 DEF BlockToWrite, Arrived
    <3>2. CASE i > Len(remote)
      <4>1. i - Len(remote) \in 1..(offset - Len(remote))
        BY <1>1, <3>2
      <4>2. i - Len(remote) \in 1..BufSize
        BY <1>1, <2>1, <4>1 DEF BlockToWrite
      <4>3. remote'[Len(remote) + (i - Len(remote))] = buf[i - Len(remote)]
        BY <1>3, <4>2
      <4>4. buf[i - Len(remote)] = file[Len(remote) + (i - Len(remote))]
        BY <2>1, <4>1 DEF BlockToWrite
      <4>5. Len(remote) + (i - Len(remote)) = i
        BY <1>1
      <4>. QED
        BY <4>3, <4>4, <4>5
    <3>. QED
      BY <1>1, <3>1, <3>2
  <2>3. offset <= Len(remote')
    BY <1>1, <1>3, <2>1 DEF BlockToWrite
  <2>. QED
    BY <1>2, <2>2, <2>3 DEF Arrived
<1>. QED
  BY <1>4, <1>5, <1>6 DEF Inv, Progress

(* A read that fails leaves what has arrived; after a write that fails only*)
(* the length of the remote file is known.                                 *)
LEMMA FailureInv == Inv /\ (ReadFails \/ WriteFails) => Inv'
<1>. SUFFICES ASSUME Inv, ReadFails \/ WriteFails PROVE Inv'
  OBVIOUS
<1>1. CASE ReadFails
  <2>1. /\ step = "read" /\ step' = "returned" /\ faults' = faults \cup {"read"}
        /\ UNCHANGED <<file, offset, buf, remote>>
    BY <1>1 DEF ReadFails
  <2>2. TypeOK'
    BY <2>1 DEF Inv, TypeOK
  <2>. QED
    BY <2>1, <2>2 DEF Inv, Progress, LengthBound, InOrder, AtEnd, Arrived
<1>2. CASE WriteFails
  <2>1. PICK n \in 0..(BufSize - 1) : remote' = remote \o SubSeq(buf, 1, n)
    BY <1>2 DEF WriteFails
  <2>2. /\ buf \in Seq(Bytes \cup {Zero}) /\ Len(buf) = BufSize
        /\ remote \in Seq(Bytes \cup {Zero}) /\ Len(remote) \in Nat
        /\ Len(file) \in Nat /\ offset \in Nat
    BY FilesAreSequences, BufferIsSequence DEF Inv, TypeOK
  <2>3. SubSeq(buf, 1, n) \in Seq(Bytes \cup {Zero}) /\ Len(SubSeq(buf, 1, n)) = n
    BY <2>2, SftpAssumption
  <2>4. remote' \in Seq(Bytes \cup {Zero}) /\ Len(remote') = Len(remote) + n
    BY <2>1, <2>2, <2>3
  <2>5. TypeOK'
    BY <1>2, <2>4 DEF WriteFails, Inv, TypeOK
  <2>6. /\ step = "write" /\ step' = "read" /\ "write" \in faults'
        /\ UNCHANGED <<file, offset>>
    BY <1>2 DEF WriteFails
  <2>7. LengthBound'
    BY <2>2, <2>4, <2>6, SftpAssumption DEF Inv, Progress, LengthBound
  <2>. QED
    BY <2>5, <2>6, <2>7 DEF Inv, Progress, InOrder, AtEnd
<1>. QED
  BY <1>1, <1>2

LEMMA StutterInv == Inv /\ UNCHANGED vars => Inv'
BY DEF vars, Inv, TypeOK, Progress, LengthBound, InOrder, AtEnd, BlockToWrite, Arrived

LEMMA InvCorrect == Spec => []Inv
<1>1. Inv /\ [Next]_vars => Inv'
  BY ReadInv, WriteInv, FailureInv, StutterInv DEF Next
<1>. QED
  BY <1>1, InitInv, PTL DEF Spec

-----------------------------------------------------------------------------

(* Types: in particular no more of the source is counted as read than it   *)
(* has (sftp-command.go:55), and the remote file holds nothing but bytes of*)
(* the source and zeros.                                                   *)
THEOREM TypeCorrect == Spec => []TypeOK
<1>1. Inv => TypeOK
  BY DEF Inv
<1>. QED
  BY <1>1, InvCorrect, PTL

(* What a copy leaves behind (sftp-command.go:51), whichever of its reads  *)
(* and writes fail: less than a buffer too many, what was read in order    *)
(* unless a write failed, and the whole source if nothing failed.          *)
THEOREM CopyIsComplete == Spec => []ArrivesPadded
<1>1. Inv => ArrivesPadded
  <2>. SUFFICES ASSUME Inv, step = "returned"
                PROVE  /\ Len(remote) < Len(file) + BufSize
                       /\ "write" \notin faults =>
                              /\ Len(remote) >= offset
                              /\ SubSeq(remote, 1, offset) = SubSeq(file, 1, offset)
                       /\ faults = {} => offset = Len(file)
    BY DEF ArrivesPadded
  <2>1. /\ file \in Seq(Bytes) /\ Len(file) \in Nat /\ offset \in 0..Len(file)
        /\ remote \in Seq(Bytes \cup {Zero}) /\ Len(remote) \in Nat
    BY FilesAreSequences DEF Inv, TypeOK
  <2>2. Len(remote) < Len(file) + BufSize
    BY <2>1, SftpAssumption DEF Inv, Progress, LengthBound
  <2>3. ASSUME "write" \notin faults
        PROVE  /\ Len(remote) >= offset
               /\ SubSeq(remote, 1, offset) = SubSeq(file, 1, offset)
    <3>1. Len(remote) >= offset /\ \A i \in 1..offset : remote[i] = file[i]
      BY <2>1, <2>3 DEF Inv, Progress, InOrder, Arrived
    <3>. QED
      BY <2>1, <3>1
  <2>. QED
    BY <2>2, <2>3 DEF Inv, Progress, AtEnd
<1>. QED
  BY <1>1, InvCorrect, PTL
=============================================================================
