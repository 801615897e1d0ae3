------------------------------- MODULE SftpCopy -------------------------------
(***************************************************************************)
(* The loop of CopyFileBySftp, after both files are open: blocks of the    *)
(* source are read into one buffer, and after every read the whole buffer  *)
(* is written to the remote file.  No error of a read or a write is looked *)
(* at; a read of nothing ends the copy, and the copy reports success.      *)
(***************************************************************************)
EXTENDS Naturals, Sequences

CONSTANTS
    Bytes,
    MaxLen,               \* bound on the length of the source
    BufSize,              \* 1024 in the code
    Zero                  \* what make([]byte, n) fills a buffer with

ASSUME SftpAssumption ==
    /\ MaxLen \in Nat
    /\ BufSize \in Nat \ {0}
    /\ Zero \notin Bytes

VARIABLES
    file,                 \* the source
    offset,               \* how much of it has been read
    buf,
    remote,               \* the file on the machine
    step,
    faults                \* history: the calls that failed

vars == <<file, offset, buf, remote, step, faults>>

Files == UNION {[1..n -> Bytes] : n \in 0..MaxLen}

TypeOK ==
    /\ file \in Files
    /\ offset \in 0..Len(file)
    /\ buf \in [1..BufSize -> Bytes \cup {Zero}]
    /\ remote \in Seq(Bytes \cup {Zero})
    /\ step \in {"read", "write", "returned"}
    /\ faults \subseteq {"read", "write"}

(* Create has emptied the remote file.                                     *)
Init ==
    /\ file \in Files
    /\ offset = 0
    /\ buf = [i \in 1..BufSize |-> Zero]
    /\ remote = <<>>
    /\ step = "read"
    /\ faults = {}

(* How many bytes a read of the source returns: all that fit.              *)
Available == LET left == Len(file) - offset
             IN IF left < BufSize THEN left ELSE BufSize

(* Only the first n bytes of the buffer change.                            *)
Filled(n) == [i \in 1..BufSize |-> IF i <= n THEN file[offset + i] ELSE buf[i]]

(* Mutant of Read: a read that does not fill the buffer ends the copy.     *)
Read_StopsShort ==
    /\ step = "read"
    /\ offset' = offset + Available
    /\ buf' = Filled(Available)
    /\ step' = IF Available < BufSize THEN "returned" ELSE "write"
    /\ UNCHANGED <<file, remote, faults>>

(* Mutant of Read: the length of the buffer is counted, not what was read. *)
Read_WholeBuffer ==
    /\ step = "read"
    /\ offset' = offset + BufSize
    /\ buf' = Filled(Available)
    /\ step' = IF Available = 0 THEN "returned" ELSE "write"
    /\ UNCHANGED <<file, remote, faults>>

Read ==
    /\ step = "read"
    /\ offset' = offset + Available
    /\ buf' = Filled(Available)
    /\ step' = IF Available = 0 THEN "returned" ELSE "write"
    /\ UNCHANGED <<file, remote, faults>>

(* A read that fails returns nothing, which looks like the end.            *)
ReadFails ==
    /\ step = "read"
    /\ step' = "returned"
    /\ faults' = faults \cup {"read"}
    /\ UNCHANGED <<file, offset, buf, remote>>

Write ==
    /\ step = "write"
    /\ remote' = remote \o buf
    /\ step' = "read"
    /\ UNCHANGED <<file, offset, buf, faults>>

(* A write that fails has written some of the buffer; the copy goes on.    *)
WriteFails ==
    /\ step = "write"
    /\ \E n \in 0..(BufSize - 1) : remote' = remote \o SubSeq(buf, 1, n)
    /\ step' = "read"
    /\ faults' = faults \cup {"write"}
    /\ UNCHANGED <<file, offset, buf>>

Next == Read \/ ReadFails \/ Write \/ WriteFails

Spec == Init /\ [][Next]_vars

-----------------------------------------------------------------------------
(* Properties                                                              *)

(* What a copy that reports success leaves behind, for a source of any     *)
(* length.  It never has as much as a buffer too many.  If no write failed *)
(* it begins with all that was read, in order; a read that failed may have *)
(* cut it short, and only if no call failed is that the whole source.      *)
ArrivesPadded ==
    step = "returned" =>
        /\ Len(remote) < Len(file) + BufSize
        /\ "write" \notin faults =>
               /\ Len(remote) >= offset
               /\ SubSeq(remote, 1, offset) = SubSeq(file, 1, offset)
        /\ faults = {} => offset = Len(file)
=============================================================================
