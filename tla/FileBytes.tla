----------------------------- MODULE FileBytes -----------------------------
(* The bytes of a file under truncate(2) and pwrite(2).                     *)
EXTENDS Naturals, Sequences, FiniteSetsExt

CONSTANT Hole   \* the content of a hole

Resized(bytes, n) == [j \in 1..n |-> IF j <= Len(bytes) THEN bytes[j] ELSE Hole]

Overwrite(bytes, offset, data) ==
    [j \in 1..Max({Len(bytes), offset + Len(data)}) |->
        IF j > offset /\ j <= offset + Len(data) THEN data[j - offset]
        ELSE IF j <= Len(bytes) THEN bytes[j]
        ELSE Hole]
=============================================================================
