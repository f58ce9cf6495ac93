----------------------------- MODULE ByteFiles -----------------------------
(***************************************************************************)
(* What read() and write() promise: a file is a sequence of bytes, every   *)
(* open file has an offset, and a read or a part of a write takes place at *)
(* the offset and moves it by what it transferred, in one step.            *)
(***************************************************************************)
EXTENDS Integers, Sequences

CONSTANTS Procs, Inums, Files, Bytes, Limit \* Limit: the longest file

VARIABLES content, \* [Inums -> Seq(Bytes)]
          ip, off, \* of each open file
          got      \* what a process read last

bvars == <<content, ip, off, got>>

Least(a, b) == IF a < b THEN a ELSE b

Init == /\ content \in [Inums -> Seq(Nat)]
        /\ ip = [f \in Files |-> 0] /\ off = [f \in Files |-> 0]
        /\ got = [p \in Procs |-> <<>>]

\* f becomes an open file of i, which may be emptied.
Open(f, i) == /\ ip' = [ip EXCEPT ![f] = i] /\ off' = [off EXCEPT ![f] = 0]
              /\ content' \in {content, [content EXCEPT ![i] = <<>>]}
              /\ UNCHANGED got

\* n bytes, or those before the end of the file.
Read(p, f, n) ==
  LET s == content[ip[f]] IN
  /\ got' = [got EXCEPT ![p] = SubSeq(s, off[f] + 1, Least(off[f] + n, Len(s)))]
  /\ off' = [off EXCEPT ![f] = @ + Len(got'[p])]
  /\ UNCHANGED <<content, ip>>

\* A read that fails on the way has given n bytes and does not count them.
ReadFails(p, f, n) ==
  LET s == content[ip[f]] IN
  /\ got' = [got EXCEPT ![p] = SubSeq(s, off[f] + 1, Least(off[f] + n, Len(s)))]
  /\ UNCHANGED <<content, ip, off>>

\* n bytes b are written and counted; a write that fails may have changed more
\* of the bytes that were there, up to m, but not the length.
Write(f, b, n, m) ==
  LET s == content[ip[f]]
      o == off[f] IN
  /\ o <= Len(s) /\ n <= m
  /\ content' = [content EXCEPT ![ip[f]] =
       [c \in 1 .. (IF o + n > Len(s) THEN o + n ELSE Len(s)) |-> IF c \in o + 1 .. o + m THEN b ELSE s[c]]]
  /\ off' = [off EXCEPT ![f] = @ + n]
  /\ UNCHANGED <<ip, got>>

\* A call begins with an empty buffer.
Begin(p) == got' = [got EXCEPT ![p] = <<>>] /\ UNCHANGED <<content, ip, off>>

Next == \/ \E f \in Files, i \in Inums : Open(f, i)
        \/ \E p \in Procs : Begin(p)
        \/ \E p \in Procs, f \in Files, n \in 0 .. Limit : ip[f] # 0 /\ (Read(p, f, n) \/ ReadFails(p, f, n))
        \/ \E f \in Files, b \in Bytes, n, m \in 0 .. Limit : ip[f] # 0 /\ Write(f, b, n, m)

Spec == Init /\ [][Next]_bvars
=============================================================================
