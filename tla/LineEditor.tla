---------------------------- MODULE LineEditor ----------------------------
(***************************************************************************)
(* What console input promises to readers, with no buffer indices, no      *)
(* echo and no locks: a line being edited, and the characters of finished  *)
(* lines that nobody has read yet.  A finished line can no longer be       *)
(* edited.                                                                 *)
(***************************************************************************)
EXTENDS Integers, Sequences

CONSTANTS Procs, Size, NULL

VARIABLES line, lines, rd

Init == line = <<>> /\ lines = <<>> /\ rd = [p \in Procs |-> NULL]

\* A character joins the line when there is room; it finishes the line when it is a
\* newline or end-of-file, or takes the last room.
Insert(ch) == /\ Len(lines) + Len(line) < Size
              /\ IF ch \in {"nl", "^D"} \/ Len(lines) + Len(line) = Size - 1
                   THEN lines' = lines \o Append(line, ch) /\ line' = <<>>
                   ELSE line' = Append(line, ch) /\ UNCHANGED lines
              /\ UNCHANGED rd

Erase == line # <<>> /\ line' = SubSeq(line, 1, Len(line) - 1) /\ UNCHANGED <<lines, rd>>
KillLine == line # <<>> /\ line' = <<>> /\ UNCHANGED <<lines, rd>>

Begin(p, n) == rd[p] = NULL /\ rd' = [rd EXCEPT ![p] = [dst |-> <<>>, n |-> n]] /\ UNCHANGED <<line, lines>>

\* A reader takes the next character and goes on.
Take(p) == /\ rd[p] # NULL /\ rd[p].n > 0 /\ lines # <<>> /\ Head(lines) \notin {"nl", "^D"}
           /\ rd' = [rd EXCEPT ![p] = [dst |-> Append(@.dst, Head(lines)), n |-> @.n - 1]]
           /\ lines' = Tail(lines) /\ UNCHANGED line

\* It ends: with a full destination, with the newline, by a copy that failed, at
\* end-of-file (which it takes only when it has read nothing), or killed while there
\* is nothing to read.
End(p) == /\ rd[p] # NULL
          /\ \/ rd[p].n = 0 /\ UNCHANGED lines
             \/ rd[p].n > 0 /\ lines # <<>> /\ Head(lines) # "^D" /\ lines' = Tail(lines)
             \/ rd[p].n > 0 /\ lines # <<>> /\ Head(lines) = "^D"
                /\ lines' = IF rd[p].dst = <<>> THEN Tail(lines) ELSE lines
             \/ rd[p].n > 0 /\ lines = <<>> /\ UNCHANGED lines
          /\ rd' = [rd EXCEPT ![p] = NULL] /\ UNCHANGED line

Next == \/ \E ch \in {"a", "b", "nl", "^D"} : Insert(ch)
        \/ Erase \/ KillLine
        \/ \E p \in Procs : Take(p) \/ End(p) \/ \E n \in 0..9 : Begin(p, n)

Spec == Init /\ [][Next]_<<line, lines, rd>>
=============================================================================
