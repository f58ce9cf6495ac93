------------------------------- MODULE MCUser -------------------------------
(* User space for TLC: lines for the shell, and calls of the allocator.     *)
EXTENDS Sh, Umalloc, TLC

Tokens == {"a", "|", ";", "&", ">", "(", ")"}
\* Every line of up to two tokens, those of three with a word among them, and longer
\* ones: parts in parentheses and in the background, more processes than there are
\* slots, arguments beyond the limit, empty commands.
MCLines == (UNION {[1..n -> Tokens] : n \in 0..2}) \cup {s \in [1..3 -> Tokens] : \E i \in 1..3 : s[i] = "a"} \cup
  { <<"a", "|", "a", "|", "a">>, <<"a", ";", "(", "a", "&", ")">>, <<"(", "a", "|", "a", ")", ">", "a">>,
    <<"a", "<", "a", ">>", "a", "|", "a">>, <<"(", "a", "a", "a", ")", "<", "a">>,
    <<"(", "(", "a", ")", "&", ")">>, <<"&", ";", "|", "&">> }

\* The two are separate programs: the allocator runs before the shell has started, or
\* not at all.
UserNext == \/ h.freep = -1 /\ holes = {} /\ Next /\ UNCHANGED mvars
            \/ text = <<>> /\ Live = {init} /\ MallocNext /\ UNCHANGED vars
UserInit == Init /\ MallocInit
UserSpec == UserInit /\ [][UserNext]_<<vars, mvars>> /\ Fairness
=============================================================================
