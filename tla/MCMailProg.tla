----------------------------- MODULE MCMailProg -----------------------------
(* MailProg for TLC: texts of letters, wide and combining characters. *)
EXTENDS MailProg

Letter    == [json |-> 1, cols |-> 1, utf8 |-> 1]
Wide      == [json |-> 6, cols |-> 2, utf8 |-> 3]
Combining == [json |-> 6, cols |-> 0, utf8 |-> 2]

MCFields == 1..2

\* Every text of up to four letters and wide characters, and combined ones.
MCValues == UNION {[1..k -> {Letter, Wide}] : k \in 1..4}
              \cup {<<Letter, Combining>>, <<Wide, Combining, Letter>>}

\* No subject, short ones, and those that MaxTitle cuts at or in a character.
MCSubjects == {<<>>, <<Letter>>, <<Wide>>, <<Letter, Wide, Wide>>,
               <<Letter, Combining, Wide>>, <<Combining, Combining, Letter>>}

=============================================================================
