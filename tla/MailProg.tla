------------------------------- MODULE MailProg -------------------------------
(***************************************************************************)
(* One run of slurm_oci_mailprog.py in detail: the check of the queue, the *)
(* title, the table with the fields of the job, and the searches for the   *)
(* longest table, or text, that OCI accepts.  Other MailProg processes and *)
(* the worker change the queue meanwhile; they are counted only, and       *)
(* NotifySpool follows the message from here on.                           *)
(*                                                                         *)
(* A character is what the searches see of it, a record [json, cols, utf8]: *)
(* the bytes it takes in JSON, its columns in the table and its bytes in   *)
(* UTF-8.  A candidate for the body is what it shows of the values, or of  *)
(* the text, and its size.  The values are those of normalize_table_value, *)
(* which leaves none empty, and the subject has its white space already    *)
(* collapsed.  A sum of sizes is written as the number of all the bytes,   *)
(* rows and columns that it counts, which the provers can reason about.    *)
(***************************************************************************)
EXTENDS Integers, SequencesExt

CONSTANTS
    Subjects,      \* bound: texts a subject may be, the empty one included
    Values,        \* bound: texts a field may hold
    Fields,        \* 1..n: the fields of the table; the first is the cluster
    MaxJson,       \* most bytes of a character in JSON, 12 for a pair of \uXXXX
    Width,         \* TABLE_VALUE_WIDTH
    LineChars,     \* characters of a row beside the value, without newline
    HeadChars,     \* characters before and after the rows
    SuffixChars,   \* characters of TRUNCATION_SUFFIX after its two newlines
    DefaultTitle,  \* characters of the title without a subject
    MaxTitle,      \* MAX_TITLE_BYTES
    Limit,         \* MAX_PUBLISH_PAYLOAD_BYTES, less the JSON around the fields
    MaxQueued,     \* MAX_QUEUED_MESSAGES
    MaxMailProgs   \* MailProg processes that run at the same time

Characters == UNION {{text[i] : i \in DOMAIN text} : text \in Subjects \cup Values}

\* A character takes no more columns than bytes in JSON; a newline takes two.
\* The last conjunct: 512 bytes of title and the suffix stay far below 60 KiB.
ASSUME MailProgAssumption ==
    /\ Characters \subseteq [json : 1..MaxJson, cols : 0..Width, utf8 : 1..4]
    /\ \A c \in Characters : c.cols <= c.json
    /\ Subjects \subseteq Seq(Characters) /\ Values \subseteq Seq(Characters) \ {<<>>}
    /\ IsFiniteSet(Fields) /\ 1 \in Fields /\ Fields = 1..Cardinality(Fields)
    /\ {Width, MaxTitle, Limit, MaxQueued, MaxMailProgs} \subseteq Nat \ {0}
    /\ {LineChars, HeadChars, SuffixChars, DefaultTitle} \subseteq Nat
    /\ MaxJson \in Nat \ {0, 1}
    /\ DefaultTitle <= MaxTitle
    /\ MaxTitle * MaxJson + SuffixChars + 4 <= Limit

VARIABLES
    subject,   \* the characters after -s
    value,     \* the value of every field
    title,     \* the title, as a sequence of characters
    pc,
    low, high, \* the interval of the running search
    best,      \* the longest candidate found so far
    text,      \* the text that fit_body_to_publish_limit cuts
    body,      \* the body of the message
    queued,    \* message files in the spool
    others     \* other MailProg processes that have passed the check

job    == <<subject, value>>
search == <<low, high, best, text>>
vars   == <<job, title, pc, search, body, queued, others>>

-----------------------------------------------------------------------------
(* The table, and the sizes of what is built from it *)

\* The bytes of a text in JSON.
Bytes(chars) == {b \in (DOMAIN chars) \X (1..MaxJson) : b[2] <= chars[b[1]].json}
Size(chars)  == Cardinality(Bytes(chars))

\* split_display_chunks: Filled(v)[i] columns of its row are used after the i-th
\* character, which starts a row if it does not fit into the one before.
Filled(v) ==
    LET filled[i \in 0..Len(v)] ==
          IF i = 0 THEN 0
          ELSE LET used == filled[i - 1] + v[i].cols
               IN  IF used > Width THEN v[i].cols ELSE used
    IN  filled

\* Where the rows of a value start.
Rows(v) ==
    {i \in DOMAIN v : i = 1 \/ Filled(v)[i - 1] + v[i].cols > Width}

\* A row is padded to its columns: the bytes of a character beyond its columns.
Beyond(v) == {b \in (DOMAIN v) \X (1..MaxJson) : b[2] <= v[b[1]].json - v[b[1]].cols}

\* Mutant: a cut value ends in an ellipsis.
LimitedWithEllipsis(v, k) ==
    IF k < Len(v)
    THEN Append(SubSeq(v, 1, k - 1), [json |-> 6, cols |-> 1, utf8 |-> 3])
    ELSE v

\* limit_table_value: a prefix, so that the payload grows with its length.
Limited(v, k) == SubSeq(v, 1, IF k < Len(v) THEN k ELSE Len(v))

\* build_notification_body, every value cut to k characters.  Every row takes
\* its columns and ends in a newline, \n in JSON; the cluster's name comes again
\* in the last line.
TableSize(k) ==
    LET cut == [f \in Fields |-> Limited(value[f], k)]
    IN  HeadChars
          + (LineChars + Width + 2)
              * Cardinality(UNION {{f} \X Rows(cut[f]) : f \in Fields})
          + Cardinality(UNION {{f} \X Beyond(cut[f]) : f \in Fields})
          + Size(cut[1])

Plain(n) == [i \in 1..n |-> 1]                 \* n characters of one byte
Suffix   == <<2, 2>> \o Plain(SuffixChars)

\* The table of one-character values and the suffix, as the sizes of its
\* characters.
SmallestTable ==
    Plain(HeadChars)
      \o FlattenSeq([f \in Fields |->
            Plain(LineChars) \o <<value[f][1].json>>
              \o Plain(Width - value[f][1].cols) \o <<2>>])
      \o <<value[1][1].json>> \o Suffix

Longest == LET lens == {Len(value[f]) : f \in Fields}
           IN  CHOOSE n \in lens : \A m \in lens : m <= n

WholeTable  == [shown |-> Longest, size |-> TableSize(Longest)]
CutTable(k) == [shown |-> k, size |-> TableSize(k) + SuffixChars + 4]
CutText(n)  ==
    [shown |-> n,
     size  |-> Cardinality({b \in (1..n) \X (1..MaxJson) : b[2] <= text[b[1]]})
                 + SuffixChars + 4]
NoTable     == [shown |-> 0, size |-> 0]

PayloadSize(candidate) == Size(title) + candidate.size

Fits(candidate) == PayloadSize(candidate) <= Limit

-----------------------------------------------------------------------------
Init ==
    /\ subject \in Subjects
    /\ value \in [Fields -> Values]
    /\ title = <<>> /\ text = <<>> /\ best = NoTable /\ body = NoTable
    /\ pc = "check"
    /\ low = 0 /\ high = 0
    /\ queued \in 0..MaxQueued
    /\ others = 0

\* Mutant: the queue limit is compared with > instead of >=.
FullOffByOne == queued > MaxQueued

Full == queued >= MaxQueued

\* queue_has_capacity: a full queue or a full disk drops the notification.
QueueHasCapacity ==
    /\ pc = "check"
    /\ pc' \in IF Full THEN {"dropped"} ELSE {"title", "dropped"}
    /\ UNCHANGED <<job, title, search, body, queued, others>>

\* Mutant: the title is cut by characters.
TitleByCharacters(chars) ==
    SubSeq(chars, 1, IF Len(chars) < MaxTitle THEN Len(chars) ELSE MaxTitle)

Utf8(chars) ==
    Cardinality({b \in (DOMAIN chars) \X (1..4) : b[2] <= chars[b[1]].utf8})

\* The bytes beyond the limit are cut off, and a character they cut in two with
\* them.
CutTitle(chars) ==
    LET ends == {k \in 0..Len(chars) : Utf8(SubSeq(chars, 1, k)) <= MaxTitle}
    IN  SubSeq(chars, 1, CHOOSE k \in ends : \A m \in ends : m <= k)

SanitizeTitle ==
    /\ pc = "title"
    /\ title' = IF subject = <<>>
                THEN [i \in 1..DefaultTitle |-> [json |-> 1, cols |-> 1, utf8 |-> 1]]
                ELSE CutTitle(subject)
    /\ pc' = "table"
    /\ UNCHANGED <<job, search, body, queued, others>>

\* build_notification_body_for_publish: the whole table, or a search for the
\* longest values with which it fits.
StartTable ==
    /\ pc = "table"
    /\ IF Fits(WholeTable)
       THEN body' = WholeTable /\ pc' = "write" /\ UNCHANGED <<low, high>>
       ELSE low' = 1 /\ high' = Longest /\ pc' = "search" /\ UNCHANGED body
    /\ UNCHANGED <<job, title, best, text, queued, others>>

\* Mutant: the lower bound is not moved past the middle.
NarrowWithoutProgress(candidate, midpoint) ==
    IF Fits(candidate)
    THEN best' = candidate /\ low' = midpoint /\ UNCHANGED high
    ELSE high' = midpoint - 1 /\ UNCHANGED <<low, best>>

\* Mutant: a middle that does not fit takes its neighbour with it.
NarrowTooFar(candidate, midpoint) ==
    IF Fits(candidate)
    THEN best' = candidate /\ low' = midpoint + 1 /\ UNCHANGED high
    ELSE high' = midpoint - 2 /\ UNCHANGED <<low, best>>

\* One round of a binary search.
Narrow(candidate, midpoint) ==
    IF Fits(candidate)
    THEN best' = candidate /\ low' = midpoint + 1 /\ UNCHANGED high
    ELSE high' = midpoint - 1 /\ UNCHANGED <<low, best>>

Midpoint == (low + high) \div 2

SearchTable ==
    /\ pc = "search" /\ low <= high
    /\ Narrow(CutTable(Midpoint), Midpoint)
    /\ UNCHANGED <<job, title, pc, text, body, queued, others>>

\* Without any table that fits, the text of the smallest one is cut: a fallback
\* that the sizes in the code leave unused.
EndTable ==
    /\ pc = "search" /\ low > high
    /\ \/ /\ best # NoTable
          /\ body' = best /\ pc' = "write" /\ UNCHANGED search
       \/ /\ best = NoTable
          /\ text' = SmallestTable
          /\ low' = 0 /\ high' = Len(SmallestTable)
          /\ best' = [shown |-> 0, size |-> SuffixChars + 4]
          /\ pc' = "limit" /\ UNCHANGED body
    /\ UNCHANGED <<job, title, queued, others>>

\* fit_body_to_publish_limit.
LimitText ==
    /\ pc = "limit" /\ low <= high
    /\ Narrow(CutText(Midpoint), Midpoint)
    /\ UNCHANGED <<job, title, pc, text, body, queued, others>>

EndText ==
    /\ pc = "limit" /\ low > high
    /\ body' = best /\ pc' = "write"
    /\ UNCHANGED <<job, title, search, queued, others>>

\* The message file appears under its name, or an error drops it.
WriteMessage ==
    /\ pc = "write"
    /\ \/ pc' = "queued" /\ queued' = queued + 1
       \/ pc' = "dropped" /\ UNCHANGED queued
    /\ UNCHANGED <<job, title, search, body, others>>

\* Other MailProg processes pass the check, write or fail; the worker removes
\* files.  The steps between the check and the write do not look at the queue,
\* so what happens meanwhile may as well happen just before the write.
Environment ==
    /\ \/ /\ ~Full /\ others < MaxMailProgs - 1
          /\ others' = others + 1 /\ UNCHANGED queued
       \/ /\ others > 0 /\ others' = others - 1
          /\ queued' \in {queued, queued + 1}
       \/ queued > 0 /\ queued' = queued - 1 /\ UNCHANGED others
    /\ pc \in {"check", "write", "queued"}
    /\ UNCHANGED <<job, title, pc, search, body>>

Step ==
    \/ QueueHasCapacity \/ SanitizeTitle \/ StartTable \/ SearchTable \/ EndTable
    \/ LimitText \/ EndText \/ WriteMessage

Next == Step \/ Environment

Spec == Init /\ [][Next]_vars

\* The process goes on; others need not run.
FairSpec == Spec /\ WF_vars(Step)

-----------------------------------------------------------------------------
(* Properties *)

\* Types: the bounds of a binary search never pass each other by more than one,
\* and the sizes are natural numbers.
TypeOK ==
    /\ subject \in Subjects /\ value \in [Fields -> Values]
    /\ title \in Seq([json : Nat, cols : Nat, utf8 : Nat])
    /\ pc \in {"check", "title", "table", "search", "limit", "write", "queued",
               "dropped"}
    /\ low \in Nat /\ high \in Int /\ low <= high + 1
    /\ {best, body} \subseteq [shown : Nat, size : Nat] /\ text \in Seq(Nat)
    /\ queued \in 0..(MaxQueued + MaxMailProgs) /\ others \in 0..(MaxMailProgs - 1)

Writing == pc \in {"title", "table", "search", "limit", "write"}

\* Concurrent MailProg processes check the queue limit before they write, not
\* while they do: the queue can exceed the limit, but only by the number of
\* other processes that passed the check at the same time.
QueueBounded ==
    queued + others + (IF Writing THEN 1 ELSE 0) <= MaxQueued + MaxMailProgs - 1

\* What MailProg queues, validate_message of the worker accepts: whatever the
\* subject and the fields hold, however many bytes their characters take.
QueuedIsValid ==
    pc = "queued" => PayloadSize(body) <= Limit /\ Utf8(title) <= MaxTitle

\* The notification tells as much as OCI accepts: the whole table; else the
\* table with the longest values that fit; else the longest text.
Best(candidates) ==
    {c \in candidates :
        Fits(c) /\ \A d \in candidates : Fits(d) => d.shown <= c.shown}

TellsAll ==
    LET tables == {CutTable(k) : k \in 1..Longest}
        texts  == {CutText(n) : n \in 0..Len(text)}
    IN  pc = "queued" =>
          IF Fits(WholeTable) THEN body = WholeTable
          ELSE IF Best(tables) # {} THEN body \in Best(tables)
          ELSE body \in Best(texts)

\* Slurm waits for MailProg: both searches end, and with them the process.
MailProgEnds == <>(pc \in {"queued", "dropped"})

=============================================================================
