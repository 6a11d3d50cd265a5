----------------------------- MODULE EventLines -----------------------------
(***************************************************************************)
(* The text of events.jsonl as a sequence of lines [id, key], and the      *)
(* operators src/dros/events.py applies to it.                             *)
(***************************************************************************)
EXTENDS Naturals, Sequences

Ids(lines) == {lines[i].id : i \in DOMAIN lines}

\* read is the text current starts with: current.startswith(read).
StartsWith(current, read) ==
    /\ Len(read) <= Len(current)
    /\ \A i \in 1..Len(read) : current[i] = read[i]

\* _coalesce_event_payloads: of the lines with one key the last one is kept,
\* at its own place.
\* Slips: the first one is kept; positions are counted from zero.
LatestFirstKept(lines) ==
    {i \in DOMAIN lines : \A j \in DOMAIN lines : j < i => lines[j].key # lines[i].key}
LatestFromZero(lines) ==
    {i - 1 : i \in {n \in DOMAIN lines : \A j \in DOMAIN lines :
                                           j > n => lines[j].key # lines[n].key}}
Latest(lines) ==
    {i \in DOMAIN lines : \A j \in DOMAIN lines : j > i => lines[j].key # lines[i].key}

\* The ids whose request the handler of line i also serves.
Covered(lines, i) == {lines[j].id : j \in {n \in DOMAIN lines : lines[n].key = lines[i].key}}

\* current[len(read):]
\* Slip: one line too many is dropped.
RemainingByOne(current, read) == SubSeq(current, Len(read) + 2, Len(current))
Remaining(current, read) == SubSeq(current, Len(read) + 1, Len(current))
=============================================================================
