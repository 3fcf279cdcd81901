------------------------------ MODULE IniFile ------------------------------
(***************************************************************************)
(* The text files of settings, players, game options and box shapes        *)
(* (menu/ini_parser.c): what is in one, how it is written and how what is  *)
(* on the card is read back.                                               *)
(*                                                                         *)
(* A text is a sequence of lines, a line one of characters.  A file is a   *)
(* sequence of sections, the nameless one holding what stands before any   *)
(* header; a pair whose key was deleted stays, not live.                   *)
(***************************************************************************)
EXTENDS Integers, Sequences, SequencesExt

CONSTANTS
    MaxSections,  \* INI_MAX_SECTIONS, 8
    MaxPairs,     \* INI_MAX_PAIRS, 64 in a section
    MaxName,      \* INI_MAX_NAME_LENGTH - 1, 63
    MaxValue      \* INI_MAX_VALUE_LENGTH - 1, 255

Space == {" ", "\t"}
Quotes == {"\"", "'"}
Remarks == {";", "#"}

NoFile == <<>>          \* ini_create()
Global == <<>>          \* the name of the section before any header
NoSection == 0

\* strnlen() and snprintf(): as much of a text as there is room for.
Cut(s, n) == IF Len(s) <= n THEN s ELSE SubSeq(s, 1, n)

\* The first place in s where one of the characters is, or one past the end.
FirstAt(s, chars) ==
    IF \E i \in DOMAIN s : s[i] \in chars
    THEN CHOOSE i \in DOMAIN s : s[i] \in chars /\ \A j \in 1 .. i - 1 : s[j] \notin chars
    ELSE Len(s) + 1
From(s, i) == SubSeq(s, i, Len(s))
Before(s, i) == SubSeq(s, 1, i - 1)

\* Blanks off the front, and off the back.
Unpadded(s) ==
    IF \A i \in DOMAIN s : s[i] \in Space THEN <<>>
    ELSE From(s, CHOOSE i \in DOMAIN s : s[i] \notin Space /\ \A j \in 1 .. i - 1 : s[j] \in Space)
Trimmed(s) ==
    IF \A i \in DOMAIN s : s[i] \in Space THEN <<>>
    ELSE SubSeq(s, 1, CHOOSE i \in DOMAIN s : s[i] \notin Space /\ \A j \in i + 1 .. Len(s) : s[j] \in Space)
-----------------------------------------------------------------------------
\* Where a section and a key are; 0 where there is none.
IndexOf(ini, name) == SelectInSeq(ini, LAMBDA s : s.name = name)
PairOf(section, key) == SelectInSeq(section.pairs, LAMBDA p : p.key = key)

\* find_or_create_section(): the limit is the answer none.
WithSection(ini, name) ==
    IF IndexOf(ini, name) # 0 \/ Len(ini) >= MaxSections THEN ini
    ELSE Append(ini, [name |-> name, pairs |-> <<>>])

\* find_or_create_pair(), and the value it is given; a pair too many is dropped.
WithPair(section, key, value) ==
    LET at == PairOf(section, key)
        pair == [key |-> key, live |-> TRUE, value |-> value]
    IN  IF at # 0 THEN [section EXCEPT !.pairs[at] = pair]
        ELSE IF Len(section.pairs) >= MaxPairs THEN section
        ELSE [section EXCEPT !.pairs = Append(@, pair)]

\* ini_set_string(): nothing happens when the section cannot be had.
Set(ini, name, key, value) ==
    LET with == WithSection(ini, Cut(name, MaxName))
        at == IndexOf(with, Cut(name, MaxName))
    IN  IF at = NoSection THEN ini
        ELSE [with EXCEPT ![at] = WithPair(@, Cut(key, MaxName), Cut(value, MaxValue))]

\* ini_delete_key(): only the first section of that name is looked in.
Delete(ini, name, key) ==
    LET at == IndexOf(ini, name)
        pair == IF at = NoSection THEN 0 ELSE PairOf(ini[at], key)
    IN  IF pair = 0 THEN ini ELSE [ini EXCEPT ![at].pairs[pair].live = FALSE]

\* ini_get_string(): the value a live pair has, or what the caller asks for.
GetString(ini, name, key, default) ==
    LET at == IndexOf(ini, name)
        pair == IF at = NoSection THEN 0 ELSE PairOf(ini[at], key)
    IN  IF pair = 0 THEN default
        ELSE IF ini[at].pairs[pair].live THEN ini[at].pairs[pair].value ELSE default

\* ini_is_empty()
IsEmpty(ini) == \A i \in DOMAIN ini : \A j \in DOMAIN ini[i].pairs : ~ ini[i].pairs[j].live
-----------------------------------------------------------------------------
(***************************************************************************)
(* ini_save(): the nameless section's pairs, then every section with one   *)
(* that is live, a blank line before it unless it is the first.            *)
(***************************************************************************)
NeedsQuoting(v) ==
    /\ v # <<>>
    /\ v[1] \in Space \/ v[Len(v)] \in Space \/ \E i \in DOMAIN v : v[i] \in Remarks \cup Quotes

Escaped(v) == FlattenSeq([i \in DOMAIN v |-> IF v[i] \in {"\"", "\\"} THEN <<"\\", v[i]>> ELSE <<v[i]>>])
Printed(v) == IF NeedsQuoting(v) THEN <<"\"">> \o Escaped(v) \o <<"\"">> ELSE v
PairLine(p) == p.key \o <<" ", "=", " ">> \o Printed(p.value)

Live(section) == SelectSeq(section.pairs, LAMBDA p : p.live)
PairLines(section) == [j \in DOMAIN Live(section) |-> PairLine(Live(section)[j])]
Block(section) == <<<<"[">> \o section.name \o <<"]">>>> \o PairLines(section)

Save(ini) ==
    LET top == IndexOf(ini, Global)
        first == IF top = NoSection THEN <<>> ELSE PairLines(ini[top])
        rest == SelectSeq(ini, LAMBDA s : s.name # Global /\ Live(s) # <<>>)
    IN  first \o FlattenSeq([i \in DOMAIN rest |->
                    (IF i > 1 \/ first # <<>> THEN <<<<>>>> ELSE <<>>) \o Block(rest[i])])
-----------------------------------------------------------------------------
(***************************************************************************)
(* A value as it is read, and what is left of its line.                    *)
(***************************************************************************)
\* In quotes, a backslash is only one before the quote or a backslash.
Unquoted(s, quote) ==
    LET step(st, c) ==
            IF st.closed THEN [st EXCEPT !.rest = Append(@, c)]
            ELSE IF st.escaping THEN
                IF c \in {quote, "\\"} THEN [st EXCEPT !.escaping = FALSE, !.value = Append(@, c)]
                ELSE [st EXCEPT !.escaping = FALSE, !.value = @ \o <<"\\", c>>]
            ELSE IF c = quote THEN [st EXCEPT !.closed = TRUE]
            ELSE IF c = "\\" THEN [st EXCEPT !.escaping = TRUE]
            ELSE [st EXCEPT !.value = Append(@, c)]
        end == FoldLeft(step, [value |-> <<>>, rest |-> <<>>, closed |-> FALSE, escaping |-> FALSE], s)
    IN  [value |-> IF end.escaping THEN Append(end.value, "\\") ELSE end.value, rest |-> end.rest]

\* Outside of quotes it ends where a remark begins, and without its blanks.
Bare(s) == LET end == FirstAt(s, Remarks) IN [value |-> Trimmed(Before(s, end)), rest |-> From(s, end)]

ReadValue(s) ==
    LET v == Unpadded(s)
    IN  IF v # <<>> /\ v[1] \in Quotes THEN Unquoted(Tail(v), v[1]) ELSE Bare(v)

(***************************************************************************)
(* ini_parse_buffer(), a line at a time: f is the file so far, the section *)
(* that is open and whether a header was seen.  After a header and after a *)
(* value the rest of the line is read as if it were one of its own.        *)
(***************************************************************************)
Header(f, s) ==
    LET end == FirstAt(s, {"]"})
        name == Cut(SubSeq(s, 2, end - 1), MaxName)
        ini == WithSection(f.ini, name)
    IN  IF end > Len(s) \/ end = 2 THEN [f |-> [f EXCEPT !.headed = TRUE], rest |-> <<>>]
        ELSE [f |-> [ini |-> ini, section |-> IndexOf(ini, name), headed |-> TRUE], rest |-> From(s, end + 1)]

\* A pair before any header goes to the nameless section; one whose section
\* could not be had is skipped with its line.
Pair(f, s) ==
    LET eq == FirstAt(s, {"="})
        with == IF f.section # NoSection \/ f.headed THEN f.ini ELSE WithSection(f.ini, Global)
        at == IF f.section # NoSection THEN f.section ELSE IF f.headed THEN NoSection ELSE IndexOf(with, Global)
        read == ReadValue(From(s, eq + 1))
    IN  IF eq > Len(s) \/ eq = 1 THEN [f |-> f, rest |-> <<>>]
        ELSE IF at = NoSection THEN [f |-> [f EXCEPT !.ini = with], rest |-> <<>>]
        ELSE [f |-> [f EXCEPT !.ini = [with EXCEPT ![at] =
                        WithPair(@, Cut(Trimmed(Before(s, eq)), MaxName), Cut(read.value, MaxValue))]],
              rest |-> read.rest]

RECURSIVE ParseLine(_, _)
ParseLine(f, line) ==
    LET s == Unpadded(line)
        one == IF s[1] = "[" THEN Header(f, s) ELSE Pair(f, s)
    IN  IF s = <<>> THEN f ELSE IF s[1] \in Remarks THEN f ELSE ParseLine(one.f, one.rest)

Parse(text) ==
    FoldLeft(ParseLine, [ini |-> NoFile, section |-> NoSection, headed |-> FALSE], text).ini

\* ini_try_load(): a file that is not there, or that cannot be read to its end,
\* is taken for an empty one.
Unreadable == [whole |-> FALSE, lines |-> <<>>]
Readable(text) == [whole |-> TRUE, lines |-> text]
TryLoad(file) == IF file.whole THEN Parse(file.lines) ELSE NoFile
=============================================================================
