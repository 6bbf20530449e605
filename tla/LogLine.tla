------------------------------ MODULE LogLine -------------------------------
(***************************************************************************)
(* What the parsers and filters of the log types share. A line is          *)
(* [id, n, f]: its number of fields and their texts by name, "-" where     *)
(* nothing is logged. A number or a time is a text in Number; times of day *)
(* are small numbers, 0 being no time.                                     *)
(***************************************************************************)
EXTENDS Tally

CONSTANTS Number,   \* Number[text]: what a text means as a number
          Hour,     \* Hour[t]: the hour of a time, as a text
          NormalPath  \* NormalPath[p]: a path whose numbers are replaced

Raw(l, name) == IF name \in DOMAIN l.f THEN l.f[name] ELSE "-"
dash(s) == IF s = "-" THEN "" ELSE s
number(s, unknown) == IF s \in DOMAIN Number THEN Number[s] ELSE unknown

NormalizePath(p) == IF p \in DOMAIN NormalPath THEN NormalPath[p] ELSE p

\* What a parser takes from a line: nothing for a field the format or this line
\* does not have.
at(field, l, name) == IF name \in DOMAIN field /\ field[name] < l.n THEN dash(Raw(l, name)) ELSE ""

\* A filter is [want, since, until, ...]: the values each criterion that is set
\* matches, and the time bounds. Since is inclusive, Until exclusive.
InTime(f, e) == (f.since = 0 \/ e.time >= f.since) /\ (f.until = 0 \/ e.time < f.until)
Wanted(f, e, value(_, _)) == \A c \in DOMAIN f.want : value(c, e) \in f.want[c]
=============================================================================
