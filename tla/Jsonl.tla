-------------------------------- MODULE Jsonl -------------------------------
(***************************************************************************)
(* The JSON Lines sink (internal/sink/jsonl.go): a buffer for each writer, *)
(* one buffered file behind a mutex, and an error that stays.              *)
(*                                                                         *)
(* A flush is one step: it holds the mutex from the look at the error to   *)
(* the end of the write. The number of lines stands for the size of a      *)
(* buffer.                                                                 *)
(***************************************************************************)
EXTENDS Integers, SequencesExt

CONSTANTS Line,       \* the lines that may be written
          JWriter,    \* writers
          FlushLines  \* lines that fill a writer's buffer (jsonlFlushBytes)

ASSUME JsonlAssumption == FlushLines \in Nat \ {0} /\ IsFiniteSet(JWriter) /\ IsFiniteSet(Line)

VARIABLES buf,     \* buf[w]: the lines writer w holds
          out,     \* lines in the buffered file that are not in the file
          file,    \* lines in the file
          jerr     \* err is set

jsonlVars == <<buf, out, file, jerr>>

InitJsonl == buf = [w \in JWriter |-> <<>>] /\ out = <<>> /\ file = <<>> /\ jerr = FALSE

\* The buffered file takes lines, or part of them, and fails or not. What it
\* passes on to the file meanwhile is its affair.
Takes(lines) == \E n \in 0 .. Len(out \o lines) :
                  /\ file' = file \o SubSeq(out \o lines, 1, n)
                  /\ \/ out' = SubSeq(out \o lines, n + 1, Len(out \o lines)) /\ jerr' = FALSE
                     \/ out' = <<>> /\ jerr' = TRUE

\* flush: after an error lines are dropped.
Flush(lines) == IF jerr THEN UNCHANGED <<out, file, jerr>> ELSE Takes(lines)

\* A writer's buffer is full.
Full(b) == Len(b) >= FlushLines

\* jsonlWriter.Write.
WriteJsonl(w, l) ==
  LET b == Append(buf[w], l)
  IN  IF Full(b) THEN buf' = [buf EXCEPT ![w] = <<>>] /\ Flush(b)
                 ELSE buf' = [buf EXCEPT ![w] = b] /\ UNCHANGED <<out, file, jerr>>

\* Close, first: one writer after the other is flushed; those that hold nothing
\* are passed over. No writer is in use any more.
FlushWriter(w) == /\ buf[w] # <<>>
                  /\ buf' = [buf EXCEPT ![w] = <<>>]
                  /\ Flush(buf[w])

\* Close, at last: what the buffered file holds goes into the file, which may fail
\* to be written or closed.
CloseFile == /\ \A w \in JWriter : buf[w] = <<>>
             /\ UNCHANGED buf
             /\ \/ jerr /\ UNCHANGED <<out, file, jerr>>
                \/ ~jerr /\ file' = file \o out /\ out' = <<>> /\ jerr' \in BOOLEAN
                \/ ~jerr /\ Takes(<<>>) /\ jerr'
=============================================================================
