----------------------------- MODULE RingBuffer -----------------------------
(***************************************************************************)
(* The output buffer of a job (internal/core/jobs.go, ringBuffer) under    *)
(* any sequence of writes, against what its readers are told: the tail of  *)
(* the output, its total length, and whether anything was lost.            *)
(***************************************************************************)
EXTENDS Integers, Sequences

CONSTANTS
  Byte,
  Cap,       \* capacity
  MaxWrite,  \* bound: length of one write
  MaxTotal   \* bound: length of all of them

VARIABLES
  buf, total, trunc,
  output  \* everything written so far

ringVars == <<buf, total, trunc, output>>

TypeOK ==
  /\ buf \in Seq(Byte) /\ Len(buf) <= Cap
  /\ total \in 0..MaxTotal
  /\ trunc \in BOOLEAN
  /\ output \in Seq(Byte)

Init ==
  /\ buf = <<>>
  /\ total = 0
  /\ trunc = FALSE
  /\ output = <<>>

\* s without its first n elements.
Drop(s, n) == SubSeq(s, n + 1, Len(s))

Overrun(p) == Len(buf) + Len(p) - Cap

ReplaceHead(p) ==
  /\ Len(p) >= Cap
  /\ buf' = SubSeq(p, 1, Cap)
  /\ trunc' = TRUE

\* The new data alone fills the buffer.
Replace(p) ==
  /\ Len(p) >= Cap
  /\ buf' = Drop(p, Len(p) - Cap)
  /\ trunc' = TRUE

\* The oldest bytes make room for it.
Shift(p) ==
  /\ Len(p) < Cap /\ Overrun(p) > 0
  /\ buf' = Drop(buf, Overrun(p)) \o p
  /\ trunc' = TRUE

Extend(p) ==
  /\ Len(p) < Cap /\ Overrun(p) <= 0
  /\ buf' = buf \o p
  /\ UNCHANGED trunc

Written(p) == total + Len(p)

Write(p) ==
  /\ Len(output) + Len(p) <= MaxTotal
  /\ Replace(p) \/ Shift(p) \/ Extend(p)
  /\ total' = Written(p)
  /\ output' = output \o p

Stopped == Len(output) = MaxTotal

Next ==
  \/ \E n \in 1..MaxWrite : \E p \in [1..n -> Byte] : Write(p)
  \/ Stopped /\ UNCHANGED ringVars

Spec == Init /\ [][Next]_ringVars
-----------------------------------------------------------------------------
(* Properties *)

\* The poller reads the tail of the output, whatever the sizes of the writes.
HoldsTail ==
  \E n \in 0..Len(output) :
    /\ buf = Drop(output, n)
    /\ n = 0 \/ Len(buf) = Cap

\* A lost byte is never concealed: when the flag is down, and only then can it be, the
\* buffer is all there was, and the byte count agrees.
LossIsReported ==
  /\ total = Len(output)
  /\ ~trunc => buf = output

\* The poller reads the tail of the output, and a lost byte is never concealed.
RingFaithful == HoldsTail /\ LossIsReported

\* "Whether truncation occurred": the flag is up only when bytes were lost.
TruncatedMeansLost == trunc => Len(output) > Cap

\* Where it is up for nothing: only after a write has filled an empty buffer exactly, so that
\* a flag beside less output than the buffer holds is impossible.
TruncatedMeansFull == trunc => Len(output) >= Cap
=============================================================================
