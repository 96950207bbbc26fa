----------------------------- MODULE WaitLine -----------------------------
(***************************************************************************)
(* What Semaphore, Mutex and Notify promise those who wait: one line,      *)
(* served from its front.  A permit that comes in is handed to whoever has *)
(* waited longest; it is free only when nobody waits, and nobody takes one *)
(* past the line.  Who was handed a permit takes it, or refuses it, and    *)
(* then it is handed to the next.  A call such as add_permits(n) serves    *)
(* the first n of the line at once.                                        *)
(***************************************************************************)
EXTENDS Integers, Sequences

CONSTANTS
  Futures,   \* those who may wait
  Start,     \* the free permits there are at first
  Batch      \* the most permits that come in at once

VARIABLES
  free,      \* permits that nobody has
  line,      \* who waits, the longest first
  given,     \* who was handed a permit and has not taken it yet
  called,    \* who was dismissed without one and has not heard it yet
  out,       \* permits taken
  open       \* whether one may still join the line

lineVars == <<free, line, given, called, out, open>>

Waiting == {line[i] : i \in 1 .. Len(line)}

LineInit == free = Start /\ line = <<>> /\ given = {} /\ called = {} /\ out = 0 /\ open = TRUE

\* n permits come in: the first of the line are handed one each, and g, who
\* were handed one before, keep theirs.  What is left over is free.
Hand(n, g) ==
  LET k == IF n <= Len(line) THEN n ELSE Len(line)
  IN /\ line' = SubSeq(line, k + 1, Len(line))
     /\ given' = g \cup {line[i] : i \in 1 .. k}
     /\ free' = free + n - k

Supply(n) == Hand(n, given) /\ UNCHANGED <<called, out, open>>

Return == out > 0 /\ out' = out - 1 /\ Hand(1, given) /\ UNCHANGED <<called, open>>

Spend == out > 0 /\ out' = out - 1 /\ UNCHANGED <<free, line, given, called, open>>

Join(f) ==
  /\ open /\ free = 0 /\ f \notin Waiting \cup given \cup called
  /\ line' = Append(line, f)
  /\ UNCHANGED <<free, given, called, out, open>>

Take ==
  /\ open /\ free > 0 /\ line = <<>>
  /\ free' = free - 1 /\ out' = out + 1
  /\ UNCHANGED <<line, given, called, open>>

Claim(f) ==
  /\ f \in given
  /\ given' = given \ {f} /\ out' = out + 1
  /\ UNCHANGED <<free, line, called, open>>

\* The i-th of the line gives up; the others keep their order.
Leave(i) ==
  /\ line' = [j \in 1 .. Len(line) - 1 |-> IF j < i THEN line[j] ELSE line[j + 1]]
  /\ UNCHANGED <<free, given, called, out, open>>

\* Who was handed a permit and gives up: the permit is for the next.
Refuse(f) == f \in given /\ Hand(1, given \ {f}) /\ UNCHANGED <<called, out, open>>

\* Everybody who waits is sent away, the line perhaps closed for good.
Dismiss ==
  /\ line' = <<>> /\ called' = called \cup Waiting
  /\ open' \in {open, FALSE}
  /\ UNCHANGED <<free, given, out>>

Hear(f) == f \in called /\ called' = called \ {f} /\ UNCHANGED <<free, line, given, out, open>>

LineNext ==
  \/ \E n \in 0 .. Batch : Supply(n)
  \/ Return \/ Spend \/ Take \/ Dismiss
  \/ \E f \in Futures : Join(f) \/ Claim(f) \/ Refuse(f) \/ Hear(f)
  \/ \E i \in 1 .. Len(line) : Leave(i)

LineSpec == LineInit /\ [][LineNext]_lineVars

=============================================================================
