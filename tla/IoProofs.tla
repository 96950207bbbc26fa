------------------------------ MODULE IoProofs ------------------------------
(***************************************************************************)
(* Proofs about Io, for any tasks and any sizes of the kernel's buffers:   *)
(* no poll waits for an edge that never comes.  try_io may only be used to *)
(* read: it clears the readable flag whatever it tried.                    *)
(***************************************************************************)
EXTENDS Io, TLAPS

\* The two directions, and what a change of one leaves of a function of both.
LEMMA DirFacts ==
  /\ Dirs = {"read", "write"}
  /\ "read" \in Dirs /\ "write" \in Dirs /\ \A d \in Dirs : d = "read" \/ d = "write"
BY DEF Dirs

\* What a clear flag means, in each direction: there is nothing to read, or no room
\* and a note to announce it, or the connection is not there yet -- or an event is
\* still to be collected that will set the flag.
ReadFlag == kind # "closed" /\ ~flag["read"] /\ rx > 0 => edge

WriteFlag ==
  kind \in {"stream", "udp"} /\ ~flag["write"] =>
    /\ conn = "up" => IF room > 0 THEN edge ELSE nospace
    /\ conn = "refused" => edge

\* Who is suspended with its flag set has been woken.
FlagWakes == \A d \in Dirs : pending[d] # NoTask /\ flag[d] => d \in woken

\* A socket that is not connected has its whole send buffer, and nobody but
\* Connect polls it; nobody is suspended on a closed one.
Usage ==
  /\ kind = "closed" => \A d \in Dirs : pending[d] = NoTask
  /\ kind # "closed" /\ conn # "up" => connect
  /\ kind # "closed" /\ conn = "connecting" => room = MaxTx
  /\ connect => kind = "stream" /\ pending["read"] = NoTask

IInv == TypeOK /\ Usage /\ ReadFlag /\ WriteFlag /\ FlagWakes /\ Registered

ReadsOnly == TryDirs \subseteq {"read"}

\* The steps of the kernel and the peer.
LEMMA PeerStep == ASSUME IInv, Peer PROVE IInv'
<1> USE IoAssumption, DirFacts DEF IInv, TypeOK, Usage, ReadFlag, WriteFlag, FlagWakes, Registered, user
<1>1. CASE Arrive
  BY <1>1 DEF Arrive
<1>2. CASE Finish
  BY <1>2 DEF Finish
<1>3. CASE Drain
  <2>1. room' \in Nat /\ room' > room /\ room' <= MaxTx /\ room \in Nat
    BY <1>3 DEF Drain
  <2>2. edge' \in BOOLEAN /\ nospace' \in BOOLEAN /\ (edge' <=> edge \/ nospace)
    BY <1>3 DEF Drain
  <2>3. UNCHANGED <<conn, rx, fin, kind, connect, flag, waker, pending, woken>> /\ conn = "up"
    BY <1>3 DEF Drain
  <2>4. TypeOK'
    BY <2>1, <2>2, <2>3
  <2>5. Usage' /\ ReadFlag'
    BY <2>2, <2>3
  <2>6. WriteFlag'
    BY <2>1, <2>2, <2>3
  <2>7. FlagWakes' /\ Registered'
    BY <2>3
  <2>8. QED
    BY <2>4, <2>5, <2>6, <2>7
<1>4. ASSUME NEW c \in {"up", "refused"}, Handshake(c) PROVE IInv'
  BY <1>4 DEF Handshake
<1>5. QED
  BY <1>1, <1>2, <1>3, <1>4 DEF Peer

\* The steps that create and drop a socket or an operation.
LEMMA UseStep ==
  ASSUME IInv, Drop \/ (\E d \in Dirs : Cancel(d)) \/ Register("stream", "connecting")
               \/ \E k \in {"stream", "listener", "udp"} : Register(k, "up")
  PROVE  IInv'
<1> USE IoAssumption, DirFacts DEF IInv, TypeOK, Usage, ReadFlag, WriteFlag, FlagWakes, Registered, user
<1>1. CASE Drop
  BY <1>1 DEF Drop
<1>2. ASSUME NEW d \in Dirs, Cancel(d) PROVE IInv'
  BY <1>2 DEF Cancel
<1>3. ASSUME NEW k \in {"stream", "listener", "udp"}, NEW c \in {"up", "connecting"}, Register(k, c),
             c = "connecting" => k = "stream"
      PROVE IInv'
  <2>1. \A d \in Dirs : flag'[d] /\ waker'[d] = NoTask /\ pending[d] = NoTask
    BY <1>3 DEF Register
  <2>2. TypeOK'
    <3>1. /\ kind' = k /\ conn' = c /\ rx' = 0 /\ room' = MaxTx /\ fin' = FALSE /\ nospace' = FALSE
          /\ connect' = (c = "connecting") /\ edge' = (k # "listener" /\ c = "up")
          /\ flag' = [d \in Dirs |-> TRUE] /\ waker' = [d \in Dirs |-> NoTask] /\ UNCHANGED <<pending, woken>>
      BY <1>3 DEF Register
    <3>2. rx' \in 0 .. MaxRx /\ room' \in 0 .. MaxTx
      BY <3>1
    <3>3. fin' \in BOOLEAN /\ nospace' \in BOOLEAN /\ connect' \in BOOLEAN /\ edge' \in BOOLEAN
      BY <3>1
    <3>4. flag' \in [Dirs -> BOOLEAN] /\ waker' \in [Dirs -> Tasks \cup {NoTask}]
      BY <3>1
    <3>5. QED
      BY <3>1, <3>2, <3>3, <3>4
  <2>3. Usage' /\ ReadFlag' /\ WriteFlag'
    BY <1>3, <2>1 DEF Register
  <2>4. FlagWakes' /\ Registered'
    BY <1>3, <2>1 DEF Register
  <2>5. QED
    BY <2>2, <2>3, <2>4
<1>4. QED
  BY <1>1, <1>2, <1>3

\* A park sets the flag of everything that is ready and wakes who waits for it.
LEMMA ParkStep == ASSUME IInv, park PROVE IInv'
<1> USE IoAssumption, DirFacts DEF IInv, TypeOK, user
<1>1. /\ edge' = FALSE /\ flag' = [d \in Dirs |-> flag[d] \/ d \in Events]
      /\ UNCHANGED <<conn, rx, fin, room, nospace, kind, connect, waker, pending>>
      /\ woken' = woken \cup {d \in Dirs : pending[d] # NoTask /\ \E e \in Events : waker[e] = pending[d]}
  BY DEF park
<1>2. /\ "read" \in Events <=> Readable
      /\ "write" \in Events <=> Writable
      /\ Events \subseteq Dirs
  BY DEF Events
<1>3. flag' \in [Dirs -> BOOLEAN] /\ \A d \in Dirs : flag'[d] <=> flag[d] \/ d \in Events
  BY <1>1
<1>4. TypeOK'
  BY <1>1, <1>3
<1>5. ReadFlag'
  BY <1>1, <1>2, <1>3 DEF ReadFlag, Readable
<1>6. WriteFlag'
  BY <1>1, <1>2, <1>3 DEF WriteFlag, Writable
<1>7. FlagWakes' /\ Registered'
  BY <1>1, <1>2, <1>3 DEF FlagWakes, Registered
<1>8. Usage'
  BY <1>1 DEF Usage
<1>9. QED
  BY <1>4, <1>5, <1>6, <1>7, <1>8

\* Every poll, also poll_read_ready, and a try_io that reads.
LEMMA PollStep == ASSUME IInv, NEW d \in Dirs, NEW t \in Tasks, Poll(d, t) PROVE IInv'
<1> USE IoAssumption, DirFacts
    DEF IInv, TypeOK, Usage, ReadFlag, WriteFlag, FlagWakes, Registered, user, Polls, Arm, Complete, Clear
<1>1. CASE NotReady(d, t) /\ ~(connect /\ d = "read") /\ ~(kind = "listener" /\ d = "write")
  BY <1>1 DEF NotReady, os
<1>2. CASE WouldBlock(d, t) /\ ~connect /\ ~(kind = "listener" /\ d = "write")
  <2>1. CASE d = "read"
    BY <1>2, <2>1 DEF WouldBlock, Readable
  <2>2. CASE d = "write"
    <3>1. nospace' = TRUE /\ conn # "refused" /\ (conn = "up" => room = 0)
      BY <1>2, <2>2 DEF WouldBlock, Writable
    <3>2. QED
      BY <1>2, <2>2, <3>1 DEF WouldBlock
  <2>3. QED
    BY <2>1, <2>2
<1>3. CASE d = "read" /\ take_one(t)
  BY <1>3 DEF take_one
<1>4. ASSUME NEW len \in 1 .. (MaxRx + 1), poll_read(t, len) PROVE IInv'
  <2>1. PICK n \in 0 .. rx : /\ n = IF rx < len THEN rx ELSE len
                           /\ rx' = rx - n
                           /\ IF 0 < n /\ n < len THEN Clear("read") ELSE UNCHANGED flag
    BY <1>4 DEF poll_read
  <2>2. rx' \in 0 .. MaxRx /\ (0 < n /\ n < len => rx' = 0)
    BY <2>1
  <2>3. /\ flag["read"] /\ Polls("read", t) /\ Complete("read") /\ kind = "stream"
        /\ UNCHANGED <<conn, fin, room, nospace, edge, kind, connect>>
    BY <1>4 DEF poll_read
  <2>4. flag' \in [Dirs -> BOOLEAN] /\ flag'["write"] = flag["write"] /\ (~flag'["read"] => rx' = 0)
    <3>1. CASE 0 < n /\ n < len
      BY <2>1, <2>2, <3>1
    <3>2. CASE ~(0 < n /\ n < len)
      BY <2>1, <2>3, <3>2
    <3>3. QED
      BY <3>1, <3>2
  <2>5. TypeOK'
    BY <2>2, <2>3, <2>4
  <2>6. ReadFlag' /\ WriteFlag'
    BY <2>2, <2>3, <2>4
  <2>7. Usage' /\ FlagWakes' /\ Registered'
    BY <2>3, <2>4
  <2>8. QED
    BY <2>5, <2>6, <2>7
<1>5. CASE send_to(t)
  <2>1. room' \in 0 .. MaxTx /\ flag["write"] /\ kind = "udp"
    BY <1>5 DEF send_to
  <2>2. /\ Polls("write", t) /\ Complete("write")
        /\ UNCHANGED <<conn, rx, fin, nospace, edge, kind, connect, flag>>
    BY <1>5 DEF send_to
  <2>3. TypeOK'
    BY <2>1, <2>2
  <2>4. ReadFlag' /\ WriteFlag'
    BY <2>1, <2>2
  <2>5. Usage' /\ FlagWakes' /\ Registered'
    BY <2>1, <2>2
  <2>6. QED
    BY <2>3, <2>4, <2>5
<1>6. ASSUME NEW len \in 1 .. (MaxTx + 1), poll_write(t, len) PROVE IInv'
  <2>1. PICK n \in 1 .. room :
          /\ n = IF room < len THEN room ELSE len
          /\ room' = room - n /\ nospace' = (nospace \/ n < len)
          /\ IF n < len THEN Clear("write") ELSE UNCHANGED flag
    BY <1>6 DEF poll_write
  <2>2. room' \in 0 .. MaxTx /\ (n < len => room' = 0)
    BY <2>1
  <2>3. nospace' \in BOOLEAN /\ (n < len => nospace')
    BY <2>1
  <2>4. /\ flag["write"] /\ Polls("write", t) /\ Complete("write") /\ kind = "stream" /\ ~connect
        /\ UNCHANGED <<conn, rx, fin, edge, kind, connect>>
    BY <1>6 DEF poll_write
  <2>5. /\ flag' \in [Dirs -> BOOLEAN] /\ flag'["read"] = flag["read"]
        /\ ~flag'["write"] => n < len
    BY <2>1, <2>4
  <2>6. TypeOK'
    BY <2>2, <2>3, <2>4, <2>5
  <2>7. conn \in {"connecting", "up", "refused"} /\ conn # "refused" /\ conn # "connecting"
    BY <1>6, <2>4 DEF poll_write, Writable
  <2>8. ReadFlag' /\ WriteFlag'
    BY <2>2, <2>3, <2>4, <2>5, <2>7
  <2>9. Usage' /\ FlagWakes' /\ Registered'
    BY <2>4, <2>5, <2>7
  <2>10. QED
    BY <2>6, <2>8, <2>9
<1>7. CASE Connected(t)
  BY <1>7 DEF Connected, os
<1>8. CASE Refused(t)
  BY <1>8 DEF Refused
<1>9. CASE Connecting(t)
  BY <1>9 DEF Connecting, os
<1>10. QED
  BY <1>1, <1>2, <1>3, <1>4, <1>5, <1>6, <1>7, <1>8, <1>9 DEF Poll

\* Every step keeps the invariant.
LEMMA IInvStep == ASSUME ReadsOnly, IInv, [Next]_vars PROVE IInv'
<1> USE IoAssumption, DirFacts
<1>1. ASSUME NEW t \in Tasks, poll_read_ready(t) PROVE IInv'
  BY <1>1 DEF poll_read_ready, Polls, os, user, IInv, TypeOK, Usage, ReadFlag, WriteFlag, FlagWakes, Registered
<1>2. CASE try_io("read")
  BY <1>2 DEF try_io, Readable, Clear, user, IInv, TypeOK, Usage, ReadFlag, WriteFlag, FlagWakes, Registered
<1>3. CASE UNCHANGED vars
  BY <1>3 DEF vars, os, user, IInv, TypeOK, Usage, ReadFlag, WriteFlag, FlagWakes, Registered
<1>4. QED
  BY <1>1, <1>2, <1>3, PeerStep, UseStep, ParkStep, PollStep DEF Next, ReadsOnly

\* The invariant holds of a state in which no socket is open.
LEMMA IInvInit == Init => IInv
<1> SUFFICES ASSUME Init PROVE IInv
  OBVIOUS
<1>1. TypeOK
  <2>1. rx \in 0 .. MaxRx /\ room \in 0 .. MaxTx
    BY IoAssumption DEF Init
  <2>2. connect \in BOOLEAN /\ fin \in BOOLEAN /\ nospace \in BOOLEAN /\ edge \in BOOLEAN
    BY DEF Init
  <2>3. /\ flag \in [Dirs -> BOOLEAN] /\ waker \in [Dirs -> Tasks \cup {NoTask}]
        /\ pending \in [Dirs -> Tasks \cup {NoTask}] /\ woken \subseteq Dirs
    BY DEF Init
  <2>4. QED
    BY <2>1, <2>2, <2>3 DEF Init, TypeOK
<1>2. Usage /\ ReadFlag /\ WriteFlag
  BY DirFacts DEF Init, Usage, ReadFlag, WriteFlag
<1>3. FlagWakes /\ Registered
  BY DEF Init, FlagWakes, Registered
<1>4. QED
  BY <1>1, <1>2, <1>3 DEF IInv

\* The state of a socket stays well typed, when try_io only reads.
THEOREM IoTypes == ASSUME ReadsOnly PROVE Spec => []TypeOK
<1>1. IInv /\ [Next]_vars => IInv'
  BY IInvStep
<1>2. IInv => TypeOK
  BY DEF IInv
<1>3. QED
  BY <1>1, <1>2, IInvInit, PTL DEF Spec

\* No suspended operation misses an edge: while it could go on, its task has been
\* woken or an event is still to be collected, through every mix of reads, writes,
\* connects, accepts, cancellations and a socket dropped and opened again.
THEOREM EdgesNotMissed == ASSUME ReadsOnly PROVE Spec => []NoMissedReadiness
<1>1. IInv /\ [Next]_vars => IInv'
  BY IInvStep
<1>2. IInv => NoMissedReadiness
  <2> SUFFICES ASSUME IInv PROVE NoMissedReadiness
    OBVIOUS
  <2> USE IoAssumption, DirFacts DEF IInv, Underway
  <2>1. NoMissedData
    BY DEF NoMissedData, ReadFlag, FlagWakes, Usage, TypeOK
  <2>2. NoMissedRoom
    BY DEF NoMissedRoom, WriteFlag, FlagWakes, Usage, TypeOK, Writable
  <2>3. QED
    BY <2>1, <2>2 DEF NoMissedReadiness
<1>3. QED
  BY <1>1, <1>2, IInvInit, PTL DEF Spec

=============================================================================
