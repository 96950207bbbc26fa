--------------------------------- MODULE Io ---------------------------------
(***************************************************************************)
(* A socket of lion-utility/src/net over the reactor's I/O registrations:  *)
(* a TCP stream (accepted or connecting), a listener or a UDP socket.      *)
(* The reactor registers it with epoll once, edge-triggered; readiness.rs  *)
(* keeps a flag per direction that an event sets and a poll clears, and    *)
(* the reactor's slot a waker per direction.  A poll whose flag is clear   *)
(* does not try the system call, so a flag cleared while the socket is     *)
(* ready waits for an edge that may never come.                            *)
(*                                                                         *)
(* The socket's kernel side is external: epoll lists the socket once       *)
(* (edge), whatever happened to it since the last epoll_wait, and reports  *)
(* all that it is ready for then.  All of lion's code for a socket runs on *)
(* one thread; a poll and a park are atomic here, since the peer only      *)
(* touches the kernel side, which the rest of the poll does not read.      *)
(***************************************************************************)
EXTENDS Integers

CONSTANTS
  Tasks,       \* tasks that poll the socket
  MaxRx,       \* bound: data, datagrams or connections waiting in the kernel
  MaxTx,       \* room in the send buffer
  TryDirs      \* what the callers of try_io try: "read", "write"

NoTask == "none"
ASSUME IoAssumption == /\ NoTask \notin Tasks /\ TryDirs \subseteq {"read", "write"}
                       /\ MaxRx \in Nat \ {0} /\ MaxTx \in Nat \ {0}

VARIABLES
  kind,      \* stream, listener, udp; closed: not registered
  conn,      \* external: connecting, up, refused
  rx,        \* external: how much there is to read
  fin,       \* external: the peer has ended the stream
  room,      \* external: free space of the send buffer
  nospace,   \* external: a write was cut short or refused since there was room
  edge,      \* external: on epoll's ready list
  flag,      \* readiness.rs: READABLE, WRITABLE
  waker,     \* ResourceSlot::Io: read_waker, write_waker
  pending,   \* per direction: the task suspended in an operation
  connect,   \* the suspended write is Connect, or the stream is not connected yet
  woken      \* directions whose task was woken since the operation was polled

os == <<conn, rx, fin, room, nospace, edge>>
user == <<kind, connect>>
vars == <<os, user, flag, waker, pending, woken>>

Dirs == {"read", "write"}

TypeOK ==
  /\ kind \in {"closed", "stream", "listener", "udp"} /\ connect \in BOOLEAN
  /\ conn \in {"connecting", "up", "refused"}
  /\ rx \in 0..MaxRx /\ fin \in BOOLEAN /\ room \in 0..MaxTx
  /\ nospace \in BOOLEAN /\ edge \in BOOLEAN
  /\ flag \in [Dirs -> BOOLEAN]
  /\ waker \in [Dirs -> Tasks \cup {NoTask}] /\ pending \in [Dirs -> Tasks \cup {NoTask}]
  /\ woken \subseteq Dirs

Init ==
  /\ kind = "closed" /\ connect = FALSE /\ conn = "up"
  /\ rx = 0 /\ fin = FALSE /\ room = MaxTx /\ nospace = FALSE /\ edge = FALSE
  /\ flag = [d \in Dirs |-> FALSE] /\ waker = [d \in Dirs |-> NoTask]
  /\ pending = [d \in Dirs |-> NoTask] /\ woken = {}

(***************************************************************************)
(* The kernel and the peer (external).                                     *)
(***************************************************************************)
Readable == rx > 0 \/ fin \/ conn = "refused"
Writable == kind # "listener" /\ ((conn = "up" /\ room > 0) \/ conn = "refused")

Arrive ==
  /\ kind # "closed" /\ conn = "up" /\ ~fin /\ rx < MaxRx
  /\ rx' = rx + 1 /\ edge' = TRUE
  /\ UNCHANGED <<conn, fin, room, nospace, user, flag, waker, pending, woken>>

Finish ==
  /\ kind = "stream" /\ conn = "up" /\ ~fin
  /\ fin' = TRUE /\ edge' = TRUE
  /\ UNCHANGED <<conn, rx, room, nospace, user, flag, waker, pending, woken>>

\* The send buffer drains; that is an edge for who was refused room.
Drain ==
  /\ kind # "closed" /\ conn = "up"
  /\ room' \in (room + 1)..MaxTx /\ nospace' = FALSE /\ edge' = (edge \/ nospace)
  /\ UNCHANGED <<conn, rx, fin, user, flag, waker, pending, woken>>

Handshake(c) ==
  /\ kind = "stream" /\ conn = "connecting"
  /\ conn' = c /\ edge' = TRUE
  /\ UNCHANGED <<rx, fin, room, nospace, user, flag, waker, pending, woken>>

(***************************************************************************)
(* Registration.  Resource ids are not reused.                             *)
(***************************************************************************)
\* register_io_resource, a new slot, and init_readiness, both flags set.  Epoll
\* lists the socket at once if it is ready.
Register(k, c) ==
  /\ kind = "closed"
  /\ kind' = k /\ conn' = c /\ connect' = (c = "connecting")
  /\ edge' = (k # "listener" /\ c = "up")
  /\ rx' = 0 /\ fin' = FALSE /\ room' = MaxTx /\ nospace' = FALSE
  /\ flag' = [d \in Dirs |-> TRUE] /\ waker' = [d \in Dirs |-> NoTask]
  /\ UNCHANGED <<pending, woken>>

\* Drop: deregister_io_resource.  Operations borrow the socket.
Drop ==
  /\ kind # "closed" /\ pending = [d \in Dirs |-> NoTask]
  /\ kind' = "closed" /\ connect' = FALSE /\ edge' = FALSE
  /\ waker' = [d \in Dirs |-> NoTask]
  /\ UNCHANGED <<conn, rx, fin, room, nospace, flag, pending, woken>>

(***************************************************************************)
(* Polls.  Every direction has at most one operation at a time.            *)
(***************************************************************************)
\* The operation of direction d may be polled by t.
Polls(d, t) == kind # "closed" /\ pending[d] \in {NoTask, t}

\* Suspended, the waker of the current task in the slot (IoAction::Arm, set_waker).
Arm(d, t) ==
  /\ waker' = [waker EXCEPT ![d] = t]
  /\ pending' = [pending EXCEPT ![d] = t]
  /\ woken' = woken \ {d}

Complete(d) ==
  /\ pending' = [pending EXCEPT ![d] = NoTask]
  /\ woken' = woken \ {d}
  /\ UNCHANGED waker

Clear(d) == flag' = [flag EXCEPT ![d] = FALSE]

\* The flag is clear: no system call.
NotReady(d, t) ==
  /\ Polls(d, t) /\ ~flag[d]
  /\ Arm(d, t)
  /\ UNCHANGED <<os, user, flag>>

\* The system call answered WouldBlock.
WouldBlock(d, t) ==
  /\ Polls(d, t) /\ flag[d]
  /\ \/ d = "read" /\ ~Readable /\ UNCHANGED nospace
     \/ d = "write" /\ ~Writable /\ nospace' = TRUE
  /\ Clear(d) /\ Arm(d, t)
  /\ UNCHANGED <<conn, rx, fin, room, edge, user>>

\* TcpStream::poll_read that completes: data, or nothing at the end of the stream.
\* A read that does not fill the buffer clears the flag.
poll_read(t, len) ==
  /\ kind = "stream" /\ Polls("read", t) /\ flag["read"] /\ Readable
  /\ \E n \in 0..rx : /\ n = IF rx < len THEN rx ELSE len
                      /\ rx' = rx - n
                      /\ IF 0 < n /\ n < len THEN Clear("read") ELSE UNCHANGED flag
  /\ Complete("read")
  /\ UNCHANGED <<conn, fin, room, nospace, edge, user>>

\* TcpStream::poll_write that completes.
poll_write(t, len) ==
  /\ kind = "stream" /\ ~connect /\ Polls("write", t) /\ flag["write"] /\ Writable
  /\ \E n \in 1..room :
       /\ n = IF room < len THEN room ELSE len
       /\ room' = room - n /\ nospace' = (nospace \/ n < len)
       /\ IF n < len THEN Clear("write") ELSE UNCHANGED flag
  /\ Complete("write")
  /\ UNCHANGED <<conn, rx, fin, edge, user>>

\* Faulty variant: the flag alone is trusted.
take_one_flagged(t) ==
  /\ kind \in {"listener", "udp"} /\ Polls("read", t) /\ flag["read"]
  /\ rx' = rx - 1
  /\ Complete("read")
  /\ UNCHANGED <<conn, fin, room, nospace, edge, user, flag>>

\* Accept and RecvFrom that complete: one connection or datagram.
take_one(t) ==
  /\ kind \in {"listener", "udp"} /\ Polls("read", t) /\ flag["read"] /\ rx > 0
  /\ rx' = rx - 1
  /\ Complete("read")
  /\ UNCHANGED <<conn, fin, room, nospace, edge, user, flag>>

\* SendTo that completes.
send_to(t) ==
  /\ kind = "udp" /\ Polls("write", t) /\ flag["write"] /\ room > 0
  /\ room' = room - 1
  /\ Complete("write")
  /\ UNCHANGED <<conn, rx, fin, nospace, edge, user, flag>>

\* Faulty variant: the flag the connection was seen by is consumed.
Connected_consumes(t) ==
  /\ connect /\ Polls("write", t) /\ flag["write"] /\ conn = "up"
  /\ connect' = FALSE
  /\ Clear("write") /\ Complete("write")
  /\ UNCHANGED <<os, kind>>

\* Connect::poll, connected: the flag stays set.
Connected(t) ==
  /\ connect /\ Polls("write", t) /\ flag["write"] /\ conn = "up"
  /\ connect' = FALSE
  /\ Complete("write")
  /\ UNCHANGED <<os, kind, flag>>

\* Connect::poll, an error: the stream is dropped with the future.
Refused(t) ==
  /\ connect /\ Polls("write", t) /\ flag["write"] /\ conn = "refused"
  /\ kind' = "closed" /\ connect' = FALSE /\ edge' = FALSE
  /\ pending' = [pending EXCEPT !["write"] = NoTask] /\ woken' = {}
  /\ waker' = [d \in Dirs |-> NoTask]
  /\ UNCHANGED <<conn, rx, fin, room, nospace, flag>>

\* Connect::poll, not connected yet: the flag was the optimistic one.
Connecting(t) ==
  /\ connect /\ Polls("write", t) /\ flag["write"] /\ conn = "connecting"
  /\ Clear("write") /\ Arm("write", t)
  /\ UNCHANGED <<os, user>>

\* poll_read_ready with the flag clear: no waker is stored, the task wakes itself.
poll_read_ready(t) ==
  /\ kind = "stream" /\ ~connect /\ Polls("read", t) /\ ~flag["read"]
  /\ pending' = [pending EXCEPT !["read"] = t]
  /\ woken' = woken \cup {"read"}
  /\ UNCHANGED <<os, user, flag, waker>>

\* try_io, WouldBlock: the readable flag is cleared, whatever was tried.
try_io(d) ==
  /\ kind = "stream" /\ ~connect /\ pending[d] = NoTask
  /\ \/ d = "read" /\ ~Readable /\ UNCHANGED nospace
     \/ d = "write" /\ ~Writable /\ nospace' = TRUE
  /\ Clear("read")
  /\ UNCHANGED <<conn, rx, fin, room, edge, user, waker, pending, woken>>

\* A suspended operation is dropped; its waker stays in the slot.  Connect takes
\* the stream with it.
Cancel(d) ==
  /\ pending[d] # NoTask
  /\ pending' = [pending EXCEPT ![d] = NoTask] /\ woken' = woken \ {d}
  /\ IF connect
     THEN /\ kind' = "closed" /\ connect' = FALSE /\ edge' = FALSE
          /\ waker' = [e \in Dirs |-> NoTask]
     ELSE UNCHANGED <<user, edge, waker>>
  /\ UNCHANGED <<conn, rx, fin, room, nospace, flag>>

(***************************************************************************)
(* Reactor::park: the flags are set and the wakers called, which stay.     *)
(***************************************************************************)
Events == {d \in Dirs : IF d = "read" THEN Readable ELSE Writable}

\* Faulty variant: only operations that are waiting are marked ready.
park_waiting_only ==
  /\ edge
  /\ edge' = FALSE
  /\ flag' = [d \in Dirs |-> flag[d] \/ (d \in Events /\ waker[d] # NoTask)]
  /\ woken' = woken \cup {d \in Dirs : pending[d] # NoTask /\ \E e \in Events : waker[e] = pending[d]}
  /\ UNCHANGED <<conn, rx, fin, room, nospace, user, waker, pending>>

park ==
  /\ edge
  /\ edge' = FALSE
  /\ flag' = [d \in Dirs |-> flag[d] \/ d \in Events]
  /\ woken' = woken \cup {d \in Dirs : pending[d] # NoTask /\ \E e \in Events : waker[e] = pending[d]}
  /\ UNCHANGED <<conn, rx, fin, room, nospace, user, waker, pending>>

Peer == Arrive \/ Finish \/ Drain \/ Handshake("up") \/ Handshake("refused")

\* A poll of the operation of direction d by task t.
Poll(d, t) ==
  \/ NotReady(d, t) /\ ~(connect /\ d = "read") /\ ~(kind = "listener" /\ d = "write")
  \/ WouldBlock(d, t) /\ ~connect /\ ~(kind = "listener" /\ d = "write")
  \/ d = "read" /\ ~connect /\ (take_one(t) \/ \E len \in 1..(MaxRx + 1) : poll_read(t, len))
  \/ d = "write" /\ (send_to(t) \/ \E len \in 1..(MaxTx + 1) : poll_write(t, len))
  \/ d = "write" /\ (Connected(t) \/ Refused(t) \/ Connecting(t))

Next ==
  \/ Peer \/ park \/ Drop
  \/ \E k \in {"stream", "listener", "udp"} : Register(k, "up")
  \/ Register("stream", "connecting")
  \/ \E d \in Dirs, t \in Tasks : Poll(d, t)
  \/ \E t \in Tasks : poll_read_ready(t)
  \/ \E d \in TryDirs : try_io(d)
  \/ \E d \in Dirs : Cancel(d)

\* The executor parks whenever it runs out of tasks, and polls a woken task.
Fairness ==
  /\ WF_vars(park)
  /\ \A d \in Dirs : WF_vars(d \in woken /\ Poll(d, pending[d]))

Spec == Init /\ [][Next]_vars /\ Fairness

(***************************************************************************)
(* Properties.                                                             *)
(***************************************************************************)
Underway(d) == d \in woken \/ edge

\* A task suspended in poll_read, accept or recv_from while there is something to
\* read has been woken, or an event for the socket is still to be collected.
NoMissedData == pending["read"] # NoTask /\ rx > 0 => Underway("read")

\* The same for poll_write and send_to with room in the send buffer, and for Connect
\* once the handshake is over ("clearing here would send the first poll_write into a
\* wait for an edge that never comes").
NoMissedRoom == pending["write"] # NoTask /\ Writable => Underway("write")

\* Who is suspended and not woken has its waker in the slot of its direction.
Registered == \A d \in Dirs : pending[d] # NoTask /\ d \notin woken => waker[d] = pending[d]

\* All three: no edge is missed.
NoMissedReadiness == NoMissedData /\ NoMissedRoom /\ Registered

\* An operation that could go on is polled to an answer, or dropped.
OperationsResume ==
  /\ (pending["read"] # NoTask /\ rx > 0) ~> (pending["read"] = NoTask)
  /\ (pending["write"] # NoTask /\ Writable) ~> (pending["write"] = NoTask)

\* The audit in HANG_FIXING_STORY.md found every clear of a flag "justified by a
\* preceding WouldBlock - the only edge-trigger-safe place to clear": a task
\* suspended in poll_read at the end of the stream is about to find out.
NoMissedEnd == pending["read"] # NoTask /\ fin => Underway("read")

=============================================================================
