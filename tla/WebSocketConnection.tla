------------------------ MODULE WebSocketConnection -------------------------
(***************************************************************************)
(* One WebSocket connection on its owning worker                           *)
(* (fn0/worker/src/websocket.rs): senders and disconnects meet the writer   *)
(* through a bounded command queue and an unbounded control channel, the    *)
(* reader hands messages to the project, and run_connection takes it all    *)
(* down.  What a caller is told about its message has to agree with what    *)
(* went out on the socket.                                                  *)
(*                                                                         *)
(* A message is any number of data frames and a final one.  Pings, pongs    *)
(* and their timeouts appear as the failures they can be.                   *)
(***************************************************************************)
EXTENDS Integers, Sequences, SequencesExt

CONSTANTS
  Sends,       \* the sends callers make
  Disconnects, \* the disconnects callers ask for
  QueueCap,    \* OUTBOUND_COMMAND_CAPACITY
  InLimit,     \* INBOUND_PENDING_LIMIT
  MaxCalls,    \* bound on callbacks that run at once
  MaxFrames    \* bound on the data frames of a message

VARIABLES
  closing,  \* ConnectionEntry::closing
  guard,    \* the singleton's lease permits traffic
  forced,   \* schedule_force_close has been called
  queue,    \* command_sender's channel: sends, and "close"
  parked,   \* a disconnect's or a deployment's Close waits for room in it
  control,  \* control_sender's channel: "close", "peer", "lost"
  writer,   \* writer_loop: the send it is writing, "idle" or "ended"
  some,     \* a frame of it was written: wrote_frame, wrote_any_frame
  parting,  \* close_sent
  wire,     \* the frames written: [id, fin]
  ans,      \* what each sender has been told
  bye,      \* what each disconnect has been told
  reader,   \* read_loop runs
  pending,  \* pending_messages: waiting for a worker thread
  calls,    \* on_message callbacks that run
  run       \* where run_connection is

out  == <<queue, parked, control>>
pen  == <<writer, some, parting, wire>>
ins  == <<reader, pending, calls>>
vars == <<closing, guard, forced, out, pen, ans, bye, ins, run>>

Init ==
  /\ closing = FALSE /\ guard = TRUE /\ forced = FALSE
  /\ queue = <<>> /\ parked = FALSE /\ control = <<>>
  /\ writer = "idle" /\ some = FALSE /\ parting = FALSE /\ wire = <<>>
  /\ ans = [s \in Sends |-> "none"] /\ bye = [d \in Disconnects |-> "none"]
  /\ reader = TRUE /\ pending = 0 /\ calls = 0
  /\ run = "socket"

\* An unbounded send, to a writer that may be gone; another Close changes nothing.
Tell(what) ==
  control' = IF run # "socket" \/ Contains(control, what) THEN control ELSE Append(control, what)

\* close_connection, and fence_singleton which revokes the lease first.
CloseConnection ==
  IF closing THEN UNCHANGED <<closing, forced, control>>
  ELSE closing' = TRUE /\ forced' = (run = "socket") /\ Tell("close")

-----------------------------------------------------------------------------
(* Senders: admit_local_send and await_send_response.                       *)

Told(s, what) == ans' = [ans EXCEPT ![s] = what]

Refuse(s) ==
  /\ ans[s] = "none" /\ (run # "socket" \/ closing) /\ Told(s, "notsent")
  /\ UNCHANGED <<closing, guard, forced, out, pen, bye, ins, run>>

\* The lease does not permit traffic, or the egress budget is known exhausted.
RefuseAndClose(s) ==
  /\ ans[s] = "none" /\ run = "socket" /\ ~closing
  /\ CloseConnection /\ Told(s, "notsent")
  /\ guard' \in {guard, FALSE}
  /\ UNCHANGED <<queue, parked, pen, bye, ins, run>>

\* try_send: a full queue closes the connection.
Admit(s) ==
  /\ ans[s] = "none" /\ run = "socket" /\ ~closing /\ guard
  /\ IF Len(queue) < QueueCap
     THEN queue' = Append(queue, s) /\ Told(s, "waiting") /\ UNCHANGED <<closing, control>>
     ELSE closing' = TRUE /\ Tell("close") /\ Told(s, "notsent") /\ UNCHANGED queue
  /\ UNCHANGED <<guard, forced, parked, pen, bye, ins, run>>

\* The caller's own deadline, or the writer is gone without an answer.
GiveUp(s) ==
  /\ ans[s] = "waiting" /\ Told(s, "unknown")
  /\ UNCHANGED <<closing, guard, forced, out, pen, bye, ins, run>>

-----------------------------------------------------------------------------
(* Disconnects: disconnect_entry.  "closing" waits for the Close it queued, *)
(* "closed" for run_connection.                                             *)

\* Mutant: the Close is dropped when the command queue is full.
DisconnectDropped(d) ==
  /\ bye[d] = "none"
  /\ bye' = [bye EXCEPT ![d] = IF run = "done" THEN "ok" ELSE IF closing THEN "closed" ELSE "closing"]
  /\ IF run = "done" THEN UNCHANGED <<closing, parked>>
     ELSE closing' = TRUE /\ parked' = (parked \/ (~closing /\ Len(queue) < QueueCap))
  /\ UNCHANGED <<guard, forced, queue, control, pen, ans, ins, run>>

Disconnect(d) ==
  /\ bye[d] = "none"
  /\ bye' = [bye EXCEPT ![d] = IF run = "done" THEN "ok" ELSE IF closing THEN "closed" ELSE "closing"]
  /\ IF run = "done" THEN UNCHANGED <<closing, parked>>
     ELSE closing' = TRUE /\ parked' = (parked \/ ~closing)
  /\ UNCHANGED <<guard, forced, queue, control, pen, ans, ins, run>>

\* close_project asks for the same without waiting for an answer.
CloseProject ==
  /\ ~closing /\ run = "socket"
  /\ closing' = TRUE /\ parked' = TRUE
  /\ UNCHANGED <<guard, forced, queue, control, pen, ans, bye, ins, run>>

\* The spawned command_sender.send finds room.
Park ==
  /\ parked /\ writer # "ended" /\ Len(queue) < QueueCap
  /\ parked' = FALSE /\ queue' = Append(queue, "close")
  /\ UNCHANGED <<closing, guard, forced, control, pen, ans, bye, ins, run>>

\* The response, or its sender dropped with the writer, and the closed signal.
DisconnectAnswered(d) ==
  /\ \/ bye[d] = "closing" /\ writer = "ended"
     \/ bye[d] = "closed" /\ run = "done"
  /\ bye' = [bye EXCEPT ![d] = "ok"]
  /\ UNCHANGED <<closing, guard, forced, out, pen, ans, ins, run>>

DisconnectLate(d) ==
  /\ bye[d] \in {"closing", "closed"} /\ bye' = [bye EXCEPT ![d] = "unknown"]
  /\ UNCHANGED <<closing, guard, forced, out, pen, ans, ins, run>>

-----------------------------------------------------------------------------
(* writer_loop: control messages first, then commands until a close is out. *)

Idle == writer = "idle" /\ run = "socket"

CloseFrame == [id |-> "close", fin |-> TRUE]

\* A close frame written within its deadline, or not.
MaybeClose == wire' \in {wire, Append(wire, CloseFrame)}

Ended == writer' = "ended" /\ some' = FALSE

\* WriterControl::Close, and SocketCommand::Close
WriteClose ==
  IF parting THEN UNCHANGED pen
  ELSE \/ Ended /\ UNCHANGED <<parting, wire>>
       \/ wire' = Append(wire, CloseFrame) /\ parting' = TRUE /\ UNCHANGED <<writer, some>>

TakeControl ==
  /\ Idle /\ control # <<>> /\ control' = Tail(control)
  /\ CASE Head(control) = "close" -> WriteClose
       [] Head(control) = "peer"  -> /\ Ended /\ UNCHANGED parting
                                     /\ IF parting THEN UNCHANGED wire ELSE MaybeClose
       [] Head(control) = "lost"  -> Ended /\ UNCHANGED <<parting, wire>>
  /\ UNCHANGED <<closing, guard, forced, queue, parked, ans, bye, ins, run>>

TakeClose ==
  /\ Idle /\ control = <<>> /\ ~parting /\ queue # <<>> /\ Head(queue) = "close"
  /\ queue' = Tail(queue) /\ WriteClose
  /\ UNCHANGED <<closing, guard, forced, parked, control, ans, bye, ins, run>>

\* The answer to a send, unless its caller has given up.
Answer(s, what) == ans' = IF ans[s] = "waiting" THEN [ans EXCEPT ![s] = what] ELSE ans

\* Too late, or without a lease: not sent, and the connection ends.
TakeLateSend ==
  /\ Idle /\ control = <<>> /\ ~parting /\ queue # <<>> /\ Head(queue) \in Sends
  /\ queue' = Tail(queue) /\ Answer(Head(queue), "notsent")
  /\ Ended /\ MaybeClose
  /\ UNCHANGED <<closing, guard, forced, parked, control, parting, bye, ins, run>>

TakeSend ==
  /\ Idle /\ control = <<>> /\ ~parting /\ queue # <<>> /\ Head(queue) \in Sends /\ guard
  /\ queue' = Tail(queue) /\ writer' = Head(queue)
  /\ UNCHANGED <<closing, guard, forced, parked, control, some, parting, wire, ans, bye, ins, run>>

(* send_message.                                                            *)

Writing == writer \in Sends /\ run = "socket"

\* A frame is refused before it is written: the body failed, the text is
\* invalid, the lease or the egress budget does not admit it.
FrameRefused(invalid) ==
  /\ Writing /\ Answer(writer, IF some THEN "unknown" ELSE "notsent")
  /\ IF invalid /\ ~some
     THEN writer' = "idle" /\ UNCHANGED <<some, wire>>
     ELSE Ended /\ MaybeClose
  /\ UNCHANGED <<closing, guard, forced, out, parting, bye, ins, run>>

Frames(s) == Len(SelectSeq(wire, LAMBDA f : f.id = s))

FrameWritten ==
  /\ Writing /\ guard /\ Frames(writer) < MaxFrames
  /\ some' = TRUE
  /\ wire' = Append(wire, [id |-> writer, fin |-> FALSE])
  /\ UNCHANGED <<closing, guard, forced, out, writer, parting, ans, bye, ins, run>>

\* The final frame is written and flushed.
MessageWritten ==
  /\ Writing /\ guard
  /\ wire' = Append(wire, [id |-> writer, fin |-> TRUE]) /\ Answer(writer, "ok")
  /\ writer' = "idle" /\ some' = FALSE
  /\ UNCHANGED <<closing, guard, forced, out, parting, bye, ins, run>>

\* A frame may have left when its write or its flush fails.
Leaves(s) == wire' \in {wire} \cup {Append(wire, [id |-> s, fin |-> f]) : f \in BOOLEAN}

FrameFails ==
  /\ Writing /\ guard
  /\ Leaves(writer) /\ Answer(writer, "unknown") /\ Ended
  /\ UNCHANGED <<closing, guard, forced, out, parting, bye, ins, run>>

\* timeout_at between two frames.
SendTimesOut ==
  /\ Writing /\ Answer(writer, IF some THEN "unknown" ELSE "notsent")
  /\ Ended /\ UNCHANGED wire
  /\ UNCHANGED <<closing, guard, forced, out, parting, bye, ins, run>>

\* Mutant: wrote_frame is set once the frame is written, not before.
SendTimesOutAfter ==
  /\ Writing /\ guard /\ Leaves(writer)
  /\ Answer(writer, IF some THEN "unknown" ELSE "notsent") /\ Ended
  /\ UNCHANGED <<closing, guard, forced, out, parting, bye, ins, run>>

\* timeout_at while a frame is written: wrote_frame was set before it.
SendTimesOutWriting ==
  /\ Writing /\ guard /\ Leaves(writer)
  /\ Answer(writer, "unknown") /\ Ended
  /\ UNCHANGED <<closing, guard, forced, out, parting, bye, ins, run>>

\* A ping or pong cannot be written, a pong does not come, or the peer does
\* not close within close_timeout.
WriterEnds ==
  /\ Idle /\ Ended /\ UNCHANGED <<parting, wire>>
  /\ UNCHANGED <<closing, guard, forced, out, ans, bye, ins, run>>

-----------------------------------------------------------------------------
(* read_loop and dispatch_inbound.                                          *)

\* The peer closes, the transport fails, or a frame breaks the protocol.
ReaderEnds(what) ==
  /\ reader /\ run = "socket" /\ Tell(what) /\ reader' = FALSE
  /\ UNCHANGED <<closing, guard, forced, queue, parked, pen, ans, bye, pending, calls, run>>

\* A data frame on a connection that takes no application traffic.
ReaderStops ==
  /\ reader /\ run = "socket" /\ (closing \/ ~guard) /\ reader' = FALSE
  /\ IF guard THEN UNCHANGED <<closing, forced, control>> ELSE CloseConnection
  /\ UNCHANGED <<guard, queue, parked, pen, ans, bye, pending, calls, run>>

Inbound ==
  /\ reader /\ run = "socket" /\ ~closing /\ guard
  /\ IF pending < InLimit
     THEN pending' = pending + 1 /\ UNCHANGED <<reader, control>>
     ELSE Tell("close") /\ reader' = FALSE /\ UNCHANGED pending
  /\ UNCHANGED <<closing, guard, forced, queue, parked, pen, ans, bye, calls, run>>

\* The message's callback starts, or is refused by its start gate or the pool.
CallbackStarts(started) ==
  /\ pending > 0 /\ pending' = pending - 1 /\ (started => calls < MaxCalls)
  /\ IF started THEN calls' = calls + 1 /\ UNCHANGED control ELSE Tell("close") /\ UNCHANGED calls
  /\ UNCHANGED <<closing, guard, forced, queue, parked, pen, ans, bye, reader, run>>

CallbackEnds(ok) ==
  /\ calls > 0 /\ calls' = calls - 1
  /\ IF ok THEN UNCHANGED control ELSE Tell("close")
  /\ UNCHANGED <<closing, guard, forced, queue, parked, pen, ans, bye, reader, pending, run>>

-----------------------------------------------------------------------------
(* The lease and run_connection.                                            *)

LeaseEnds ==
  /\ guard /\ run = "socket" /\ guard' = FALSE /\ CloseConnection
  /\ UNCHANGED <<queue, parked, pen, ans, bye, ins, run>>

\* The select! ends, with the writer or by force; the queue and the reader go,
\* and what a callback still running comes to is of no consequence.
SocketEnds ==
  /\ run = "socket" /\ (writer = "ended" \/ forced)
  /\ run' = "remove" /\ writer' = "ended" /\ some' = FALSE
  /\ queue' = <<>> /\ control' = <<>> /\ parked' = FALSE
  /\ reader' = FALSE /\ pending' = 0 /\ calls' = 0 /\ forced' = FALSE
  /\ UNCHANGED <<closing, guard, parting, wire, ans, bye>>

\* connections.remove, the directory entry, closed_sender and the capacity.
RunEnds ==
  /\ run = "remove" /\ run' = "done"
  /\ UNCHANGED <<closing, guard, forced, out, pen, ans, bye, ins>>

-----------------------------------------------------------------------------
SenderStep == \E s \in Sends : Refuse(s) \/ RefuseAndClose(s) \/ Admit(s) \/ GiveUp(s)

WriterStep ==
  \/ TakeControl \/ TakeClose \/ TakeLateSend \/ TakeSend
  \/ \E invalid \in BOOLEAN : FrameRefused(invalid)
  \/ FrameWritten \/ MessageWritten \/ FrameFails \/ SendTimesOut \/ SendTimesOutWriting
  \/ WriterEnds

ReaderStep ==
  \/ \E what \in {"peer", "lost", "close"} : ReaderEnds(what)
  \/ ReaderStops \/ Inbound
  \/ \E ok \in BOOLEAN : CallbackStarts(ok) \/ CallbackEnds(ok)

Next ==
  \/ SenderStep \/ WriterStep \/ ReaderStep
  \/ \E d \in Disconnects : Disconnect(d) \/ DisconnectAnswered(d) \/ DisconnectLate(d)
  \/ CloseProject \/ Park \/ LeaseEnds \/ SocketEnds \/ RunEnds

\* The writer goes on while it has a command, a message it is writing, or a
\* close to be answered: each of those waits has a deadline.
WriterBusy == WriterStep /\ (Idle => control # <<>> \/ queue # <<>> \/ parting)

Fairness ==
  /\ WF_vars(WriterBusy) /\ WF_vars(Park) /\ WF_vars(SocketEnds) /\ WF_vars(RunEnds)

Spec == Init /\ [][Next]_vars
FairSpec == Spec /\ Fairness

-----------------------------------------------------------------------------
\* Callers are told the truth.  A sender hears "not sent" only when no frame of
\* its message left and "ok" only when the final one did (writer_loop's and
\* send_message's wrote_frame and wrote_any_frame, await_send_response).  A
\* disconnect answered Ok means that the writer has stopped: no frame follows it
\* (disconnect_entry, finish_close_response).
AnswersAreHonest ==
  /\ \A s \in Sends :
       /\ ans[s] = "notsent" => \A i \in DOMAIN wire : wire[i].id # s
       /\ ans[s] = "ok" => Contains(wire, [id |-> s, fin |-> TRUE])
  /\ (\E d \in Disconnects : bye[d] = "ok") => writer = "ended"

\* Messages do not mix on the socket: an unfinished one is followed by its own
\* frames or by a close, and nothing follows a close (send_failure_close, close_sent).
WireWellFormed ==
  \A i \in 1..Len(wire) - 1 :
    /\ wire[i].id # "close"
    /\ IF wire[i].fin THEN wire[i + 1].id # wire[i].id ELSE wire[i + 1].id \in {wire[i].id, "close"}

\* A connection that is closing goes away, whatever the peer does and however
\* full the command queue is (close_connection, disconnect_entry, close_project,
\* schedule_force_close, run_connection).
ClosingEnds == closing ~> run = "done"
=============================================================================
