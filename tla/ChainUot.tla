------------------------------ MODULE ChainUot ------------------------------
(***************************************************************************)
(* A UDP association over a stream (ChainDatagram, doradus-chain,          *)
(* chain_uot.rs): sends that keep their frame in a bounded retry queue, a  *)
(* receiver that its caller may drop at any await (the UDP worker and the  *)
(* TUN task race it in a select), reconnects of a broken stream that       *)
(* replay the queue, and the close.  Each lock is a step of its own.       *)
(*                                                                         *)
(* A reply is read from the stream in two parts, its address and length,   *)
(* and its payload.  What is written matters to no property: a write to a  *)
(* broken stream may still succeed, into its buffer or a coalesced batch.  *)
(***************************************************************************)
EXTENDS Integers, Sequences, FiniteSets, SequencesExt

CONSTANTS
  Sends,        (* calls of send_to, each with its frame                   *)
  TargetOf,     (* call -> the target of its frame                         *)
  Receiver,     (* the task that calls recv_from                           *)
  RetryFrames,  (* MAX_UOT_RETRY_FRAMES                                    *)
  Attempts,     (* MAX_UOT_RECONNECT_ATTEMPTS                              *)
  UotBudgets    (* bounds on the streams a behaviour opens, on the replies *)
                (* of the server and on the receives its caller drops      *)

NoStream == 0
Nobody == "nobody"
Calls == Sends \cup {Receiver}

ASSUME UotAssumption ==
  /\ Receiver \notin Sends /\ Nobody \notin Calls
  /\ Attempts \in Nat \ {0}
  /\ UotBudgets \subseteq [streams : Nat, replies : Nat, cancels : Nat]

VARIABLES
  closed,       (* the flag, stored with the shutdown signal               *)
  closing,      (* where close is                                          *)
  generation,
  current,      (* the session: its stream, or NoStream                    *)
  stream,       (* stream -> whether it works, whether a call saw it fail, *)
                (* whether its session is held, and what is left to read   *)
  holder,       (* owner of reconnect_lock                                 *)
  retry,        (* the frames of the RetryQueue                            *)
  uot,          (* call -> where it is                                     *)
  left          (* what is left of the bounds                              *)

uotVars == <<closed, closing, generation, current, stream, holder, retry, uot, left>>

Streams == DOMAIN stream
Busy(c, pc) == [uot[c] EXCEPT !.pc = pc]
Move(c, pc) == uot' = [uot EXCEPT ![c].pc = pc]
Quiet(pc) == [pc |-> pc, gen |-> 0, on |-> NoStream, new |-> NoStream, tries |-> 0, part |-> <<>>, got |-> <<>>]
End(c, pc) == uot' = [uot EXCEPT ![c] = Quiet(pc)]
Fresh == [up |-> TRUE, failed |-> FALSE, held |-> TRUE, feed |-> <<>>]

(* The call sees its stream fail.                                          *)
SeenFailing(s) == [stream EXCEPT ![s].failed = TRUE]

-----------------------------------------------------------------------------
(* send_to: the frame is queued, the generation read, and the session      *)
(* cloned by send_once.                                                    *)
QueueRetry(c) ==
  /\ uot[c].pc = "idle" /\ c \in Sends
  /\ IF Len(retry) >= RetryFrames
     THEN End(c, "refused") /\ UNCHANGED retry
     ELSE /\ retry' = Append(retry, c)
          /\ uot' = [uot EXCEPT ![c] = [Busy(c, "take") EXCEPT !.gen = generation]]
  /\ UNCHANGED <<closed, closing, generation, current, stream, holder, left>>

TakeSession(c) ==
  /\ uot[c].pc = "take"
  /\ IF closed \/ current = NoStream THEN Move(c, "recover")
     ELSE uot' = [uot EXCEPT ![c] = [Busy(c, "use") EXCEPT !.on = current]]
  /\ UNCHANGED <<closed, closing, generation, current, stream, holder, retry, left>>

Written(c) ==
  /\ uot[c].pc = "use" /\ c \in Sends
  /\ Move(c, "finish")
  /\ UNCHANGED <<closed, closing, generation, current, stream, holder, retry, left>>

WriteFails(c) ==
  /\ uot[c].pc = "use" /\ c \in Sends /\ ~stream[uot[c].on].up
  /\ stream' = SeenFailing(uot[c].on)
  /\ Move(c, "recover")
  /\ UNCHANGED <<closed, closing, generation, current, holder, retry, left>>

(* The end of send_to, with success ...                                    *)
SendReturns(c) ==
  /\ uot[c].pc = "finish" /\ c \in Sends
  /\ retry' = IF closed THEN RemoveFirst(retry, c) ELSE retry
  /\ End(c, IF closed THEN "refused" ELSE "sent")
  /\ UNCHANGED <<closed, closing, generation, current, stream, holder, left>>

(* ... or because the association is closed; the receiver only returns.    *)
EndClosed(c) ==
  /\ retry' = RemoveFirst(retry, c)
  /\ End(c, "refused")

-----------------------------------------------------------------------------
(* reconnect, up to its lock.  A send tries Attempts times and leaves its  *)
(* frame queued; a receive returns the first error of a reconnect.         *)
Recover(c) ==
  /\ uot[c].pc = "recover"
  /\ IF uot[c].tries >= Attempts THEN End(c, "refused") /\ UNCHANGED retry
     ELSE IF closed THEN EndClosed(c)
     ELSE uot' = [uot EXCEPT ![c] = [Busy(c, "lock") EXCEPT !.tries = @ + 1]] /\ UNCHANGED retry
  /\ UNCHANGED <<closed, closing, generation, current, stream, holder, left>>

(* Mutant of Lock: the generation is not compared.                         *)
LockAnyGeneration(c) ==
  /\ uot[c].pc = "lock" /\ holder = Nobody
  /\ IF closed THEN EndClosed(c) /\ UNCHANGED holder
     ELSE Move(c, "dial") /\ holder' = c /\ UNCHANGED retry
  /\ UNCHANGED <<closed, closing, generation, current, stream, left>>

(* Under reconnect_lock: another call may have replaced the session.       *)
Lock(c) ==
  /\ uot[c].pc = "lock" /\ holder = Nobody
  /\ IF closed THEN EndClosed(c) /\ UNCHANGED holder
     ELSE /\ IF generation # uot[c].gen THEN Move(c, "finish") /\ UNCHANGED holder
             ELSE Move(c, "dial") /\ holder' = c
          /\ UNCHANGED retry
  /\ UNCHANGED <<closed, closing, generation, current, stream, left>>

(* A send tries again, a receive returns the error.                        *)
FailReconnect(c) == IF c \in Sends THEN uot' = [uot EXCEPT ![c] = [Busy(c, "recover") EXCEPT !.new = NoStream]]
                    ELSE End(c, "refused")

DialFails(c) ==
  /\ uot[c].pc = "dial"
  /\ FailReconnect(c) /\ holder' = Nobody
  /\ UNCHANGED <<closed, closing, generation, current, stream, retry, left>>

(* The stream is connected and the queue replayed, both of which may take  *)
(* long; a replay that fails ends as a dial that failed.                   *)
Dialed(c) ==
  /\ uot[c].pc = "dial" /\ left.streams > 0 /\ left' = [left EXCEPT !.streams = @ - 1]
  /\ stream' = Append(stream, Fresh)
  /\ uot' = [uot EXCEPT ![c] = [Busy(c, "install") EXCEPT !.new = Len(stream')]]
  /\ UNCHANGED <<closed, closing, generation, current, holder, retry>>

ReplayFails(c) ==
  /\ uot[c].pc = "install" /\ ~stream[uot[c].new].up
  /\ stream' = [stream EXCEPT ![uot[c].new].held = FALSE]
  /\ FailReconnect(c) /\ holder' = Nobody
  /\ UNCHANGED <<closed, closing, generation, current, retry, left>>

(* Mutant of Install: closed is only looked at before the dial.            *)
InstallUnchecked(c) ==
  /\ uot[c].pc = "install" /\ holder' = Nobody
  /\ current' = uot[c].new /\ generation' = generation + 1
  /\ stream' = IF current = NoStream THEN stream ELSE [stream EXCEPT ![current].held = FALSE]
  /\ Move(c, "finish") /\ UNCHANGED retry
  /\ UNCHANGED <<closed, closing, left>>

(* The replacement is shut down when the association was closed meanwhile, *)
(* else it is installed; the session lock is held over the second check.   *)
Install(c) ==
  /\ uot[c].pc = "install" /\ holder' = Nobody
  /\ IF closed
     THEN /\ stream' = [stream EXCEPT ![uot[c].new].held = FALSE]
          /\ EndClosed(c) /\ UNCHANGED <<current, generation>>
     ELSE /\ current' = uot[c].new /\ generation' = generation + 1
          /\ stream' = IF current = NoStream THEN stream ELSE [stream EXCEPT ![current].held = FALSE]
          /\ Move(c, "finish") /\ UNCHANGED retry
  /\ UNCHANGED <<closed, closing, left>>

(* The shutdown signal ends the wait of a call; with a reconnect its lock  *)
(* and its replacement are dropped.                                        *)
Interrupt(c) ==
  /\ closed /\ uot[c].pc \in {"use", "read", "lock", "dial", "install"}
  /\ stream' = IF uot[c].pc = "install" THEN [stream EXCEPT ![uot[c].new].held = FALSE] ELSE stream
  /\ holder' = IF holder = c THEN Nobody ELSE holder
  /\ IF uot[c].pc \in {"use", "read"} THEN Move(c, "recover") /\ UNCHANGED retry ELSE EndClosed(c)
  /\ UNCHANGED <<closed, closing, generation, current, left>>

-----------------------------------------------------------------------------
(* recv_from: the generation and the session, again after a reconnect.     *)
BeginReceive ==
  /\ uot[Receiver].pc \in {"idle", "finish"}
  /\ uot' = [uot EXCEPT ![Receiver] = [Quiet("take") EXCEPT !.gen = generation, !.tries = uot[Receiver].tries]]
  /\ UNCHANGED <<closed, closing, generation, current, stream, holder, retry, left>>

(* The flush of recv_from; then read_uot_frame reads the first part, which *)
(* must look like an address.                                              *)
Flushed ==
  /\ uot[Receiver].pc = "use"
  /\ Move(Receiver, "read")
  /\ UNCHANGED <<closed, closing, generation, current, stream, holder, retry, left>>

ReadAddress ==
  LET s == uot[Receiver].on IN
  /\ uot[Receiver].pc = "read" /\ uot[Receiver].part = <<>> /\ stream[s].feed # <<>>
  /\ uot' = [uot EXCEPT ![Receiver].part = <<Head(stream[s].feed)>>]
  /\ stream' = [stream EXCEPT ![s].feed = Tail(@)]
  /\ UNCHANGED <<closed, closing, generation, current, holder, retry, left>>

(* acknowledge: the first frame of the target is answered (replies carry   *)
(* no payload that was sent).                                              *)
Acknowledged(t) == RemoveFirstMatch(retry, LAMBDA f : TargetOf[f] = t)

(* The frame is complete and returned; after close it is discarded.        *)
ReadPayload ==
  LET s == uot[Receiver].on IN
  /\ uot[Receiver].pc = "read" /\ uot[Receiver].part # <<>> /\ stream[s].feed # <<>>
  /\ stream' = [stream EXCEPT ![s].feed = Tail(@)]
  /\ IF closed THEN End(Receiver, "refused") /\ UNCHANGED retry
     ELSE /\ uot' = [uot EXCEPT ![Receiver] =
                       [Quiet("idle") EXCEPT !.got = Append(uot[Receiver].part, Head(stream[s].feed))]]
          /\ retry' = Acknowledged(uot[Receiver].part[1].from)
  /\ UNCHANGED <<closed, closing, generation, current, holder, left>>

(* The stream has ended, or its bytes are no frame: both are recoverable.  *)
ReadFails ==
  LET s == uot[Receiver].on IN
  /\ uot[Receiver].pc \in {"use", "read"}
  /\ \/ ~stream[s].up /\ stream[s].feed = <<>>
     \/ uot[Receiver].part # <<>> /\ uot[Receiver].part[1].half = "payload"
  /\ stream' = SeenFailing(s)
  /\ Move(Receiver, "recover")
  /\ UNCHANGED <<closed, closing, generation, current, holder, retry, left>>

(* The caller drops the receive, and what it had read of a frame.          *)
CancelReceive ==
  /\ uot[Receiver].pc \in {"use", "read", "lock", "dial", "install"}
  /\ left.cancels > 0 /\ left' = [left EXCEPT !.cancels = @ - 1]
  /\ stream' = IF uot[Receiver].pc = "install"
               THEN [stream EXCEPT ![uot[Receiver].new].held = FALSE] ELSE stream
  /\ holder' = IF holder = Receiver THEN Nobody ELSE holder
  /\ End(Receiver, "idle")
  /\ UNCHANGED <<closed, closing, generation, current, retry>>

-----------------------------------------------------------------------------
(* close: the flag and the signal, the session, and the queue.             *)
CloseAssociation ==
  /\ closing = "no" /\ closed' = TRUE /\ closing' = "session"
  /\ UNCHANGED <<generation, current, stream, holder, retry, uot, left>>

CloseSession ==
  /\ closing = "session" /\ closing' = "queue"
  /\ stream' = IF current = NoStream THEN stream ELSE [stream EXCEPT ![current].held = FALSE]
  /\ current' = NoStream
  /\ UNCHANGED <<closed, generation, holder, retry, uot, left>>

(* Mutant of ClearRetry: the queue is left as it is.                       *)
KeepRetry ==
  /\ closing = "queue" /\ closing' = "done"
  /\ UNCHANGED <<closed, generation, current, stream, holder, retry, uot, left>>

ClearRetry ==
  /\ closing = "queue" /\ closing' = "done" /\ retry' = <<>>
  /\ UNCHANGED <<closed, generation, current, stream, holder, uot, left>>

(* The server replies from some target; the stream breaks, and what was    *)
(* not read may be lost with it.                                           *)
Reply(s, t) ==
  /\ stream[s].up /\ left.replies > 0 /\ left' = [left EXCEPT !.replies = @ - 1]
  /\ stream' = [stream EXCEPT ![s].feed = @ \o
       <<[from |-> t, no |-> left.replies, half |-> "address"],
         [from |-> t, no |-> left.replies, half |-> "payload"]>>]
  /\ UNCHANGED <<closed, closing, generation, current, holder, retry, uot>>

Breaks(s) ==
  /\ stream[s].up
  /\ \E feed \in {<<>>, stream[s].feed} : stream' = [stream EXCEPT ![s].up = FALSE, ![s].feed = feed]
  /\ UNCHANGED <<closed, closing, generation, current, holder, retry, uot, left>>

-----------------------------------------------------------------------------
UotInit ==
  /\ closed = FALSE /\ closing = "no" /\ generation = 1 /\ current = 1
  /\ stream = <<Fresh>> /\ holder = Nobody /\ retry = <<>>
  /\ uot = [c \in Calls |-> Quiet("idle")]
  /\ left \in UotBudgets

UotNext ==
  \/ \E c \in Calls :
       \/ QueueRetry(c) \/ TakeSession(c) \/ Written(c) \/ WriteFails(c) \/ SendReturns(c)
       \/ Recover(c) \/ Lock(c) \/ DialFails(c) \/ Dialed(c) \/ ReplayFails(c) \/ Install(c) \/ Interrupt(c)
  \/ BeginReceive \/ Flushed \/ ReadAddress \/ ReadPayload \/ ReadFails \/ CancelReceive
  \/ CloseAssociation \/ CloseSession \/ ClearRetry
  \/ \E s \in Streams : Breaks(s) \/ \E c \in Sends : Reply(s, TargetOf[c])

UotSpec == UotInit /\ [][UotNext]_uotVars

-----------------------------------------------------------------------------
(* When close has returned, no stream is left open but one that a          *)
(* reconnect still has to give up: none is installed behind its back.      *)
ClosedHoldsNoStream ==
  closing = "done" =>
    /\ current = NoStream
    /\ \A s \in Streams : stream[s].held => \E c \in Calls : uot[c].pc = "install" /\ uot[c].new = s

(* A session that no call saw fail is never replaced, whichever calls      *)
(* fail together on the one before it.                                     *)
HealthySessionKept ==
  [][current # NoStream /\ current' \notin {current, NoStream} => stream[current].failed]_uotVars

(* A closed association keeps no frame once its calls have ended.          *)
RetryDrained ==
  closing = "done" /\ (\A c \in Sends : uot[c].pc \in {"idle", "sent", "refused"}) => retry = <<>>

(* An association gives up its stream when, and only when, the stream failed *)
(* or the association was closed, and its frames with it.                  *)
SessionsReleased == []ClosedHoldsNoStream /\ HealthySessionKept /\ []RetryDrained

(* "A session ... carries `[address][u16 length][payload]` frames": what   *)
(* recv_from returns is a frame as the server sent it, also after an       *)
(* earlier receive was dropped.                                            *)
FramesIntact ==
  LET got == uot[Receiver].got IN
  got # <<>> => got[1].half = "address" /\ got[2] = [got[1] EXCEPT !.half = "payload"]
=============================================================================
