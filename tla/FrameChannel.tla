---------------------------- MODULE FrameChannel ----------------------------
(***************************************************************************)
(* What a connection of the RPC and event protocols promises its reader:   *)
(* the frames the other end has sent, whole, one by one and in order, up   *)
(* to the moment the connection is over.  ByteStream is shown to implement *)
(* this module with a socket, a receive thread and a bounded buffer.       *)
(*                                                                         *)
(* A cell of the stream is known by its position, a frame by the position  *)
(* of its first cell, and has Hdr cells of header and then its payload.    *)
(***************************************************************************)
EXTENDS Naturals

CONSTANTS
  Hdr,         (* cells of a frame's header                                 *)
  MaxPayload   (* the longest payload that is sent                          *)

VARIABLES
  payload,     (* frame -> cells of its payload, for the frames begun       *)
  end,         (* where the next frame will begin                           *)
  written,     (* the number of cells the sender has written                *)
  closed,      (* the sender's end is gone                                  *)
  consumed,    (* the first frame not delivered                             *)
  frame,       (* the cells of the frame delivered last                     *)
  over         (* nothing more is delivered                                 *)

vars == <<payload, end, written, closed, consumed, frame, over>>

NoFrame == [c \in {} |-> 0]
Size(s) == Hdr + payload[s]
Cells(s) == [c \in 0 .. Size(s) - 1 |-> s + c]

Init ==
  /\ payload = NoFrame
  /\ end = 0
  /\ written = 0
  /\ closed = FALSE
  /\ consumed = 0
  /\ frame = NoFrame
  /\ over = FALSE

Begin(n) ==
  /\ ~ closed
  /\ written = end
  /\ payload' = [s \in DOMAIN payload \cup {end} |-> IF s = end THEN n ELSE payload[s]]
  /\ end' = end + Hdr + n
  /\ UNCHANGED <<written, closed, consumed, frame, over>>

Write ==
  /\ ~ closed
  /\ written < end
  /\ written' = written + 1
  /\ UNCHANGED <<payload, end, closed, consumed, frame, over>>

Close ==
  /\ ~ closed
  /\ closed' = TRUE
  /\ UNCHANGED <<payload, end, written, consumed, frame, over>>

Deliver ==
  /\ ~ over
  /\ consumed \in DOMAIN payload
  /\ consumed + Size(consumed) <= written
  /\ frame' = Cells(consumed)
  /\ consumed' = consumed + Size(consumed)
  /\ UNCHANGED <<payload, end, written, closed, over>>

End ==
  /\ over' = TRUE
  /\ UNCHANGED <<payload, end, written, closed, consumed, frame>>

Next == (\E n \in 0 .. MaxPayload : Begin(n)) \/ Write \/ Close \/ Deliver \/ End

Spec == Init /\ [][Next]_vars
=============================================================================
