----------------------------- MODULE FetchBytes -----------------------------
(***************************************************************************)
(* One request of fetchBytes (src/engine/fetchBytes.ts): the response head *)
(* and then its body are read under a byte ceiling, in a race with a stall *)
(* watchdog that everything that arrives re-arms.                          *)
(*                                                                         *)
(* `wire' is the browser's side: what has arrived, how long ago, and       *)
(* whether the connection is still in use.  An aborted request rejects the *)
(* await it is at, so the operation ends with the stall.                   *)
(***************************************************************************)
EXTENDS Naturals

CONSTANTS
    Limit,      \* maxBytes
    Stall,      \* FETCH_STALL_TIMEOUT_MS, in ticks
    null

(* A body that breaks off rejects with the browser's own error, which is no
   NetworkError. *)
Outcomes == {"bytes", "network", "large", "broken"}

ASSUME FetchBytesAssumption ==
    Limit \in Nat \ {0} /\ Stall \in Nat \ {0} /\ null \notin Nat \cup Outcomes

VARIABLES
    request,    \* the await it is at, its timer, `total', and its outcome
    wire

requestVars == <<request, wire>>

(* Its awaits: fetch(), and reader.read() or response.arrayBuffer(). *)
Pauses == {"fetch", "read", "arrayBuffer"}

RequestInit ==
    /\ request = [at |-> "fetch", timer |-> Stall, total |-> 0, outcome |-> null]
    /\ wire = [sent |-> 0, silence |-> 0, open |-> TRUE]

(* The most a response may send, declare or deliver at once: one too many. *)
Lengths == 0 .. (Limit + 1)

-----------------------------------------------------------------------------
(* Defect: the watchdog runs from the start of the request. *)
touch_Ignored(r) == r

touch(r) == [r EXCEPT !.timer = Stall]

(* The race is decided, and `finally' clears the timer. *)
settle(r, outcome) == [r EXCEPT !.at = "over", !.timer = null, !.outcome = outcome]

Arrives(n) == [wire EXCEPT !.sent = @ + n, !.silence = 0]

(* fetch() rejects. *)
Unreachable ==
    /\ request.at = "fetch"
    /\ request' = settle(request, "network")
    /\ wire' = [wire EXCEPT !.open = FALSE]

(* A Content-Length above the ceiling; one that does not parse counts as none. *)
tooLong(declared) == declared # null /\ declared > Limit

(* The head arrives.  A bad status, or a length above the ceiling, is refused
   with the body left where it is. *)
Headers ==
    /\ request.at = "fetch"
    /\ \E ok, stream \in BOOLEAN, declared \in Lengths \cup {null} :
          LET r == touch(request)
          IN  request' =
                IF ~ ok THEN settle(r, "network")
                ELSE IF tooLong(declared) THEN settle(r, "large")
                ELSE [r EXCEPT !.at = IF stream THEN "read" ELSE "arrayBuffer"]
    /\ wire' = Arrives(0)

(* reader.read() gives a part of the body.  One that crosses the ceiling is not
   kept: the stream is cancelled, for which a fetch does not wait. *)
ReadPart(n) ==
    /\ request.at = "read" /\ n > 0
    /\ LET over == request.total + n > Limit
       IN  /\ request' = IF over THEN settle(request, "large")
                         ELSE touch([request EXCEPT !.total = @ + n])
           /\ wire' = [Arrives(n) EXCEPT !.open = ~ over]

ReadDone ==
    /\ request.at = "read"
    /\ request' = settle(request, "bytes")
    /\ wire' = [wire EXCEPT !.open = FALSE]

(* A response without a stream is read whole. *)
Buffered(n) ==
    /\ request.at = "arrayBuffer"
    /\ request' = IF n > Limit THEN settle(request, "large")
                  ELSE settle([request EXCEPT !.total = n], "bytes")
    /\ wire' = [Arrives(n) EXCEPT !.open = FALSE]

(* The connection breaks in the middle of the body. *)
BreaksOff ==
    /\ request.at \in {"read", "arrayBuffer"}
    /\ request' = settle(request, "broken")
    /\ wire' = [wire EXCEPT !.open = FALSE]

Tick ==
    /\ request.outcome = null
    /\ request.timer > 0
    /\ request' = [request EXCEPT !.timer = @ - 1]
    /\ wire' = [wire EXCEPT !.silence = @ + 1]

(* The watchdog fires; what arrives at the same moment may come first. *)
Stalled ==
    /\ request.outcome = null
    /\ request.timer = 0
    /\ request' = settle(request, "network")
    /\ wire' = [wire EXCEPT !.open = FALSE]

RequestNext ==
    \/ Unreachable \/ Headers \/ ReadDone \/ BreaksOff
    \/ Tick \/ Stalled
    \/ \E n \in Lengths : ReadPart(n) \/ Buffered(n)

-----------------------------------------------------------------------------
(* Properties.                                                             *)

RequestTypeOK ==
    /\ request.at \in Pauses \cup {"over", "returned"}
    /\ request.timer \in 0 .. Stall \cup {null}
    /\ request.total \in 0 .. Limit
    /\ request.outcome \in Outcomes \cup {null}
    /\ wire.sent \in Nat /\ wire.silence \in 0 .. Stall /\ wire.open \in BOOLEAN

(* A stall is silence, not slowness: the watchdog has as long to go as nothing
   has arrived, so a transfer that keeps delivering is never cut off, and one
   that stops is, before and after its head (raceStall, touch). *)
StallIsSilence ==
    request.outcome = null => request.timer + wire.silence = Stall

(* What the caller gets is all that was sent and within the ceiling; what
   crosses the ceiling is an integrity error and never an outage, for which
   the cache would be served (readCapped, ResponseTooLargeError). *)
WholeOrRefused ==
    /\ request.outcome = "bytes" => request.total = wire.sent /\ wire.sent <= Limit
    /\ wire.sent > Limit => request.outcome = "large"

(* A settled request has no timer, and no connection but one whose head was
   refused. *)
NothingOutlives ==
    request.outcome # null =>
       /\ request.at \notin Pauses /\ request.timer = null
       /\ wire.open => request.outcome \in {"network", "large"} /\ wire.sent = 0

(* One request, whatever the server does and however slowly. *)
RequestInvariant ==
    /\ RequestTypeOK
    /\ StallIsSilence
    /\ WholeOrRefused
    /\ NothingOutlives
=============================================================================
