--------------------------- MODULE EntityInduction ---------------------------
(***************************************************************************)
(* The inductive invariant of Entity: how far a call has come agrees with  *)
(* how far its end of the buffer has, through chunks, timeouts and crashes *)
(* of the peer.  The chunk a call asks for is legal only because of what   *)
(* the chunks before it left behind.                                       *)
(***************************************************************************)
EXTENDS Entity, CircularBufferInduction

\* The bytes of the end's transfer under way that are not yet published or
\* given back, and where in the stream the caller's data begins.
Pending(e) == IF e = "writer" THEN writePending ELSE readPending
Start(e)   == IF e = "writer" THEN wstart ELSE rstart

\* The end is in a count or in a transfer as its call says.
EndFollowsCall(e) ==
  /\ call[e] = "idle" => Pc(e) = "idle"
  /\ call[e] \in {"count", "first", "query"} => Pc(e) \in {"idle", "reload", "check"}
  /\ call[e] \in {"direct", "loop"} => Pc(e) \in {"idle", "copy", "publish"}

\* The call has moved, or is moving, exactly done bytes from base on.
CallFollowsStream(e) ==
  /\ call[e] = "first" => done[e] = 0
  /\ call[e] \in {"loop", "query"} => request[e] > 0
  /\ call[e] = "query" => done[e] # request[e]
  /\ call[e] \in {"first", "loop", "query"} =>
       /\ base[e] + done[e] = Moved(e) + Pending(e)
       /\ done[e] > 0 => Start(e) = base[e]
  /\ call[e] = "direct" =>
       base[e] + request[e] = Moved(e) + Pending(e) /\ Start(e) = base[e]

\* What the writer was asked for is within the bound of the model.
RequestWithinBound(e) ==
  e = "writer" /\ call[e] \in {"first", "loop", "query"} => base[e] + request[e] <= MaxBytes

\* A result stays true of the stream until the next call.
ResultStaysExact(e) ==
  call[e] \in {"idle", "count"} =>
    /\ result[e] = "true"  => Moved(e) = base[e] + request[e] /\ Start(e) = base[e]
    /\ result[e] = "false" => base[e] <= Moved(e) /\ Moved(e) < base[e] + request[e]

EndInv(e) ==
  EndFollowsCall(e) /\ CallFollowsStream(e) /\ RequestWithinBound(e) /\ ResultStaysExact(e)

\* The inductive invariant: the two ends of the buffer agree on the stream, and
\* each call with its end.
EntityInv ==
  /\ RingInv
  /\ EntityTypeOK
  /\ \A e \in Ends : EndInv(e)
=============================================================================
