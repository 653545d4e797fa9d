--------------------------- MODULE CommandInduction ---------------------------
(***************************************************************************)
(* The inductive invariant of Command.  Where the next header and the next *)
(* payload begin follows from the frames so far; every end of a process is *)
(* there, or on its way from there to the next place.                      *)
(***************************************************************************)
EXTENDS Command

\* Where the i-th header and the i-th payload of a sequence of frames begin.
HeaderAt(s, i) ==
  IF i = 1 THEN 0
  ELSE s[i - 1].header + Header + (IF kind = "write" THEN s[i - 1].size ELSE 0)

PayloadAt(s, i) ==
  IF kind = "write" THEN HeaderAt(s, i) + Header
  ELSE IF i = 1 THEN 0 ELSE s[i - 1].payload + s[i - 1].size

Chained(s) ==
  \A i \in 1 .. Len(s) : s[i].header = HeaderAt(s, i) /\ s[i].payload = PayloadAt(s, i)

HeaderPlace(p)  == HeaderAt(frames[p], Len(frames[p]) + 1)
PayloadPlace(p) == PayloadAt(frames[p], Len(frames[p]) + 1)
Current(p)      == frames[p][Len(frames[p])]

\* No call is under way, and b bytes have gone through.
AtRest(e, b) == call[e] = "idle" /\ moved[e] = b

\* A transfer of n bytes from position b on is under way, or has just returned.
InTransfer(e, b, n) ==
  /\ request[e] = n
  /\ call[e] = "first" => moved[e] = b /\ done[e] = 0
  /\ call[e] = "direct" => moved[e] + pending[e] = b + n
  /\ call[e] = "loop" => moved[e] + pending[e] = b + done[e]
  /\ call[e] = "idle" =>
       \/ result[e] = "true"  /\ moved[e] = b + n
       \/ result[e] = "false" /\ moved[e] < b + n

\* The ends of a process are where its program says.
ProcessInv(p) ==
  /\ at[p] \in {"top", "poll"} => AtRest(HeaderEnd(p), HeaderPlace(p))
  /\ at[p] = "header" => InTransfer(HeaderEnd(p), HeaderPlace(p), Header)
  /\ kind = "read" /\ at[p] \in {"top", "poll", "header"} =>
       AtRest(PayloadEnd(p), PayloadPlace(p))
  /\ at[p] = "payload" =>
       /\ frames[p] # <<>>
       /\ InTransfer(PayloadEnd(p), Current(p).payload, Current(p).size)
       /\ kind = "read" => AtRest(HeaderEnd(p), HeaderPlace(p))
  /\ at[p] = "finished" =>
       /\ call[HeaderEnd(p)] = "idle" /\ call[PayloadEnd(p)] = "idle"
       /\ moved[HeaderEnd(p)] < HeaderPlace(p) + Header
  /\ frames[p] # <<>> => moved[HeaderEnd(p)] >= Current(p).header + Header
  /\ at[p] \in {"poll", "header", "payload"} => packages[p] < Commands

\* The client's frames, the one included whose header is on its way.
Announced ==
  IF at["client"] = "header"
  THEN Append(frames["client"],
              [header |-> HeaderPlace("client"), payload |-> PayloadPlace("client"),
               size |-> size["client"]])
  ELSE frames["client"]

\* Each announced frame has its header in the stream, no two headers begin at the
\* same byte, and the next one begins beyond them.
HeadersInv ==
  /\ \A i \in 1 .. Len(Announced) :
       [at |-> Announced[i].header, size |-> Announced[i].size] \in headers
  /\ \A g, h \in headers : g.at = h.at => g = h
  /\ at["client"] # "finished" =>
       \A h \in headers : h.at < HeaderAt(Announced, Len(Announced) + 1)

\* What the server has taken for frames are the first of them.
ServerFollows ==
  /\ Len(frames["server"]) <= Len(Announced)
  /\ \A i \in 1 .. Len(frames["server"]) : frames["server"][i] = Announced[i]

CommandInv ==
  /\ PipeInv
  /\ CommandTypeOK
  /\ \A p \in Processes : Chained(frames[p]) /\ ProcessInv(p)
  /\ at["client"] = "header" => size["client"] \in Sizes
  /\ HeadersInv
  /\ ServerFollows
=============================================================================
