---------------------------- MODULE Command_proofs ----------------------------
(***************************************************************************)
(* Proofs about Command, for headers and payloads of any size, buffers of  *)
(* any capacity, any number of commands and timers that run out whenever   *)
(* they like: client and server divide the streams into commands alike.    *)
(***************************************************************************)
EXTENDS CommandInduction, Pipe_proofs

Frame == [header : Nat, payload : Nat, size : Sizes]

\* The ends of the processes are different ends of the pipes.
LEMMA EndsOfProcesses ==
  ASSUME kind \in {"write", "read"}, NEW p \in Processes
  PROVE  /\ HeaderEnd(p) \in Ends /\ PayloadEnd(p) \in Ends
         /\ kind = "write" => PayloadEnd(p) = HeaderEnd(p)
         /\ kind = "read" => PayloadEnd(p) # HeaderEnd(p)
         /\ \A q \in Processes : q # p =>
              /\ HeaderEnd(q) # HeaderEnd(p) /\ HeaderEnd(q) # PayloadEnd(p)
              /\ PayloadEnd(q) # HeaderEnd(p) /\ PayloadEnd(q) # PayloadEnd(p)
<1>1. \A d \in {"client", "server"}, o \in {"writer", "reader"} : <<d, o>> \in Ends
  BY CommandAssumption DEF Ends
<1>2. p \in {"client", "server"}
  BY DEF Processes
<1>3. HeaderEnd(p) \in Ends /\ PayloadEnd(p) \in Ends
  BY <1>1, <1>2 DEF HeaderEnd, PayloadEnd, Request
<1>4. /\ kind = "write" => PayloadEnd(p) = HeaderEnd(p)
      /\ kind = "read" => PayloadEnd(p) # HeaderEnd(p)
  BY <1>2 DEF HeaderEnd, PayloadEnd, Request
<1>5. ASSUME NEW q \in Processes, q # p
      PROVE  /\ HeaderEnd(q) # HeaderEnd(p) /\ HeaderEnd(q) # PayloadEnd(p)
             /\ PayloadEnd(q) # HeaderEnd(p) /\ PayloadEnd(q) # PayloadEnd(p)
  BY <1>2, <1>5 DEF HeaderEnd, PayloadEnd, Request, Processes
<1> QED
  BY <1>3, <1>4, <1>5

\* What a step leaves alone at an end.
Same(e) ==
  /\ moved'[e] = moved[e] /\ room'[e] = room[e] /\ pending'[e] = pending[e]
  /\ call'[e] = call[e] /\ request'[e] = request[e] /\ done'[e] = done[e]
  /\ result'[e] = result[e]

\* A step of one end leaves the others alone.
LEMMA OthersSame ==
  ASSUME PipeInv, NEW e \in Ends, NEW x \in Ends, x # e,
         \/ Progress(e) \/ GiveUp(e) \/ Refresh(e)
         \/ \E n \in Nat : Call(e, n)
  PROVE  Same(x)
<1> USE DEF Same
<1>1. CASE Refresh(e)
  BY <1>1 DEF Refresh
<1>2. CASE \E n \in Nat : Call(e, n)
  BY <1>2 DEF Call
<1>3. CASE Direct(e)
  BY <1>3 DEF Direct, Begin
<1>4. CASE EnterLoop(e)
  BY <1>4 DEF EnterLoop
<1>5. CASE Chunk(e)
  BY <1>5 DEF Chunk, Begin
<1>6. CASE \E k \in 1 .. pending[e] : Move(e, k)
  BY <1>6 DEF Move
<1>7. CASE Complete(e) \/ GiveUp(e)
  <2>1. PICK r \in {"true", "false"} : ReturnWith(e, r)
    BY <1>7 DEF Complete, GiveUp
  <2> QED
    BY <2>1 DEF ReturnWith, PipeInv, PipeTypeOK
<1> QED
  BY <1>1, <1>2, <1>3, <1>4, <1>5, <1>6, <1>7 DEF Progress

\* An end at rest takes no step of a call.
LEMMA RestIsQuiet ==
  ASSUME PipeInv, NEW e \in Ends, call[e] = "idle"
  PROVE  ~Progress(e) /\ ~GiveUp(e)
<1>1. pending[e] = 0
  BY EndFacts
<1> QED
  BY <1>1 DEF Progress, GiveUp, Direct, EnterLoop, Chunk, Complete, ReturnWith

\* A count that the program asks for does not disturb an end at rest.
LEMMA RestKept ==
  ASSUME NEW e \in Ends, NEW b \in Nat, AtRest(e, b), Refresh(e)
  PROVE  AtRest(e, b)'
  BY DEF AtRest, Refresh

\* A call begins where its end rests.
LEMMA TransferBegins ==
  ASSUME PipeInv, NEW e \in Ends, NEW b \in Nat, NEW n \in Nat, AtRest(e, b), Call(e, n)
  PROVE  InTransfer(e, b, n)'
  BY DEF AtRest, Call, InTransfer, PipeInv, PipeTypeOK

\* A call moves on from there, and stops at the end of its request or short of it.
LEMMA TransferKept ==
  ASSUME PipeInv, NEW e \in Ends, NEW b \in Nat, NEW n \in Nat, InTransfer(e, b, n),
         Progress(e) \/ GiveUp(e)
  PROVE  InTransfer(e, b, n)' /\ moved'[e] >= moved[e]
<1>0. /\ request[e] \in Nat /\ room[e] \in Nat /\ pending[e] \in Nat /\ moved[e] \in Nat
      /\ done[e] \in Nat /\ done[e] <= request[e] /\ request[e] = n
      /\ call[e] \in {"idle", "first"} => pending[e] = 0
  BY EndFacts DEF InTransfer
<1>1. CASE call[e] # "idle" /\ Refresh(e)
  BY <1>0, <1>1 DEF Refresh, InTransfer
<1>2. CASE Direct(e)
  <2>1. /\ call[e] = "first" /\ call'[e] = "direct" /\ pending'[e] = request[e]
        /\ moved' = moved /\ request' = request
    BY <1>2 DEF Direct, Begin, PipeInv, PipeTypeOK
  <2> QED
    BY <1>0, <2>1 DEF InTransfer
<1>3. CASE EnterLoop(e)
  <2>1. /\ call[e] = "first" /\ call'[e] = "loop"
        /\ moved' = moved /\ request' = request /\ pending' = pending /\ done' = done
    BY <1>3 DEF EnterLoop, PipeInv, PipeTypeOK
  <2> QED
    BY <1>0, <2>1 DEF InTransfer
<1>4. CASE Chunk(e)
  <2>1. PICK k \in Nat : /\ pending'[e] = k /\ done'[e] = done[e] + k /\ pending[e] = 0
                         /\ call[e] = "loop" /\ call' = call
                         /\ moved' = moved /\ request' = request
    <3> DEFINE left == request[e] - done[e]
               k    == IF room[e] > left THEN left ELSE room[e]
    <3>1. k \in Nat
      BY <1>0
    <3>2. Begin(e, k) /\ done' = [done EXCEPT ![e] = @ + k]
          /\ pending[e] = 0 /\ call[e] = "loop" /\ call' = call
      BY <1>4 DEF Chunk
    <3> HIDE DEF k
    <3> QED
      BY <3>1, <3>2 DEF Begin, PipeInv, PipeTypeOK
  <2> QED
    BY <1>0, <2>1 DEF InTransfer
<1>5. CASE \E k \in 1 .. pending[e] : Move(e, k)
  <2>1. PICK k \in 1 .. pending[e] : Move(e, k)
    BY <1>5
  <2>2. /\ moved'[e] = moved[e] + k /\ pending'[e] = pending[e] - k
        /\ call' = call /\ request' = request /\ done' = done
    BY <2>1 DEF Move, PipeInv, PipeTypeOK
  <2>3. call[e] \in {"direct", "loop"}
    BY <1>0, <2>1 DEF PipeInv, PipeTypeOK
  <2> QED
    BY <1>0, <2>1, <2>2, <2>3 DEF InTransfer
<1>6. CASE Complete(e)
  <2>1. /\ call[e] = "direct" \/ (call[e] = "loop" /\ done[e] = request[e])
        /\ call'[e] = "idle" /\ result'[e] = "true" /\ pending[e] = 0
        /\ moved' = moved /\ request' = request
    BY <1>6 DEF Complete, ReturnWith, PipeInv, PipeTypeOK
  <2> QED
    BY <1>0, <2>1 DEF InTransfer
<1>7. CASE GiveUp(e)
  <2>1. /\ call[e] = "loop" /\ done[e] < request[e]
        /\ call'[e] = "idle" /\ result'[e] = "false" /\ pending[e] = 0
        /\ moved' = moved /\ request' = request
    BY <1>7 DEF GiveUp, ReturnWith, PipeInv, PipeTypeOK
  <2> QED
    BY <1>0, <2>1 DEF InTransfer
<1> QED
  BY <1>1, <1>2, <1>3, <1>4, <1>5, <1>6, <1>7 DEF Progress

\* The server's end of the header pipe has not come further than the client's.
LEMMA ReaderIsBehind ==
  ASSUME PipeInv
  PROVE  moved[HeaderEnd("server")] <= moved[HeaderEnd("client")]
<1>0. /\ HeaderEnd("server") = <<"client", "reader">>
      /\ HeaderEnd("client") = <<"client", "writer">>
  BY DEF HeaderEnd, Request
<1>1. PICK r \in Ends : /\ r = HeaderEnd("server") /\ r[2] = "reader"
                        /\ Peer(r) = HeaderEnd("client")
  <2>1. HeaderEnd("server") \in Ends
    BY <1>0, CommandAssumption DEF Ends
  <2>2. HeaderEnd("server")[2] = "reader" /\ Peer(HeaderEnd("server")) = HeaderEnd("client")
    BY <1>0 DEF Peer
  <2> QED
    BY <2>1, <2>2
<1>2. Exact(r) \in Nat /\ moved[r] \in Nat /\ moved[Peer(r)] \in Nat
  BY <1>1, Peers, EndFacts
<1>3. Exact(r) = moved[Peer(r)] - moved[r]
  <2>1. r[2] # "writer"
    BY <1>1
  <2> QED
    BY <2>1 DEF Exact
<1>4. moved[r] <= moved[Peer(r)]
  BY <1>2, <1>3
<1> QED
  BY <1>1, <1>4

-----------------------------------------------------------------------------
(* Places in the streams.                                                  *)

\* They are numbers.
LEMMA PlacesAreNumbers ==
  ASSUME NEW s \in Seq(Frame), NEW i \in 1 .. Len(s) + 1
  PROVE  HeaderAt(s, i) \in Nat /\ PayloadAt(s, i) \in Nat
<1>1. CASE i = 1
  BY <1>1, CommandAssumption DEF HeaderAt, PayloadAt
<1>2. CASE i # 1
  <2>1. i - 1 \in 1 .. Len(s)
    BY <1>2
  <2>2. s[i - 1] \in Frame
    BY <2>1
  <2>3. s[i - 1].header \in Nat /\ s[i - 1].payload \in Nat /\ s[i - 1].size \in Nat
    BY <2>2, CommandAssumption DEF Frame
  <2>4. PICK h \in Nat, y \in Nat, n \in Nat :
          h = s[i - 1].header /\ y = s[i - 1].payload /\ n = s[i - 1].size
    BY <2>3
  <2>5. HeaderAt(s, i) = h + Header + (IF kind = "write" THEN n ELSE 0)
    BY <1>2, <2>4 DEF HeaderAt
  <2>6. PayloadAt(s, i) = IF kind = "write" THEN HeaderAt(s, i) + Header ELSE y + n
    BY <1>2, <2>4 DEF PayloadAt
  <2>7. HeaderAt(s, i) \in Nat
    BY <2>5, CommandAssumption
  <2> QED
    BY <2>6, <2>7, CommandAssumption
<1> QED
  BY <1>1, <1>2

\* They depend on the frames before them only.
LEMMA PlacesAgree ==
  ASSUME NEW s \in Seq(Frame), NEW t \in Seq(Frame), NEW i \in Nat \ {0},
         i - 1 <= Len(s), i - 1 <= Len(t), \A j \in 1 .. i - 1 : s[j] = t[j]
  PROVE  HeaderAt(s, i) = HeaderAt(t, i) /\ PayloadAt(s, i) = PayloadAt(t, i)
<1>1. i # 1 => s[i - 1] = t[i - 1]
  OBVIOUS
<1> QED
  BY <1>1 DEF HeaderAt, PayloadAt

\* A chain grows by a frame at its next places.
LEMMA ChainGrows ==
  ASSUME NEW s \in Seq(Frame), NEW f \in Frame, Chained(s),
         f.header = HeaderAt(s, Len(s) + 1), f.payload = PayloadAt(s, Len(s) + 1)
  PROVE  /\ Append(s, f) \in Seq(Frame) /\ Chained(Append(s, f))
         /\ Len(Append(s, f)) = Len(s) + 1
         /\ Append(s, f)[Len(s) + 1] = f
         /\ \A i \in 1 .. Len(s) : Append(s, f)[i] = s[i]
<1> DEFINE t == Append(s, f)
<1>1. /\ t \in Seq(Frame) /\ Len(t) = Len(s) + 1 /\ t[Len(s) + 1] = f
      /\ \A i \in 1 .. Len(s) : t[i] = s[i]
  OBVIOUS
<1> HIDE DEF t
<1>2. ASSUME NEW i \in 1 .. Len(t)
      PROVE  t[i].header = HeaderAt(t, i) /\ t[i].payload = PayloadAt(t, i)
  <2>1. HeaderAt(t, i) = HeaderAt(s, i) /\ PayloadAt(t, i) = PayloadAt(s, i)
    <3>1. i \in Nat \ {0} /\ i - 1 <= Len(s) /\ i - 1 <= Len(t)
          /\ \A j \in 1 .. i - 1 : t[j] = s[j]
      BY <1>1
    <3> QED
      BY <1>1, <3>1, PlacesAgree
  <2>2. CASE i = Len(s) + 1
    BY <1>1, <2>1, <2>2
  <2>3. CASE i \in 1 .. Len(s)
    BY <1>1, <2>1, <2>3 DEF Chained
  <2> QED
    BY <1>1, <2>2, <2>3
<1>3. Chained(t)
  BY <1>2 DEF Chained
<1> QED
  BY <1>1, <1>3 DEF t

\* What the invariant says of a process: its frames are frames, and the next places
\* numbers.
LEMMA FrameFacts ==
  ASSUME CommandInv, NEW p \in Processes
  PROVE  /\ frames[p] \in Seq(Frame) /\ Len(frames[p]) \in Nat /\ Chained(frames[p])
         /\ HeaderPlace(p) \in Nat /\ PayloadPlace(p) \in Nat
         /\ frames[p] # <<>> =>
              /\ Len(frames[p]) \in Nat \ {0} /\ Current(p) \in Frame
              /\ Current(p).header \in Nat /\ Current(p).payload \in Nat
              /\ Current(p).size \in Sizes /\ Current(p).size \in Nat
<1>1. frames[p] \in Seq(Frame) /\ Chained(frames[p])
  BY DEF CommandInv, CommandTypeOK, Frame
<1>2. PICK s \in Seq(Frame) : s = frames[p]
  BY <1>1
<1>3. Len(s) \in Nat /\ Len(s) + 1 \in 1 .. Len(s) + 1
  BY <1>2
<1>4. HeaderPlace(p) \in Nat /\ PayloadPlace(p) \in Nat
  BY <1>2, <1>3, PlacesAreNumbers DEF HeaderPlace, PayloadPlace
<1>5. ASSUME s # <<>>
      PROVE  /\ Len(s) \in Nat \ {0} /\ Current(p) \in Frame
             /\ Current(p).header \in Nat /\ Current(p).payload \in Nat
             /\ Current(p).size \in Sizes /\ Current(p).size \in Nat
  <2>1. Len(s) \in Nat \ {0} /\ s[Len(s)] \in Frame
    BY <1>5
  <2> QED
    BY <1>2, <2>1, CommandAssumption DEF Current, Frame
<1> QED
  BY <1>1, <1>2, <1>3, <1>4, <1>5

\* In a chain the next header begins behind the payload of the current frame, or,
\* if the payload has a pipe of its own, behind its header.
LEMMA NextPlaces ==
  ASSUME CommandInv, NEW p \in Processes, frames[p] # <<>>
  PROVE  /\ kind = "write" =>
              /\ Current(p).payload = Current(p).header + Header
              /\ HeaderPlace(p) = Current(p).payload + Current(p).size
         /\ kind = "read" =>
              /\ HeaderPlace(p) = Current(p).header + Header
              /\ PayloadPlace(p) = Current(p).payload + Current(p).size
<1>1. PICK n \in Nat \ {0} : n = Len(frames[p])
  BY FrameFacts
<1>2. n + 1 # 1 /\ (n + 1) - 1 = n /\ n \in 1 .. n
  BY <1>1
<1>3. PICK h \in Nat, y \in Nat, z \in Nat :
        h = Current(p).header /\ y = Current(p).payload /\ z = Current(p).size
  BY FrameFacts
<1>4. h = HeaderAt(frames[p], n) /\ y = PayloadAt(frames[p], n)
  BY <1>1, <1>2, <1>3, FrameFacts DEF Chained, Current
<1>5. HeaderPlace(p) = h + Header + (IF kind = "write" THEN z ELSE 0)
  BY <1>1, <1>2, <1>3 DEF HeaderPlace, HeaderAt, Current
<1>6. kind = "write" => y = h + Header
  BY <1>4 DEF PayloadAt
<1>7. kind = "read" => PayloadPlace(p) = y + z
  BY <1>1, <1>2, <1>3 DEF PayloadPlace, PayloadAt, Current
<1>8. kind = "write" => HeaderPlace(p) = y + z
  BY <1>5, <1>6, CommandAssumption
<1>9. kind = "read" => HeaderPlace(p) = h + Header
  BY <1>5, CommandAssumption
<1> QED
  BY <1>3, <1>6, <1>7, <1>8, <1>9

\* The announced frames are the client's and perhaps one more, and a chain too.
LEMMA AnnouncedFacts ==
  ASSUME CommandInv
  PROVE  /\ Announced \in Seq(Frame) /\ Chained(Announced) /\ Len(Announced) \in Nat
         /\ Len(Announced) = Len(frames["client"])
                             + (IF at["client"] = "header" THEN 1 ELSE 0)
         /\ \A i \in 1 .. Len(frames["client"]) : Announced[i] = frames["client"][i]
         /\ at["client"] = "header" =>
              Announced[Len(frames["client"]) + 1] =
                [header |-> HeaderPlace("client"), payload |-> PayloadPlace("client"),
                 size |-> size["client"]]
<1>1. PICK s \in Seq(Frame) : s = frames["client"] /\ Chained(s) /\ Len(s) \in Nat
  BY FrameFacts DEF Processes
<1>2. CASE at["client"] = "header"
  <2>1. PICK f \in Frame :
          f = [header |-> HeaderPlace("client"), payload |-> PayloadPlace("client"),
               size |-> size["client"]]
    BY <1>2, FrameFacts DEF Frame, Processes, CommandInv
  <2>2. f.header = HeaderAt(s, Len(s) + 1) /\ f.payload = PayloadAt(s, Len(s) + 1)
    BY <1>1, <2>1 DEF HeaderPlace, PayloadPlace
  <2>3. Announced = Append(s, f)
    BY <1>1, <1>2, <2>1 DEF Announced
  <2> QED
    BY <1>1, <1>2, <2>1, <2>2, <2>3, ChainGrows
<1>3. CASE at["client"] # "header"
  BY <1>1, <1>3 DEF Announced
<1> QED
  BY <1>2, <1>3

-----------------------------------------------------------------------------
(* What a step leaves alone.                                               *)

\* A process that takes no step keeps its part.
LEMMA OtherKeeps ==
  ASSUME CommandInv, NEW q \in Processes, Same(HeaderEnd(q)), Same(PayloadEnd(q)),
         kind' = kind, at'[q] = at[q], frames'[q] = frames[q], packages'[q] = packages[q]
  PROVE  Chained(frames[q])' /\ ProcessInv(q)'
<1>1. /\ HeaderEnd(q)' = HeaderEnd(q) /\ PayloadEnd(q)' = PayloadEnd(q)
      /\ HeaderPlace(q)' = HeaderPlace(q) /\ PayloadPlace(q)' = PayloadPlace(q)
      /\ Current(q)' = Current(q)
  BY DEF HeaderEnd, PayloadEnd, HeaderPlace, PayloadPlace, Current, HeaderAt, PayloadAt
<1>2. Chained(frames[q])'
  BY DEF CommandInv, Chained, HeaderAt, PayloadAt
<1>3. ProcessInv(q)
  BY DEF CommandInv
<1>4. PICK h \in Ends, y \in Ends : h = HeaderEnd(q) /\ y = PayloadEnd(q)
  BY EndsOfProcesses DEF CommandInv, CommandTypeOK
<1>5. \A b, n : /\ AtRest(h, b) => AtRest(h, b)'
                /\ AtRest(y, b) => AtRest(y, b)'
                /\ InTransfer(h, b, n) => InTransfer(h, b, n)'
                /\ InTransfer(y, b, n) => InTransfer(y, b, n)'
  BY <1>4 DEF AtRest, InTransfer, Same
<1> QED
  BY <1>1, <1>2, <1>3, <1>4, <1>5 DEF ProcessInv, Same

\* Nothing new is announced as long as the client does not begin a command.
LEMMA AnnouncedKept ==
  ASSUME CommandInv, kind' = kind, headers' = headers, frames'["client"] = frames["client"],
         size'["client"] = size["client"], at'["client"] = at["client"]
  PROVE  Announced' = Announced /\ HeadersInv'
<1>1. Announced' = Announced
  BY DEF Announced, HeaderPlace, PayloadPlace, HeaderAt, PayloadAt
<1> QED
  BY <1>1 DEF CommandInv, HeadersInv, HeaderAt

-----------------------------------------------------------------------------
(* The steps.                                                              *)

\* The end of a process that takes a step of a call is in a transfer, and stays so.
LEMMA ProcessInCall ==
  ASSUME CommandInv, NEW p \in Processes, NEW e \in {HeaderEnd(p), PayloadEnd(p)},
         Progress(e) \/ GiveUp(e),
         UNCHANGED <<kind, threads, at, packages, size, message, headers, frames>>
  PROVE  Chained(frames[p])' /\ ProcessInv(p)'
<1>0. PipeInv /\ ProcessInv(p) /\ kind \in {"write", "read"}
      /\ at[p] \in {"top", "poll", "header", "payload", "finished"}
  BY DEF CommandInv, CommandTypeOK
<1>1. PICK h \in Ends, y \in Ends :
        /\ h = HeaderEnd(p) /\ y = PayloadEnd(p) /\ e \in {h, y}
        /\ kind = "write" => y = h
        /\ kind = "read" => y # h
  BY <1>0, EndsOfProcesses
<1>2. /\ HeaderEnd(p)' = h /\ PayloadEnd(p)' = y
      /\ HeaderPlace(p)' = HeaderPlace(p) /\ PayloadPlace(p)' = PayloadPlace(p)
      /\ Current(p)' = Current(p) /\ Chained(frames[p])'
  BY <1>1 DEF HeaderEnd, PayloadEnd, HeaderPlace, PayloadPlace, Current, HeaderAt, PayloadAt,
              CommandInv, Chained
<1>3. PICK hb \in Nat, yb \in Nat : hb = HeaderPlace(p) /\ yb = PayloadPlace(p)
  BY FrameFacts
<1>4. call[e] # "idle"
  BY <1>0, <1>1, RestIsQuiet
<1>5. \A x \in Ends : x # e => Same(x)
  BY <1>0, <1>1, OthersSame
<1>6. \A x \in Ends : moved'[x] \in Nat /\ moved[x] \in Nat
  BY <1>0, <1>1, ProgressKeeps, EndFacts DEF PipeInv, PipeTypeOK
<1>7. CASE at[p] \in {"top", "poll", "finished"}
  BY <1>0, <1>1, <1>4, <1>7 DEF ProcessInv, AtRest
<1>8. CASE at[p] = "header"
  <2>1. e = h
    BY <1>0, <1>1, <1>4, <1>8 DEF ProcessInv, AtRest
  <2>2. InTransfer(h, hb, Header)' /\ moved'[h] >= moved[h]
    BY <1>0, <1>1, <1>3, <1>8, <2>1, TransferKept, CommandAssumption DEF ProcessInv
  <2>3. kind = "read" => AtRest(y, yb)'
    BY <1>0, <1>1, <1>3, <1>5, <1>8, <2>1 DEF ProcessInv, AtRest, Same
  <2>4. frames[p] # <<>> => moved'[h] >= Current(p).header + Header
    BY <1>0, <1>1, <1>6, <2>2, FrameFacts, CommandAssumption DEF ProcessInv
  <2> QED
    BY <1>0, <1>1, <1>2, <1>3, <1>8, <2>2, <2>3, <2>4 DEF ProcessInv
<1>9. CASE at[p] = "payload"
  <2>0. frames[p] # <<>>
    BY <1>0, <1>9 DEF ProcessInv
  <2>1. e = y
    BY <1>0, <1>1, <1>4, <1>9 DEF ProcessInv, AtRest
  <2>2. PICK b \in Nat, n \in Nat : b = Current(p).payload /\ n = Current(p).size
    BY <2>0, FrameFacts
  <2>3. InTransfer(y, b, n)' /\ moved'[y] >= moved[y]
    BY <1>0, <1>1, <1>9, <2>1, <2>2, TransferKept DEF ProcessInv
  <2>4. kind = "read" => AtRest(h, hb)' /\ moved'[h] = moved[h]
    BY <1>0, <1>1, <1>3, <1>5, <1>9, <2>1 DEF ProcessInv, AtRest, Same
  <2>5. moved'[h] >= moved[h]
    BY <1>0, <1>1, <1>6, <2>3, <2>4
  <2>6. moved'[h] >= Current(p).header + Header
    BY <1>0, <1>1, <1>6, <2>0, <2>5, FrameFacts, CommandAssumption DEF ProcessInv
  <2> QED
    BY <1>0, <1>1, <1>2, <1>3, <1>9, <2>0, <2>2, <2>3, <2>4, <2>6 DEF ProcessInv
<1> QED
  BY <1>0, <1>7, <1>8, <1>9

\* A step of a call.
LEMMA InCallKeeps ==
  ASSUME CommandInv, NEW p \in Processes, InCall(p) \/ RunOut(p)
  PROVE  CommandInv'
<1>1. PICK e \in {HeaderEnd(p), PayloadEnd(p)} : Progress(e) \/ GiveUp(e)
  BY DEF InCall, RunOut
<1>2. UNCHANGED <<kind, threads, at, packages, size, message, headers, frames>>
  BY DEF InCall, RunOut
<1>3. e \in Ends /\ PipeInv /\ kind \in {"write", "read"}
  BY <1>1, EndsOfProcesses DEF CommandInv, CommandTypeOK
<1>4. PipeInv'
  BY <1>1, <1>3, ProgressKeeps
<1>5. CommandTypeOK'
  BY <1>2, <1>4 DEF PipeInv, CommandInv, CommandTypeOK
<1>6. ASSUME NEW q \in Processes PROVE Chained(frames[q])' /\ ProcessInv(q)'
  <2>1. CASE q = p
    BY <1>1, <1>2, <2>1, ProcessInCall
  <2>2. CASE q # p
    <3>1. PICK h \in Ends, y \in Ends : /\ h = HeaderEnd(q) /\ y = PayloadEnd(q)
                                        /\ h # e /\ y # e
      BY <1>1, <1>3, <2>2, EndsOfProcesses
    <3>2. Same(h) /\ Same(y)
      BY <1>1, <1>3, <3>1, OthersSame
    <3> QED
      BY <1>2, <3>1, <3>2, OtherKeeps DEF Same
  <2> QED
    BY <2>1, <2>2
<1>7. Announced' = Announced /\ HeadersInv'
  BY <1>2, AnnouncedKept
<1>8. ServerFollows'
  BY <1>2, <1>7 DEF CommandInv, ServerFollows
<1> QED
  BY <1>2, <1>4, <1>5, <1>6, <1>7, <1>8 DEF CommandInv

\* The client announces a header behind all earlier ones.
LEMMA SendHeaderKeeps ==
  ASSUME CommandInv, SendHeader
  PROVE  CommandInv'
<1>0. /\ PipeInv /\ ProcessInv("client") /\ kind \in {"write", "read"}
      /\ at["client"] = "top" /\ GoesOn("client")
      /\ "client" \in Processes /\ "server" \in Processes
      /\ UNCHANGED <<kind, threads, packages, message, frames>>
  BY DEF CommandInv, CommandTypeOK, SendHeader, Processes
<1>1. PICK n \in Sizes :
        /\ size' = [size EXCEPT !["client"] = n]
        /\ headers' = headers \cup {[at |-> moved[HeaderEnd("client")], size |-> n]}
  BY DEF SendHeader
<1>2. n \in Nat /\ Header \in Nat /\ Header > 0
  BY CommandAssumption
<1>3. PICK h \in Ends, y \in Ends :
        /\ h = HeaderEnd("client") /\ y = PayloadEnd("client")
        /\ kind = "read" => y # h
  BY <1>0, EndsOfProcesses
<1>4. PICK hb \in Nat, yb \in Nat : hb = HeaderPlace("client") /\ yb = PayloadPlace("client")
  BY <1>0, FrameFacts
<1>5. AtRest(h, hb) /\ moved[h] = hb /\ (kind = "read" => AtRest(y, yb))
  BY <1>0, <1>3, <1>4 DEF ProcessInv, AtRest
<1>6. Call(h, Header) /\ moved' = moved
  BY <1>3 DEF SendHeader, Call
<1>7. PipeInv'
  BY <1>0, <1>2, <1>6, CallKeeps
<1>8. /\ at' = [at EXCEPT !["client"] = "header"]
      /\ at'["client"] = "header" /\ at'["server"] = at["server"]
      /\ size'["client"] = n
  BY <1>1, <1>0 DEF SendHeader, Goto, CommandInv, CommandTypeOK
<1>9. CommandTypeOK'
  <2>1. headers' \subseteq [at : Nat, size : Sizes]
    BY <1>1, <1>3, <1>5 DEF CommandInv, CommandTypeOK
  <2>2. size' \in [Processes -> Sizes \cup {0}]
    BY <1>1 DEF CommandInv, CommandTypeOK
  <2>3. at' \in [Processes -> {"top", "poll", "header", "payload", "finished"}]
    BY <1>8 DEF CommandInv, CommandTypeOK
  <2> QED
    BY <1>0, <1>7, <2>1, <2>2, <2>3 DEF PipeInv, CommandInv, CommandTypeOK
<1>10. ASSUME NEW q \in Processes PROVE Chained(frames[q])' /\ ProcessInv(q)'
  <2>1. CASE q = "client"
    <3>1. InTransfer(h, hb, Header)'
      BY <1>0, <1>2, <1>5, <1>6, TransferBegins
    <3>2. kind = "read" => AtRest(y, yb)'
      BY <1>3, <1>5, <1>6 DEF AtRest, Call
    <3>3. packages["client"] < Commands
      BY <1>0 DEF GoesOn
    <3>4. /\ HeaderEnd(q)' = h /\ PayloadEnd(q)' = y
          /\ HeaderPlace(q)' = hb /\ PayloadPlace(q)' = yb
          /\ Current(q)' = Current(q) /\ Chained(frames[q])'
      BY <1>0, <1>3, <1>4, <2>1
         DEF HeaderEnd, PayloadEnd, HeaderPlace, PayloadPlace, Current, HeaderAt, PayloadAt,
             CommandInv, Chained
    <3>5. frames'[q] # <<>> => moved'[h] >= Current(q).header + Header
      BY <1>0, <1>3, <1>6, <2>1 DEF ProcessInv
    <3> QED
      BY <1>0, <1>8, <2>1, <3>1, <3>2, <3>3, <3>4, <3>5 DEF ProcessInv
  <2>2. CASE q # "client"
    <3>1. PICK x \in Ends, z \in Ends : /\ x = HeaderEnd(q) /\ z = PayloadEnd(q)
                                        /\ x # h /\ z # h
      BY <1>0, <1>3, <2>2, EndsOfProcesses
    <3>2. Same(x) /\ Same(z)
      BY <1>0, <1>2, <1>6, <3>1, OthersSame
    <3>3. at'[q] = at[q]
      BY <1>8, <2>2 DEF CommandInv, CommandTypeOK
    <3> QED
      BY <1>0, <3>1, <3>2, <3>3, OtherKeeps DEF Same
  <2> QED
    BY <2>1, <2>2
<1>11. PICK s \in Seq(Frame), f \in Frame :
         /\ s = Announced /\ s = frames["client"] /\ Chained(s) /\ Len(s) \in Nat
         /\ f = [header |-> hb, payload |-> yb, size |-> n]
         /\ f.header = HeaderAt(s, Len(s) + 1) /\ f.payload = PayloadAt(s, Len(s) + 1)
  <2>1. Announced = frames["client"]
    BY <1>0 DEF Announced
  <2>2. [header |-> hb, payload |-> yb, size |-> n] \in Frame
    BY DEF Frame
  <2> QED
    BY <1>4, <2>1, <2>2, AnnouncedFacts DEF HeaderPlace, PayloadPlace
<1>12. PICK t \in Seq(Frame) :
         /\ t = Append(s, f) /\ Len(t) = Len(s) + 1 /\ t[Len(s) + 1] = f
         /\ \A i \in 1 .. Len(s) : t[i] = s[i]
  BY <1>11, ChainGrows
<1>13. Announced' = t
  <2>1. HeaderPlace("client")' = hb /\ PayloadPlace("client")' = yb
    BY <1>0, <1>4 DEF HeaderPlace, PayloadPlace, HeaderAt, PayloadAt
  <2> QED
    BY <1>0, <1>8, <1>11, <1>12, <2>1 DEF Announced
<1>14. \A g \in headers : g.at \in Nat /\ g.at < hb
  <2>1. \A g \in headers : g.at < HeaderAt(s, Len(s) + 1)
    BY <1>0, <1>11 DEF CommandInv, HeadersInv
  <2> QED
    BY <1>11, <2>1 DEF CommandInv, CommandTypeOK
<1>15. HeadersInv'
  <2> DEFINE new == [at |-> hb, size |-> n]
  <2>1. headers' = headers \cup {new}
    BY <1>1, <1>3, <1>5
  <2>2. ASSUME NEW i \in 1 .. Len(t)
        PROVE  [at |-> t[i].header, size |-> t[i].size] \in headers'
    <3>1. CASE i \in 1 .. Len(s)
      BY <1>11, <1>12, <2>1, <3>1 DEF CommandInv, HeadersInv
    <3>2. CASE i = Len(s) + 1
      BY <1>11, <1>12, <2>1, <3>2
    <3> QED
      BY <1>11, <1>12, <3>1, <3>2
  <2>3. \A g, k \in headers' : g.at = k.at => g = k
    <3>1. \A g, k \in headers : g.at = k.at => g = k
      BY DEF CommandInv, HeadersInv
    <3>2. new.at = hb
      OBVIOUS
    <3>3. \A g \in headers : g.at # hb
      BY <1>14
    <3> HIDE DEF new
    <3> QED
      BY <2>1, <3>1, <3>2, <3>3
  <2>4. HeaderAt(t, Len(t) + 1)' = hb + Header + (IF kind = "write" THEN n ELSE 0)
    BY <1>0, <1>11, <1>12 DEF HeaderAt
  <2>5. \A g \in headers' : g.at < HeaderAt(t, Len(t) + 1)'
    <3>1. \A g \in headers' : g.at \in Nat /\ g.at <= hb
      BY <1>14, <2>1
    <3> QED
      BY <1>2, <2>4, <3>1
  <2> QED
    BY <1>13, <2>2, <2>3, <2>5 DEF HeadersInv
<1>16. ServerFollows'
  BY <1>0, <1>11, <1>12, <1>13, FrameFacts DEF CommandInv, ServerFollows
<1> QED
  BY <1>1, <1>7, <1>8, <1>9, <1>10, <1>15, <1>16 DEF CommandInv

\* A step of a program that begins no frame keeps the invariant if it keeps its
\* process's part; and the client may drop an announced frame that the server does
\* not know of.
LEMMA ProgramStepKeeps ==
  ASSUME CommandInv, NEW p \in Processes, PipeInv', CommandTypeOK',
         UNCHANGED <<kind, headers, frames, size>>,
         \A x \in Ends : x # HeaderEnd(p) /\ x # PayloadEnd(p) => Same(x),
         \A q \in Processes : q # p => at'[q] = at[q] /\ packages'[q] = packages[q],
         ProcessInv(p)',
         at[p] # "finished",
         p = "client" =>
           /\ at'[p] # "header"
           /\ at[p] = "header" => /\ at'[p] = "finished"
                                  /\ Len(frames["server"]) <= Len(frames["client"])
  PROVE  CommandInv'
<1>0. "client" \in Processes /\ kind \in {"write", "read"}
  BY DEF Processes, CommandInv, CommandTypeOK
<1>1. ASSUME NEW q \in Processes PROVE Chained(frames[q])' /\ ProcessInv(q)'
  <2>1. CASE q = p
    BY <2>1 DEF CommandInv, Chained, HeaderAt, PayloadAt
  <2>2. CASE q # p
    <3>1. Same(HeaderEnd(q)) /\ Same(PayloadEnd(q))
      BY <1>0, <2>2, EndsOfProcesses
    <3> QED
      BY <2>2, <3>1, OtherKeeps
  <2> QED
    BY <2>1, <2>2
<1>2. CASE at'["client"] = at["client"]
  <2>1. Announced' = Announced /\ HeadersInv'
    BY <1>2, AnnouncedKept
  <2>2. ServerFollows'
    BY <2>1 DEF CommandInv, ServerFollows
  <2> QED
    BY <1>1, <1>2, <2>1, <2>2 DEF CommandInv
<1>3. CASE at'["client"] # at["client"]
  <2>1. p = "client" /\ Announced' = frames["client"]
    BY <1>0, <1>3 DEF Announced
  <2>2. PICK n \in Nat, m \in Nat, k \in Nat :
          /\ n = Len(frames["client"]) /\ m = Len(Announced) /\ k = Len(frames["server"])
          /\ n <= m /\ (at["client"] # "header" => m = n)
          /\ \A i \in 1 .. n : Announced[i] = frames["client"][i]
    <3>1. Len(frames["client"]) \in Nat /\ Len(frames["server"]) \in Nat
      BY FrameFacts DEF Processes
    <3>2. CASE at["client"] = "header"
      BY <3>1, <3>2, AnnouncedFacts
    <3>3. CASE at["client"] # "header"
      BY <3>1, <3>3, AnnouncedFacts
    <3> QED
      BY <3>2, <3>3
  <2>3. HeadersInv'
    <3>1. ASSUME NEW i \in 1 .. n
          PROVE  [at |-> frames["client"][i].header, size |-> frames["client"][i].size]
                   \in headers
      BY <2>2 DEF CommandInv, HeadersInv
    <3>2. \A g, x \in headers : g.at = x.at => g = x
      BY DEF CommandInv, HeadersInv
    <3>3. ASSUME at'["client"] # "finished"
          PROVE  \A x \in headers : x.at < HeaderAt(frames["client"], n + 1)
      <4>1. Announced = frames["client"] /\ at["client"] # "finished"
        BY <2>1, <3>3 DEF Announced
      <4> QED
        BY <2>2, <4>1 DEF CommandInv, HeadersInv
    <3>4. HeaderAt(frames["client"], n + 1)' = HeaderAt(frames["client"], n + 1)
      BY DEF HeaderAt
    <3> QED
      BY <2>1, <2>2, <3>1, <3>2, <3>3, <3>4 DEF HeadersInv
  <2>4. ServerFollows'
    <3>1. k <= m /\ \A i \in 1 .. k : frames["server"][i] = Announced[i]
      BY <2>2 DEF CommandInv, ServerFollows
    <3>2. k <= n
      BY <2>1, <2>2, <3>1
    <3>3. ASSUME NEW i \in 1 .. k PROVE frames["server"][i] = frames["client"][i]
      BY <2>2, <3>1, <3>2
    <3> QED
      BY <2>1, <2>2, <3>2, <3>3 DEF ServerFollows
  <2> QED
    BY <1>1, <2>1, <2>3, <2>4 DEF CommandInv
<1> QED
  BY <1>2, <1>3

\* The loop condition.
LEMMA FinishKeeps ==
  ASSUME CommandInv, NEW p \in Processes, Finish(p)
  PROVE  CommandInv'
<1>1. /\ UNCHANGED <<pipeVars, kind, threads, packages, size, message, headers, frames>>
      /\ at' = [at EXCEPT ![p] = "finished"] /\ at[p] = "top" /\ at'[p] = "finished"
      /\ \A q \in Processes : q # p => at'[q] = at[q]
      /\ at' \in [Processes -> {"top", "poll", "header", "payload", "finished"}]
  BY DEF Finish, Goto, CommandInv, CommandTypeOK
<1>2. PipeInv'
  BY <1>1 DEF CommandInv, pipeVars, PipeInv, PipeTypeOK, RoomIsSafe, Exact
<1>3. CommandTypeOK'
  BY <1>1, <1>2 DEF PipeInv, CommandInv, CommandTypeOK
<1>4. \A x \in Ends : Same(x)
  BY <1>1 DEF pipeVars, Same
<1>5. ProcessInv(p)'
  <2>0. ProcessInv(p) /\ kind \in {"write", "read"} /\ HeaderPlace(p) \in Nat
    BY FrameFacts DEF CommandInv, CommandTypeOK
  <2>1. /\ HeaderEnd(p)' = HeaderEnd(p) /\ PayloadEnd(p)' = PayloadEnd(p)
        /\ HeaderPlace(p)' = HeaderPlace(p) /\ PayloadPlace(p)' = PayloadPlace(p)
        /\ Current(p)' = Current(p)
    BY <1>1 DEF HeaderEnd, PayloadEnd, HeaderPlace, PayloadPlace, Current, HeaderAt, PayloadAt
  <2>2. AtRest(HeaderEnd(p), HeaderPlace(p)) /\ call[PayloadEnd(p)] = "idle"
    BY <1>1, <2>0, EndsOfProcesses DEF ProcessInv, AtRest
  <2>3. moved[HeaderEnd(p)] < HeaderPlace(p) + Header
    BY <2>0, <2>2, CommandAssumption DEF AtRest
  <2>4. moved' = moved /\ call' = call
    BY <1>1 DEF pipeVars
  <2> QED
    BY <1>1, <2>0, <2>1, <2>2, <2>3, <2>4 DEF ProcessInv, AtRest
<1> QED
  BY <1>1, <1>2, <1>3, <1>4, <1>5, ProgramStepKeeps

\* The server's poll does not disturb an end at rest.
LEMMA PollKeeps ==
  ASSUME CommandInv, Poll
  PROVE  CommandInv'
<1>0. PICK p \in Processes : p = "server"
  BY DEF Processes
<1>1. /\ UNCHANGED <<kind, threads, packages, size, message, headers, frames>>
      /\ Refresh(HeaderEnd(p))
      /\ at' = [at EXCEPT ![p] = "poll"] /\ at[p] = "top" /\ at'[p] = "poll"
      /\ \A q \in Processes : q # p => at'[q] = at[q]
      /\ at' \in [Processes -> {"top", "poll", "header", "payload", "finished"}]
      /\ packages[p] < Commands
  BY <1>0 DEF Poll, GoesOn, Goto, CommandInv, CommandTypeOK
<1>2. PICK h \in Ends : h = HeaderEnd(p) /\ PipeInv /\ kind \in {"write", "read"}
  BY EndsOfProcesses DEF CommandInv, CommandTypeOK
<1>3. PipeInv'
  BY <1>1, <1>2, RefreshKeeps
<1>4. CommandTypeOK'
  BY <1>1, <1>3 DEF PipeInv, CommandInv, CommandTypeOK
<1>5. \A x \in Ends : x # HeaderEnd(p) => Same(x)
  BY <1>1, <1>2, OthersSame
<1>6. ProcessInv(p)'
  <2>0. ProcessInv(p)
    BY DEF CommandInv
  <2>1. /\ HeaderEnd(p)' = HeaderEnd(p) /\ PayloadEnd(p)' = PayloadEnd(p)
        /\ HeaderPlace(p)' = HeaderPlace(p) /\ PayloadPlace(p)' = PayloadPlace(p)
        /\ Current(p)' = Current(p)
    BY <1>1 DEF HeaderEnd, PayloadEnd, HeaderPlace, PayloadPlace, Current, HeaderAt, PayloadAt
  <2>2. moved' = moved /\ call' = call
    BY <1>1 DEF Refresh
  <2> QED
    BY <1>1, <2>0, <2>1, <2>2 DEF ProcessInv, AtRest
<1> QED
  BY <1>0, <1>1, <1>3, <1>4, <1>5, <1>6, ProgramStepKeeps

\* A poll that counts a whole header begins to read it, any other goes round again.
LEMMA ReceiveHeaderKeeps ==
  ASSUME CommandInv, ReceiveHeader
  PROVE  CommandInv'
<1>0. PICK p \in Processes : p = "server"
  BY DEF Processes
<1>1. /\ UNCHANGED <<kind, threads, packages, size, message, headers, frames>>
      /\ at[p] = "poll"
      /\ \A q \in Processes : q # p => at'[q] = at[q]
      /\ at' \in [Processes -> {"top", "poll", "header", "payload", "finished"}]
  BY <1>0 DEF ReceiveHeader, Goto, CommandInv, CommandTypeOK
<1>2. PICK h \in Ends, y \in Ends :
        /\ h = HeaderEnd(p) /\ y = PayloadEnd(p) /\ PipeInv
        /\ kind = "read" => y # h
  BY EndsOfProcesses DEF CommandInv, CommandTypeOK
<1>3. PICK hb \in Nat, yb \in Nat : hb = HeaderPlace(p) /\ yb = PayloadPlace(p)
  BY FrameFacts
<1>4. /\ HeaderEnd(p)' = h /\ PayloadEnd(p)' = y
      /\ HeaderPlace(p)' = hb /\ PayloadPlace(p)' = yb
      /\ Current(p)' = Current(p)
  BY <1>1, <1>2, <1>3
     DEF HeaderEnd, PayloadEnd, HeaderPlace, PayloadPlace, Current, HeaderAt, PayloadAt
<1>5. /\ ProcessInv(p) /\ packages[p] < Commands
      /\ AtRest(h, hb) /\ (kind = "read" => AtRest(y, yb))
  BY <1>1, <1>2, <1>3 DEF CommandInv, ProcessInv
<1>6. CASE Call(h, Header) /\ at'[p] = "header"
  <2>1. Header \in Nat
    BY CommandAssumption
  <2>2. PipeInv'
    BY <1>2, <1>6, <2>1, CallKeeps
  <2>3. CommandTypeOK'
    BY <1>1, <2>2 DEF PipeInv, CommandInv, CommandTypeOK
  <2>4. \A x \in Ends : x # h => Same(x)
    BY <1>2, <1>6, <2>1, OthersSame
  <2>5. InTransfer(h, hb, Header)' /\ moved' = moved
    BY <1>2, <1>5, <1>6, <2>1, TransferBegins DEF Call
  <2>6. kind = "read" => AtRest(y, yb)'
    BY <1>2, <1>5, <2>4 DEF AtRest, Same
  <2>7. ProcessInv(p)'
    BY <1>1, <1>2, <1>4, <1>5, <1>6, <2>5, <2>6 DEF ProcessInv
  <2> QED
    BY <1>0, <1>1, <1>2, <2>2, <2>3, <2>4, <2>7, ProgramStepKeeps
<1>7. CASE UNCHANGED pipeVars /\ at'[p] = "top"
  <2>2. PipeInv'
    BY <1>2, <1>7 DEF pipeVars, PipeInv, PipeTypeOK, RoomIsSafe, Exact
  <2>3. CommandTypeOK'
    BY <1>1, <2>2 DEF PipeInv, CommandInv, CommandTypeOK
  <2>4. \A x \in Ends : Same(x)
    BY <1>7 DEF pipeVars, Same
  <2>5. AtRest(h, hb)' /\ (kind = "read" => AtRest(y, yb)') /\ moved' = moved
    BY <1>5, <1>7 DEF AtRest, pipeVars
  <2>6. ProcessInv(p)'
    BY <1>1, <1>2, <1>4, <1>5, <1>7, <2>5 DEF ProcessInv
  <2> QED
    BY <1>0, <1>1, <2>2, <2>3, <2>4, <2>6, ProgramStepKeeps
<1> QED
  BY <1>0, <1>2, <1>6, <1>7 DEF ReceiveHeader, Goto, CommandInv, CommandTypeOK

\* The payload is through: both pipes are at the next places.
LEMMA EndPayloadKeeps ==
  ASSUME CommandInv, NEW p \in Processes, EndPayload(p)
  PROVE  CommandInv'
<1>1. /\ UNCHANGED <<pipeVars, kind, threads, size, message, headers, frames>>
      /\ at[p] = "payload" /\ at'[p] = "top"
      /\ at' = [at EXCEPT ![p] = "top"]
      /\ packages' = [packages EXCEPT ![p] = @ + 1]
      /\ call[PayloadEnd(p)] = "idle" /\ result[PayloadEnd(p)] = "true"
  BY DEF EndPayload, Goto, CommandInv, CommandTypeOK
<1>2. PICK h \in Ends, y \in Ends :
        /\ h = HeaderEnd(p) /\ y = PayloadEnd(p) /\ PipeInv
        /\ kind = "write" => y = h
  BY EndsOfProcesses DEF CommandInv, CommandTypeOK
<1>3. /\ ProcessInv(p) /\ packages[p] < Commands /\ frames[p] # <<>>
      /\ kind \in {"write", "read"} /\ packages[p] \in Nat
  BY <1>1 DEF CommandInv, CommandTypeOK, ProcessInv
<1>4. PipeInv'
  BY <1>1, <1>2 DEF pipeVars, PipeInv, PipeTypeOK, RoomIsSafe, Exact
<1>5. packages' \in [Processes -> 0 .. Commands]
  BY <1>1, <1>3, CommandAssumption DEF CommandInv, CommandTypeOK
<1>6. /\ at' \in [Processes -> {"top", "poll", "header", "payload", "finished"}]
      /\ \A q \in Processes : q # p => at'[q] = at[q] /\ packages'[q] = packages[q]
  BY <1>1 DEF CommandInv, CommandTypeOK
<1>7. CommandTypeOK'
  BY <1>1, <1>4, <1>5, <1>6 DEF PipeInv, CommandInv, CommandTypeOK
<1>8. \A x \in Ends : Same(x)
  BY <1>1 DEF pipeVars, Same
<1>9. ProcessInv(p)'
  <2>1. PICK b \in Nat, n \in Nat : b = Current(p).payload /\ n = Current(p).size
    BY <1>3, FrameFacts
  <2>2. moved[y] = b + n /\ call[y] = "idle"
    BY <1>1, <1>2, <1>3, <2>1 DEF ProcessInv, InTransfer
  <2>3. AtRest(h, HeaderPlace(p))
    BY <1>1, <1>2, <1>3, <2>1, <2>2, NextPlaces DEF ProcessInv, AtRest
  <2>4. kind = "read" => AtRest(y, PayloadPlace(p))
    BY <1>3, <2>1, <2>2, NextPlaces DEF AtRest
  <2>5. /\ HeaderEnd(p)' = h /\ PayloadEnd(p)' = y
        /\ HeaderPlace(p)' = HeaderPlace(p) /\ PayloadPlace(p)' = PayloadPlace(p)
        /\ Current(p)' = Current(p) /\ moved' = moved /\ call' = call
    BY <1>1, <1>2
       DEF HeaderEnd, PayloadEnd, HeaderPlace, PayloadPlace, Current, HeaderAt, PayloadAt, pipeVars
  <2> QED
    BY <1>1, <1>2, <1>3, <2>3, <2>4, <2>5 DEF ProcessInv, AtRest
<1> QED
  BY <1>1, <1>4, <1>6, <1>7, <1>8, <1>9, ProgramStepKeeps

\* A process that has timed out stops where no header can have been read beyond.
\* If it was the client's header that stopped half way, the server has not begun
\* the frame.
LEMMA BreakKeeps ==
  ASSUME CommandInv, NEW p \in Processes, Break(p)
  PROVE  CommandInv'
<1>1. /\ UNCHANGED <<pipeVars, kind, threads, packages, size, headers, frames>>
      /\ at' = [at EXCEPT ![p] = "finished"] /\ at'[p] = "finished"
      /\ \A q \in Processes : q # p => at'[q] = at[q]
      /\ at' \in [Processes -> {"top", "poll", "header", "payload", "finished"}]
      /\ at[p] \in {"header", "payload"} /\ TimedOut(p)
  BY DEF Break, TimedOut, Goto, CommandInv, CommandTypeOK
<1>2. PICK h \in Ends, y \in Ends :
        /\ h = HeaderEnd(p) /\ y = PayloadEnd(p) /\ PipeInv
        /\ kind = "write" => y = h
        /\ kind = "read" => y # h
        /\ kind \in {"write", "read"}
  BY EndsOfProcesses DEF CommandInv, CommandTypeOK
<1>3. PICK hb \in Nat : hb = HeaderPlace(p)
  BY FrameFacts
<1>4. PipeInv'
  BY <1>1, <1>2 DEF pipeVars, PipeInv, PipeTypeOK, RoomIsSafe, Exact
<1>5. CommandTypeOK'
  <2>1. message' \in BOOLEAN
    BY DEF Break
  <2> QED
    BY <1>1, <1>4, <2>1 DEF PipeInv, CommandInv, CommandTypeOK
<1>6. \A x \in Ends : Same(x)
  BY <1>1 DEF pipeVars, Same
<1>7. ProcessInv(p)
  BY DEF CommandInv
<1>8. call[h] = "idle" /\ call[y] = "idle" /\ moved[h] < hb + Header
  <2>1. CASE at[p] = "header"
    <3>1. call[h] = "idle" /\ result[h] = "false" /\ InTransfer(h, hb, Header)
      BY <1>1, <1>2, <1>3, <1>7, <2>1 DEF TimedOut, ProcessInv
    <3>2. call[y] = "idle"
      BY <1>2, <1>7, <2>1, <3>1 DEF ProcessInv, AtRest
    <3> QED
      BY <3>1, <3>2 DEF InTransfer
  <2>2. CASE at[p] = "payload"
    <3>1. PICK b \in Nat, n \in Nat : b = Current(p).payload /\ n = Current(p).size
      BY <1>7, <2>2, FrameFacts DEF ProcessInv
    <3>2. call[y] = "idle" /\ result[y] = "false" /\ InTransfer(y, b, n)
      BY <1>1, <1>2, <1>7, <2>2, <3>1 DEF TimedOut, ProcessInv
    <3>3. moved[y] < b + n
      BY <3>2 DEF InTransfer
    <3>4. CASE kind = "write"
      <4>1. hb = b + n /\ y = h
        BY <1>2, <1>3, <1>7, <2>2, <3>1, <3>4, NextPlaces DEF ProcessInv
      <4>2. moved[h] \in Nat
        BY <1>2, EndFacts
      <4> QED
        BY <3>2, <3>3, <4>1, <4>2, CommandAssumption
    <3>5. CASE kind = "read"
      <4>1. AtRest(h, hb)
        BY <1>2, <1>3, <1>7, <2>2, <3>5 DEF ProcessInv
      <4> QED
        BY <3>2, <4>1, CommandAssumption DEF AtRest
    <3> QED
      BY <1>2, <3>4, <3>5
  <2> QED
    BY <1>1, <2>1, <2>2
<1>9. ProcessInv(p)'
  <2>1. /\ HeaderEnd(p)' = h /\ PayloadEnd(p)' = y /\ HeaderPlace(p)' = hb
        /\ Current(p)' = Current(p) /\ moved' = moved /\ call' = call
    BY <1>1, <1>2, <1>3
       DEF HeaderEnd, PayloadEnd, HeaderPlace, Current, HeaderAt, pipeVars
  <2> QED
    BY <1>1, <1>2, <1>7, <1>8, <2>1 DEF ProcessInv
<1>10. ASSUME p = "client", at[p] = "header"
       PROVE  Len(frames["server"]) <= Len(frames["client"])
  <2>1. PICK n \in Nat, k \in Nat : n = Len(frames["client"]) /\ k = Len(frames["server"])
    BY FrameFacts DEF Processes
  <2>2. Len(Announced) = n + 1 /\ Announced[n + 1].header = hb
    BY <1>3, <1>10, <2>1, AnnouncedFacts
  <2>3. SUFFICES ASSUME k > n PROVE FALSE
    BY <2>1
  <2>4. k = n + 1 /\ frames["server"][k] = Announced[k]
    BY <2>1, <2>2, <2>3 DEF CommandInv, ServerFollows
  <2>5. Current("server").header = hb /\ frames["server"] # <<>>
    <3>1. Current("server").header = hb
      BY <2>1, <2>2, <2>4 DEF Current
    <3>2. Len(frames["server"]) # 0 /\ Len(<<>>) = 0
      BY <2>1, <2>4
    <3> QED
      BY <3>1, <3>2, Zenon
  <2>6. moved[HeaderEnd("server")] >= hb + Header
    BY <2>5 DEF CommandInv, ProcessInv, Processes
  <2>7. moved[HeaderEnd("server")] <= moved[h] /\ moved[h] \in Nat
        /\ moved[HeaderEnd("server")] \in Nat
    <3>1. PICK r \in Ends : r = HeaderEnd("server")
      BY <1>2, EndsOfProcesses DEF Processes
    <3> QED
      BY <1>2, <1>10, <3>1, ReaderIsBehind, EndFacts
  <2> QED
    BY <1>8, <2>6, <2>7, CommandAssumption
<1> QED
  BY <1>1, <1>4, <1>5, <1>6, <1>9, <1>10, ProgramStepKeeps

\* A transfer never goes beyond its end.
LEMMA TransferBounded ==
  ASSUME PipeInv, NEW e \in Ends, NEW b \in Nat, NEW n \in Nat, InTransfer(e, b, n)
  PROVE  moved[e] <= b + n
<1>1. /\ request[e] \in Nat /\ pending[e] \in Nat /\ moved[e] \in Nat
      /\ done[e] \in Nat /\ done[e] <= request[e]
      /\ call[e] \in {"idle", "first", "direct", "loop"}
  BY EndFacts DEF PipeInv, PipeTypeOK
<1> QED
  BY <1>1 DEF InTransfer

\* The client has not sent the whole of a header it has not announced.
LEMMA ClientWithinAnnounced ==
  ASSUME CommandInv
  PROVE  /\ HeaderAt(Announced, Len(Announced) + 1) \in Nat
         /\ moved[HeaderEnd("client")] < HeaderAt(Announced, Len(Announced) + 1) + Header
<1>1. PICK p \in Processes : p = "client"
  BY DEF Processes
<1>2. PICK h \in Ends, y \in Ends :
        /\ h = HeaderEnd(p) /\ y = PayloadEnd(p) /\ PipeInv
        /\ kind = "write" => y = h
        /\ kind \in {"write", "read"}
  BY EndsOfProcesses DEF CommandInv, CommandTypeOK
<1>3. PICK hb \in Nat : hb = HeaderPlace(p)
  BY FrameFacts
<1>4. PICK s \in Seq(Frame) : s = Announced
  BY AnnouncedFacts
<1>5. PICK m \in Nat : m = Len(s)
  BY <1>4
<1>6. HeaderAt(s, m + 1) \in Nat
  BY <1>4, <1>5, PlacesAreNumbers
<1>7. ProcessInv(p) /\ moved[h] \in Nat /\ Header \in Nat /\ Header > 0
      /\ at[p] \in {"top", "poll", "header", "payload", "finished"}
  BY <1>2, EndFacts, CommandAssumption DEF CommandInv, CommandTypeOK
<1>8. CASE at[p] = "header"
  <2>1. m = Len(frames[p]) + 1 /\ s[m].header = hb /\ s[m].size \in Sizes
        /\ Len(frames[p]) \in Nat
    BY <1>1, <1>3, <1>4, <1>5, <1>8, AnnouncedFacts, FrameFacts DEF CommandInv
  <2>2. PICK z \in Nat : z = s[m].size
    BY <2>1, CommandAssumption
  <2>3. HeaderAt(s, m + 1) = hb + Header + (IF kind = "write" THEN z ELSE 0)
    BY <1>5, <2>1, <2>2 DEF HeaderAt
  <2>4. moved[h] <= hb + Header
    BY <1>2, <1>3, <1>7, <1>8, TransferBounded DEF ProcessInv
  <2>5. moved[h] < HeaderAt(s, m + 1) + Header
    BY <1>7, <2>3, <2>4
  <2> QED
    BY <1>1, <1>2, <1>4, <1>5, <1>6, <2>5
<1>9. CASE at[p] # "header"
  <2>1. HeaderAt(s, m + 1) = hb
    BY <1>1, <1>3, <1>4, <1>5, <1>9 DEF Announced, HeaderPlace
  <2>2. moved[h] < hb + Header
    <3>1. CASE at[p] \in {"top", "poll"}
      BY <1>2, <1>3, <1>7, <3>1 DEF ProcessInv, AtRest
    <3>2. CASE at[p] = "finished"
      BY <1>2, <1>3, <1>7, <3>2 DEF ProcessInv
    <3>3. CASE at[p] = "payload" /\ kind = "read"
      BY <1>2, <1>3, <1>7, <3>3 DEF ProcessInv, AtRest
    <3>4. CASE at[p] = "payload" /\ kind = "write"
      <4>1. PICK b \in Nat, n \in Nat : b = Current(p).payload /\ n = Current(p).size
        BY <1>7, <3>4, FrameFacts DEF ProcessInv
      <4>2. moved[h] <= b + n
        BY <1>2, <1>7, <3>4, <4>1, TransferBounded DEF ProcessInv
      <4>3. hb = b + n
        BY <1>3, <1>7, <3>4, <4>1, NextPlaces DEF ProcessInv
      <4> QED
        BY <1>7, <4>2, <4>3
    <3> QED
      BY <1>2, <1>7, <1>9, <3>1, <3>2, <3>3, <3>4
  <2> QED
    BY <1>1, <1>2, <1>4, <1>5, <1>6, <2>1, <2>2
<1> QED
  BY <1>8, <1>9

\* The frame a process begins is at its next places.
LEMMA FrameBegins ==
  ASSUME CommandInv, NEW p \in Processes, BeginPayload(p)
  PROVE  \E f \in Frame :
           /\ f.header = HeaderPlace(p) /\ f.payload = PayloadPlace(p)
           /\ f.size \in IF p = "client" THEN {size[p]} ELSE Decoded(HeaderPlace(p))
           /\ size' = [size EXCEPT ![p] = f.size]
           /\ frames' = [frames EXCEPT ![p] = Append(@, f)]
           /\ Call(PayloadEnd(p), f.size)
           /\ AtRest(PayloadEnd(p), f.payload)
           /\ AtRest(HeaderEnd(p), f.header + Header)
<1>1. PICK h \in Ends, y \in Ends :
        /\ h = HeaderEnd(p) /\ y = PayloadEnd(p) /\ PipeInv
        /\ kind = "write" => y = h
        /\ kind \in {"write", "read"}
  BY EndsOfProcesses DEF CommandInv, CommandTypeOK
<1>2. PICK hb \in Nat, yb \in Nat : hb = HeaderPlace(p) /\ yb = PayloadPlace(p)
  BY FrameFacts
<1>3. /\ at[p] = "header" /\ call[h] = "idle" /\ result[h] = "true" /\ ProcessInv(p)
  BY <1>1 DEF BeginPayload, CommandInv
<1>4. moved[h] = hb + Header
  BY <1>1, <1>2, <1>3 DEF ProcessInv, InTransfer
<1>5. AtRest(h, hb + Header) /\ moved[h] - Header = hb
  BY <1>3, <1>4, CommandAssumption DEF AtRest
<1>6. AtRest(y, yb)
  <2>1. CASE kind = "write"
    <3>1. yb = hb + Header
      BY <1>2, <2>1 DEF HeaderPlace, PayloadPlace, PayloadAt
    <3> QED
      BY <1>1, <1>5, <2>1, <3>1
  <2>2. CASE kind = "read"
    BY <1>1, <1>2, <1>3, <2>2 DEF ProcessInv
  <2> QED
    BY <1>1, <2>1, <2>2
<1>7. moved[y] = yb
  BY <1>6 DEF AtRest
<1>8. PICK n \in (IF p = "client" THEN {size[p]} ELSE Decoded(hb)) :
        /\ size' = [size EXCEPT ![p] = n]
        /\ frames' = [frames EXCEPT ![p] =
             Append(@, [header |-> hb, payload |-> yb, size |-> n])]
        /\ Call(y, n)
  BY <1>1, <1>5, <1>7 DEF BeginPayload
<1>9. n \in Sizes
  <2>1. CASE p = "client"
    BY <1>3, <1>8, <2>1 DEF CommandInv
  <2>2. CASE p # "client"
    <3>1. \A g \in headers : g.size \in Sizes
      BY DEF CommandInv, CommandTypeOK
    <3> QED
      BY <1>8, <2>2, <3>1 DEF Decoded
  <2> QED
    BY <2>1, <2>2
<1>10. PICK f \in Frame : f = [header |-> hb, payload |-> yb, size |-> n]
  BY <1>9 DEF Frame
<1>11. f.header = hb /\ f.payload = yb /\ f.size = n
  BY <1>10
<1> QED
  BY <1>1, <1>2, <1>5, <1>6, <1>8, <1>10, <1>11

\* It makes the chain of its process longer.
LEMMA FrameKeeps ==
  ASSUME CommandInv, NEW p \in Processes, BeginPayload(p)
  PROVE  /\ PipeInv' /\ CommandTypeOK'
         /\ \A q \in Processes : Chained(frames[q])' /\ ProcessInv(q)'
<1>0. /\ UNCHANGED <<kind, threads, packages, message, headers>>
      /\ at' = [at EXCEPT ![p] = "payload"] /\ at'[p] = "payload" /\ at[p] = "header"
      /\ \A q \in Processes : q # p => at'[q] = at[q]
      /\ at' \in [Processes -> {"top", "poll", "header", "payload", "finished"}]
      /\ kind \in {"write", "read"}
  BY DEF BeginPayload, Goto, CommandInv, CommandTypeOK
<1>1. PICK f \in Frame :
        /\ f.header = HeaderPlace(p) /\ f.payload = PayloadPlace(p)
        /\ size' = [size EXCEPT ![p] = f.size]
        /\ frames' = [frames EXCEPT ![p] = Append(@, f)]
        /\ Call(PayloadEnd(p), f.size)
        /\ AtRest(PayloadEnd(p), f.payload)
        /\ AtRest(HeaderEnd(p), f.header + Header)
  BY FrameBegins
<1>2. PICK b \in Nat, yb \in Nat, n \in Nat : b = f.header /\ yb = f.payload /\ n = f.size
  BY CommandAssumption DEF Frame
<1>3. PICK h \in Ends, y \in Ends :
        /\ h = HeaderEnd(p) /\ y = PayloadEnd(p) /\ PipeInv
        /\ kind = "read" => y # h
  BY <1>0, EndsOfProcesses DEF CommandInv
<1>4. PICK s \in Seq(Frame) : s = frames[p] /\ Chained(s) /\ Len(s) \in Nat
  BY FrameFacts
<1>5. PICK t \in Seq(Frame) :
        /\ t = Append(s, f) /\ Chained(t) /\ Len(t) = Len(s) + 1 /\ t[Len(s) + 1] = f
  BY <1>1, <1>4, ChainGrows DEF HeaderPlace, PayloadPlace
<1>6. /\ frames'[p] = t /\ \A q \in Processes : q # p => frames'[q] = frames[q]
      /\ frames' \in [Processes -> Seq(Frame)]
  BY <1>1, <1>4, <1>5 DEF CommandInv, CommandTypeOK, Frame
<1>7. PipeInv'
  BY <1>1, <1>2, <1>3, CallKeeps
<1>8. CommandTypeOK'
  <2>1. size' \in [Processes -> Sizes \cup {0}]
    BY <1>1 DEF CommandInv, CommandTypeOK, Frame
  <2> QED
    BY <1>0, <1>6, <1>7, <2>1 DEF PipeInv, CommandInv, CommandTypeOK, Frame
<1>9. \A x \in Ends : x # y => Same(x)
  BY <1>1, <1>2, <1>3, OthersSame
<1>10. Chained(frames[p])' /\ ProcessInv(p)'
  <2>1. Chained(frames[p])'
    BY <1>0, <1>5, <1>6 DEF Chained, HeaderAt, PayloadAt
  <2>2. HeaderEnd(p)' = h /\ PayloadEnd(p)' = y
    BY <1>0, <1>3 DEF HeaderEnd, PayloadEnd
  <2>3. Current(p)' = f /\ frames'[p] # <<>>
    <3>1. Current(p)' = f
      BY <1>4, <1>5, <1>6 DEF Current
    <3>2. t # <<>>
      BY <1>4, <1>5
    <3> QED
      BY <1>6, <3>1, <3>2
  <2>4. kind = "read" => HeaderPlace(p)' = b + Header
    <3>1. Len(t) + 1 # 1 /\ (Len(t) + 1) - 1 = Len(s) + 1
      BY <1>4, <1>5
    <3>2. HeaderPlace(p)' = HeaderAt(t, Len(t) + 1)'
      BY <1>6 DEF HeaderPlace
    <3>3. kind = "read" => HeaderAt(t, Len(t) + 1)' = f.header + Header + 0
      BY <1>0, <1>5, <3>1 DEF HeaderAt
    <3> QED
      BY <1>2, <3>2, <3>3, CommandAssumption
  <2>5. InTransfer(y, yb, n)' /\ moved' = moved
    <3>1. AtRest(y, yb) /\ Call(y, n)
      BY <1>1, <1>2, <1>3
    <3> QED
      BY <1>3, <3>1, TransferBegins DEF Call
  <2>6. AtRest(h, b + Header)
    BY <1>1, <1>2, <1>3
  <2>7. kind = "read" => AtRest(h, b + Header)'
    BY <1>3, <1>9, <2>6 DEF AtRest, Same
  <2>8. moved'[h] >= b + Header
    BY <2>5, <2>6, CommandAssumption DEF AtRest
  <2>9. packages[p] < Commands
    BY <1>0 DEF CommandInv, ProcessInv
  <2>10. ProcessInv(p)'
    BY <1>0, <1>2, <2>2, <2>3, <2>4, <2>5, <2>7, <2>8, <2>9 DEF ProcessInv
  <2> QED
    BY <2>1, <2>10
<1>11. ASSUME NEW q \in Processes, q # p PROVE Chained(frames[q])' /\ ProcessInv(q)'
  <2>1. PICK x \in Ends, z \in Ends : /\ x = HeaderEnd(q) /\ z = PayloadEnd(q)
                                      /\ x # y /\ z # y
    BY <1>0, <1>3, <1>11, EndsOfProcesses
  <2>2. Same(x) /\ Same(z)
    BY <1>9, <2>1
  <2> QED
    BY <1>0, <1>6, <1>11, <2>1, <2>2, OtherKeeps DEF Same
<1> QED
  BY <1>7, <1>8, <1>10, <1>11

\* The client begins the frame it has announced.
LEMMA ClientBegins ==
  ASSUME CommandInv, BeginPayload("client")
  PROVE  CommandInv'
<1>0. "client" \in Processes
  BY DEF Processes
<1>1. /\ UNCHANGED <<kind, headers>>
      /\ at["client"] = "header" /\ at'["client"] = "payload"
  BY <1>0 DEF BeginPayload, Goto, CommandInv, CommandTypeOK
<1>2. PICK f \in Frame :
        /\ f.header = HeaderPlace("client") /\ f.payload = PayloadPlace("client")
        /\ f.size = size["client"]
        /\ size' = [size EXCEPT !["client"] = f.size]
        /\ frames' = [frames EXCEPT !["client"] = Append(@, f)]
  <2>1. \E f \in Frame :
          /\ f.header = HeaderPlace("client") /\ f.payload = PayloadPlace("client")
          /\ f.size \in {size["client"]}
          /\ size' = [size EXCEPT !["client"] = f.size]
          /\ frames' = [frames EXCEPT !["client"] = Append(@, f)]
    BY <1>0, FrameBegins
  <2> QED
    BY <2>1
<1>3. f = [header |-> HeaderPlace("client"), payload |-> PayloadPlace("client"),
           size |-> size["client"]]
  BY <1>2 DEF Frame
<1>4. /\ frames'["client"] = Append(frames["client"], f)
      /\ frames'["server"] = frames["server"]
  BY <1>2 DEF CommandInv, CommandTypeOK, Processes
<1>5. Announced' = Announced
  BY <1>1, <1>3, <1>4 DEF Announced
<1>6. HeadersInv'
  BY <1>1, <1>5 DEF CommandInv, HeadersInv, HeaderAt
<1>7. ServerFollows'
  BY <1>4, <1>5 DEF CommandInv, ServerFollows
<1> QED
  BY <1>0, <1>1, <1>6, <1>7, FrameKeeps DEF CommandInv

\* The server has read a whole header at its next place.  The client has announced
\* one there, the only one, and so the server begins the same frame.
LEMMA ServerBegins ==
  ASSUME CommandInv, BeginPayload("server")
  PROVE  CommandInv'
<1>0. PICK p \in Processes : p = "server" /\ p # "client"
  BY DEF Processes
<1>1. /\ UNCHANGED <<kind, headers>> /\ at'["client"] = at["client"]
  BY <1>0 DEF BeginPayload, Goto, CommandInv, CommandTypeOK, Processes
<1>2. PICK f \in Frame :
        /\ f.header = HeaderPlace(p) /\ f.payload = PayloadPlace(p)
        /\ f.size \in Decoded(HeaderPlace(p))
        /\ size' = [size EXCEPT ![p] = f.size]
        /\ frames' = [frames EXCEPT ![p] = Append(@, f)]
        /\ AtRest(HeaderEnd(p), f.header + Header)
  <2>1. BeginPayload(p)
    BY <1>0
  <2>2. \E f \in Frame :
          /\ f.header = HeaderPlace(p) /\ f.payload = PayloadPlace(p)
          /\ f.size \in IF p = "client" THEN {size[p]} ELSE Decoded(HeaderPlace(p))
          /\ size' = [size EXCEPT ![p] = f.size]
          /\ frames' = [frames EXCEPT ![p] = Append(@, f)]
          /\ AtRest(HeaderEnd(p), f.header + Header)
    BY <2>1, FrameBegins
  <2> QED
    BY <1>0, <2>2
<1>3. PICK s \in Seq(Frame), a \in Seq(Frame) :
        /\ s = frames[p] /\ a = Announced /\ Chained(a)
  BY FrameFacts, AnnouncedFacts
<1>4. PICK k \in Nat, m \in Nat : k = Len(s) /\ m = Len(a)
  BY <1>3
<1>5. k <= m /\ \A i \in 1 .. k : s[i] = a[i]
  BY <1>0, <1>3, <1>4 DEF CommandInv, ServerFollows
<1>6. PICK b \in Nat : /\ b = f.header /\ b = HeaderAt(a, k + 1)
                       /\ f.payload = PayloadAt(a, k + 1)
  <2>1. k + 1 \in Nat \ {0} /\ (k + 1) - 1 = k
    BY <1>4
  <2>2. HeaderAt(s, k + 1) = HeaderAt(a, k + 1) /\ PayloadAt(s, k + 1) = PayloadAt(a, k + 1)
    BY <1>3, <1>4, <1>5, <2>1, PlacesAgree
  <2>3. f.header \in Nat
    BY DEF Frame
  <2> QED
    BY <1>2, <1>3, <1>4, <2>2, <2>3 DEF HeaderPlace, PayloadPlace
<1>7. k < m
  <2>1. SUFFICES ASSUME k = m PROVE FALSE
    BY <1>4, <1>5
  <2>2. moved[HeaderEnd("client")] < b + Header
    BY <1>3, <1>4, <1>6, <2>1, ClientWithinAnnounced
  <2>3. moved[HeaderEnd("server")] = b + Header
    BY <1>0, <1>2, <1>6 DEF AtRest
  <2>4. moved[HeaderEnd("server")] <= moved[HeaderEnd("client")]
    BY ReaderIsBehind DEF CommandInv
  <2>5. moved[HeaderEnd("client")] \in Nat
    <3>1. PICK x \in Ends : x = HeaderEnd("client")
      BY EndsOfProcesses DEF Processes, CommandInv, CommandTypeOK
    <3> QED
      BY <3>1, EndFacts DEF CommandInv
  <2> QED
    BY <2>2, <2>3, <2>4, <2>5, CommandAssumption
<1>8. PICK g \in Frame : g = a[k + 1] /\ k + 1 \in 1 .. m
  BY <1>3, <1>4, <1>7
<1>9. g.header = b /\ g.payload = f.payload
  BY <1>3, <1>4, <1>6, <1>8 DEF Chained
<1>10. [at |-> b, size |-> g.size] \in headers
  BY <1>3, <1>4, <1>8, <1>9 DEF CommandInv, HeadersInv
<1>11. f.size = g.size
  <2> DEFINE here == {x.size : x \in {z \in headers : z.at = b}}
  <2>1. \A x, z \in headers : x.at = z.at => x = z
    BY DEF CommandInv, HeadersInv
  <2>2. g.size \in here
    <3>1. PICK x \in headers : x = [at |-> b, size |-> g.size]
      BY <1>10
    <3>2. x.at = b /\ x.size = g.size
      BY <3>1
    <3> QED
      BY <3>2
  <2>3. \A n \in here : n = g.size
    <3> SUFFICES ASSUME NEW x \in headers, x.at = b PROVE x.size = g.size
      OBVIOUS
    <3>1. PICK z \in headers : z = [at |-> b, size |-> g.size]
      BY <1>10
    <3>2. z.at = b /\ z.size = g.size
      BY <3>1
    <3>3. x = z
      BY <2>1, <3>2
    <3> QED
      BY <3>2, <3>3
  <2>4. Decoded(b) = here
    BY <2>2 DEF Decoded
  <2>5. f.size \in here
    BY <1>2, <1>6, <2>4
  <2> QED
    BY <2>3, <2>5
<1>12. f = g
  <2>1. \A x \in Frame : x = [header |-> x.header, payload |-> x.payload, size |-> x.size]
    BY DEF Frame
  <2>2. f.header = g.header /\ f.payload = g.payload /\ f.size = g.size
    BY <1>6, <1>9, <1>11
  <2> QED
    BY <2>1, <2>2, Zenon
<1>13. /\ frames'["client"] = frames["client"] /\ frames'[p] = Append(s, f)
       /\ size'["client"] = size["client"]
  BY <1>0, <1>2, <1>3 DEF CommandInv, CommandTypeOK, Processes
<1>14. Announced' = Announced /\ HeadersInv'
  BY <1>1, <1>13, AnnouncedKept
<1>15. PICK t \in Seq(Frame) :
         /\ t = Append(s, f) /\ Len(t) = k + 1 /\ t[k + 1] = f
         /\ \A i \in 1 .. k : t[i] = s[i]
  <2> DEFINE u == Append(s, f)
  <2>1. /\ u \in Seq(Frame) /\ Len(u) = Len(s) + 1 /\ u[Len(s) + 1] = f
        /\ \A i \in 1 .. Len(s) : u[i] = s[i]
    OBVIOUS
  <2> HIDE DEF u
  <2>2. Len(u) = k + 1 /\ u[k + 1] = f /\ \A i \in 1 .. k : u[i] = s[i]
    BY <1>4, <2>1
  <2> QED
    BY <2>1, <2>2 DEF u
<1>16. ServerFollows'
  <2>1. k + 1 <= m /\ \A i \in 1 .. k + 1 : t[i] = a[i]
    BY <1>4, <1>5, <1>7, <1>8, <1>12, <1>15
  <2>2. frames'["server"] = t /\ Announced' = a
    BY <1>0, <1>3, <1>13, <1>14, <1>15
  <2> QED
    BY <1>3, <1>4, <1>15, <2>1, <2>2 DEF ServerFollows
<1> QED
  BY <1>0, <1>1, <1>13, <1>14, <1>16, FrameKeeps DEF CommandInv

-----------------------------------------------------------------------------
(* The theorems.                                                           *)

\* Initially nothing has been sent.
LEMMA CommandInitInv == CommandInit => CommandInv
<1> SUFFICES ASSUME CommandInit PROVE CommandInv
  OBVIOUS
<1>1. PipeInv
  BY PipeInitInv DEF CommandInit
<1>2. /\ kind \in {"write", "read"}
      /\ \A p \in Processes : /\ at[p] = "top" /\ packages[p] = 0 /\ size[p] = 0
                              /\ frames[p] = <<>>
      /\ headers = {} /\ message = FALSE /\ threads \in BOOLEAN
      /\ "client" \in Processes /\ "server" \in Processes
  BY DEF CommandInit, Processes
<1>3. CommandTypeOK
  <2>1. 0 \in 0 .. Commands /\ <<>> \in Seq([header : Nat, payload : Nat, size : Sizes])
    BY CommandAssumption
  <2>2. /\ packages \in [Processes -> 0 .. Commands]
        /\ frames \in [Processes -> Seq([header : Nat, payload : Nat, size : Sizes])]
        /\ size \in [Processes -> Sizes \cup {0}]
        /\ at \in [Processes -> {"top", "poll", "header", "payload", "finished"}]
    BY <2>1 DEF CommandInit
  <2> QED
    BY <1>1, <1>2, <2>2 DEF PipeInv, CommandTypeOK
<1>4. Len(<<>>) = 0
  OBVIOUS
<1>5. ASSUME NEW p \in Processes PROVE Chained(frames[p]) /\ ProcessInv(p)
  <2>1. Chained(frames[p])
    BY <1>2, <1>4 DEF Chained
  <2>2. HeaderPlace(p) = 0 /\ (kind = "read" => PayloadPlace(p) = 0)
    BY <1>2, <1>4 DEF HeaderPlace, PayloadPlace, HeaderAt, PayloadAt
  <2>3. \A e \in Ends : AtRest(e, 0)
    BY DEF CommandInit, PipeInit, AtRest
  <2> QED
    BY <1>2, <2>1, <2>2, <2>3, EndsOfProcesses DEF ProcessInv
<1>6. Announced = <<>>
  BY <1>2 DEF Announced
<1>7. HeadersInv /\ ServerFollows
  BY <1>2, <1>4, <1>6 DEF HeadersInv, ServerFollows
<1> QED
  BY <1>1, <1>2, <1>3, <1>5, <1>7 DEF CommandInv

\* Every step of the two programs and of their calls keeps the invariant.
THEOREM CommandInvariant == CommandSpec => []CommandInv
<1>1. CommandInv /\ [CommandNext]_commandVars => CommandInv'
  <2> SUFFICES ASSUME CommandInv, [CommandNext]_commandVars PROVE CommandInv'
    OBVIOUS
  <2>1. ASSUME NEW p \in Processes, BeginPayload(p) PROVE CommandInv'
    <3>1. CASE p = "client"
      BY <2>1, <3>1, ClientBegins
    <3>2. CASE p = "server"
      BY <2>1, <3>2, ServerBegins
    <3> QED
      BY <3>1, <3>2 DEF Processes
  <2>2. ASSUME NEW p \in Processes, Program(p) PROVE CommandInv'
    BY <2>1, <2>2, SendHeaderKeeps, PollKeeps, ReceiveHeaderKeeps, EndPayloadKeeps,
       BreakKeeps, FinishKeeps DEF Program
  <2>3. ASSUME NEW p \in Processes, InCall(p) \/ RunOut(p) PROVE CommandInv'
    BY <2>3, InCallKeeps
  <2>4. CASE UNCHANGED commandVars
    <3>1. /\ UNCHANGED <<moved, room, pending, call, request, done, result>>
          /\ UNCHANGED <<kind, threads, at, packages, size, message, headers, frames>>
      BY <2>4 DEF commandVars, pipeVars
    <3>2. PipeInv'
      BY <3>1 DEF CommandInv, PipeInv, PipeTypeOK, RoomIsSafe, Exact
    <3>3. CommandTypeOK'
      BY <3>1, <3>2 DEF CommandInv, PipeInv, CommandTypeOK
    <3>4. ASSUME NEW q \in Processes PROVE Chained(frames[q])' /\ ProcessInv(q)'
      BY <3>1, OtherKeeps DEF Same
    <3>5. Announced' = Announced /\ HeadersInv'
      BY <3>1, AnnouncedKept
    <3> QED
      BY <3>1, <3>2, <3>3, <3>4, <3>5 DEF CommandInv, ServerFollows
  <2> QED
    BY <2>2, <2>3, <2>4 DEF CommandNext
<1> QED
  BY <1>1, CommandInitInv, PTL DEF CommandSpec

\* The counters stay within the number of commands and the sizes that the server
\* decodes are sizes that the client may pick.
THEOREM CommandTypes == CommandSpec => []CommandTypeOK
<1>1. CommandInv => CommandTypeOK
  BY DEF CommandInv
<1> QED
  BY <1>1, CommandInvariant, PTL

\* Whatever transfers time out half done, client and server divide the streams into
\* commands alike: the frames of the one are the first of the frames of the other.
THEOREM FramesAgree == CommandSpec => []SameFrames
<1>1. CommandInv => SameFrames
  <2> SUFFICES ASSUME CommandInv, NEW i \in 1 .. Commands,
                      i <= Len(frames["client"]), i <= Len(frames["server"])
               PROVE  frames["client"][i] = frames["server"][i]
    BY DEF SameFrames
  <2>1. PICK n \in Nat, k \in Nat : n = Len(frames["client"]) /\ k = Len(frames["server"])
    BY FrameFacts DEF Processes
  <2>2. i \in 1 .. n /\ i \in 1 .. k
    BY <2>1, CommandAssumption
  <2> QED
    BY <2>1, <2>2, AnnouncedFacts DEF CommandInv, ServerFollows
<1> QED
  BY <1>1, CommandInvariant, PTL
=============================================================================
