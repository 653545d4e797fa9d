------------------------------- MODULE Command -------------------------------
(***************************************************************************)
(* The protocol of ESEmulationTest and TestOpenEvent: the client sends     *)
(* commands, each a header of a fixed size that holds the size of the      *)
(* payload.  The payload of a write command follows the header; that of a  *)
(* read command comes back from the server.  Nothing in the stream marks   *)
(* where a header begins, so both sides have to count alike, whatever      *)
(* transfers time out half done.                                           *)
(*                                                                         *)
(* The server polls for a whole header before it reads one.  Server and    *)
(* client are two threads that share globalMessage, or, in TestOpenEvent,  *)
(* two processes that do not.                                              *)
(***************************************************************************)
EXTENDS Pipe, Sequences

CONSTANTS
  Header,    \* INITIAL_PACKAGE_SIZE
  Sizes,     \* the sizes a client may pick
  Commands   \* NUMBER_OF_TEST_TRANSFERS

ASSUME CommandAssumption ==
  /\ Header \in Nat \ {0}
  /\ Sizes \subseteq Nat
  /\ Commands \in Nat
  /\ {"client", "server"} \subseteq Directions

VARIABLES
  kind,      \* the test: write commands or read commands
  threads,   \* the processes share globalMessage
  at,        \* where each process is in its program
  packages,  \* packageCounter
  size,      \* testSize, transferSize
  message,   \* globalMessage is not empty
  headers,   \* history: where in the stream a header begins, and what it holds
  frames     \* history: the payloads each process began, with their places

commandVars == <<pipeVars, kind, threads, at, packages, size, message, headers, frames>>

Request == "client"  \* the pipe of the headers, named after its writer
Processes == {"client", "server"}

HeaderEnd(p) == <<Request, IF p = "client" THEN "writer" ELSE "reader">>
PayloadEnd(p) ==
  IF kind = "write" THEN HeaderEnd(p)
                    ELSE <<"server", IF p = "client" THEN "reader" ELSE "writer">>

\* top, poll  at the loop condition; the server has the count (poll)
\* header, payload  in the transfer of the header, of the payload
CommandInit ==
  /\ PipeInit
  /\ kind \in {"write", "read"}
  /\ threads \in (IF kind = "read" THEN BOOLEAN ELSE {TRUE})
  /\ at = [p \in Processes |-> "top"]
  /\ packages = [p \in Processes |-> 0]
  /\ size = [p \in Processes |-> 0]
  /\ message = FALSE
  /\ headers = {}
  /\ frames = [p \in Processes |-> <<>>]

Goto(p, place) == at' = [at EXCEPT ![p] = place]

\* The loop condition of p.
GoesOn(p) == packages[p] < Commands /\ ~(message /\ (threads \/ p = "client"))

Finish(p) ==
  /\ at[p] = "top"
  /\ ~GoesOn(p)
  /\ Goto(p, "finished")
  /\ UNCHANGED <<pipeVars, kind, threads, packages, size, message, headers, frames>>

\* The client picks a size and sends the header.
SendHeader ==
  /\ at["client"] = "top"
  /\ GoesOn("client")
  /\ \E n \in Sizes :
       /\ size' = [size EXCEPT !["client"] = n]
       /\ headers' = headers \cup {[at |-> moved[HeaderEnd("client")], size |-> n]}
  /\ Call(HeaderEnd("client"), Header)
  /\ Goto("client", "header")
  /\ UNCHANGED <<kind, threads, packages, message, frames>>

\* The server asks how many bytes are available...
Poll ==
  /\ at["server"] = "top"
  /\ GoesOn("server")
  /\ Refresh(HeaderEnd("server"))
  /\ Goto("server", "poll")
  /\ UNCHANGED <<kind, threads, packages, size, message, headers, frames>>

\* ... and reads the header once it is all there.
ReceiveHeader ==
  /\ at["server"] = "poll"
  /\ IF room[HeaderEnd("server")] >= Header
     THEN Call(HeaderEnd("server"), Header) /\ Goto("server", "header")
     ELSE Goto("server", "top") /\ UNCHANGED pipeVars
  /\ UNCHANGED <<kind, threads, packages, size, message, headers, frames>>

\* What a header read from position b on says: the size its sender put there, or,
\* if no header begins there, anything.
Decoded(b) ==
  LET here == {h.size : h \in {g \in headers : g.at = b}}
  IN  IF here # {} THEN here ELSE Sizes

\* The header is through: the client knows the size, the server decodes it.  (It
\* breaks off when the size exceeds its memory, which no client of the tests picks.)
\* The payload begins where its pipe has come to.
BeginPayload(p) ==
  /\ at[p] = "header"
  /\ call[HeaderEnd(p)] = "idle"
  /\ result[HeaderEnd(p)] = "true"
  /\ LET base == moved[HeaderEnd(p)] - Header
     IN  \E n \in IF p = "client" THEN {size[p]} ELSE Decoded(base) :
           /\ size' = [size EXCEPT ![p] = n]
           /\ frames' = [frames EXCEPT ![p] =
                Append(@, [header |-> base, payload |-> moved[PayloadEnd(p)], size |-> n])]
           /\ Call(PayloadEnd(p), n)
  /\ Goto(p, "payload")
  /\ UNCHANGED <<kind, threads, packages, message, headers>>

\* The payload is through.
EndPayload(p) ==
  /\ at[p] = "payload"
  /\ call[PayloadEnd(p)] = "idle"
  /\ result[PayloadEnd(p)] = "true"
  /\ packages' = [packages EXCEPT ![p] = @ + 1]
  /\ Goto(p, "top")
  /\ UNCHANGED <<pipeVars, kind, threads, size, message, headers, frames>>

TimedOut(p) ==
  \/ at[p] = "header"  /\ call[HeaderEnd(p)] = "idle"  /\ result[HeaderEnd(p)] = "false"
  \/ at[p] = "payload" /\ call[PayloadEnd(p)] = "idle" /\ result[PayloadEnd(p)] = "false"

\* Mutants: a process goes on to the next command after a timeout, or drops the
\* failed one without a word.
RetryAfterTimeout(p) ==
  /\ TimedOut(p)
  /\ Goto(p, "top")
  /\ UNCHANGED <<pipeVars, kind, threads, packages, size, message, headers, frames>>

BreakQuietly(p) ==
  /\ TimedOut(p)
  /\ Goto(p, "finished")
  /\ UNCHANGED <<pipeVars, kind, threads, packages, size, message, headers, frames>>

\* A transfer has timed out: set globalMessage, where there is one, and break.
Break(p) ==
  /\ TimedOut(p)
  /\ message' = (message \/ threads \/ p = "client")
  /\ Goto(p, "finished")
  /\ UNCHANGED <<pipeVars, kind, threads, packages, size, headers, frames>>

Program(p) ==
  \/ p = "client" /\ SendHeader
  \/ p = "server" /\ (Poll \/ ReceiveHeader)
  \/ BeginPayload(p) \/ EndPayload(p) \/ Break(p) \/ Finish(p)

InCall(p) ==
  /\ \E e \in {HeaderEnd(p), PayloadEnd(p)} : Progress(e)
  /\ UNCHANGED <<kind, threads, at, packages, size, message, headers, frames>>

RunOut(p) ==
  /\ \E e \in {HeaderEnd(p), PayloadEnd(p)} : GiveUp(e)
  /\ UNCHANGED <<kind, threads, at, packages, size, message, headers, frames>>

CommandNext == \E p \in Processes : Program(p) \/ InCall(p) \/ RunOut(p)

\* Both processes are scheduled; no timeout has to run out.
CommandSpec ==
  /\ CommandInit /\ [][CommandNext]_commandVars
  /\ \A p \in Processes : WF_commandVars(Program(p) \/ InCall(p))

-----------------------------------------------------------------------------
(* Correctness.                                                            *)

CommandTypeOK ==
  /\ PipeTypeOK
  /\ kind \in {"write", "read"} /\ threads \in BOOLEAN /\ message \in BOOLEAN
  /\ at \in [Processes -> {"top", "poll", "header", "payload", "finished"}]
  /\ packages \in [Processes -> 0 .. Commands]
  /\ size \in [Processes -> Sizes \cup {0}]
  /\ headers \subseteq [at : Nat, size : Sizes]
  /\ frames \in [Processes -> Seq([header : Nat, payload : Nat, size : Sizes])]

\* Both sides divide the streams into commands alike: the n-th header the server
\* decodes is the n-th the client sent, with its size, and the payload begins at
\* the same byte for both.  A transfer that stops half way never lets a later
\* header, or the answer to another command, be taken for this one.
SameFrames ==
  \A i \in 1 .. Commands :
    i <= Len(frames["client"]) /\ i <= Len(frames["server"]) =>
      frames["client"][i] = frames["server"][i]

\* If a call that can do nothing gives up in time, the client ends, whatever the server
\* does; so does the server, as long as it shares the client's message.  (TestOpenEvent
\* polls for ever for the next header of a client that gave up.)
ProgramsEnd ==
  (\A p \in Processes : WF_commandVars(RunOut(p))) =>
    /\ <>(at["client"] = "finished")
    /\ threads => <>(at["server"] = "finished")

\* Unless a timeout runs out all the commands are carried out, with payloads larger
\* than the buffer too: neither side ever waits for what the other cannot send.
AllCarriedOut ==
  <>(\/ \A p \in Processes : at[p] = "finished" /\ packages[p] = Commands
     \/ \E e \in Ends : result[e] = "false")
=============================================================================
