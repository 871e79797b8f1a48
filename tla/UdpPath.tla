-------------------------------- MODULE UdpPath --------------------------------
(***************************************************************************)
(* How a transaction gets from Submit of the gateway to the orderer: over  *)
(* UDP to the sequencer (sequencer/sequencer.go, port 7072) and from there *)
(* to the UDP server of the orderer (orderer/common/server/udpServer.go,   *)
(* port 7073).                                                             *)
(*                                                                         *)
(* The network may lose, duplicate and reorder datagrams, and a socket     *)
(* drops what arrives while its queue is full.  A datagram is the envelope *)
(* and StampBytes more; all senders write zeroes there and no receiver     *)
(* acts on them, so a datagram is known by its envelope.                   *)
(***************************************************************************)
EXTENDS Envelopes, FiniteSets

CONSTANTS BufferBytes,    \* of the two receive buffers, 10240
          DatagramBytes,  \* the most that conn.Write can send
          StampBytes,     \* 2
          QueueLimit,     \* datagrams that a socket holds
          MaxLost,        \* bound on the datagrams the network loses or forward fails to send
          MaxDuplicated   \* bound on the datagrams the network duplicates

ASSUME UdpConstants ==
  /\ BufferBytes \in Nat /\ DatagramBytes \in Nat /\ StampBytes \in Nat
  /\ QueueLimit \in Nat \ {0}
  /\ MaxLost \in Nat /\ MaxDuplicated \in Nat

Hop == {"sequencer", "orderer"}

VARIABLES
  response,      \* of Submit: none, OK or error
  wire,          \* per hop and envelope: how many copies are on the way to it
  queue,         \* per hop: the datagrams its socket holds
  processing,    \* the envelopes the UDP server is working on: none or one
  offered,       \* per envelope: how often the UDP server was done with it
  lost, duplicated,     \* how many in total
  dropped,       \* history: copies of each envelope that came to nothing
  copied         \* history: copies of each envelope the network added

uvars == <<response, wire, queue, processing, offered, lost, duplicated, dropped, copied>>

UInit ==
  /\ response = [m \in Message |-> "none"]
  /\ wire = [h \in Hop |-> [m \in Message |-> 0]]
  /\ queue = [h \in Hop |-> <<>>]
  /\ processing = {}
  /\ offered = [m \in Message |-> 0]
  /\ lost = 0 /\ duplicated = 0
  /\ dropped = [m \in Message |-> 0]
  /\ copied = [m \in Message |-> 0]

DatagramSize(m) == m.size + StampBytes

\* A buffer that is too small gets the head of the datagram, which is not an envelope (or, cut
\* between its two fields, one without a signature, which no orderer accepts).
Parses(m) == DatagramSize(m) <= BufferBytes

Drop(m) == dropped' = [dropped EXCEPT ![m] = @ + 1]

\* submitNonBFT: the answer tells how the local calls went, up to conn.Write, which refuses what
\* exceeds a datagram; any of them may also fail for reasons of its own.
submitNonBFT(m) ==
  \E sent \in BOOLEAN :
    /\ sent => DatagramSize(m) <= DatagramBytes
    /\ response[m] = "none"
    /\ response' = [response EXCEPT ![m] = IF sent THEN "OK" ELSE "error"]
    /\ wire' = IF sent THEN [wire EXCEPT !["sequencer"][m] = @ + 1] ELSE wire
    /\ UNCHANGED <<queue, processing, offered, lost, duplicated, dropped, copied>>

--------------------------------------------------------------------------------
(* The network *)

Lose(h, m) ==
  /\ wire[h][m] > 0 /\ lost < MaxLost
  /\ lost' = lost + 1
  /\ wire' = [wire EXCEPT ![h][m] = @ - 1]
  /\ Drop(m)
  /\ UNCHANGED <<response, queue, processing, offered, duplicated, copied>>

Duplicate(h, m) ==
  /\ wire[h][m] > 0 /\ duplicated < MaxDuplicated
  /\ duplicated' = duplicated + 1
  /\ wire' = [wire EXCEPT ![h][m] = @ + 1]
  /\ copied' = [copied EXCEPT ![m] = @ + 1]
  /\ UNCHANGED <<response, queue, processing, offered, lost, dropped>>

\* In any order.
Arrive(h, m) ==
  /\ wire[h][m] > 0
  /\ wire' = [wire EXCEPT ![h][m] = @ - 1]
  /\ IF Len(queue[h]) < QueueLimit
     THEN queue' = [queue EXCEPT ![h] = Append(@, m)] /\ UNCHANGED dropped
     ELSE UNCHANGED queue /\ Drop(m)
  /\ UNCHANGED <<response, processing, offered, lost, duplicated, copied>>

--------------------------------------------------------------------------------
(* The receivers *)

\* Variant of Forward that sends everything twice.
ForwardTwice ==
  LET m == Head(queue["sequencer"])
  IN  /\ queue["sequencer"] # <<>>
      /\ queue' = [queue EXCEPT !["sequencer"] = Tail(@)]
      /\ wire' = [wire EXCEPT !["orderer"][m] = @ + 2]
      /\ UNCHANGED <<response, processing, offered, lost, duplicated, dropped, copied>>

\* An iteration of the sequencer: it goes on with the next datagram if this one does not
\* parse.  The acknowledgement goes to a socket that broadcastByUDP has closed.
Forward ==
  LET m == Head(queue["sequencer"])
  IN  /\ queue["sequencer"] # <<>>
      /\ queue' = [queue EXCEPT !["sequencer"] = Tail(@)]
      /\ IF Parses(m)
         THEN wire' = [wire EXCEPT !["orderer"][m] = @ + 1] /\ UNCHANGED dropped
         ELSE UNCHANGED wire /\ Drop(m)
      /\ UNCHANGED <<response, processing, offered, lost, duplicated, copied>>

\* forward returns an error, which the sequencer prints and forgets.
ForwardFails ==
  LET m == Head(queue["sequencer"])
  IN  /\ queue["sequencer"] # <<>> /\ Parses(m)
      /\ lost < MaxLost
      /\ lost' = lost + 1
      /\ queue' = [queue EXCEPT !["sequencer"] = Tail(@)]
      /\ Drop(m)
      /\ UNCHANGED <<response, wire, processing, offered, duplicated, copied>>

\* The UDP server of the orderer reads a datagram.
ReadFromUDP ==
  LET m == Head(queue["orderer"])
  IN  /\ processing = {} /\ queue["orderer"] # <<>>
      /\ queue' = [queue EXCEPT !["orderer"] = Tail(@)]
      /\ IF Parses(m)
         THEN processing' = {m} /\ UNCHANGED dropped
         ELSE UNCHANGED processing /\ Drop(m)
      /\ UNCHANGED <<response, wire, offered, lost, duplicated, copied>>

\* Variant of Process that stays with an envelope the orderer has seen before.
ProcessFirst(m) ==
  /\ m \in processing /\ offered[m] = 0
  /\ processing' = {}
  /\ offered' = [offered EXCEPT ![m] = @ + 1]
  /\ UNCHANGED <<response, wire, queue, lost, duplicated, dropped, copied>>

\* Validation and Order or Configure, which NoPaxosChain has step by step: until they return,
\* with whatever outcome, the server reads nothing.
Process(m) ==
  /\ m \in processing
  /\ processing' = {}
  /\ offered' = [offered EXCEPT ![m] = @ + 1]
  /\ UNCHANGED <<response, wire, queue, lost, duplicated, dropped, copied>>

--------------------------------------------------------------------------------
Network(h, m) == Lose(h, m) \/ Duplicate(h, m) \/ Arrive(h, m)

UNext ==
  \/ \E m \in Message : submitNonBFT(m) \/ Process(m)
  \/ \E h \in Hop, m \in Message : Network(h, m)
  \/ Forward \/ ForwardFails \/ ReadFromUDP

USpec == UInit /\ [][UNext]_uvars

\* A datagram that is not lost arrives, and both loops go on as long as there is something to
\* read; the orderer's handlers return (HandlersReturn of NoPaxosChain).
Fairness ==
  /\ \A h \in Hop, m \in Message : WF_uvars(Arrive(h, m))
  /\ WF_uvars(Forward) /\ WF_uvars(ReadFromUDP)
  /\ \A m \in Message : WF_uvars(Process(m))

UFairSpec == USpec /\ Fairness

--------------------------------------------------------------------------------
(* Properties *)

InQueue(h, m) == Cardinality({i \in DOMAIN queue[h] : queue[h][i] = m})
OnTheWay(h, m) == wire[h][m] + InQueue(h, m)

\* The sequencer and the UDP server make no copies and lose none: each envelope that Submit
\* sent, and each copy the network made of it, is at every moment on one wire, in one socket,
\* with the server, through, or accounted for as dropped.
CopiesAreConserved ==
  \A m \in Message :
    (IF response[m] = "OK" THEN 1 ELSE 0) + copied[m] =
      OnTheWay("sequencer", m) + OnTheWay("orderer", m)
      + (Cardinality(processing \cap {m}) + offered[m] + dropped[m])

\* A submitted envelope does not stay on the path for ever, not even behind one the orderer is
\* still working on: some copy of it gets through, or one has been dropped.
PathIsDrained ==
  \A m \in Message : response[m] = "OK" ~> offered[m] > 0 \/ dropped[m] > 0

\* What Submit reports as sent is received by the orderer.
SubmittedIsReceived ==
  \A m \in Message : response[m] = "OK" ~> offered[m] > 0
================================================================================
