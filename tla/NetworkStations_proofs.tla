------------------------ MODULE NetworkStations_proofs ------------------------
(* Proofs about NetworkStations, for any clients, stations, networks and
   bounds: the receiver thread and the main loop of a client; whole records,
   and events in their order, over an orderly network. *)
EXTENDS NetworkStations, SequenceTheorems, TLAPS

(* The datagram the transceiver handles is there. *)
CommandThere == transceiver = "handle" => command # <<>>

TypeInv == TypeOK /\ CommandThere

(* A function on a set of stations is a record. *)
LEMMA RecordOf ==
  ASSUME NEW S \in SUBSET Stations, NEW f, f \in [S -> Events \cup {Garbled}]
  PROVE  f \in Records /\ DOMAIN f = S
BY DEF Records

LEMMA RecordHas ==
  ASSUME NEW rec \in Records
  PROVE  /\ DOMAIN rec \subseteq Stations
         /\ \A s \in DOMAIN rec : rec[s] \in Events \cup {Garbled}
         /\ rec \in [DOMAIN rec -> Events \cup {Garbled}]
BY DEF Records

LEMMA RestIsRecord ==
  ASSUME NEW rec \in Records, NEW S \in SUBSET DOMAIN rec
  PROVE  [s \in S |-> rec[s]] \in Records
<1>1. S \in SUBSET Stations /\ [s \in S |-> rec[s]] \in [S -> Events \cup {Garbled}]
  BY RecordHas
<1>. QED
  BY <1>1, RecordOf

LEMMA MixtureIsRecord ==
  ASSUME NEW rec \in Records, NEW mixture \in MixturesOf(rec)
  PROVE  mixture \in Records
<1>1. PICK G \in SUBSET DOMAIN rec :
        mixture = [s \in DOMAIN rec |-> IF s \in G THEN Garbled ELSE rec[s]]
  BY DEF MixturesOf
<1>2. mixture \in [DOMAIN rec -> Events \cup {Garbled}] /\ DOMAIN rec \in SUBSET Stations
  BY <1>1, RecordHas
<1>. QED
  BY <1>2, RecordOf

LEMMA NoRecordIsRecord == NoRecord \in Records
<1>1. NoRecord \in [{} -> Events \cup {Garbled}]
  BY DEF NoRecord
<1>. QED
  BY <1>1, RecordOf

LEMMA PiecesType == ASSUME NEW rec PROVE PiecesOf(rec) \in Seq(Pieces)
<1>1. <<"whole">> \in Seq(Pieces) /\ <<"first", "second">> \in Seq(Pieces)
  BY DEF Pieces
<1>. QED
  BY <1>1 DEF PiecesOf

(* What a command leaves of the wire to the sender. *)
LEMMA TellType ==
  ASSUME NEW a \in Addresses, NEW cmd \in {"poll", "leave"}, up \in Seq(Commands), Tell(cmd, a)
  PROVE  up' \in Seq(Commands)
<1>1. [from |-> a, cmd |-> cmd] \in Commands
  BY DEF Commands
<1>. QED
  BY <1>1 DEF Tell

LEMMA SenderTypes ==
  ASSUME NetworkAssumption, TypeInv, Sender
  PROVE  TypeInv'
<1>. USE DEF TypeInv, TypeOK, CommandThere, sinkVars, listVars, clientVars, threadVars, stationVars, wires, settings
<1>1. ASSUME NEW s \in Stations, Produce(s) PROVE TypeInv'
  BY <1>1, NetworkAssumption DEF Produce, Events
<1>2. CASE PullEvent
  <2>1. PICK new \in SUBSET Stations :
          /\ record' \in {NoRecord, [s \in new |-> event[s]]}
          /\ \A a \in Addresses : sending'[a] \in {<<>>, PiecesOf([s \in new |-> event[s]])}
          /\ sending' = [a \in Addresses |-> sending'[a]]
    BY <1>2 DEF PullEvent
  <2>2. [s \in new |-> event[s]] \in Records
    <3>1. [s \in new |-> event[s]] \in [new -> Events \cup {Garbled}]
      OBVIOUS
    <3>. QED
      BY <3>1, RecordOf
  <2>3. record' \in Records
    BY <2>1, <2>2, NoRecordIsRecord
  <2>4. sending' \in [Addresses -> Seq(Pieces)]
    <3>1. \A a \in Addresses : sending'[a] \in Seq(Pieces)
      <4>1. <<>> \in Seq(Pieces) /\ PiecesOf([s \in new |-> event[s]]) \in Seq(Pieces)
        BY PiecesType
      <4>. QED
        BY ONLY <2>1, <4>1
    <3>. QED
      BY <2>1, <3>1
  <2>. QED
    BY <1>2, <2>3, <2>4 DEF PullEvent
<1>3. ASSUME NEW a \in Addresses, Send(a) PROVE TypeInv'
  <2>1. a[1] \in Clients
    BY DEF Addresses
  <2>2. Head(sending[a]) \in Pieces /\ Tail(sending[a]) \in Seq(Pieces)
    BY <1>3 DEF Send
  <2>3. [rec |-> record, piece |-> Head(sending[a])] \in Datagrams
    BY <2>2 DEF Datagrams
  <2>4. down' \in [Clients -> Seq(Datagrams)]
    <3>1. Append(down[a[1]], [rec |-> record, piece |-> Head(sending[a])]) \in Seq(Datagrams)
      BY <2>1, <2>3
    <3>. QED
      BY <1>3, <2>1, <3>1 DEF Send
  <2>5. sending' \in [Addresses -> Seq(Pieces)] /\ record' \in Records
    BY <1>3, <2>2, NoRecordIsRecord DEF Send
  <2>. QED
    BY <1>3, <2>4, <2>5 DEF Send
<1>4. CASE SinkClose
  BY <1>4 DEF SinkClose
<1>5. CASE SinkReceive
  <2>1. Head(up) \in Commands /\ Tail(up) \in Seq(Commands)
    BY <1>5 DEF SinkReceive
  <2>2. <<Head(up)>> \in Seq(Commands) /\ <<Head(up)>> # <<>> /\ <<>> \in Seq(Commands)
    BY <2>1
  <2>. QED
    BY <1>5, <2>1, <2>2 DEF SinkReceive
<1>6. CASE SinkTimeout
  BY <1>6 DEF SinkTimeout
<1>7. CASE Handle
  <2>1. command[1] \in Commands
    BY <1>7 DEF Handle
  <2>2. addresses' \subseteq Addresses
    BY <1>7, <2>1 DEF Handle, Commands
  <2>. QED
    BY <1>7, <2>2 DEF Handle
<1>. QED
  BY <1>1, <1>2, <1>3, <1>4, <1>5, <1>6, <1>7 DEF Sender

LEMMA ClientTypes ==
  ASSUME NetworkAssumption, TypeInv, NEW c \in Clients, Client(c)
  PROVE  TypeInv'
<1>. USE DEF TypeInv, TypeOK, CommandThere, sinkVars, listVars, clientVars, threadVars, stationVars, wires, settings
<1>1. CASE Start(c)
  <2>1. runs[c] + 1 \in 0..MaxRuns /\ <<c, runs[c] + 1>> \in Addresses
    BY <1>1, NetworkAssumption DEF Start, Addresses, Runs
  <2>2. runs' \in [Clients -> 0..MaxRuns]
    BY <1>1, <2>1 DEF Start
  <2>3. socket' \in [Clients -> 0..MaxRuns]
    <3>1. socket' = socket \/ socket' = [socket EXCEPT ![c] = runs[c] + 1]
      BY <1>1 DEF Start
    <3>2. socket \in [Clients -> 0..MaxRuns]
      OBVIOUS
    <3>. QED
      BY ONLY <2>1, <3>1, <3>2
  <2>4. main' \in [Clients -> {"idle", "starting", "loop"}]
    <3>1. main' \in {[main EXCEPT ![c] = "loop"], [main EXCEPT ![c] = "starting"]}
      BY <1>1 DEF Start
    <3>2. main \in [Clients -> {"idle", "starting", "loop"}]
      OBVIOUS
    <3>. QED
      BY ONLY <3>1, <3>2
  <2>5. receiver' \in [Addresses -> {"none", "recv", "part", "process", "signal", "leave", "ended"}]
    <3>1. receiver' = receiver \/ receiver' = [receiver EXCEPT ![<<c, runs[c] + 1>>] = "recv"]
      BY <1>1 DEF Start
    <3>2. receiver \in [Addresses -> {"none", "recv", "part", "process", "signal", "leave", "ended"}]
      OBVIOUS
    <3>. QED
      BY ONLY <3>1, <3>2
  <2>. QED
    BY <1>1, <2>2, <2>3, <2>4, <2>5 DEF Start
<1>2. CASE Started(c)
  BY <1>2 DEF Started
<1>3. CASE Close(c)
  BY <1>3 DEF Close
<1>4. ASSUME NEW s \in Stations, PushEvent(c, s) PROVE TypeInv'
  BY <1>4 DEF PushEvent
<1>. QED
  BY <1>1, <1>2, <1>3, <1>4 DEF Client

LEMMA GotTypes ==
  ASSUME NEW a \in Addresses, NEW rec \in Records, Got(a, rec), TypeOK
  PROVE  /\ receiver' \in [Addresses -> {"none", "recv", "part", "process", "signal", "leave", "ended"}]
         /\ data' \in [Addresses -> Records]
BY NoRecordIsRecord DEF Got, Goes, TypeOK

LEMMA ReceiverTypes ==
  ASSUME NetworkAssumption, TypeInv, NEW a \in Addresses, Receiver(a)
  PROVE  TypeInv'
<1>. USE DEF TypeInv, TypeOK, CommandThere, sinkVars, listVars, clientVars, threadVars, stationVars, wires, settings
<1>1. a[1] \in Clients
  BY DEF Addresses
<1>2. CASE Timeout(a)
  BY <1>2, TellType DEF Timeout, Goes
<1>3. ASSUME down[a[1]] # <<>>
      PROVE  /\ Head(down[a[1]]).rec \in Records
             /\ [down EXCEPT ![a[1]] = Tail(@)] \in [Clients -> Seq(Datagrams)]
  <2>1. Head(down[a[1]]) \in Datagrams /\ Tail(down[a[1]]) \in Seq(Datagrams)
    BY <1>1, <1>3
  <2>. QED
    BY <1>1, <2>1 DEF Datagrams
<1>4. CASE Receive(a)
  <2>1. /\ receiver' \in [Addresses -> {"none", "recv", "part", "process", "signal", "leave", "ended"}]
        /\ data' \in [Addresses -> Records]
    BY <1>3, <1>4, GotTypes DEF Receive, AfterRecord, Goes
  <2>. QED
    BY <1>3, <1>4, <2>1 DEF Receive
<1>5. CASE ReceiveRest(a)
  <2>1. data[a] \in Records
    OBVIOUS
  <2>2. /\ receiver' \in [Addresses -> {"none", "recv", "part", "process", "signal", "leave", "ended"}]
        /\ data' \in [Addresses -> Records]
    BY <1>3, <1>5, <2>1, GotTypes, MixtureIsRecord DEF ReceiveRest, Goes
  <2>. QED
    BY <1>3, <1>5, <2>2 DEF ReceiveRest
<1>6. CASE Leave(a)
  BY <1>1, <1>6, TellType DEF Leave, Goes
<1>7. ASSUME NEW s \in Stations, ProcessRecord(a, s) PROVE TypeInv'
  <2>1. data[a][s] \in Events \cup {Garbled}
    BY <1>7, RecordHas DEF ProcessRecord
  <2>2. [t \in DOMAIN data[a] \ {s} |-> data[a][t]] \in Records
    BY RestIsRecord
  <2>3. stationEvent' \in [Clients -> [Stations -> Events \cup {Garbled}]]
    BY <1>1, <1>7, <2>1 DEF ProcessRecord
  <2>. QED
    BY <1>1, <1>7, <2>2, <2>3 DEF ProcessRecord, AfterRecord, Goes
<1>8. CASE Acknowledged(a)
  BY <1>8 DEF Acknowledged, Goes
<1>. QED
  BY <1>2, <1>4, <1>5, <1>6, <1>7, <1>8 DEF Receiver

LEMMA NetworkTypes ==
  ASSUME TypeInv, Network
  PROVE  TypeInv'
<1>. USE DEF TypeInv, TypeOK, CommandThere, netUnchanged, sinkVars, listVars, clientVars, threadVars, stationVars, settings
<1>1. CASE LoseUp
  BY <1>1 DEF LoseUp
<1>2. CASE SwapUp
  BY <1>2 DEF SwapUp
<1>3. ASSUME NEW c \in Clients, LoseDown(c) PROVE TypeInv'
  BY <1>3 DEF LoseDown
<1>4. ASSUME NEW c \in Clients, SwapDown(c) PROVE TypeInv'
  <2>1. Append(Tail(down[c]), Head(down[c])) \in Seq(Datagrams)
    BY <1>4 DEF SwapDown
  <2>. QED
    BY <1>4, <2>1 DEF SwapDown
<1>5. ASSUME NEW c \in Clients, Refuse(c) PROVE TypeInv'
  BY <1>5 DEF Refuse, wires
<1>. QED
  BY <1>1, <1>2, <1>3, <1>4, <1>5 DEF Network

LEMMA TypeInvariant == Spec => []TypeInv
<1>1. Init => TypeInv
  <2>. SUFFICES ASSUME Init PROVE TypeInv
    OBVIOUS
  <2>1. NoRecord \in Records
    BY NoRecordIsRecord
  <2>2. network \in SUBSET Faults /\ synced \subseteq Clients /\ MaxEvents \in Nat /\ MaxRuns \in Nat
    BY NetworkAssumption DEF Init
  <2>3. /\ produced \in Events /\ event \in [Stations -> Events]
        /\ stationEvent \in [Clients -> [Stations -> Events \cup {Garbled}]]
        /\ pushed \in [Clients -> [Stations -> Events \cup {Garbled}]]
    BY <2>2 DEF Init, Events
  <2>4. up \in Seq(Commands) /\ down \in [Clients -> Seq(Datagrams)] /\ command \in Seq(Commands)
    BY DEF Init
  <2>5. sending \in [Addresses -> Seq(Pieces)]
    BY DEF Init
  <2>6. record \in Records /\ data \in [Addresses -> Records]
    BY <2>1 DEF Init
  <2>7. runs \in [Clients -> 0..MaxRuns] /\ socket \in [Clients -> 0..MaxRuns]
    BY <2>2 DEF Init
  <2>. QED
    BY <2>2, <2>3, <2>4, <2>5, <2>6, <2>7 DEF Init, TypeInv, TypeOK, CommandThere
<1>2. TypeInv /\ [Next]_vars => TypeInv'
  <2>1. CASE UNCHANGED vars
    BY <2>1 DEF TypeInv, TypeOK, CommandThere, vars, sinkVars, listVars, clientVars, threadVars,
             stationVars, wires, settings
  <2>. QED
    BY <2>1, NetworkAssumption, SenderTypes, ClientTypes, ReceiverTypes, NetworkTypes DEF Next
<1>. QED
  BY <1>1, <1>2, PTL DEF Spec

(* Every variable keeps its type over any network; in particular what the
   receiver takes for a record always has the form of one. *)
THEOREM TypeCorrect == Spec => []TypeOK
BY TypeInvariant, PTL DEF TypeInv

-----------------------------------------------------------------------------
(* A receiver thread that is alive is known to its client: the client runs, or
   start() is about to say so; and its run has begun. *)
AliveKnown ==
  \A a \in Addresses :
    /\ receiver[a] # "none" => a[2] <= runs[a[1]]
    /\ Alive(a) => running[a[1]] \/ main[a[1]] = "starting"

ReceiverInv == OneReceiver /\ AliveKnown

LEMMA ReceiverInvariant == Spec => []ReceiverInv
<1>1. Init => ReceiverInv
  BY DEF Init, ReceiverInv, OneReceiver, AliveKnown, Alive
<1>2. TypeOK /\ ReceiverInv /\ [Next]_vars => ReceiverInv'
  <2>. SUFFICES ASSUME TypeOK, ReceiverInv, [Next]_vars PROVE ReceiverInv'
    OBVIOUS
  <2>1. CASE UNCHANGED <<receiver, runs, running, main>>
    BY <2>1 DEF ReceiverInv, OneReceiver, AliveKnown, Alive
  <2>2. ASSUME NEW c \in Clients, Start(c) PROVE ReceiverInv'
    <3>1. \A a \in Addresses : ~(Alive(a) /\ a[1] = c) \/ running[c]
      BY <2>2 DEF ReceiverInv, AliveKnown, Start
    <3>2. CASE running[c]
      BY <2>2, <3>2 DEF Start, TypeOK, ReceiverInv, OneReceiver, AliveKnown, Alive, Addresses, Runs
    <3>3. CASE ~running[c]
      <4>1. /\ \A a \in Addresses :
                 receiver'[a] = IF a = <<c, runs[c] + 1>> THEN "recv" ELSE receiver[a]
            /\ \A d \in Clients : /\ runs'[d] = IF d = c THEN runs[d] + 1 ELSE runs[d]
                                  /\ main'[d] = IF d = c THEN "starting" ELSE main[d]
            /\ running' = running
        BY <2>2, <3>3 DEF Start, TypeOK
      <4>2. \A a \in Addresses : a[1] \in Clients /\ a[2] \in Nat
        BY DEF Addresses, Runs
      <4>3. \A d \in Clients : runs[d] \in Nat
        BY DEF TypeOK
      <4>4. \A a \in Addresses : a = <<c, runs[c] + 1>> => a[1] = c /\ a[2] = runs[c] + 1
        OBVIOUS
      <4>. QED
        BY <3>1, <3>3, <4>1, <4>2, <4>3, <4>4 DEF ReceiverInv, OneReceiver, AliveKnown, Alive
    <3>. QED
      BY <3>2, <3>3
  <2>3. ASSUME NEW c \in Clients, Started(c) PROVE ReceiverInv'
    BY <2>3 DEF Started, TypeOK, ReceiverInv, OneReceiver, AliveKnown, Alive, Addresses, threadVars
  <2>4. ASSUME NEW c \in Clients, Close(c) PROVE ReceiverInv'
    BY <2>4 DEF Close, TypeOK, ReceiverInv, OneReceiver, AliveKnown, Alive, Addresses, threadVars
  <2>5. ASSUME NEW a \in Addresses, Leave(a) PROVE ReceiverInv'
    <3>1. /\ Alive(a) /\ UNCHANGED <<runs, main>>
          /\ \A b \in Addresses : receiver'[b] = IF b = a THEN "ended" ELSE receiver[b]
          /\ \A d \in Clients : running'[d] = IF d = a[1] THEN FALSE ELSE running[d]
      BY <2>5 DEF Leave, IsAt, Goes, Alive, TypeOK
    <3>2. \A b \in Addresses : b[1] \in Clients
      BY DEF Addresses
    <3>. QED
      BY <3>1, <3>2 DEF ReceiverInv, OneReceiver, AliveKnown, Alive
  <2>6. ASSUME NEW a \in Addresses, UNCHANGED <<runs, running, main>>, Alive(a),
               NEW place, \A b \in Addresses : receiver'[b] = IF b = a THEN place ELSE receiver[b]
        PROVE  ReceiverInv'
    BY <2>6 DEF ReceiverInv, OneReceiver, AliveKnown, Alive
  <2>7. ASSUME NEW a \in Addresses, Receiver(a), ~Leave(a) PROVE ReceiverInv'
    <3>1. UNCHANGED <<runs, running, main>> /\ Alive(a)
      BY <2>7 DEF Receiver, Timeout, Receive, ReceiveRest, Acknowledged, AfterRecord, ProcessRecord, IsAt, Alive, clientVars
    <3>2. \E place : receiver' = receiver \/ Goes(a, place)
      BY <2>7 DEF Receiver, Timeout, Receive, ReceiveRest, Acknowledged, AfterRecord, ProcessRecord, Got
    <3>3. PICK place : \/ receiver' = receiver
                       \/ \A b \in Addresses : receiver'[b] = IF b = a THEN place ELSE receiver[b]
      BY <3>2 DEF Goes, TypeOK
    <3>. QED
      BY <2>1, <2>6, <3>1, <3>3
  <2>8. CASE Sender \/ Network
    BY <2>1, <2>8 DEF Sender, Network, Produce, PullEvent, Send, SinkClose, SinkReceive, SinkTimeout, Handle,
             LoseUp, SwapUp, LoseDown, SwapDown, Refuse, netUnchanged, clientVars, threadVars
  <2>9. ASSUME NEW c \in Clients, NEW s \in Stations, PushEvent(c, s) PROVE ReceiverInv'
    BY <2>1, <2>9 DEF PushEvent, clientVars, threadVars
  <2>10. CASE UNCHANGED vars
    BY <2>1, <2>10 DEF vars, clientVars, threadVars
  <2>. QED
    BY <2>2, <2>3, <2>4, <2>5, <2>7, <2>8, <2>9, <2>10 DEF Next, Client
<1>. QED
  BY <1>1, <1>2, TypeCorrect, PTL DEF Spec

(* At most one receiver thread of a client is alive: start() spawns one only if
   running is not set, which only the end of the thread resets. *)
THEOREM OneThread == Spec => []OneReceiver
BY ReceiverInvariant, PTL DEF ReceiverInv

-----------------------------------------------------------------------------
(* No event is lost between the receiver thread, which stores it, and the main
   loop, which pushes it. *)
THEOREM UpdatesKept == Spec => []NoUpdateLost
<1>1. Init => NoUpdateLost
  BY DEF Init, NoUpdateLost
<1>2. TypeOK /\ NoUpdateLost /\ [Next]_vars => NoUpdateLost'
  <2>. SUFFICES ASSUME TypeOK, NoUpdateLost, [Next]_vars PROVE NoUpdateLost'
    OBVIOUS
  <2>1. CASE UNCHANGED stationVars
    BY <2>1 DEF NoUpdateLost, stationVars
  <2>2. ASSUME NEW c \in Clients, NEW s \in Stations, PushEvent(c, s) PROVE NoUpdateLost'
    BY <2>2 DEF PushEvent, NoUpdateLost, TypeOK
  <2>3. ASSUME NEW a \in Addresses, NEW s \in Stations, ProcessRecord(a, s) PROVE NoUpdateLost'
    BY <2>3 DEF ProcessRecord, NoUpdateLost, TypeOK, Addresses
  <2>4. CASE Sender \/ Network
    BY <2>1, <2>4 DEF Sender, Network, Produce, PullEvent, Send, SinkClose, SinkReceive, SinkTimeout, Handle,
             LoseUp, SwapUp, LoseDown, SwapDown, Refuse, netUnchanged
  <2>5. ASSUME NEW c \in Clients, Start(c) \/ Started(c) \/ Close(c) PROVE NoUpdateLost'
    BY <2>1, <2>5 DEF Start, Started, Close
  <2>6. ASSUME NEW a \in Addresses, Timeout(a) \/ Receive(a) \/ ReceiveRest(a) \/ Acknowledged(a) \/ Leave(a)
        PROVE  NoUpdateLost'
    BY <2>1, <2>6 DEF Timeout, Receive, ReceiveRest, Acknowledged, AfterRecord, Leave
  <2>7. CASE UNCHANGED vars
    BY <2>1, <2>7 DEF vars
  <2>. QED
    BY <2>2, <2>3, <2>4, <2>5, <2>6, <2>7 DEF Next, Client, Receiver
<1>. QED
  BY <1>1, <1>2, TypeCorrect, PTL DEF Spec

(* The receiver of a client works alone and loses no event to the main loop,
   over any network and however often the client is started. *)
THEOREM ReceiverSafety == Spec => []ReceiverSafe
BY OneThread, UpdatesKept, PTL DEF ReceiverSafe

-----------------------------------------------------------------------------
(* WholeRecords.  The stream of an address is what is under way to its socket
   and what pullEvent still has for it.  Over an orderly network a first piece
   is followed by the second of the same record, and a receiver that waits for
   the rest of a record has it in front of it. *)
Clean(rec) == \A s \in DOMAIN rec : rec[s] # Garbled

Part(rec, piece) == [rec |-> rec, piece |-> piece]
ToSend(a) == [k \in 1..Len(sending[a]) |-> Part(record, sending[a][k])]
Stream(a) == down[a[1]] \o ToSend(a)

WellFormed(s) ==
  \A i \in 1..Len(s) : s[i].piece = "first" => i < Len(s) /\ s[i + 1] = Part(s[i].rec, "second")

Continues(s, rec) == Len(s) > 0 /\ s[1] = Part(rec, "second")

(* The thread that is alive has the socket; a closed socket holds nothing. *)
SocketInv ==
  /\ \A a \in Addresses : Alive(a) <=> socket[a[1]] = a[2]
  /\ \A c \in Clients : socket[c] = 0 => down[c] = <<>>

(* The sender knows only addresses whose threads have begun. *)
KnownInv ==
  /\ \A a \in Addresses : receiver[a] = "none" => a \notin addresses /\ sending[a] = <<>>
  /\ \A i \in 1..Len(up) : receiver[up[i].from] # "none"
  /\ \A i \in 1..Len(command) : receiver[command[i].from] # "none"

StreamInv ==
  \A a \in Addresses :
    Alive(a) => WellFormed(Stream(a)) /\ (receiver[a] = "part" => Continues(Stream(a), data[a]))

CleanInv ==
  /\ Clean(record) /\ \A a \in Addresses : Clean(data[a])
  /\ \A c \in Clients : \A i \in 1..Len(down[c]) : Clean(down[c][i].rec)
  /\ \A c \in Clients, s \in Stations : stationEvent[c][s] # Garbled

WireInv == Orderly => KnownInv /\ StreamInv /\ CleanInv

LEMMA PartsType ==
  ASSUME NEW t \in Seq(Pieces), NEW rec \in Records
  PROVE  [k \in 1..Len(t) |-> Part(rec, t[k])] \in Seq(Datagrams)
<1>1. \A k \in 1..Len(t) : Part(rec, t[k]) \in Datagrams
  BY DEF Part, Datagrams
<1>. QED
  BY <1>1

LEMMA ToSendType == ASSUME TypeOK, NEW a \in Addresses PROVE ToSend(a) \in Seq(Datagrams)
<1>1. sending[a] \in Seq(Pieces) /\ record \in Records
  BY DEF TypeOK
<1>. QED
  BY <1>1, PartsType DEF ToSend

(* Sending a piece moves the border between the two halves of a stream. *)
LEMMA MoveBorder ==
  ASSUME NEW d \in Seq(Datagrams), NEW t \in Seq(Datagrams), t # <<>>
  PROVE  Append(d, Head(t)) \o Tail(t) = d \o t
<1>1. Head(t) \in Datagrams /\ Tail(t) \in Seq(Datagrams) /\ Len(t) \in Nat \ {0}
  BY EmptySeq
<1>2. /\ Len(Tail(t)) = Len(t) - 1 /\ Head(t) = t[1]
      /\ \A i \in 1..Len(Tail(t)) : Tail(t)[i] = t[i + 1]
  BY HeadTailProperties
<1>. DEFINE l == Append(d, Head(t)) \o Tail(t)
            r == d \o t
<1>3. l \in Seq(Datagrams) /\ r \in Seq(Datagrams) /\ Len(l) = Len(r)
  BY <1>1, <1>2
<1>4. \A i \in 1..Len(r) : l[i] = r[i]
  BY <1>1, <1>2
<1>. HIDE DEF l, r
<1>5. l = r
  BY <1>3, <1>4
<1>. QED
  BY <1>5 DEF l, r

(* Receiving takes the head of a stream. *)
LEMMA TakeHead ==
  ASSUME NEW d \in Seq(Datagrams), NEW t \in Seq(Datagrams), d # <<>>,
         NEW s, s = d \o t, NEW r, r = Tail(d) \o t
  PROVE  /\ Len(s) \in Nat /\ Len(r) = Len(s) - 1 /\ Len(s) > 0 /\ s[1] = Head(d)
         /\ \A i \in 1..Len(r) : r[i] = s[i + 1]
<1>1. Head(d) = d[1] /\ Tail(d) \in Seq(Datagrams) /\ Len(d) \in Nat \ {0}
  BY EmptySeq
<1>2. Len(Tail(d)) = Len(d) - 1 /\ \A i \in 1..Len(Tail(d)) : Tail(d)[i] = d[i + 1]
  BY HeadTailProperties
<1>3. Len(Tail(d) \o t) = Len(d) - 1 + Len(t) /\ Len(d \o t) = Len(d) + Len(t) /\ Len(t) \in Nat
  BY <1>1, <1>2
<1>4. (d \o t)[1] = Head(d)
  BY <1>1
<1>5. ASSUME NEW i \in 1..Len(Tail(d) \o t) PROVE (Tail(d) \o t)[i] = (d \o t)[i + 1]
  BY <1>1, <1>2, <1>3
<1>. QED
  BY <1>1, <1>3, <1>4, <1>5

(* What follows the head of a well-formed stream is well-formed, and goes on
   with the record the head begins. *)
LEMMA RestWellFormed ==
  ASSUME NEW s, NEW r, Len(s) \in Nat, Len(s) > 0, Len(r) = Len(s) - 1,
         \A i \in 1..Len(r) : r[i] = s[i + 1], WellFormed(s)
  PROVE  /\ WellFormed(r)
         /\ s[1].piece = "first" => Continues(r, s[1].rec)
<1>1. ASSUME NEW i \in 1..Len(r), r[i].piece = "first"
      PROVE  i < Len(r) /\ r[i + 1] = Part(r[i].rec, "second")
  <2>1. i + 1 \in 1..Len(s) /\ r[i] = s[i + 1]
    OBVIOUS
  <2>2. i + 1 < Len(s) /\ s[i + 1 + 1] = Part(s[i + 1].rec, "second")
    BY <1>1, <2>1 DEF WellFormed
  <2>3. i + 1 \in 1..Len(r)
    BY <2>2
  <2>. QED
    BY <2>1, <2>2, <2>3
<1>2. ASSUME s[1].piece = "first" PROVE Continues(r, s[1].rec)
  <2>1. 1 \in 1..Len(s)
    OBVIOUS
  <2>2. 1 < Len(s) /\ s[1 + 1] = Part(s[1].rec, "second")
    BY <1>2, <2>1 DEF WellFormed
  <2>3. 1 \in 1..Len(r)
    BY <2>2
  <2>. QED
    BY <2>2, <2>3 DEF Continues
<1>. QED
  BY <1>1, <1>2 DEF WellFormed

(* The pieces of a record keep a stream to which nothing was to be sent
   well-formed. *)
LEMMA PiecesWellFormed ==
  ASSUME NEW s \in Seq(Datagrams), WellFormed(s), NEW rec, NEW t \in Seq(Datagrams),
         \/ t = <<>>
         \/ t = <<Part(rec, "whole")>>
         \/ t = <<Part(rec, "first"), Part(rec, "second")>>
  PROVE  /\ WellFormed(s \o t)
         /\ \A r : Continues(s, r) => Continues(s \o t, r)
<1>1. /\ Len(s) \in Nat /\ Len(t) \in Nat /\ Len(s \o t) = Len(s) + Len(t)
      /\ \A i \in 1..Len(s) : (s \o t)[i] = s[i]
      /\ \A i \in 1..Len(t) : (s \o t)[Len(s) + i] = t[i]
  OBVIOUS
<1>. DEFINE u == s \o t
<1>2. ASSUME NEW i \in 1..Len(u), u[i].piece = "first"
      PROVE  i < Len(u) /\ u[i + 1] = Part(u[i].rec, "second")
  <2>1. CASE i \in 1..Len(s)
    <3>1. i < Len(s) /\ s[i + 1] = Part(s[i].rec, "second")
      BY <1>1, <1>2, <2>1 DEF WellFormed
    <3>. QED
      BY <1>1, <2>1, <3>1
  <2>2. ASSUME NEW k \in 1..Len(t), i = Len(s) + k
        PROVE  i < Len(u) /\ u[i + 1] = Part(u[i].rec, "second")
    <3>1. t[k].piece = "first"
      BY <1>1, <1>2, <2>2
    <3>2. t = <<Part(rec, "first"), Part(rec, "second")>> /\ k = 1
      BY <2>2, <3>1 DEF Part
    <3>3. Len(t) = 2 /\ t[2] = Part(rec, "second") /\ t[1] = Part(rec, "first")
      BY <3>2
    <3>4. u[i + 1] = t[2] /\ u[i] = t[1] /\ i < Len(u)
      BY <1>1, <2>2, <3>2, <3>3
    <3>5. t[1].rec = rec
      BY <3>3 DEF Part
    <3>. QED
      BY <3>3, <3>4, <3>5
  <2>3. i \in 1..Len(s) \/ \E k \in 1..Len(t) : i = Len(s) + k
    <3>1. i \in 1..Len(s) \/ (i - Len(s) \in 1..Len(t) /\ i = Len(s) + (i - Len(s)))
      BY <1>1
    <3>. QED
      BY <3>1
  <2>. QED
    BY <2>1, <2>2, <2>3
<1>3. \A r : Continues(s, r) => Continues(u, r)
  BY <1>1 DEF Continues
<1>. QED
  BY <1>2, <1>3 DEF WellFormed

LEMMA AddressHas ==
  \A a \in Addresses : a[1] \in Clients /\ a[2] \in Runs /\ a[2] # 0 /\ a = <<a[1], a[2]>>
BY DEF Addresses, Runs

(* A piece that is sent, or dropped with the socket of an earlier run, goes to the
   end of a wire. *)
LEMMA SendPuts ==
  ASSUME TypeOK, NEW a \in Addresses, Send(a), NEW c \in Clients
  PROVE  down'[c] = down[c] \/ down'[c] = Append(down[c], Part(record, Head(sending[a])))
<1>. DEFINE d == Part(record, Head(sending[a]))
<1>1. down' = down \/ down' = [down EXCEPT ![a[1]] = Append(@, d)]
  BY DEF Send, Part
<1>. HIDE DEF d
<1>2. DOMAIN down = Clients
  BY DEF TypeOK
<1>3. down'[c] = down[c] \/ down'[c] = Append(down[c], d)
  BY <1>1, <1>2
<1>. QED
  BY <1>3 DEF d

(* What a thread has received is its own: data changes at one place. *)
LEMMA DataAt ==
  ASSUME TypeOK, NEW a \in Addresses, NEW v, data' = [data EXCEPT ![a] = v]
  PROVE  data'[a] = v /\ \A b \in Addresses : b # a => data'[b] = data[b]
<1>1. DOMAIN data = Addresses
  BY DEF TypeOK
<1>. QED
  BY <1>1

LEMMA ReceiveTakes ==
  ASSUME TypeOK, NEW a \in Addresses, Receive(a)
  PROVE  /\ data'[a] \in {data[a], NoRecord, Head(down[a[1]]).rec}
         /\ \A b \in Addresses : b # a => data'[b] = data[b]
<1>. DEFINE rec == Head(down[a[1]]).rec
<1>1. \/ data' = data
      \/ data' = [data EXCEPT ![a] = NoRecord]
      \/ data' = [data EXCEPT ![a] = rec]
  BY DEF Receive, Got
<1>. HIDE DEF rec
<1>2. /\ data'[a] \in {data[a], NoRecord, rec}
      /\ \A b \in Addresses : b # a => data'[b] = data[b]
  BY <1>1, DataAt
<1>. QED
  BY <1>2 DEF rec

(* The rest of the record the thread waits for completes it. *)
LEMMA RestTakes ==
  ASSUME TypeOK, NEW a \in Addresses, ReceiveRest(a), Head(down[a[1]]) = Part(data[a], "second")
  PROVE  /\ receiver'[a] # "part" /\ data'[a] \in {data[a], NoRecord}
         /\ \A b \in Addresses : b # a => data'[b] = data[b]
<1>1. Head(down[a[1]]).piece = "second" /\ Head(down[a[1]]).rec = data[a]
  BY DEF Part
<1>2. Got(a, data[a])
  BY <1>1 DEF ReceiveRest
<1>3. \/ Goes(a, "leave") /\ data' = [data EXCEPT ![a] = NoRecord]
      \/ Goes(a, "process") /\ data' = [data EXCEPT ![a] = data[a]]
  BY <1>2 DEF Got
<1>4. DOMAIN receiver = Addresses
  BY DEF TypeOK
<1>5. receiver'[a] \in {"leave", "process"}
  BY <1>3, <1>4 DEF Goes
<1>6. data'[a] \in {data[a], NoRecord} /\ \A b \in Addresses : b # a => data'[b] = data[b]
  BY <1>3, DataAt
<1>. QED
  BY <1>5, <1>6

(* What a receiver thread does while it is not ending keeps it alive. *)
LEMMA StaysAlive ==
  ASSUME TypeOK, NEW a \in Addresses, Receiver(a), ~Leave(a)
  PROVE  /\ Alive(a) /\ UNCHANGED <<socket, sending, record, addresses, command>>
         /\ \A b \in Addresses : Alive(b)' <=> Alive(b)
         /\ \A b \in Addresses : b # a => receiver'[b] = receiver[b] /\ data'[b] = data[b]
<1>1. /\ Alive(a) /\ UNCHANGED <<socket, sending, record, addresses, command>>
      /\ \E place \in {"recv", "part", "process", "signal", "leave"} : receiver' = receiver \/ Goes(a, place)
      /\ \E rec : data' = data \/ data' = [data EXCEPT ![a] = rec]
  BY DEF Receiver, Timeout, Receive, ReceiveRest, Acknowledged, AfterRecord, ProcessRecord, Got, IsAt, Alive, Goes,
         clientVars, sinkVars, listVars
<1>2. PICK place \in {"recv", "part", "process", "signal", "leave"} :
        \/ receiver' = receiver
        \/ \A b \in Addresses : receiver'[b] = IF b = a THEN place ELSE receiver[b]
  BY <1>1 DEF Goes, TypeOK
<1>3. \A b \in Addresses : b # a => data'[b] = data[b]
  BY <1>1 DEF TypeOK
<1>. QED
  BY <1>1, <1>2, <1>3 DEF Alive

LEMMA SocketInvariant == Spec => []SocketInv
<1>1. Init => SocketInv
  BY AddressHas DEF Init, SocketInv, Alive
<1>2. TypeOK /\ ReceiverInv /\ SocketInv /\ [Next]_vars => SocketInv'
  <2>. SUFFICES ASSUME TypeOK, ReceiverInv, SocketInv, [Next]_vars PROVE SocketInv'
    OBVIOUS
  <2>1. CASE UNCHANGED <<receiver, socket, down>>
    BY <2>1 DEF SocketInv, Alive
  <2>2. ASSUME NEW c \in Clients, UNCHANGED <<receiver, socket>>, socket[c] # 0,
               \A d \in Clients : d # c => down'[d] = down[d]
        PROVE  SocketInv'
    BY <2>2 DEF SocketInv, Alive
  <2>3. ASSUME NEW c \in Clients, Start(c) PROVE SocketInv'
    <3>1. CASE running[c]
      BY <2>1, <2>3, <3>1 DEF Start, wires
    <3>2. CASE ~running[c]
      <4>1. \A a \in Addresses : a[1] = c => ~Alive(a)
        BY <2>3, <3>2 DEF Start, ReceiverInv, AliveKnown
      <4>2. socket[c] = 0
        <5>1. ASSUME socket[c] # 0 PROVE <<c, socket[c]>> \in Addresses
          BY <5>1 DEF TypeOK, Addresses, Runs
        <5>. QED
          BY <4>1, <5>1 DEF SocketInv
      <4>3. /\ \A a \in Addresses :
                 receiver'[a] = IF a = <<c, runs[c] + 1>> THEN "recv" ELSE receiver[a]
            /\ \A d \in Clients : socket'[d] = IF d = c THEN runs[c] + 1 ELSE socket[d]
        BY <2>3, <3>2 DEF Start, TypeOK
      <4>5. down' = down /\ runs[c] + 1 # 0
        <5>1. runs[c] \in 0..MaxRuns
          BY DEF TypeOK
        <5>. QED
          BY <2>3, <5>1 DEF Start, wires
      <4>4. \A a \in Addresses : Alive(a)' <=> socket'[a[1]] = a[2]
        BY <4>1, <4>3, AddressHas DEF SocketInv, Alive
      <4>. QED
        BY <4>2, <4>3, <4>4, <4>5 DEF SocketInv
    <3>. QED
      BY <3>1, <3>2
  <2>4. ASSUME NEW a \in Addresses, Leave(a) PROVE SocketInv'
    <3>1. /\ Alive(a)
          /\ \A b \in Addresses : receiver'[b] = IF b = a THEN "ended" ELSE receiver[b]
          /\ \A d \in Clients : /\ socket'[d] = IF d = a[1] THEN 0 ELSE socket[d]
                                /\ down'[d] = IF d = a[1] THEN <<>> ELSE down[d]
      BY <2>4 DEF Leave, IsAt, Goes, Alive, TypeOK
    <3>2. socket[a[1]] = a[2]
      BY <3>1 DEF SocketInv
    <3>. QED
      BY <3>1, <3>2, AddressHas DEF SocketInv, Alive
  <2>5. ASSUME NEW a \in Addresses, Receiver(a), ~Leave(a) PROVE SocketInv'
    <3>1. /\ Alive(a) /\ socket' = socket
          /\ \A b \in Addresses : Alive(b)' <=> Alive(b)
      BY <2>5, StaysAlive
    <3>2. socket[a[1]] # 0
      BY <3>1, AddressHas DEF SocketInv
    <3>3. \A d \in Clients : d # a[1] => down'[d] = down[d]
      BY <2>5 DEF Receiver, Timeout, Receive, ReceiveRest, Acknowledged, AfterRecord, ProcessRecord, TypeOK, wires
    <3>. QED
      BY <3>1, <3>2, <3>3 DEF SocketInv
  <2>6. ASSUME NEW a \in Addresses, Send(a) PROVE SocketInv'
    <3>1. UNCHANGED <<receiver, socket>>
      BY <2>6 DEF Send, clientVars, threadVars
    <3>2. \/ down' = down
          \/ /\ socket[a[1]] # 0
             /\ \A d \in Clients : d # a[1] => down'[d] = down[d]
      BY <2>6, AddressHas DEF Send, TypeOK
    <3>. QED
      BY <2>1, <2>2, <3>1, <3>2, AddressHas
  <2>7. ASSUME NEW c \in Clients, LoseDown(c) \/ SwapDown(c) PROVE SocketInv'
    <3>1. UNCHANGED <<receiver, socket>>
      BY <2>7 DEF LoseDown, SwapDown, netUnchanged, clientVars, threadVars
    <3>2. down[c] # <<>> /\ \A d \in Clients : d # c => down'[d] = down[d]
      BY <2>7 DEF LoseDown, SwapDown, TypeOK
    <3>. QED
      BY <2>2, <3>1, <3>2 DEF SocketInv
  <2>8. CASE LoseUp \/ SwapUp \/ \E c \in Clients : Refuse(c)
    BY <2>1, <2>8 DEF LoseUp, SwapUp, Refuse, netUnchanged, wires, clientVars, threadVars
  <2>9. ASSUME NEW c \in Clients, NEW s \in Stations, PushEvent(c, s) PROVE SocketInv'
    BY <2>1, <2>9 DEF PushEvent, wires, clientVars, threadVars
  <2>10. ASSUME NEW s \in Stations, Produce(s) PROVE SocketInv'
    BY <2>1, <2>10 DEF Produce, wires, clientVars, threadVars
  <2>11. CASE PullEvent \/ SinkClose \/ SinkReceive \/ SinkTimeout \/ Handle
    BY <2>1, <2>11 DEF PullEvent, SinkClose, SinkReceive, SinkTimeout, Handle, wires, clientVars,
                       threadVars
  <2>12. ASSUME NEW c \in Clients, Started(c) \/ Close(c) PROVE SocketInv'
    BY <2>1, <2>12 DEF Started, Close, wires, threadVars
  <2>13. CASE UNCHANGED vars
    BY <2>1, <2>13 DEF vars, wires, clientVars, threadVars
  <2>. QED
    BY <2>3, <2>4, <2>5, <2>6, <2>7, <2>8, <2>9, <2>10, <2>11, <2>12, <2>13
       DEF Next, Sender, Network, Client
<1>. QED
  BY <1>1, <1>2, TypeCorrect, ReceiverInvariant, PTL DEF Spec

(* A thread that has begun has begun for ever. *)
LEMMA BegunStays ==
  ASSUME TypeOK, [Next]_vars, NEW a \in Addresses, receiver[a] # "none"
  PROVE  receiver'[a] # "none"
<1>1. CASE receiver' = receiver
  BY <1>1
<1>2. ASSUME NEW c \in Clients, Start(c) PROVE receiver'[a] # "none"
  BY <1>2 DEF Start, TypeOK
<1>3. ASSUME NEW b \in Addresses, Leave(b) PROVE receiver'[a] # "none"
  BY <1>3 DEF Leave, Goes, TypeOK
<1>4. ASSUME NEW b \in Addresses, Receiver(b), ~Leave(b) PROVE receiver'[a] # "none"
  BY <1>4, StaysAlive DEF Alive
<1>5. ASSUME NEW c \in Clients, Started(c) \/ Close(c) PROVE receiver'[a] # "none"
  BY <1>1, <1>5 DEF Started, Close, threadVars
<1>6. ASSUME NEW c \in Clients, NEW s \in Stations, PushEvent(c, s) PROVE receiver'[a] # "none"
  BY <1>1, <1>6 DEF PushEvent, threadVars
<1>7. CASE Sender \/ Network
  BY <1>1, <1>7 DEF Sender, Network, Produce, PullEvent, Send, SinkClose, SinkReceive, SinkTimeout, Handle,
           LoseUp, SwapUp, LoseDown, SwapDown, Refuse, netUnchanged, threadVars
<1>8. CASE UNCHANGED vars
  BY <1>1, <1>8 DEF vars, threadVars
<1>. QED
  BY <1>2, <1>3, <1>4, <1>5, <1>6, <1>7, <1>8 DEF Next, Client

(* What a receiver thread does to the wire to the sender. *)
LEMMA ReceiverTells ==
  ASSUME TypeOK, KnownInv, NEW a \in Addresses, Receiver(a)
  PROVE  \A i \in 1..Len(up') : up'[i] \in {up[k] : k \in 1..Len(up)} \/ up'[i].from = a
<1>1. up \in Seq(Commands)
  BY DEF TypeOK
<1>2. CASE up' = up
  BY <1>2
<1>3. ASSUME NEW cmd \in {"poll", "leave"}, Tell(cmd, a)
      PROVE  \A i \in 1..Len(up') : up'[i] \in {up[k] : k \in 1..Len(up)} \/ up'[i].from = a
  <2>1. CASE up' = Append(up, [from |-> a, cmd |-> cmd])
    <3>1. Len(up) \in Nat /\ Len(up') = Len(up) + 1
      BY <1>1, <2>1
    <3>2. \A i \in 1..Len(up) : up'[i] = up[i]
      BY <1>1, <2>1
    <3>3. up'[Len(up) + 1].from = a
      BY <1>1, <2>1
    <3>4. \A i \in 1..Len(up') : i \in 1..Len(up) \/ i = Len(up) + 1
      BY <3>1
    <3>. QED
      BY <3>2, <3>3, <3>4
  <2>. QED
    BY <1>2, <1>3, <2>1 DEF Tell
<1>. QED
  BY <1>2, <1>3 DEF Receiver, Timeout, Receive, ReceiveRest, Acknowledged, AfterRecord, Leave, ProcessRecord, wires

LEMMA KnownStep ==
  ASSUME TypeInv, [Next]_vars, Orderly, KnownInv
  PROVE  KnownInv'
<1>. USE DEF TypeInv
<1>1. /\ up \in Seq(Commands) /\ command \in Seq(Commands)
      /\ \A i \in 1..Len(up) : up[i].from \in Addresses
      /\ \A i \in 1..Len(command) : command[i].from \in Addresses
  <2>1. up \in Seq(Commands) /\ command \in Seq(Commands)
    BY DEF TypeOK
  <2>2. /\ \A i \in 1..Len(up) : up[i] \in Commands
        /\ \A i \in 1..Len(command) : command[i] \in Commands
    BY <2>1
  <2>. QED
    BY <2>1, <2>2 DEF Commands
<1>2. SUFFICES
        /\ \A a \in Addresses : receiver[a] = "none" => a \notin addresses' /\ sending'[a] = <<>>
        /\ \A i \in 1..Len(up') : \E a \in Addresses : up'[i].from = a /\ receiver[a] # "none"
        /\ \A i \in 1..Len(command') :
             \E a \in Addresses : command'[i].from = a /\ receiver[a] # "none"
  BY BegunStays DEF KnownInv
<1>3. /\ \A i \in 1..Len(up) : \E a \in Addresses : up[i].from = a /\ receiver[a] # "none"
      /\ \A i \in 1..Len(command) :
           \E a \in Addresses : command[i].from = a /\ receiver[a] # "none"
  BY <1>1 DEF KnownInv
<1>4. CASE UNCHANGED <<up, command, addresses, sending>>
  BY <1>3, <1>4 DEF KnownInv
<1>5. CASE PullEvent
  <2>1. UNCHANGED <<up, command, addresses>>
    BY <1>5 DEF PullEvent, wires, listVars
  <2>2. \A a \in Addresses : a \notin addresses => sending'[a] = <<>>
    BY <1>5 DEF PullEvent
  <2>. QED
    BY <1>3, <2>1, <2>2 DEF KnownInv
<1>6. CASE \E a \in Addresses : Send(a)
  <2>1. PICK a \in Addresses : Send(a)
    BY <1>6
  <2>2. UNCHANGED <<up, command, addresses>> /\ receiver[a] # "none"
    BY <2>1 DEF Send, listVars, KnownInv
  <2>3. \A b \in Addresses : b # a => sending'[b] = sending[b]
    BY <2>1 DEF Send, TypeOK
  <2>. QED
    BY <1>3, <2>2, <2>3 DEF KnownInv
<1>7. CASE SinkReceive
  <2>1. up # <<>> /\ UNCHANGED <<addresses, sending>>
    BY <1>7 DEF SinkReceive, sinkVars
  <2>2. /\ Len(up) \in Nat \ {0} /\ Head(up) = up[1]
        /\ Len(Tail(up)) = Len(up) - 1 /\ \A i \in 1..Len(Tail(up)) : Tail(up)[i] = up[i + 1]
    BY <1>1, <2>1, EmptySeq, HeadTailProperties
  <2>3. \/ up' = <<>> /\ command' = command
        \/ up' = Tail(up) /\ command' = <<Head(up)>>
    BY <1>7 DEF SinkReceive
  <2>4. CASE up' = <<>> /\ command' = command
    BY <1>3, <2>1, <2>4 DEF KnownInv
  <2>5. CASE up' = Tail(up) /\ command' = <<Head(up)>>
    <3>1. \A i \in 1..Len(up') : i + 1 \in 1..Len(up) /\ up'[i] = up[i + 1]
      BY <2>2, <2>5
    <3>2. \A i \in 1..Len(command') : command'[i] = up[1] /\ 1 \in 1..Len(up)
      BY <2>2, <2>5
    <3>. QED
      BY <1>3, <2>1, <3>1, <3>2 DEF KnownInv
  <2>. QED
    BY <2>3, <2>4, <2>5
<1>8. CASE SinkTimeout
  <2>1. up' = <<>> /\ UNCHANGED <<command, addresses, sending>>
    BY <1>8 DEF SinkTimeout, sinkVars
  <2>. QED
    BY <1>3, <2>1 DEF KnownInv
<1>9. CASE Handle
  <2>1. /\ up' = up /\ sending' = sending /\ command' = <<>>
        /\ addresses' \subseteq addresses \cup {command[1].from}
    BY <1>9 DEF Handle, wires, sinkVars
  <2>2. 1 \in 1..Len(command)
    <3>1. command # <<>>
      BY <1>9 DEF Handle, CommandThere
    <3>2. Len(command) \in Nat \ {0}
      BY <1>1, <3>1, EmptySeq
    <3>. QED
      BY <3>2
  <2>3. \A a \in Addresses : receiver[a] = "none" => a # command[1].from
    BY <2>2 DEF KnownInv
  <2>. QED
    BY <1>3, <2>1, <2>3 DEF KnownInv
<1>10. CASE \E a \in Addresses : Receiver(a)
  <2>1. PICK a \in Addresses : Receiver(a)
    BY <1>10
  <2>2. UNCHANGED <<command, addresses, sending>> /\ receiver[a] # "none"
    BY <2>1 DEF Receiver, Timeout, Receive, ReceiveRest, Acknowledged, AfterRecord, ProcessRecord, Leave, IsAt, sinkVars, listVars
  <2>3. \A i \in 1..Len(up') : up'[i] \in {up[k] : k \in 1..Len(up)} \/ up'[i].from = a
    BY <2>1, ReceiverTells
  <2>. QED
    BY <1>3, <2>2, <2>3 DEF KnownInv
<1>11. ASSUME NEW c \in Clients, Start(c) \/ Started(c) \/ Close(c)
       PROVE  UNCHANGED <<up, command, addresses, sending>>
  BY <1>11 DEF Start, Started, Close, wires, listVars, sinkVars
<1>12. ASSUME NEW c \in Clients, NEW s \in Stations, PushEvent(c, s)
       PROVE  UNCHANGED <<up, command, addresses, sending>>
  BY <1>12 DEF PushEvent, wires, listVars, sinkVars
<1>13. ASSUME NEW s \in Stations, Produce(s)
       PROVE  UNCHANGED <<up, command, addresses, sending>>
  BY <1>13 DEF Produce, wires, listVars
<1>14. CASE SinkClose
  BY <1>4, <1>14 DEF SinkClose, wires, sinkVars
<1>15. CASE Network
  BY <1>4, <1>15 DEF Network, LoseUp, SwapUp, LoseDown, SwapDown, Refuse, Orderly, wires, listVars, sinkVars
<1>16. CASE UNCHANGED vars
  BY <1>4, <1>16 DEF vars, wires, listVars, sinkVars
<1>. QED
  BY <1>4, <1>5, <1>6, <1>7, <1>8, <1>9, <1>10, <1>11, <1>12, <1>13, <1>14, <1>15, <1>16
     DEF Next, Sender, Client

(* What a step does to the streams is told by address: StreamOK is what
   StreamInv says of one of them. *)
StreamOK(a) ==
  Alive(a) => WellFormed(Stream(a)) /\ (receiver[a] = "part" => Continues(Stream(a), data[a]))

LEMMA StreamKept ==
  ASSUME NEW a \in Addresses, StreamOK(a), Alive(a)' => Alive(a), down'[a[1]] = down[a[1]],
         ToSend(a)' = ToSend(a), receiver'[a] = "part" => receiver[a] = "part" /\ data'[a] = data[a]
  PROVE  StreamOK(a)'
<1>1. Stream(a)' = Stream(a)
  BY DEF Stream
<1>. QED
  BY <1>1 DEF StreamOK

LEMMA NobodySends ==
  ASSUME TypeOK, NEW a \in Addresses, sending[a] = <<>>
  PROVE  ToSend(a) = <<>> /\ Stream(a) = down[a[1]]
<1>1. ToSend(a) \in Seq(Datagrams) /\ Len(ToSend(a)) = 0 /\ down[a[1]] \in Seq(Datagrams)
  <2>1. ToSend(a) \in Seq(Datagrams)
    BY ToSendType
  <2>2. ToSend(a) = [k \in 1..0 |-> Part(record, sending[a][k])]
    BY DEF ToSend
  <2>3. down[a[1]] \in Seq(Datagrams)
    BY AddressHas DEF TypeOK
  <2>. QED
    BY <2>1, <2>2, <2>3
<1>2. ToSend(a) = <<>>
  BY <1>1, EmptySeq
<1>. QED
  BY <1>1, <1>2 DEF Stream

(* pullEvent begins to send when nothing is left to be sent. *)
LEMMA PullKeepsStreams ==
  ASSUME TypeOK, TypeOK', StreamInv, PullEvent
  PROVE  StreamInv'
<1>. SUFFICES ASSUME NEW a \in Addresses PROVE StreamOK(a)'
  BY DEF StreamInv, StreamOK
<1>1. sending[a] = <<>> /\ UNCHANGED <<down, receiver, data>>
  BY DEF PullEvent, Pulling, wires, threadVars
<1>2. Stream(a) = down[a[1]]
  BY <1>1, NobodySends
<1>3. \E rec : sending'[a] \in {<<>>, PiecesOf(rec)}
  BY DEF PullEvent
<1>4. sending'[a] \in {<<>>, <<"whole">>, <<"first", "second">>}
  BY <1>3 DEF PiecesOf
<1>5. /\ ToSend(a)' \in Seq(Datagrams)
      /\ ToSend(a)' = [k \in 1..Len(sending'[a]) |-> Part(record', sending'[a][k])]
      /\ down[a[1]] \in Seq(Datagrams)
  <2>1. sending'[a] \in Seq(Pieces) /\ record' \in Records /\ down[a[1]] \in Seq(Datagrams)
    BY AddressHas DEF TypeOK
  <2>. QED
    BY <2>1, PartsType DEF ToSend
<1>6. \/ ToSend(a)' = <<>>
      \/ ToSend(a)' = <<Part(record', "whole")>>
      \/ ToSend(a)' = <<Part(record', "first"), Part(record', "second")>>
  <2>1. CASE sending'[a] = <<>>
    <3>1. Len(ToSend(a)') = 0
      BY <1>5, <2>1
    <3>. QED
      BY <1>5, <3>1, EmptySeq
  <2>2. CASE sending'[a] = <<"whole">>
    BY <1>5, <2>2
  <2>3. CASE sending'[a] = <<"first", "second">>
    BY <1>5, <2>3
  <2>. QED
    BY <1>4, <2>1, <2>2, <2>3
<1>7. WellFormed(down[a[1]]) => /\ WellFormed(down[a[1]] \o ToSend(a)')
                                /\ \A r : Continues(down[a[1]], r) => Continues(down[a[1]] \o ToSend(a)', r)
  BY <1>5, <1>6, PiecesWellFormed
<1>8. Stream(a)' = down[a[1]] \o ToSend(a)' /\ Alive(a)' = Alive(a)
  BY <1>1 DEF Stream, Alive
<1>. QED
  BY <1>1, <1>2, <1>7, <1>8 DEF StreamInv, StreamOK

(* A piece that goes from pullEvent to the wire stays in the stream. *)
LEMMA SendKeepsStreams ==
  ASSUME TypeOK, OneReceiver, SocketInv, StreamInv, NEW a \in Addresses, Send(a)
  PROVE  StreamInv'
<1>. DEFINE c == a[1]
<1>1. /\ UNCHANGED <<receiver, data, socket>> /\ sending[a] # <<>>
      /\ sending'[a] = Tail(sending[a]) /\ \A b \in Addresses : b # a => sending'[b] = sending[b]
      /\ record' = record \/ (record' = NoRecord /\ \A b \in Addresses : sending'[b] = <<>>)
  BY DEF Send, threadVars, clientVars, TypeOK
<1>2. \/ /\ Alive(a)
         /\ down'[c] = Append(down[c], Part(record, Head(sending[a])))
         /\ \A d \in Clients : d # c => down'[d] = down[d]
      \/ ~Alive(a) /\ down' = down
  BY AddressHas DEF Send, SocketInv, TypeOK, Part
<1>3. ASSUME NEW b \in Addresses, b # a PROVE ToSend(b)' = ToSend(b)
  <2>1. CASE record' = record
    BY <1>1, <1>3, <2>1 DEF ToSend
  <2>2. CASE sending'[b] = <<>>
    <3>1. sending[b] = <<>>
      BY <1>1, <1>3, <2>2
    <3>2. Len(sending[b]) = 0 /\ Len(sending'[b]) = 0
      BY <2>2, <3>1
    <3>. QED
      BY <3>2 DEF ToSend
  <2>. QED
    BY <1>1, <2>1, <2>2
<1>4. ASSUME NEW b \in Addresses, b # a, Alive(b) PROVE down'[b[1]] = down[b[1]]
  BY <1>2, <1>4, AddressHas DEF OneReceiver
<1>5. ASSUME NEW b \in Addresses, b # a PROVE StreamOK(b)'
  <2>1. CASE Alive(b)
    BY <1>1, <1>3, <1>4, <1>5, <2>1, StreamKept DEF StreamInv, StreamOK
  <2>2. CASE ~Alive(b)
    BY <1>1, <2>2 DEF StreamOK, Alive
  <2>. QED
    BY <2>1, <2>2
<1>6. CASE ~Alive(a)
  BY <1>1, <1>5, <1>6 DEF StreamInv, StreamOK, Alive
<1>7. CASE Alive(a)
  <2>1. /\ sending[a] \in Seq(Pieces) /\ Len(sending[a]) \in Nat \ {0}
        /\ Head(sending[a]) = sending[a][1] /\ Len(Tail(sending[a])) = Len(sending[a]) - 1
        /\ \A i \in 1..Len(Tail(sending[a])) : Tail(sending[a])[i] = sending[a][i + 1]
    <3>1. sending[a] \in Seq(Pieces)
      BY DEF TypeOK
    <3>. QED
      BY <1>1, <3>1, EmptySeq, HeadTailProperties
  <2>2. /\ ToSend(a) \in Seq(Datagrams) /\ ToSend(a) # <<>>
        /\ Head(ToSend(a)) = Part(record, Head(sending[a]))
    <3>1. ToSend(a) \in Seq(Datagrams) /\ Len(ToSend(a)) = Len(sending[a])
      <4>1. ToSend(a) \in Seq(Datagrams)
        BY ToSendType
      <4>. QED
        BY <2>1, <4>1 DEF ToSend
    <3>2. ToSend(a)[1] = Part(record, sending[a][1])
      BY <2>1 DEF ToSend
    <3>. QED
      BY <2>1, <3>1, <3>2
  <2>3. ToSend(a)' = Tail(ToSend(a))
    <3>1. /\ Len(Tail(ToSend(a))) = Len(sending[a]) - 1
          /\ \A i \in 1..(Len(sending[a]) - 1) : Tail(ToSend(a))[i] = ToSend(a)[i + 1]
          /\ Tail(ToSend(a)) \in Seq(Datagrams)
      <4>1. Len(ToSend(a)) = Len(sending[a])
        BY <2>1, <2>2 DEF ToSend
      <4>. QED
        BY <2>1, <2>2, <4>1, HeadTailProperties
    <3>2. \A i \in 1..(Len(sending[a]) - 1) : ToSend(a)[i + 1] = Part(record, sending[a][i + 1])
      BY <2>1 DEF ToSend
    <3>. DEFINE rest == Tail(sending[a])
                r == [i \in 1..Len(rest) |-> Part(record, rest[i])]
    <3>3. r \in Seq(Datagrams) /\ Len(r) = Len(sending[a]) - 1
      <4>1. rest \in Seq(Pieces) /\ record \in Records /\ Len(rest) = Len(sending[a]) - 1
        BY <2>1 DEF TypeOK
      <4>. QED
        BY <2>1, <4>1, PartsType
    <3>4. \A i \in 1..Len(r) : Tail(ToSend(a))[i] = r[i]
      BY <2>1, <3>1, <3>2, <3>3
    <3>5. Tail(ToSend(a)) = r
      <4>. HIDE DEF r
      <4>. QED
        BY <3>1, <3>3, <3>4
    <3>6. ToSend(a)' = [i \in 1..Len(rest) |-> Part(record', rest[i])]
      BY <1>1 DEF ToSend
    <3>7. CASE record' = record
      BY <3>5, <3>6, <3>7
    <3>8. CASE rest = <<>>
      <4>1. 1..Len(rest) = {}
        BY <3>8
      <4>. QED
        BY <3>5, <3>6, <4>1
    <3>. QED
      BY <1>1, <3>7, <3>8
  <2>4. down[c] \in Seq(Datagrams) /\ down'[c] = Append(down[c], Head(ToSend(a)))
    BY <1>2, <1>7, <2>2, AddressHas DEF TypeOK
  <2>5. Stream(a)' = Stream(a)
    BY <2>2, <2>3, <2>4, MoveBorder DEF Stream
  <2>6. StreamOK(a)'
    BY <1>1, <2>5 DEF StreamInv, StreamOK, Alive
  <2>. QED
    BY <1>5, <2>6 DEF StreamInv, StreamOK
<1>. QED
  BY <1>6, <1>7

(* What the thread of an address does leaves the streams of the others. *)
LEMMA OthersKept ==
  ASSUME OneReceiver, StreamInv, NEW a \in Addresses, Alive(a),
         UNCHANGED <<sending, record>>,
         \A d \in Clients : d # a[1] => down'[d] = down[d],
         \A b \in Addresses : b # a => receiver'[b] = receiver[b] /\ data'[b] = data[b]
  PROVE  \A b \in Addresses : b # a => StreamOK(b)'
<1>. SUFFICES ASSUME NEW b \in Addresses, b # a PROVE StreamOK(b)'
  OBVIOUS
<1>1. CASE Alive(b)
  <2>1. down'[b[1]] = down[b[1]]
    BY <1>1, AddressHas DEF OneReceiver
  <2>2. ToSend(b)' = ToSend(b)
    BY DEF ToSend
  <2>. QED
    BY <1>1, <2>1, <2>2, StreamKept DEF StreamInv, StreamOK
<1>2. CASE ~Alive(b)
  BY <1>2 DEF StreamOK, Alive
<1>. QED
  BY <1>1, <1>2

(* A receiver takes the head of its stream. *)
LEMMA HeadTaken ==
  ASSUME TypeOK, StreamInv, NEW a \in Addresses, Alive(a), down[a[1]] # <<>>,
         down'[a[1]] = Tail(down[a[1]]), UNCHANGED <<sending, record>>
  PROVE  /\ Stream(a)[1] = Head(down[a[1]])
         /\ WellFormed(Stream(a)')
         /\ Head(down[a[1]]).piece = "first" => Continues(Stream(a)', Head(down[a[1]]).rec)
<1>1. down[a[1]] \in Seq(Datagrams) /\ ToSend(a) \in Seq(Datagrams)
  BY AddressHas, ToSendType DEF TypeOK
<1>2. Stream(a)' = Tail(down[a[1]]) \o ToSend(a)
  BY DEF Stream, ToSend
<1>3. WellFormed(Stream(a))
  BY DEF StreamInv
<1>4. ASSUME NEW d, NEW t, NEW s, NEW r,
             d = down[a[1]], t = ToSend(a), s = Stream(a), r = Stream(a)'
      PROVE  /\ s[1] = Head(d) /\ WellFormed(r)
             /\ Head(d).piece = "first" => Continues(r, Head(d).rec)
  <2>1. /\ d \in Seq(Datagrams) /\ t \in Seq(Datagrams) /\ d # <<>>
        /\ s = d \o t /\ r = Tail(d) \o t /\ WellFormed(s)
    BY <1>1, <1>2, <1>3, <1>4 DEF Stream
  <2>2. /\ Len(s) \in Nat /\ Len(r) = Len(s) - 1 /\ Len(s) > 0 /\ s[1] = Head(d)
        /\ \A i \in 1..Len(r) : r[i] = s[i + 1]
    BY <2>1, TakeHead
  <2>. QED
    BY <2>1, <2>2, RestWellFormed
<1>. QED
  BY <1>4

LEMMA ReceiverKeepsStreams ==
  ASSUME TypeOK, OneReceiver, StreamInv, NEW a \in Addresses, Receiver(a)
  PROVE  StreamInv'
<1>1. \A d \in Clients : d # a[1] => down'[d] = down[d]
  BY DEF Receiver, Timeout, Receive, ReceiveRest, Acknowledged, AfterRecord, ProcessRecord, Leave, TypeOK, wires
<1>2. Alive(a) /\ UNCHANGED <<sending, record>>
  BY DEF Receiver, Timeout, Receive, ReceiveRest, Acknowledged, AfterRecord, ProcessRecord, Leave, IsAt, Alive, sinkVars
<1>3. \A b \in Addresses : b # a => receiver'[b] = receiver[b] /\ data'[b] = data[b]
  <2>1. CASE Leave(a)
    BY <2>1 DEF Leave, Goes, TypeOK
  <2>. QED
    BY <2>1, StaysAlive
<1>4. SUFFICES StreamOK(a)'
  BY <1>1, <1>2, <1>3, OthersKept DEF StreamInv, StreamOK
<1>5. CASE Timeout(a)
  <2>1. receiver'[a] # "part" /\ down' = down
    BY <1>5 DEF Timeout, Goes, TypeOK
  <2>. QED
    BY <1>2, <2>1, StreamKept DEF StreamInv, StreamOK, ToSend
<1>6. CASE Leave(a)
  <2>1. ~Alive(a)'
    BY <1>6 DEF Leave, Goes, TypeOK, Alive
  <2>. QED
    BY <2>1 DEF StreamOK
<1>7. ASSUME NEW s \in Stations, ProcessRecord(a, s) PROVE StreamOK(a)'
  <2>1. receiver'[a] # "part" /\ down' = down
    BY <1>7 DEF ProcessRecord, AfterRecord, Goes, TypeOK, wires
  <2>. QED
    BY <1>2, <2>1, StreamKept DEF StreamInv, StreamOK, ToSend
<1>10. CASE Acknowledged(a)
  <2>1. receiver'[a] # "part" /\ down' = down
    BY <1>10 DEF Acknowledged, Goes, TypeOK, wires
  <2>. QED
    BY <1>2, <2>1, StreamKept DEF StreamInv, StreamOK, ToSend
<1>8. CASE Receive(a)
  <2>1. down[a[1]] # <<>> /\ down'[a[1]] = Tail(down[a[1]])
    BY <1>8, AddressHas DEF Receive, TypeOK
  <2>2. receiver'[a] = "part" => /\ Head(down[a[1]]).piece = "first"
                                 /\ data'[a] = Head(down[a[1]]).rec
    BY <1>8 DEF Receive, Got, AfterRecord, Goes, TypeOK
  <2>. QED
    BY <1>2, <2>1, <2>2, HeadTaken DEF StreamOK
<1>9. CASE ReceiveRest(a)
  <2>1. down[a[1]] # <<>> /\ down'[a[1]] = Tail(down[a[1]])
    BY <1>9, AddressHas DEF ReceiveRest, TypeOK
  <2>2. Head(down[a[1]]) = Part(data[a], "second")
    BY <1>2, <1>9, <2>1, HeadTaken DEF ReceiveRest, IsAt, StreamInv, Continues
  <2>3. receiver'[a] # "part"
    BY <1>9, <2>2, RestTakes
  <2>. QED
    BY <1>2, <2>1, <2>3, HeadTaken DEF StreamOK
<1>. QED
  BY <1>5, <1>6, <1>7, <1>8, <1>9, <1>10 DEF Receiver

(* The stream of a thread that is spawned is empty. *)
LEMMA StartKeepsStreams ==
  ASSUME NetworkAssumption, TypeOK, ReceiverInv, SocketInv, KnownInv, StreamInv,
         NEW c \in Clients, Start(c)
  PROVE  StreamInv'
<1>1. UNCHANGED <<down, sending, record, data>>
  BY DEF Start, wires, sinkVars
<1>2. \A b \in Addresses : ToSend(b)' = ToSend(b)
  BY <1>1 DEF ToSend
<1>3. ASSUME NEW b \in Addresses, receiver'[b] = receiver[b] PROVE StreamOK(b)'
  BY <1>1, <1>2, <1>3, StreamKept DEF StreamInv, StreamOK, Alive
<1>4. CASE receiver' = receiver
  BY <1>3, <1>4 DEF StreamInv, StreamOK
<1>5. CASE ~running[c] /\ receiver' = [receiver EXCEPT ![<<c, runs[c] + 1>>] = "recv"]
  <2>1. PICK n \in Runs : n = runs[c] + 1
    BY NetworkAssumption DEF Start, TypeOK, Runs
  <2>2. PICK a \in Addresses : a = <<c, n>>
    BY DEF Addresses
  <2>3. /\ receiver'[a] = "recv"
        /\ \A b \in Addresses : b # a => receiver'[b] = receiver[b]
    BY <1>5, <2>1, <2>2 DEF TypeOK
  <2>4. receiver[a] = "none"
    BY <2>1, <2>2 DEF ReceiverInv, AliveKnown, TypeOK
  <2>5. down[c] = <<>>
    <3>1. \A b \in Addresses : b[1] = c => ~Alive(b)
      BY <1>5 DEF Start, ReceiverInv, AliveKnown
    <3>2. ASSUME socket[c] # 0 PROVE <<c, socket[c]>> \in Addresses
      BY <3>2 DEF TypeOK, Addresses, Runs
    <3>. QED
      BY <3>1, <3>2 DEF SocketInv
  <2>6. Stream(a) = <<>>
    BY <2>2, <2>4, <2>5, NobodySends DEF KnownInv
  <2>7. WellFormed(Stream(a)) /\ Stream(a)' = Stream(a)
    <3>1. Stream(a)' = Stream(a)
      BY <1>1 DEF Stream, ToSend
    <3>2. 1..Len(Stream(a)) = {}
      BY <2>6
    <3>. QED
      BY <3>1, <3>2 DEF WellFormed
  <2>8. StreamOK(a)'
    BY <2>3, <2>7 DEF StreamOK
  <2>. QED
    BY <1>3, <2>3, <2>8 DEF StreamInv, StreamOK
<1>. QED
  BY <1>4, <1>5 DEF Start

LEMMA StreamStep ==
  ASSUME NetworkAssumption, TypeOK, TypeOK', ReceiverInv, SocketInv, Orderly, KnownInv,
         StreamInv, [Next]_vars
  PROVE  StreamInv'
<1>1. CASE UNCHANGED <<receiver, data, down, sending, record>>
  BY <1>1 DEF StreamInv, Alive, Stream, ToSend
<1>2. CASE PullEvent
  BY <1>2, PullKeepsStreams
<1>3. ASSUME NEW a \in Addresses, Send(a) PROVE StreamInv'
  BY <1>3, SendKeepsStreams DEF ReceiverInv
<1>4. ASSUME NEW a \in Addresses, Receiver(a) PROVE StreamInv'
  BY <1>4, ReceiverKeepsStreams DEF ReceiverInv
<1>5. ASSUME NEW c \in Clients, Start(c) PROVE StreamInv'
  BY <1>5, StartKeepsStreams
<1>6. ASSUME NEW c \in Clients, Started(c) \/ Close(c) PROVE StreamInv'
  BY <1>1, <1>6 DEF Started, Close, threadVars, wires, sinkVars
<1>7. ASSUME NEW c \in Clients, NEW s \in Stations, PushEvent(c, s) PROVE StreamInv'
  BY <1>1, <1>7 DEF PushEvent, threadVars, wires, sinkVars
<1>8. ASSUME NEW s \in Stations, Produce(s) PROVE StreamInv'
  BY <1>1, <1>8 DEF Produce, threadVars, wires
<1>9. CASE SinkClose \/ SinkReceive \/ SinkTimeout \/ Handle
  BY <1>1, <1>9 DEF SinkClose, SinkReceive, SinkTimeout, Handle, threadVars, wires, sinkVars
<1>10. CASE Network
  BY <1>1, <1>10 DEF Network, LoseUp, SwapUp, LoseDown, SwapDown, Refuse, Orderly, wires, threadVars, sinkVars
<1>11. CASE UNCHANGED vars
  BY <1>1, <1>11 DEF vars, threadVars, wires, sinkVars
<1>. QED
  BY <1>2, <1>3, <1>4, <1>5, <1>6, <1>7, <1>8, <1>9, <1>10, <1>11 DEF Next, Sender, Client

LEMMA CleanStep ==
  ASSUME NetworkAssumption, TypeOK, StreamInv, Orderly, CleanInv, [Next]_vars
  PROVE  CleanInv'
<1>1. CASE UNCHANGED <<record, data, down, stationEvent>>
  BY <1>1 DEF CleanInv, Clean
<1>2. Clean(NoRecord)
  BY DEF Clean, NoRecord
<1>3. CASE PullEvent
  <2>1. UNCHANGED <<data, down, stationEvent>>
    BY <1>3 DEF PullEvent, threadVars, wires, stationVars
  <2>2. \A s \in Stations : event[s] # Garbled
    BY NetworkAssumption DEF TypeOK, Events, Garbled
  <2>3. Clean(record')
    <3>1. \/ record' = NoRecord
          \/ \E new \in SUBSET Stations : record' = [s \in new |-> event[s]]
      BY <1>3 DEF PullEvent
    <3>. QED
      BY <1>2, <2>2, <3>1 DEF Clean
  <2>. QED
    BY <2>1, <2>3 DEF CleanInv, Clean
<1>4. ASSUME NEW a \in Addresses, Send(a) PROVE CleanInv'
  <2>1. UNCHANGED <<data, stationEvent>> /\ record' \in {record, NoRecord}
    BY <1>4 DEF Send, threadVars, stationVars
  <2>2. ASSUME NEW c \in Clients, NEW i \in 1..Len(down'[c])
        PROVE  \/ i \in 1..Len(down[c]) /\ down'[c][i] = down[c][i]
               \/ down'[c][i].rec = record
    <3>1. CASE down'[c] = down[c]
      BY <3>1
    <3>2. ASSUME NEW piece, down'[c] = Append(down[c], [rec |-> record, piece |-> piece])
          PROVE  \/ i \in 1..Len(down[c]) /\ down'[c][i] = down[c][i]
                 \/ down'[c][i].rec = record
      <4>1. down[c] \in Seq(Datagrams)
        BY DEF TypeOK
      <4>2. i \in 1..Len(down[c]) \/ i = Len(down[c]) + 1
        BY <3>2, <4>1
      <4>3. CASE i \in 1..Len(down[c])
        BY <3>2, <4>1, <4>3
      <4>4. CASE i = Len(down[c]) + 1
        BY <3>2, <4>1, <4>4
      <4>. QED
        BY <4>2, <4>3, <4>4
    <3>3. \/ down'[c] = down[c]
          \/ down'[c] = Append(down[c], [rec |-> record, piece |-> Head(sending[a])])
      BY <1>4, SendPuts DEF Part
    <3>. QED
      BY <3>1, <3>2, <3>3
  <2>3. Clean(record')
    BY <1>2, <2>1 DEF CleanInv
  <2>. QED
    BY <2>1, <2>2, <2>3 DEF CleanInv, Clean
<1>5. ASSUME NEW c \in Clients, down[c] # <<>>
      PROVE  /\ Clean(Head(down[c]).rec)
             /\ \A i \in 1..Len(Tail(down[c])) : Clean(Tail(down[c])[i].rec)
  <2>1. /\ Len(down[c]) \in Nat \ {0} /\ Head(down[c]) = down[c][1]
        /\ Len(Tail(down[c])) = Len(down[c]) - 1
        /\ \A i \in 1..Len(Tail(down[c])) : Tail(down[c])[i] = down[c][i + 1]
    <3>1. down[c] \in Seq(Datagrams)
      BY DEF TypeOK
    <3>. QED
      BY <1>5, <3>1, EmptySeq, HeadTailProperties
  <2>2. \A i \in 1..Len(Tail(down[c])) : i + 1 \in 1..Len(down[c])
    BY <2>1
  <2>3. 1 \in 1..Len(down[c])
    BY <2>1
  <2>. QED
    BY <2>1, <2>2, <2>3 DEF CleanInv
<1>6. ASSUME NEW a \in Addresses, Receive(a) PROVE CleanInv'
  <2>1. /\ UNCHANGED <<record, stationEvent>> /\ down[a[1]] # <<>> /\ a[1] \in Clients
        /\ \A c \in Clients : down'[c] = IF c = a[1] THEN Tail(down[c]) ELSE down[c]
    BY <1>6, AddressHas DEF Receive, TypeOK, sinkVars, stationVars
  <2>2. \A b \in Addresses : data'[b] \in {data[b], NoRecord, Head(down[a[1]]).rec}
    BY <1>6, ReceiveTakes
  <2>3. \A b \in Addresses : Clean(data'[b])
    BY <1>2, <1>5, <2>1, <2>2 DEF CleanInv
  <2>4. \A c \in Clients : \A i \in 1..Len(down'[c]) : Clean(down'[c][i].rec)
    BY <1>5, <2>1 DEF CleanInv
  <2>. QED
    BY <2>1, <2>3, <2>4 DEF CleanInv, Clean
<1>7. ASSUME NEW a \in Addresses, ReceiveRest(a) PROVE CleanInv'
  <2>1. /\ UNCHANGED <<record, stationEvent>> /\ down[a[1]] # <<>> /\ a[1] \in Clients
        /\ \A c \in Clients : down'[c] = IF c = a[1] THEN Tail(down[c]) ELSE down[c]
    BY <1>7, AddressHas DEF ReceiveRest, TypeOK, sinkVars, stationVars
  <2>2. Head(down[a[1]]) = Part(data[a], "second")
    <3>1. Stream(a)[1] = Head(down[a[1]])
      <4>1. down[a[1]] \in Seq(Datagrams) /\ ToSend(a) \in Seq(Datagrams)
        BY AddressHas, ToSendType DEF TypeOK
      <4>. QED
        BY <2>1, <4>1, TakeHead DEF Stream
    <3>. QED
      BY <1>7, <3>1 DEF ReceiveRest, IsAt, StreamInv, Continues, Alive
  <2>3. \A b \in Addresses : data'[b] \in {data[b], NoRecord}
    BY <1>7, <2>2, RestTakes
  <2>4. \A b \in Addresses : Clean(data'[b])
    BY <1>2, <2>3 DEF CleanInv
  <2>5. \A c \in Clients : \A i \in 1..Len(down'[c]) : Clean(down'[c][i].rec)
    BY <1>5, <2>1 DEF CleanInv
  <2>. QED
    BY <2>1, <2>4, <2>5 DEF CleanInv, Clean
<1>8. ASSUME NEW a \in Addresses, NEW s \in Stations, ProcessRecord(a, s) PROVE CleanInv'
  <2>1. UNCHANGED <<record, down>> /\ data[a][s] # Garbled
    BY <1>8 DEF ProcessRecord, wires, sinkVars, CleanInv, Clean
  <2>2. \A b \in Addresses :
          data'[b] = data[b] \/ data'[b] = [t \in DOMAIN data[a] \ {s} |-> data[a][t]]
    BY <1>8 DEF ProcessRecord, TypeOK
  <2>3. \A b \in Addresses : Clean(data'[b])
    <3>1. Clean([t \in DOMAIN data[a] \ {s} |-> data[a][t]])
      <4>1. Clean(data[a])
        BY DEF CleanInv
      <4>. QED
        BY <4>1 DEF Clean
    <3>. QED
      BY <2>2, <3>1 DEF CleanInv
  <2>4. \A c \in Clients, t \in Stations : stationEvent'[c][t] \in {stationEvent[c][t], data[a][s]}
    BY <1>8, AddressHas DEF ProcessRecord, TypeOK
  <2>. QED
    BY <2>1, <2>3, <2>4 DEF CleanInv, Clean
<1>9. ASSUME NEW a \in Addresses, Timeout(a) \/ Acknowledged(a) PROVE CleanInv'
  BY <1>1, <1>9 DEF Timeout, Acknowledged, wires, sinkVars, stationVars
<1>10. ASSUME NEW a \in Addresses, Leave(a) PROVE CleanInv'
  <2>1. /\ UNCHANGED <<record, data, stationEvent>>
        /\ \A c \in Clients : down'[c] \in {down[c], <<>>}
    BY <1>10 DEF Leave, TypeOK, sinkVars, stationVars
  <2>. QED
    BY <2>1 DEF CleanInv, Clean
<1>11. ASSUME NEW c \in Clients, Start(c) \/ Started(c) \/ Close(c) PROVE CleanInv'
  BY <1>1, <1>11 DEF Start, Started, Close, threadVars, wires, sinkVars, stationVars
<1>12. ASSUME NEW c \in Clients, NEW s \in Stations, PushEvent(c, s) PROVE CleanInv'
  BY <1>1, <1>12 DEF PushEvent, threadVars, wires, sinkVars
<1>13. ASSUME NEW s \in Stations, Produce(s) PROVE CleanInv'
  BY <1>1, <1>13 DEF Produce, threadVars, wires, stationVars
<1>14. CASE SinkClose \/ SinkReceive \/ SinkTimeout \/ Handle
  BY <1>1, <1>14 DEF SinkClose, SinkReceive, SinkTimeout, Handle, threadVars, wires, sinkVars, stationVars
<1>15. CASE Network
  BY <1>1, <1>15 DEF Network, LoseUp, SwapUp, LoseDown, SwapDown, Refuse, Orderly, wires, threadVars, sinkVars,
       stationVars
<1>16. CASE UNCHANGED vars
  BY <1>1, <1>16 DEF vars, threadVars, wires, sinkVars, stationVars
<1>. QED
  BY <1>3, <1>4, <1>6, <1>7, <1>8, <1>9, <1>10, <1>11, <1>12, <1>13, <1>14, <1>15, <1>16
     DEF Next, Sender, Client, Receiver

LEMMA NetworkStays == ASSUME [Next]_vars PROVE network' = network /\ (Orderly' <=> Orderly)
<1>1. CASE UNCHANGED settings
  BY <1>1 DEF settings, Orderly
<1>2. ASSUME NEW c \in Clients, Refuse(c) PROVE network' = network /\ (Orderly' <=> Orderly)
  BY <1>2 DEF Refuse, Orderly
<1>3. UNCHANGED settings \/ \E c \in Clients : Refuse(c)
  BY DEF Next, Sender, Client, Receiver, Network, Produce, PullEvent, Send, SinkClose, SinkReceive,
         SinkTimeout, Handle, Start, Started, PushEvent, Close, Timeout, Receive, ReceiveRest,
         Acknowledged, ProcessRecord, Leave, LoseUp, LoseDown, SwapUp, SwapDown, netUnchanged, vars
<1>. QED
  BY <1>1, <1>2, <1>3

(* The invariant of the wires, from the sender's list to the stations. *)
LEMMA WireInvariant == Spec => []WireInv
<1>1. Init => WireInv
  <2>. SUFFICES ASSUME Init PROVE KnownInv /\ StreamInv /\ CleanInv
    BY DEF WireInv
  <2>1. KnownInv /\ StreamInv
    BY DEF Init, KnownInv, StreamInv, Alive
  <2>2. CleanInv
    BY NetworkAssumption DEF Init, CleanInv, Clean, NoRecord, Garbled
  <2>. QED
    BY <2>1, <2>2
<1>2. TypeInv /\ TypeInv' /\ ReceiverInv /\ SocketInv /\ WireInv /\ [Next]_vars => WireInv'
  BY NetworkAssumption, NetworkStays, KnownStep, StreamStep, CleanStep DEF WireInv, TypeInv
<1>. QED
  BY <1>1, <1>2, TypeInvariant, ReceiverInvariant, SocketInvariant, PTL DEF Spec

(* Over an orderly network no record is put together from pieces of two, however
   many clients and stations there are and however often the clients are
   started and closed. *)
THEOREM RecordsWhole == Spec => []WholeRecords
<1>1. WireInv => WholeRecords
  BY DEF WireInv, CleanInv, WholeRecords
<1>. QED
  BY <1>1, WireInvariant, PTL
-----------------------------------------------------------------------------
(* EventsInOrder.  The events of a station stay in the order they were produced
   in, from the sink to the source node. *)
(* Two records, or tables, that both have an event of a station: the first has
   it from earlier, or the same one. *)
Before(r, q) == \A s \in DOMAIN r \cap DOMAIN q : r[s] <= q[s]

(* What an event passes on its way, in order: the sink, the record that is being
   sent, the wire, the receiver's data, the station, the source node. *)
OrderInv ==
  /\ \A s \in Stations : event[s] <= produced
  /\ Before(record, event)
  /\ \A c \in Clients :
       /\ Before(pushed[c], stationEvent[c])
       /\ Before(stationEvent[c], record) /\ Before(stationEvent[c], event)
       /\ \A i \in 1..Len(down[c]) :
            /\ Before(stationEvent[c], down[c][i].rec)
            /\ Before(down[c][i].rec, record) /\ Before(down[c][i].rec, event)
            /\ \A j \in i..Len(down[c]) : Before(down[c][i].rec, down[c][j].rec)
  /\ \A a \in Addresses :
       /\ Before(stationEvent[a[1]], data[a])
       /\ Before(data[a], record) /\ Before(data[a], event)
       /\ \A i \in 1..Len(down[a[1]]) : Before(data[a], down[a[1]][i].rec)

(* A thread has data only while it receives or processes a record. *)
IdleInv == \A a \in Addresses : receiver[a] \notin {"part", "process"} => DOMAIN data[a] = {}


LEMMA IdleInvariant == Spec => []IdleInv
<1>1. Init => IdleInv
  BY DEF Init, IdleInv, NoRecord
<1>2. TypeOK /\ ReceiverInv /\ IdleInv /\ [Next]_vars => IdleInv'
  <2>. SUFFICES ASSUME TypeOK, ReceiverInv, IdleInv, [Next]_vars PROVE IdleInv'
    OBVIOUS
  <2>. USE DEF IdleInv, TypeOK
  <2>1. CASE UNCHANGED threadVars
    BY <2>1 DEF threadVars
  <2>2. ASSUME NEW c \in Clients, Start(c) PROVE IdleInv'
    <3>1. data' = data
      BY <2>2 DEF Start
    <3>2. ASSUME NEW a \in Addresses, receiver'[a] # receiver[a] PROVE receiver[a] = "none"
      <4>1. a = <<c, runs[c] + 1>> /\ runs[c] \in Nat
        BY <2>2, <3>2 DEF Start
      <4>. QED
        BY <4>1 DEF ReceiverInv, AliveKnown
    <3>. QED
      BY <3>1, <3>2
  <2>3. ASSUME NEW a \in Addresses, Timeout(a) \/ Acknowledged(a) \/ Leave(a) PROVE IdleInv'
    BY <2>3 DEF Timeout, Acknowledged, Leave, IsAt, Goes
  <2>4. ASSUME NEW a \in Addresses, Receive(a) PROVE IdleInv'
    BY <2>4 DEF Receive, Got, AfterRecord, IsAt, Goes, NoRecord
  <2>5. ASSUME NEW a \in Addresses, ReceiveRest(a) PROVE IdleInv'
    <3>1. \/ Goes(a, "leave") /\ data' = [data EXCEPT ![a] = NoRecord]
          \/ \E rec : data' = [data EXCEPT ![a] = rec] /\ (Goes(a, "process") \/ Goes(a, "part"))
      BY <2>5 DEF ReceiveRest, Got
    <3>2. receiver'[a] \in {"part", "process"} \/ DOMAIN data'[a] = {}
      BY <3>1 DEF Goes, NoRecord
    <3>3. \A b \in Addresses : b # a => receiver'[b] = receiver[b] /\ data'[b] = data[b]
      BY <3>1 DEF Goes
    <3>. QED
      BY <3>2, <3>3
  <2>6. ASSUME NEW a \in Addresses, NEW s \in Stations, ProcessRecord(a, s) PROVE IdleInv'
    BY <2>6 DEF ProcessRecord, AfterRecord, IsAt, Goes
  <2>. QED
    BY <2>1, <2>2, <2>3, <2>4, <2>5, <2>6
       DEF Next, Sender, Client, Receiver, Network, Produce, PullEvent, Send, SinkClose,
           SinkReceive, SinkTimeout, Handle, Started, PushEvent, Close, LoseUp, LoseDown, SwapUp,
           SwapDown, Refuse, netUnchanged, vars
<1>. QED
  BY <1>1, <1>2, TypeInvariant, ReceiverInvariant, PTL DEF Spec, TypeInv

LEMMA EventTypes ==
  ASSUME TypeOK
  PROVE  /\ produced \in Nat /\ \A s \in Stations : event[s] \in Nat
         /\ \A s \in DOMAIN record : record[s] \in Nat
         /\ \A c \in Clients, s \in Stations : stationEvent[c][s] \in Nat /\ pushed[c][s] \in Nat
         /\ \A c \in Clients : \A i \in 1..Len(down[c]) : \A s \in DOMAIN down[c][i].rec :
              down[c][i].rec[s] \in Nat
         /\ \A a \in Addresses : \A s \in DOMAIN data[a] : data[a][s] \in Nat
         /\ DOMAIN event = Stations /\ DOMAIN record \subseteq Stations
         /\ \A c \in Clients : DOMAIN stationEvent[c] = Stations /\ DOMAIN pushed[c] = Stations
         /\ \A a \in Addresses : DOMAIN data[a] \subseteq Stations
<1>1. Events \cup {Garbled} \subseteq Nat /\ Events \subseteq Nat
  BY NetworkAssumption DEF Events, Garbled
<1>2. \A rec \in Records : DOMAIN rec \subseteq Stations /\ \A s \in DOMAIN rec : rec[s] \in Nat
  BY <1>1 DEF Records
<1>3. \A c \in Clients : \A i \in 1..Len(down[c]) : down[c][i].rec \in Records
  <2>. SUFFICES ASSUME NEW c \in Clients, NEW i \in 1..Len(down[c]) PROVE down[c][i].rec \in Records
    OBVIOUS
  <2>1. down[c] \in Seq(Datagrams)
    BY DEF TypeOK
  <2>2. down[c][i] \in Datagrams
    BY <2>1, ElementOfSeq
  <2>. QED
    BY <2>2 DEF Datagrams
<1>4. record \in Records /\ \A a \in Addresses : data[a] \in Records
  BY DEF TypeOK
<1>5. /\ \A s \in Stations : event[s] \in Events
      /\ \A c \in Clients, s \in Stations :
           stationEvent[c][s] \in Events \cup {Garbled} /\ pushed[c][s] \in Events \cup {Garbled}
  BY DEF TypeOK
<1>. QED
  BY <1>1, <1>2, <1>3, <1>4, <1>5 DEF TypeOK

(* What is still under way to a client when the head of the wire is taken. *)
LEMMA RestOfWire ==
  ASSUME TypeOK, NEW c \in Clients, down[c] # <<>>
  PROVE  /\ Len(down[c]) \in Nat /\ 1 \in 1..Len(down[c]) /\ Head(down[c]) = down[c][1]
         /\ Len(Tail(down[c])) = Len(down[c]) - 1
         /\ \A i \in 1..Len(Tail(down[c])) :
              i + 1 \in 1..Len(down[c]) /\ Tail(down[c])[i] = down[c][i + 1]
<1>1. down[c] \in Seq(Datagrams)
  BY DEF TypeOK
<1>2. /\ Len(down[c]) \in Nat \ {0} /\ Head(down[c]) = down[c][1]
      /\ Len(Tail(down[c])) = Len(down[c]) - 1
      /\ \A i \in 1..Len(Tail(down[c])) : Tail(down[c])[i] = down[c][i + 1]
  BY <1>1, EmptySeq, HeadTailProperties
<1>. QED
  BY <1>2

(* A receiver that takes the head of its wire keeps it, or none of it. *)
LEMMA TakingKeepsOrder ==
  ASSUME TypeOK, OrderInv, NEW a \in Addresses, down[a[1]] # <<>>,
         UNCHANGED <<event, produced, record, stationEvent, pushed>>,
         \A c \in Clients : down'[c] = IF c = a[1] THEN Tail(down[c]) ELSE down[c],
         \A b \in Addresses : b # a => data'[b] = data[b],
         data'[a] \in {data[a], NoRecord, Head(down[a[1]]).rec}
  PROVE  OrderInv'
<1>. DEFINE c == a[1]
<1>1. c \in Clients
  BY AddressHas
<1>2. /\ Len(down[c]) \in Nat /\ 1 \in 1..Len(down[c]) /\ Head(down[c]) = down[c][1]
      /\ down'[c] = Tail(down[c]) /\ Len(down'[c]) = Len(down[c]) - 1
      /\ \A i \in 1..Len(down'[c]) : i + 1 \in 1..Len(down[c]) /\ down'[c][i] = down[c][i + 1]
  <2>1. down'[c] = Tail(down[c])
    BY <1>1
  <2>2. down[c] # <<>>
    OBVIOUS
  <2>. HIDE DEF c
  <2>. QED
    BY <1>1, <2>1, <2>2, RestOfWire
<1>3. \A q : Before(NoRecord, q) /\ Before(q, NoRecord)
  BY DEF Before, NoRecord
<1>4. ASSUME NEW d \in Clients
      PROVE  \A i \in 1..Len(down'[d]) :
               /\ Before(stationEvent[d], down'[d][i].rec)
               /\ Before(down'[d][i].rec, record) /\ Before(down'[d][i].rec, event)
               /\ \A j \in i..Len(down'[d]) : Before(down'[d][i].rec, down'[d][j].rec)
  <2>1. CASE d = c
    <3>. SUFFICES ASSUME NEW i \in 1..Len(down'[c])
                  PROVE  /\ Before(stationEvent[c], down'[c][i].rec)
                         /\ Before(down'[c][i].rec, record) /\ Before(down'[c][i].rec, event)
                         /\ \A j \in i..Len(down'[c]) : Before(down'[c][i].rec, down'[c][j].rec)
      BY <2>1
    <3>1. i + 1 \in 1..Len(down[c]) /\ down'[c][i] = down[c][i + 1]
      BY <1>2
    <3>2. \A j \in i..Len(down'[c]) : j + 1 \in (i + 1)..Len(down[c]) /\ down'[c][j] = down[c][j + 1]
      BY <1>2
    <3>3. /\ Before(stationEvent[c], down[c][i + 1].rec)
          /\ Before(down[c][i + 1].rec, record) /\ Before(down[c][i + 1].rec, event)
          /\ \A j \in (i + 1)..Len(down[c]) : Before(down[c][i + 1].rec, down[c][j].rec)
      BY <1>1, <3>1 DEF OrderInv
    <3>. QED
      BY <3>1, <3>2, <3>3
  <2>2. CASE d # c
    BY <2>2 DEF OrderInv
  <2>. QED
    BY <2>1, <2>2
<1>5. ASSUME NEW b \in Addresses
      PROVE  /\ Before(stationEvent[b[1]], data'[b])
             /\ Before(data'[b], record) /\ Before(data'[b], event)
             /\ \A i \in 1..Len(down'[b[1]]) : Before(data'[b], down'[b[1]][i].rec)
  <2>1. ASSUME NEW i \in 1..Len(down'[b[1]])
        PROVE  \E j \in 1..Len(down[b[1]]) : down'[b[1]][i] = down[b[1]][j]
    <3>1. CASE b[1] = c
      <4>1. i \in 1..Len(down'[c])
        BY <2>1, <3>1
      <4>2. i + 1 \in 1..Len(down[c]) /\ down'[c][i] = down[c][i + 1]
        BY <1>2, <4>1
      <4>. QED
        BY <3>1, <4>2
    <3>2. CASE b[1] # c
      <4>1. down'[b[1]] = down[b[1]]
        BY <3>2, AddressHas
      <4>. QED
        BY <2>1, <4>1
    <3>. QED
      BY <3>1, <3>2
  <2>2. CASE data'[b] = data[b]
    BY <2>1, <2>2 DEF OrderInv
  <2>3. CASE data'[b] = NoRecord
    BY <1>3, <2>3
  <2>4. CASE b = a /\ data'[b] = Head(down[c]).rec
    <3>1. data'[b] = down[c][1].rec /\ b[1] = c
      BY <1>2, <2>4
    <3>2. /\ Before(stationEvent[c], down[c][1].rec)
          /\ Before(down[c][1].rec, record) /\ Before(down[c][1].rec, event)
          /\ \A j \in 1..Len(down[c]) : Before(down[c][1].rec, down[c][j].rec)
      BY <1>1, <1>2 DEF OrderInv
    <3>. QED
      BY <2>1, <3>1, <3>2
  <2>. QED
    BY <2>2, <2>3, <2>4
<1>. QED
  BY <1>4, <1>5 DEF OrderInv

LEMMA OrderStep ==
  ASSUME TypeOK, TypeOK', OneReceiver, IdleInv, StreamInv, Orderly, OrderInv, [Next]_vars
  PROVE  OrderInv'
<1>0. \A q : Before(NoRecord, q) /\ Before(q, NoRecord)
  BY DEF Before, NoRecord
<1>1. CASE UNCHANGED <<event, produced, record, stationEvent, pushed, down, data>>
  BY <1>1 DEF OrderInv
<1>2. ASSUME NEW s \in Stations, Produce(s) PROVE OrderInv'
  <2>1. /\ UNCHANGED <<record, stationEvent, pushed, down, data>>
        /\ produced' = produced + 1 /\ DOMAIN event' = DOMAIN event
        /\ \A t \in Stations : event'[t] = IF t = s THEN produced + 1 ELSE event[t]
    BY <1>2 DEF Produce, wires, threadVars, stationVars, TypeOK
  <2>2. \A t \in Stations : event[t] <= event'[t] /\ event'[t] <= produced'
    BY <2>1, EventTypes DEF OrderInv
  <2>3. ASSUME NEW r, Before(r, event), \A t \in DOMAIN r \cap Stations : r[t] \in Nat
        PROVE  Before(r, event')
    <3>. SUFFICES ASSUME NEW t \in DOMAIN r \cap Stations PROVE r[t] <= event'[t]
      BY <2>1, EventTypes DEF Before
    <3>1. r[t] <= event[t]
      BY <2>3, EventTypes DEF Before
    <3>2. event[t] \in Nat /\ event'[t] \in Nat /\ event[t] <= event'[t] /\ r[t] \in Nat
      BY <2>1, <2>2, <2>3, EventTypes
    <3>. QED
      BY <3>1, <3>2
  <2>4. Before(record, event') /\ \A a \in Addresses : Before(data[a], event')
    BY <2>3, EventTypes DEF OrderInv
  <2>5. \A c \in Clients : /\ Before(stationEvent[c], event')
                           /\ \A i \in 1..Len(down[c]) : Before(down[c][i].rec, event')
    BY <2>3, EventTypes DEF OrderInv
  <2>. QED
    BY <2>1, <2>2, <2>4, <2>5 DEF OrderInv
<1>3. CASE PullEvent
  <2>1. UNCHANGED <<event, produced, stationEvent, pushed, down, data>>
    BY <1>3 DEF PullEvent, wires, threadVars, stationVars
  <2>2. record' = NoRecord \/ \E new \in SUBSET Stations : record' = [s \in new |-> event[s]]
    BY <1>3 DEF PullEvent
  <2>3. ASSUME NEW r, Before(r, event) PROVE Before(r, record')
    BY <1>0, <2>2, <2>3, EventTypes DEF Before
  <2>4. Before(record', event)
    <3>1. CASE record' = NoRecord
      BY <1>0, <3>1
    <3>2. ASSUME NEW new \in SUBSET Stations, record' = [s \in new |-> event[s]]
          PROVE  Before(record', event)
      <4>1. \A s \in new : event[s] <= event[s]
        BY EventTypes
      <4>. QED
        BY <3>2, <4>1 DEF Before
    <3>. QED
      BY <2>2, <3>1, <3>2
  <2>. QED
    BY <2>1, <2>3, <2>4 DEF OrderInv
<1>4. ASSUME NEW a \in Addresses, Send(a) PROVE OrderInv'
  <2>1. /\ UNCHANGED <<event, produced, stationEvent, pushed, data>>
        /\ record' \in {record, NoRecord}
    BY <1>4 DEF Send, threadVars, stationVars
  <2>2. \A r : (Before(r, record) => Before(r, record')) /\ (Before(record, r) => Before(record', r))
    BY <1>0, <2>1
  <2>3. ASSUME NEW c \in Clients
        PROVE  /\ Len(down[c]) \in Nat
               /\ \/ down'[c] = down[c]
                  \/ /\ Len(down'[c]) = Len(down[c]) + 1
                     /\ \A i \in 1..Len(down[c]) : down'[c][i] = down[c][i]
                     /\ down'[c][Len(down[c]) + 1].rec = record
    <3>1. down[c] \in Seq(Datagrams)
      BY DEF TypeOK
    <3>2. \/ down'[c] = down[c]
          \/ down'[c] = Append(down[c], Part(record, Head(sending[a])))
      BY <1>4, SendPuts
    <3>3. ASSUME NEW d, down'[c] = Append(down[c], d), d.rec = record
          PROVE  /\ Len(down'[c]) = Len(down[c]) + 1
                 /\ \A i \in 1..Len(down[c]) : down'[c][i] = down[c][i]
                 /\ down'[c][Len(down[c]) + 1].rec = record
      BY <3>1, <3>3
    <3>4. Part(record, Head(sending[a])).rec = record /\ Len(down[c]) \in Nat
      BY <3>1 DEF Part
    <3>. QED
      BY <3>2, <3>3, <3>4
  <2>4. Before(record, record)
    BY EventTypes DEF Before
  <2>5. ASSUME NEW c \in Clients, NEW i \in 1..Len(down'[c])
        PROVE  (i \in 1..Len(down[c]) /\ down'[c][i] = down[c][i]) \/ down'[c][i].rec = record
    BY <2>3
  <2>6. ASSUME NEW c \in Clients, NEW i \in 1..Len(down'[c])
        PROVE  /\ Before(stationEvent[c], down'[c][i].rec)
               /\ Before(down'[c][i].rec, record') /\ Before(down'[c][i].rec, event)
    BY <2>2, <2>4, <2>5 DEF OrderInv
  <2>7. ASSUME NEW c \in Clients, NEW i \in 1..Len(down'[c]), NEW j \in i..Len(down'[c])
        PROVE  Before(down'[c][i].rec, down'[c][j].rec)
    <3>1. j \in 1..Len(down'[c]) /\ (j \in 1..Len(down[c]) => i \in 1..Len(down[c]))
      BY <2>3
    <3>2. CASE j \in 1..Len(down[c])
      <4>1. down'[c][i] = down[c][i] /\ down'[c][j] = down[c][j] /\ j \in i..Len(down[c])
        BY <2>3, <3>1, <3>2
      <4>. QED
        BY <3>1, <3>2, <4>1 DEF OrderInv
    <3>3. CASE j \notin 1..Len(down[c])
      <4>1. down'[c][j].rec = record
        BY <2>5, <3>1, <3>3
      <4>2. Before(down'[c][i].rec, record)
        BY <2>4, <2>5 DEF OrderInv
      <4>. QED
        BY <4>1, <4>2
    <3>. QED
      BY <3>2, <3>3
  <2>8. ASSUME NEW b \in Addresses, NEW i \in 1..Len(down'[b[1]])
        PROVE  Before(data[b], down'[b[1]][i].rec)
    BY <2>5, AddressHas DEF OrderInv
  <2>. QED
    BY <2>1, <2>2, <2>6, <2>7, <2>8 DEF OrderInv
<1>5. ASSUME NEW a \in Addresses, Receive(a) PROVE OrderInv'
  <2>1. /\ UNCHANGED <<event, produced, record, stationEvent, pushed>> /\ down[a[1]] # <<>>
        /\ \A c \in Clients : down'[c] = IF c = a[1] THEN Tail(down[c]) ELSE down[c]
    BY <1>5, AddressHas DEF Receive, TypeOK, sinkVars, stationVars
  <2>2. /\ data'[a] \in {data[a], NoRecord, Head(down[a[1]]).rec}
        /\ \A b \in Addresses : b # a => data'[b] = data[b]
    BY <1>5, ReceiveTakes
  <2>. QED
    BY <2>1, <2>2, TakingKeepsOrder
<1>6. ASSUME NEW a \in Addresses, ReceiveRest(a) PROVE OrderInv'
  <2>1. /\ UNCHANGED <<event, produced, record, stationEvent, pushed>> /\ down[a[1]] # <<>>
        /\ \A c \in Clients : down'[c] = IF c = a[1] THEN Tail(down[c]) ELSE down[c]
    BY <1>6, AddressHas DEF ReceiveRest, TypeOK, sinkVars, stationVars
  <2>2. Head(down[a[1]]) = Part(data[a], "second")
    <3>1. Stream(a)[1] = Head(down[a[1]])
      <4>1. down[a[1]] \in Seq(Datagrams) /\ ToSend(a) \in Seq(Datagrams)
        BY AddressHas, ToSendType DEF TypeOK
      <4>. QED
        BY <2>1, <4>1, TakeHead DEF Stream
    <3>. QED
      BY <1>6, <3>1 DEF ReceiveRest, IsAt, StreamInv, Continues, Alive
  <2>3. /\ data'[a] \in {data[a], NoRecord}
        /\ \A b \in Addresses : b # a => data'[b] = data[b]
    BY <1>6, <2>2, RestTakes
  <2>. QED
    BY <2>1, <2>3, TakingKeepsOrder
<1>7. ASSUME NEW a \in Addresses, NEW s \in Stations, ProcessRecord(a, s) PROVE OrderInv'
  <2>. DEFINE c == a[1]
  <2>1. /\ UNCHANGED <<event, produced, record, pushed, down>> /\ c \in Clients
        /\ s \in DOMAIN data[a] /\ receiver[a] = "process"
    BY <1>7, AddressHas DEF ProcessRecord, IsAt, wires, sinkVars
  <2>2. /\ \A d \in Clients : d # c => stationEvent'[d] = stationEvent[d]
        /\ stationEvent'[c] = [stationEvent[c] EXCEPT ![s] = data[a][s]]
        /\ DOMAIN stationEvent[c] = Stations
    BY <1>7, <2>1 DEF ProcessRecord, TypeOK
  <2>3. /\ \A b \in Addresses : b # a => data'[b] = data[b]
        /\ data'[a] = [t \in DOMAIN data[a] \ {s} |-> data[a][t]]
    BY <1>7 DEF ProcessRecord, TypeOK
  <2>4. ASSUME NEW r, Before(stationEvent[c], r), Before(data[a], r)
        PROVE  Before(stationEvent'[c], r)
    BY <2>1, <2>2, <2>4 DEF Before
  <2>5. \A r : Before(data[a], r) => Before(data'[a], r)
    BY <2>3 DEF Before
  <2>6. Before(pushed[c], stationEvent'[c])
    <3>. SUFFICES ASSUME NEW t \in Stations PROVE pushed[c][t] <= stationEvent'[c][t]
      BY <2>1, <2>2, EventTypes DEF Before
    <3>1. pushed[c][t] <= stationEvent[c][t] /\ (t = s => stationEvent[c][t] <= data[a][t])
      BY <2>1, EventTypes DEF OrderInv, Before
    <3>2. /\ pushed[c][t] \in Nat /\ stationEvent[c][t] \in Nat /\ (t = s => data[a][t] \in Nat)
          /\ stationEvent'[c][t] = IF t = s THEN data[a][s] ELSE stationEvent[c][t]
      BY <2>1, <2>2, EventTypes
    <3>. QED
      BY <3>1, <3>2
  <2>7. ASSUME NEW d \in Clients
        PROVE  /\ Before(pushed[d], stationEvent'[d])
               /\ Before(stationEvent'[d], record) /\ Before(stationEvent'[d], event)
               /\ \A i \in 1..Len(down[d]) : Before(stationEvent'[d], down[d][i].rec)
    <3>1. CASE d # c
      BY <2>2, <3>1 DEF OrderInv
    <3>2. CASE d = c
      BY <2>1, <2>4, <2>6, <3>2 DEF OrderInv
    <3>. QED
      BY <3>1, <3>2
  <2>8. ASSUME NEW b \in Addresses
        PROVE  /\ Before(stationEvent'[b[1]], data'[b])
               /\ Before(data'[b], record) /\ Before(data'[b], event)
               /\ \A i \in 1..Len(down[b[1]]) : Before(data'[b], down[b[1]][i].rec)
    <3>1. CASE b = a
      <4>1. Before(stationEvent'[c], data'[a])
        <5>. SUFFICES ASSUME NEW t \in DOMAIN data[a], t \in Stations, t # s
                      PROVE  stationEvent'[c][t] <= data[a][t]
          BY <2>1, <2>2, <2>3, EventTypes DEF Before
        <5>. QED
          BY <2>1, <2>2 DEF OrderInv, Before
      <4>. QED
        BY <2>5, <3>1, <4>1 DEF OrderInv
    <3>2. CASE b # a /\ b[1] # c
      BY <2>2, <2>3, <3>2, AddressHas DEF OrderInv
    <3>3. CASE b # a /\ b[1] = c
      <4>1. ~Alive(b)
        BY <2>1, <3>3 DEF OneReceiver, Alive
      <4>2. DOMAIN data'[b] = {}
        BY <2>3, <3>3, <4>1 DEF IdleInv, Alive
      <4>. QED
        BY <4>2 DEF Before
    <3>. QED
      BY <3>1, <3>2, <3>3
  <2>. HIDE DEF c
  <2>. QED
    BY <2>1, <2>7, <2>8 DEF OrderInv
<1>8. ASSUME NEW a \in Addresses, Leave(a) PROVE OrderInv'
  <2>1. /\ UNCHANGED <<event, produced, record, stationEvent, pushed, data>>
        /\ \A c \in Clients : down'[c] = down[c] \/ 1..Len(down'[c]) = {}
    <3>1. 1..Len(<<>>) = {}
      OBVIOUS
    <3>2. \A c \in Clients : down'[c] \in {down[c], <<>>}
      BY <1>8 DEF Leave, TypeOK
    <3>. QED
      BY <1>8, <3>1, <3>2 DEF Leave, sinkVars, stationVars
  <2>. QED
    BY <2>1, AddressHas DEF OrderInv
<1>9. ASSUME NEW c \in Clients, NEW s \in Stations, PushEvent(c, s) PROVE OrderInv'
  <2>1. /\ UNCHANGED <<event, produced, record, stationEvent, down, data>>
        /\ \A d \in Clients : d # c => pushed'[d] = pushed[d]
        /\ pushed'[c] = [pushed[c] EXCEPT ![s] = stationEvent[c][s]]
    BY <1>9 DEF PushEvent, wires, sinkVars, threadVars, TypeOK
  <2>2. Before(pushed'[c], stationEvent[c])
    <3>. SUFFICES ASSUME NEW t \in Stations PROVE pushed'[c][t] <= stationEvent[c][t]
      BY <2>1, EventTypes DEF Before
    <3>1. pushed[c][t] <= stationEvent[c][t] /\ stationEvent[c][t] \in Nat
      BY EventTypes DEF OrderInv, Before
    <3>. QED
      BY <2>1, <3>1, EventTypes
  <2>. QED
    BY <2>1, <2>2 DEF OrderInv
<1>10. ASSUME NEW c \in Clients, Start(c) \/ Started(c) \/ Close(c) PROVE OrderInv'
  BY <1>1, <1>10 DEF Start, Started, Close, threadVars, wires, sinkVars, stationVars
<1>11. ASSUME NEW a \in Addresses, Timeout(a) \/ Acknowledged(a) PROVE OrderInv'
  BY <1>1, <1>11 DEF Timeout, Acknowledged, wires, sinkVars, stationVars
<1>12. CASE SinkClose \/ SinkReceive \/ SinkTimeout \/ Handle
  BY <1>1, <1>12 DEF SinkClose, SinkReceive, SinkTimeout, Handle, threadVars, wires, sinkVars,
                     stationVars
<1>13. CASE Network
  BY <1>1, <1>13 DEF Network, LoseUp, SwapUp, LoseDown, SwapDown, Refuse, Orderly, wires, threadVars, sinkVars,
       stationVars
<1>14. CASE UNCHANGED vars
  BY <1>1, <1>14 DEF vars, threadVars, wires, sinkVars, stationVars
<1>. QED
  BY <1>2, <1>3, <1>4, <1>5, <1>6, <1>7, <1>8, <1>9, <1>10, <1>11, <1>12, <1>13, <1>14
     DEF Next, Sender, Client, Receiver

(* On an orderly network a client never goes back to an older event of a station,
   whatever the loops of the two, the receiver and the restarts do in which order:
   the safety half of LatestArrives. *)
EventsInOrder ==
  [][Orderly => \A c \in Clients, s \in Stations :
                       /\ stationEvent[c][s] <= stationEvent'[c][s]
                       /\ pushed[c][s] <= pushed'[c][s]]_vars

(* Old events never come back to a client, for any number of clients, stations and
   restarts of a client. *)
THEOREM OrderKept == Spec => EventsInOrder
<1>1. Init => (Orderly => OrderInv)
  <2>. SUFFICES ASSUME Init PROVE OrderInv
    OBVIOUS
  <2>1. produced = 0 /\ record = NoRecord /\ \A s \in Stations : event[s] = 0
    BY DEF Init
  <2>2. \A q : Before(NoRecord, q) /\ Before(q, NoRecord)
    BY DEF Before, NoRecord
  <2>3. \A c \in Clients : /\ 1..Len(down[c]) = {}
                           /\ \A s \in Stations : stationEvent[c][s] = 0 /\ pushed[c][s] = 0
                           /\ DOMAIN stationEvent[c] = Stations /\ DOMAIN pushed[c] = Stations
    BY DEF Init
  <2>4. \A a \in Addresses : data[a] = NoRecord
    BY DEF Init
  <2>5. DOMAIN event = Stations
    BY DEF Init
  <2>6. \A c \in Clients : Before(pushed[c], stationEvent[c]) /\ Before(stationEvent[c], event)
    BY <2>1, <2>3, <2>5 DEF Before
  <2>. QED
    BY <2>1, <2>2, <2>3, <2>4, <2>6, AddressHas DEF OrderInv
<1>2. /\ TypeOK /\ TypeOK' /\ OneReceiver /\ IdleInv /\ WireInv /\ (Orderly => OrderInv)
      /\ [Next]_vars
      => (Orderly => OrderInv)'
  BY NetworkStays, OrderStep DEF WireInv
<1>3. /\ TypeOK /\ WireInv /\ (Orderly => OrderInv) /\ [Next]_vars
      => [Orderly => \A c \in Clients, s \in Stations :
                            /\ stationEvent[c][s] <= stationEvent'[c][s]
                            /\ pushed[c][s] <= pushed'[c][s]]_vars
  <2>. SUFFICES ASSUME TypeOK, OrderInv, [Next]_vars, NEW c \in Clients, NEW s \in Stations
                PROVE  /\ stationEvent[c][s] <= stationEvent'[c][s]
                       /\ pushed[c][s] <= pushed'[c][s]
    OBVIOUS
  <2>1. stationEvent[c][s] \in Nat /\ pushed[c][s] \in Nat
    BY EventTypes
  <2>2. CASE UNCHANGED <<stationEvent, pushed>>
    BY <2>1, <2>2
  <2>3. ASSUME NEW a \in Addresses, NEW t \in Stations, ProcessRecord(a, t)
        PROVE  /\ stationEvent[c][s] <= stationEvent'[c][s]
               /\ pushed[c][s] <= pushed'[c][s]
    <3>1. /\ pushed' = pushed /\ t \in DOMAIN data[a] /\ a[1] \in Clients
          /\ stationEvent'[c][s] = IF a[1] = c /\ t = s THEN data[a][t] ELSE stationEvent[c][s]
      BY <2>3, AddressHas DEF ProcessRecord, TypeOK
    <3>2. stationEvent[a[1]][t] <= data[a][t]
      BY <3>1, EventTypes DEF OrderInv, Before
    <3>. QED
      BY <2>1, <3>1, <3>2
  <2>4. ASSUME NEW d \in Clients, NEW t \in Stations, PushEvent(d, t)
        PROVE  /\ stationEvent[c][s] <= stationEvent'[c][s]
               /\ pushed[c][s] <= pushed'[c][s]
    <3>1. /\ stationEvent' = stationEvent
          /\ pushed'[c][s] = IF d = c /\ t = s THEN stationEvent[c][s] ELSE pushed[c][s]
      BY <2>4 DEF PushEvent, TypeOK
    <3>2. pushed[c][s] <= stationEvent[c][s]
      BY EventTypes DEF OrderInv, Before
    <3>. QED
      BY <2>1, <3>1, <3>2
  <2>. QED
    BY <2>2, <2>3, <2>4
       DEF Next, Sender, Client, Receiver, Network, Produce, PullEvent, Send, SinkClose,
           SinkReceive, SinkTimeout, Handle, Start, Started, Close, Timeout, Receive, ReceiveRest, Acknowledged, AfterRecord,
           Leave, LoseUp, LoseDown, SwapUp, SwapDown, Refuse, netUnchanged, stationVars, vars
<1>. QED
  BY <1>1, <1>2, <1>3, TypeInvariant, ReceiverInvariant, IdleInvariant, WireInvariant, PTL
     DEF Spec, EventsInOrder, TypeInv, ReceiverInv
=============================================================================
