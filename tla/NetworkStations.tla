--------------------------- MODULE NetworkStations ---------------------------
(***************************************************************************)
(* The unicast protocol of OpenTracker's network modules.  A client's      *)
(* receiver thread (NetworkSourceModule.cxx) polls the sender while it     *)
(* hears nothing; the sender's transceiver thread (NetworkSinkModule.cxx)  *)
(* keeps the addresses that polled; the sender's main loop sends each      *)
(* station's new event to all of them, a long record in two datagrams; the *)
(* receiver stores the events, and the client's main loop pushes them into *)
(* the graph.  A client that is closed leaves, and may be started again.   *)
(*                                                                         *)
(* An event is a number, counted over all stations.  A record is a         *)
(* function from the stations whose events it carries to these events; the *)
(* byte orders, the name and the maximum of the station numbers are left   *)
(* out, and clients pass over stations they have no node for.  Where the   *)
(* client's main loop is runOnDemand(), the receiver meets it after each   *)
(* record; ContextSync has the details.  The sender is started once.       *)
(***************************************************************************)
EXTENDS Naturals, Sequences, FiniteSets

CONSTANTS
  Clients,     \* the clients of one sender
  Stations,    \* the station numbers the sinks and sources share
  Settings,    \* the faults of the network, and the clients whose loop is runOnDemand()
  LongFrom,    \* a record of that many stations does not fit in one datagram (MAXMSGLEN)
  MaxEvents,   \* bound: how many events the stations get
  MaxWire,     \* bound: datagrams under way to one end
  MaxRuns      \* bound: how often a client's main loop is run

Faults == {"lose", "swap", "refuse"}

ASSUME NetworkAssumption ==
  /\ Settings \subseteq [faults : SUBSET Faults, synced : SUBSET Clients]
  /\ LongFrom \in Nat /\ MaxEvents \in Nat /\ MaxWire \in Nat /\ MaxRuns \in Nat

VARIABLES
  network, synced,            \* the setting, fixed at the beginning
  refused,                    \* the clients for which the sender's send() fails
  up, down,                   \* datagrams under way to the sender, and to each client's socket
  (* the sender *)
  produced,                   \* the number of the last event
  event, modified,            \* NetworkSink's members
  record, sending,            \* what pullEvent sends, and the pieces each address still gets
  addresses, sinkStop,        \* UnicastSender's members
  transceiver, command,       \* its thread, and the datagram the thread received
  (* the clients *)
  main, runs,                 \* the thread that calls start, pushEvent and close
  socket, running, stop,      \* UnicastReceiver's members; a socket is named for its run
  receiver, data,             \* its threads, one per run, and what each has received
  stationEvent, stationModified,   \* Station::event and Station::modified
  pushed                      \* NetworkSource::event, the last one that was pushed

sinkVars == <<produced, event, modified, record, sending>>
listVars == <<addresses, sinkStop, transceiver, command>>
clientVars == <<main, runs, socket, running, stop>>
threadVars == <<receiver, data>>
stationVars == <<stationEvent, stationModified, pushed>>
wires == <<up, down>>
settings == <<network, synced, refused>>
vars == <<settings, wires, sinkVars, listVars, clientVars, threadVars, stationVars>>

Runs == 1..MaxRuns
Addresses == Clients \X Runs
Events == 0..MaxEvents
Garbled == MaxEvents + 1     \* what is read from bytes of two records
Records == UNION {[S -> Events \cup {Garbled}] : S \in SUBSET Stations}
Pieces == {"whole", "first", "second"}
Datagrams == [rec : Records, piece : Pieces]
Commands == [from : Addresses, cmd : {"poll", "leave"}]
NoRecord == [s \in {} |-> 0]

TypeOK ==
  /\ network \in SUBSET Faults /\ synced \subseteq Clients /\ refused \subseteq Clients
  /\ up \in Seq(Commands) /\ down \in [Clients -> Seq(Datagrams)]
  /\ produced \in Events /\ event \in [Stations -> Events]
  /\ modified \in [Stations -> BOOLEAN]
  /\ record \in Records /\ sending \in [Addresses -> Seq(Pieces)]
  /\ addresses \subseteq Addresses /\ sinkStop \in BOOLEAN
  /\ transceiver \in {"recv", "handle", "ended"} /\ command \in Seq(Commands)
  /\ main \in [Clients -> {"idle", "starting", "loop"}] /\ runs \in [Clients -> 0..MaxRuns]
  /\ socket \in [Clients -> 0..MaxRuns]
  /\ running \in [Clients -> BOOLEAN] /\ stop \in [Clients -> BOOLEAN]
  /\ receiver \in [Addresses -> {"none", "recv", "part", "process", "signal", "leave", "ended"}]
  /\ data \in [Addresses -> Records]
  /\ stationEvent \in [Clients -> [Stations -> Events \cup {Garbled}]]
  /\ stationModified \in [Clients -> [Stations -> BOOLEAN]]
  /\ pushed \in [Clients -> [Stations -> Events \cup {Garbled}]]

Init ==
  /\ \E s \in Settings : network = s.faults /\ synced = s.synced
  /\ refused = {}
  /\ up = <<>> /\ down = [c \in Clients |-> <<>>]
  /\ produced = 0 /\ event = [s \in Stations |-> 0] /\ modified = [s \in Stations |-> FALSE]
  /\ record = NoRecord /\ sending = [a \in Addresses |-> <<>>]
  /\ addresses = {} /\ sinkStop = FALSE /\ transceiver = "recv" /\ command = <<>>
  /\ main = [c \in Clients |-> "idle"] /\ runs = [c \in Clients |-> 0]
  /\ socket = [c \in Clients |-> 0]
  /\ running = [c \in Clients |-> FALSE] /\ stop = [c \in Clients |-> FALSE]
  /\ receiver = [a \in Addresses |-> "none"] /\ data = [a \in Addresses |-> NoRecord]
  /\ stationEvent = [c \in Clients |-> [s \in Stations |-> 0]]
  /\ stationModified = [c \in Clients |-> [s \in Stations |-> FALSE]]
  /\ pushed = [c \in Clients |-> [s \in Stations |-> 0]]

-----------------------------------------------------------------------------
(* The sender's main loop.  It holds UnicastSender::mutex while it sends.   *)

Pulling == \E a \in Addresses : sending[a] # <<>>

(* NetworkSink::onEventGenerated: the next event of station s. *)
Produce(s) ==
  /\ ~Pulling /\ ~sinkStop /\ produced < MaxEvents
  /\ produced' = produced + 1
  /\ event' = [event EXCEPT ![s] = produced + 1]
  /\ modified' = [modified EXCEPT ![s] = TRUE]
  /\ UNCHANGED <<settings, wires, record, sending, listVars, clientVars, threadVars, stationVars>>

PiecesOf(rec) ==
  IF Cardinality(DOMAIN rec) < LongFrom THEN <<"whole">> ELSE <<"first", "second">>

(* pullEvent gathers the sinks with new events and starts to send them to
   every address of the list. *)
PullEvent ==
  /\ ~Pulling /\ ~sinkStop
  /\ LET new == {s \in Stations : modified[s]}
         rec == [s \in new |-> event[s]] IN
     /\ new # {}
     /\ record' = IF addresses = {} THEN NoRecord ELSE rec
     /\ sending' = [a \in Addresses |-> IF a \in addresses THEN PiecesOf(rec) ELSE <<>>]
  /\ modified' = [s \in Stations |-> FALSE]
  /\ UNCHANGED <<settings, wires, produced, event, listVars, clientVars, threadVars, stationVars>>

(* Mutant: a piece for a client that has gone is tried again for ever. *)
Send_OnlyTaken(a) ==
  LET c == a[1] IN
  /\ sending[a] # <<>> /\ c \notin refused
  /\ socket[c] = a[2] /\ Len(down[c]) < MaxWire
  /\ down' = [down EXCEPT ![c] = Append(@, [rec |-> record, piece |-> Head(sending[a])])]
  /\ sending' = [sending EXCEPT ![a] = Tail(@)]
  /\ record' = IF \A b \in Addresses : sending'[b] = <<>> THEN NoRecord ELSE record
  /\ UNCHANGED <<settings, up, produced, event, modified, listVars, clientVars, threadVars, stationVars>>

(* The loop of a client has ended, and its receiver still waits for it. *)
Deserted(a) == receiver[a] = "signal" /\ main[a[1]] = "idle"

(* One piece to one address; the addresses are dealt with in an order on
   which nothing depends.  A piece that is refused, for whatever reason and
   however often, is tried again, as is one for which there is no room (a full
   wire).  What is sent to a receiver that reads no more stays in its buffer,
   and what is sent to a socket that was closed reaches nobody. *)
Send(a) ==
  LET c == a[1] IN
  /\ sending[a] # <<>> /\ c \notin refused
  /\ \/ /\ socket[c] = a[2] /\ (Len(down[c]) < MaxWire \/ Deserted(a))
        /\ down' = [down EXCEPT ![c] = Append(@, [rec |-> record, piece |-> Head(sending[a])])]
     \/ socket[c] # a[2] /\ UNCHANGED down
  /\ sending' = [sending EXCEPT ![a] = Tail(@)]
  /\ record' = IF \A b \in Addresses : sending'[b] = <<>> THEN NoRecord ELSE record
  /\ UNCHANGED <<settings, up, produced, event, modified, listVars, clientVars, threadVars, stationVars>>

(* NetworkSinkModule::close, after the loop. *)
SinkClose ==
  /\ ~Pulling /\ ~sinkStop
  /\ sinkStop' = TRUE
  /\ UNCHANGED <<settings, wires, sinkVars, addresses, transceiver, command, clientVars, threadVars,
                 stationVars>>

-----------------------------------------------------------------------------
(* The sender's transceiver thread.  stop is tested after each reception    *)
(* and each time-out; then the socket is closed.                            *)

SinkReceive ==
  /\ transceiver = "recv" /\ up # <<>>
  /\ IF sinkStop THEN transceiver' = "ended" /\ up' = <<>> /\ UNCHANGED command
     ELSE transceiver' = "handle" /\ command' = <<Head(up)>> /\ up' = Tail(up)
  /\ UNCHANGED <<settings, down, sinkVars, addresses, sinkStop, clientVars, threadVars, stationVars>>

SinkTimeout ==
  /\ transceiver = "recv" /\ sinkStop
  /\ transceiver' = "ended" /\ up' = <<>>
  /\ UNCHANGED <<settings, down, sinkVars, addresses, sinkStop, command, clientVars, threadVars,
                 stationVars>>

(* Under the mutex a poll puts its sender on the list, a leave takes it off. *)
Handle ==
  LET a == command[1].from IN
  /\ transceiver = "handle" /\ ~Pulling
  /\ addresses' = IF command[1].cmd = "poll" THEN addresses \cup {a} ELSE addresses \ {a}
  /\ transceiver' = "recv" /\ command' = <<>>
  /\ UNCHANGED <<settings, wires, sinkVars, sinkStop, clientVars, threadVars, stationVars>>

-----------------------------------------------------------------------------
(* A client's main thread.                                                  *)

(* Mutant: start() does not ask whether a receiver is running. *)
Start_Untested(c) ==
  /\ main[c] = "idle" /\ runs[c] < MaxRuns
  /\ runs' = [runs EXCEPT ![c] = @ + 1]
  /\ socket' = [socket EXCEPT ![c] = runs[c] + 1] /\ down' = [down EXCEPT ![c] = <<>>]
  /\ receiver' = [receiver EXCEPT ![<<c, runs[c] + 1>>] = "recv"]
  /\ main' = [main EXCEPT ![c] = "starting"]
  /\ UNCHANGED <<settings, up, sinkVars, listVars, running, stop, data, stationVars>>

(* start() opens a new socket and spawns the receiver, unless one is running. *)
Start(c) ==
  /\ main[c] = "idle" /\ runs[c] < MaxRuns
  /\ runs' = [runs EXCEPT ![c] = @ + 1]
  /\ \/ /\ running[c]
        /\ main' = [main EXCEPT ![c] = "loop"]
        /\ UNCHANGED <<socket, receiver>>
     \/ /\ ~running[c]
        /\ socket' = [socket EXCEPT ![c] = runs[c] + 1]
        /\ receiver' = [receiver EXCEPT ![<<c, runs[c] + 1>>] = "recv"]
        /\ main' = [main EXCEPT ![c] = "starting"]
  /\ UNCHANGED <<settings, wires, sinkVars, listVars, running, stop, data, stationVars>>

(* The thread that was spawned may already have run, and may have ended. *)
Started(c) ==
  /\ main[c] = "starting"
  /\ running' = [running EXCEPT ![c] = TRUE]
  /\ main' = [main EXCEPT ![c] = "loop"]
  /\ UNCHANGED <<settings, wires, sinkVars, listVars, runs, socket, stop, threadVars, stationVars>>

(* NetworkSource::pushEvent under the receiver's mutex, once in a traversal. *)
PushEvent(c, s) ==
  /\ main[c] = "loop" /\ stationModified[c][s]
  /\ pushed' = [pushed EXCEPT ![c][s] = stationEvent[c][s]]
  /\ stationModified' = [stationModified EXCEPT ![c][s] = FALSE]
  /\ UNCHANGED <<settings, wires, sinkVars, listVars, clientVars, threadVars, stationEvent>>

(* close() sets stop, and nothing resets it. *)
Close(c) ==
  /\ main[c] = "loop"
  /\ stop' = [stop EXCEPT ![c] = TRUE]
  /\ main' = [main EXCEPT ![c] = "idle"]
  /\ UNCHANGED <<settings, wires, sinkVars, listVars, runs, socket, running, threadVars, stationVars>>

-----------------------------------------------------------------------------
(* A client's receiver thread.  a is its address.                           *)

IsAt(a, place) == receiver[a] = place
Goes(a, place) == receiver' = [receiver EXCEPT ![a] = place]

(* A piece is refused; the transceiver thread cannot have the mutex. *)
Refusing == \E a \in Addresses : sending[a] # <<>> /\ a[1] \in refused

(* A command to the sender; its socket may be closed, or its buffer overflow
   while the transceiver thread waits for the mutex. *)
Tell(cmd, a) ==
  \/ transceiver # "ended" /\ Len(up) >= MaxWire /\ Refusing /\ UNCHANGED up
  \/ transceiver # "ended" /\ Len(up) < MaxWire /\ up' = Append(up, [from |-> a, cmd |-> cmd])
  \/ transceiver = "ended" /\ UNCHANGED up

(* Mutant: nothing is sent after a time-out. *)
Timeout_Silent(a) ==
  /\ IsAt(a, "recv") /\ stop[a[1]]
  /\ Goes(a, "leave")
  /\ UNCHANGED <<settings, wires, sinkVars, listVars, clientVars, data, stationVars>>

(* Mutant: stop is not tested after a time-out. *)
Timeout_Unstopped(a) ==
  /\ IsAt(a, "recv")
  /\ Tell("poll", a)
  /\ UNCHANGED <<settings, down, sinkVars, listVars, clientVars, threadVars, stationVars>>

(* Mutant: a time-out also ends the wait for the rest of a record. *)
Timeout_Incomplete(a) ==
  /\ IsAt(a, "recv") \/ IsAt(a, "part")
  /\ Tell("poll", a)
  /\ IF IsAt(a, "part")
     THEN /\ Goes(a, "process")
          /\ data' = [data EXCEPT ![a] = [s \in DOMAIN data[a] |-> Garbled]]
     ELSE Goes(a, IF stop[a[1]] THEN "leave" ELSE "recv") /\ UNCHANGED data
  /\ UNCHANGED <<settings, down, sinkVars, listVars, clientVars, stationVars>>

(* recv() has waited for a second: poll, and test stop.  The datagrams that
   are under way may be late. *)
Timeout(a) ==
  /\ IsAt(a, "recv")
  /\ Tell("poll", a)
  /\ Goes(a, IF stop[a[1]] THEN "leave" ELSE "recv")
  /\ UNCHANGED <<settings, down, sinkVars, listVars, clientVars, data, stationVars>>

(* A record is complete: it is processed, unless the module was closed. *)
Got(a, rec) ==
  IF stop[a[1]] THEN Goes(a, "leave") /\ data' = [data EXCEPT ![a] = NoRecord]
  ELSE Goes(a, "process") /\ data' = [data EXCEPT ![a] = rec]

(* After a record, also one that was discarded, the receiver tells a loop that
   waits for data, and waits for it. *)
AfterRecord(c) == IF c \in synced THEN "signal" ELSE "recv"

(* A datagram of full length begins a record of two pieces, whatever stop
   says.  Any other is taken for a record: the second piece of one has no
   magic number and is discarded. *)
Receive(a) ==
  LET c == a[1]  d == Head(down[c]) IN
  /\ IsAt(a, "recv") /\ down[c] # <<>>
  /\ down' = [down EXCEPT ![c] = Tail(@)]
  /\ \/ d.piece = "first" /\ Goes(a, "part") /\ data' = [data EXCEPT ![a] = d.rec]
     \/ d.piece = "whole" /\ Got(a, d.rec)
     \/ d.piece = "second" /\ Goes(a, IF stop[c] THEN "leave" ELSE AfterRecord(c)) /\ UNCHANGED data
  /\ UNCHANGED <<settings, up, sinkVars, listVars, clientVars, stationVars>>

(* What may stand in a record of which some bytes are of another datagram. *)
MixturesOf(rec) ==
  {[s \in DOMAIN rec |-> IF s \in G THEN Garbled ELSE rec[s]] : G \in SUBSET DOMAIN rec \ {{}}}

(* The rest of a record: the next datagram, whatever it is; if it is too
   short, one more.  The loop tests neither stop nor the time-out. *)
ReceiveRest(a) ==
  LET c == a[1]  d == Head(down[c]) IN
  /\ IsAt(a, "part") /\ down[c] # <<>>
  /\ down' = [down EXCEPT ![c] = Tail(@)]
  /\ \/ d.piece = "second" /\ d.rec = data[a] /\ Got(a, d.rec)
     \/ /\ d.piece # "second" \/ d.rec # data[a]
        /\ \E mixture \in MixturesOf(data[a]) :
             Got(a, mixture) \/ (Goes(a, "part") /\ data' = [data EXCEPT ![a] = mixture])
  /\ UNCHANGED <<settings, up, sinkVars, listVars, clientVars, stationVars>>

(* Mutant: only one station of a record is dealt with. *)
ProcessRecord_One(a, s) ==
  LET c == a[1] IN
  /\ IsAt(a, "process") /\ s \in DOMAIN data[a]
  /\ stationEvent' = [stationEvent EXCEPT ![c][s] = data[a][s]]
  /\ stationModified' = [stationModified EXCEPT ![c][s] = TRUE]
  /\ data' = [data EXCEPT ![a] = NoRecord]
  /\ Goes(a, AfterRecord(c))
  /\ UNCHANGED <<settings, wires, sinkVars, listVars, clientVars, pushed>>

(* processRecord: one station of the record, under the mutex. *)
ProcessRecord(a, s) ==
  LET c == a[1]  rest == DOMAIN data[a] \ {s} IN
  /\ IsAt(a, "process") /\ s \in DOMAIN data[a]
  /\ stationEvent' = [stationEvent EXCEPT ![c][s] = data[a][s]]
  /\ stationModified' = [stationModified EXCEPT ![c][s] = TRUE]
  /\ data' = [data EXCEPT ![a] = [t \in rest |-> data[a][t]]]
  /\ Goes(a, IF rest = {} THEN AfterRecord(c) ELSE "process")
  /\ UNCHANGED <<settings, wires, sinkVars, listVars, clientVars, pushed>>

(* dataSignal() and consumedWait() return: the loop has dealt with the datum,
   or stopLoop() was called, or the next runOnDemand() begins.  Neither stop
   nor the time is tested here. *)
Acknowledged(a) ==
  /\ IsAt(a, "signal") /\ Goes(a, "recv")
  /\ UNCHANGED <<settings, wires, sinkVars, listVars, clientVars, data, stationVars>>

(* Mutant: the thread ends without a word to the sender. *)
Leave_Silently(a) ==
  LET c == a[1] IN
  /\ IsAt(a, "leave") /\ Goes(a, "ended")
  /\ socket' = [socket EXCEPT ![c] = 0] /\ down' = [down EXCEPT ![c] = <<>>]
  /\ running' = [running EXCEPT ![c] = FALSE]
  /\ UNCHANGED <<settings, up, sinkVars, listVars, main, runs, stop, data, stationVars>>

(* The end of the thread: leave, close the socket, running = false. *)
Leave(a) ==
  LET c == a[1] IN
  /\ IsAt(a, "leave") /\ Goes(a, "ended")
  /\ Tell("leave", a)
  /\ socket' = [socket EXCEPT ![c] = 0] /\ down' = [down EXCEPT ![c] = <<>>]
  /\ running' = [running EXCEPT ![c] = FALSE]
  /\ UNCHANGED <<settings, sinkVars, listVars, main, runs, stop, data, stationVars>>

-----------------------------------------------------------------------------
(* The network.                                                             *)

netUnchanged == UNCHANGED <<settings, sinkVars, listVars, clientVars, threadVars, stationVars>>

(* While a piece is to be sent to client c the socket ceases to take it (no
   route, no interface, no permission), or takes it again. *)
Refuse(c) ==
  /\ "refuse" \in network /\ \E a \in Addresses : a[1] = c /\ sending[a] # <<>>
  /\ refused' \in {refused \cup {c}, refused \ {c}}
  /\ UNCHANGED <<network, synced, wires, sinkVars, listVars, clientVars, threadVars, stationVars>>

LoseUp == "lose" \in network /\ up # <<>> /\ up' = Tail(up) /\ UNCHANGED down /\ netUnchanged

LoseDown(c) ==
  /\ "lose" \in network /\ down[c] # <<>>
  /\ down' = [down EXCEPT ![c] = Tail(@)] /\ UNCHANGED up /\ netUnchanged

(* The first datagram falls behind the others. *)
SwapUp ==
  /\ "swap" \in network /\ Len(up) > 1
  /\ up' = Append(Tail(up), Head(up)) /\ UNCHANGED down /\ netUnchanged

SwapDown(c) ==
  /\ "swap" \in network /\ Len(down[c]) > 1
  /\ down' = [down EXCEPT ![c] = Append(Tail(@), Head(@))] /\ UNCHANGED up /\ netUnchanged

-----------------------------------------------------------------------------
Sender ==
  \/ \E s \in Stations : Produce(s)
  \/ PullEvent \/ SinkClose
  \/ \E a \in Addresses : Send(a)
  \/ SinkReceive \/ SinkTimeout \/ Handle

Client(c) ==
  \/ Start(c) \/ Started(c) \/ Close(c)
  \/ \E s \in Stations : PushEvent(c, s)

Receiver(a) ==
  \/ Timeout(a) \/ Receive(a) \/ ReceiveRest(a) \/ Acknowledged(a) \/ Leave(a)
  \/ \E s \in Stations : ProcessRecord(a, s)

Network ==
  \/ LoseUp \/ SwapUp
  \/ \E c \in Clients : LoseDown(c) \/ SwapDown(c) \/ Refuse(c)

Next ==
  \/ Sender \/ Network
  \/ \E c \in Clients : Client(c)
  \/ \E a \in Addresses : Receiver(a)

(* What a receiver thread does when it is not waiting. *)
Works(a) ==
  \/ Timeout(a) /\ down[a[1]] = <<>>
  \/ Receive(a) \/ ReceiveRest(a) \/ Leave(a)
  \/ Acknowledged(a) /\ ~Deserted(a)
  \/ \E s \in Stations : ProcessRecord(a, s)

(* Every thread goes on inside an operation; a time-out comes when there is
   nothing to receive; until it is closed a main loop visits its nodes again
   and again (one that waits for data, when the receiver signals); what is not
   refused for ever is sent; a network that loses polls does not lose all of
   them.  Nobody has to start or close a client, to close the sender, or to
   produce an event. *)
Fairness ==
  /\ SF_vars(\E a \in Addresses : Send(a))
  /\ WF_vars(SinkTimeout \/ Handle)
  /\ \A c \in Clients :
       /\ SF_vars(SinkReceive /\ Head(up).from[1] = c)
       /\ WF_vars(Started(c)) /\ WF_vars(\E s \in Stations : ~stop[c] /\ PushEvent(c, s))
       /\ WF_vars(\E r \in Runs : Works(<<c, r>>))

Spec == Init /\ [][Next]_vars /\ Fairness

-----------------------------------------------------------------------------
Alive(a) == receiver[a] \notin {"none", "ended"}

(* At most one receiver thread of a client is alive, however start() and
   close() are called and however late a thread ends: two would read one
   socket and write one record buffer. *)
OneReceiver == \A a, b \in Addresses : a[1] = b[1] /\ Alive(a) /\ Alive(b) => a = b

(* What the receiver thread has stored and the main loop has not yet pushed
   is marked as modified: no event is lost between processRecord and
   NetworkSource::pushEvent. *)
NoUpdateLost ==
  \A c \in Clients, s \in Stations :
    stationEvent[c][s] # pushed[c][s] => stationModified[c][s]

(* The receiver of a client works alone, and loses no event to the main loop. *)
ReceiverSafe == OneReceiver /\ NoUpdateLost

(* The network neither loses nor reorders what is sent. *)
Orderly == network \cap {"lose", "swap"} = {}

(* If the network is orderly, no record is put together from pieces of two:
   the loop of pullEvent sends the pieces of one record to one address one
   after the other, and leaves none out. *)
WholeRecords ==
  Orderly => \A c \in Clients, s \in Stations : stationEvent[c][s] # Garbled

(* In the end the sender's main loop does nothing but try again, with the
   mutex locked. *)
NeverSent == \E a \in Addresses : <>[](sending[a] # <<>> /\ a[1] \in refused)

(* The address of a receiver thread gets on the sender's list, whatever polls are
   lost or late, unless one of the two is closed, or the sender never comes to
   an end with a piece that is refused.  (Until close() the thread stays alive,
   so that "again and again" is "in the end"; so too below.) *)
Served ==
  \A c \in Clients :
    \/ []<>(\A r \in Runs :
              Alive(<<c, r>>) => <<c, r>> \in addresses \/ stop[c] \/ sinkStop)
    \/ NeverSent

(* If the network is reliable, an address whose socket was closed goes off
   the list: "a single leave datagram on termination" is enough. *)
LeftForGood ==
  \A a \in Addresses :
    []<>(network = {} /\ receiver[a] = "ended" => a \notin addresses \/ sinkStop)

(* The two places where a receiver may wait for ever, and tests neither stop
   nor the time: for the rest of a record of which a datagram was lost,
   overtaken or is refused, and in the dataSignal() or consumedWait() of a loop
   that is no longer there. *)
Stranded(a) ==
  \/ IsAt(a, "part") /\ (~Orderly \/ (sending[a] # <<>> /\ a[1] \in refused))
  \/ Deserted(a) /\ a[1] \in synced

(* close(), which sets stop for good, ends the receiver threads, unless one is
   stranded for ever. *)
ClosedEnds ==
  \A c \in Clients :
    \/ []<>(stop[c] => \A r \in Runs : ~Alive(<<c, r>>))
    \/ \E r \in Runs : <>[]Stranded(<<c, r>>)

(* pullEvent returns, also when a client on the list has gone, unless a piece
   for one address is refused for ever: the code logs the error and tries again
   without limit, where its comment says "send without blocking to avoid stalls
   in the mainloop, packet is thrown away !". *)
PullReturns == []<>~Pulling \/ NeverSent

(* If the network is orderly, the event of a station that is to be sent to a
   client is pushed there in the end, or a later one is, unless one of the
   two is closed or a piece is refused for ever. *)
LatestArrives ==
  \A c \in Clients, s \in Stations, n \in 1..MaxEvents :
    \/ (/\ Orderly /\ s \in DOMAIN record /\ record[s] = n
        /\ \E r \in Runs : sending[<<c, r>>] # <<>>)
         ~> (pushed[c][s] >= n \/ stop[c] \/ sinkStop)
    \/ NeverSent
=============================================================================
