------------------------------ MODULE TCPModule ------------------------------
(***************************************************************************)
(* The TCP server of OpenTracker (network/TCPModule.cxx): an acceptor      *)
(* thread puts the connections of new clients on a list, and the main loop *)
(* sends each sink's new event to all of them under a mutex; a connection  *)
(* that fails is taken off the list.  close() only tells the thread to     *)
(* stop; the thread closes the connections when it ends, without the       *)
(* mutex, and nobody waits for it: a main loop that is started again meets *)
(* the thread, the list and the flag of the run before.                    *)
(*                                                                         *)
(* A client connects once, and is named for its connection.  Of the events *)
(* it only matters which connections still have to get the last one.       *)
(* push_back under the mutex is one step, which waits while the main loop  *)
(* holds the mutex.                                                        *)
(***************************************************************************)
EXTENDS Naturals, Sequences, SequencesExt

CONSTANTS
  Clients,     \* the connections there may be
  Readers,     \* the clients that go on reading
  Sinks,       \* the TCPSinks
  NoClient,
  MaxUnread,   \* the events a connection holds that its client has not read
  MaxRuns      \* bound: how often the main loop is run

ASSUME TCPAssumption ==
  /\ NoClient \notin Clients /\ Readers \subseteq Clients
  /\ MaxUnread \in Nat \ {0} /\ MaxRuns \in Nat

VARIABLES
  client, backlog, unread,       \* the clients; those not yet accepted; what they have not read
  stream,                        \* the server's end of a connection
  connections, running,          \* TCPModule's members
  port,                          \* the run whose acceptor listens, or 0
  acceptor, accepted,            \* the acceptor thread of each run, and what it has accepted
  main, runs,                    \* the thread of the main loop
  todo, conit,                   \* pullEvent's sinks with new events; the place in the list
  changed,                       \* TCPSink's member
  due                            \* history: the sinks that had an event since the connection is
                                 \* on the list, the last of which was not sent to it

netVars == <<client, backlog, unread>>
listVars == <<stream, connections, due>>
threadVars == <<acceptor, accepted, port>>
mainVars == <<main, runs, todo, conit>>
vars == <<netVars, listVars, running, threadVars, changed, mainVars>>

Runs == 1..MaxRuns
Listed == ToSet(connections)

TypeOK ==
  /\ client \in [Clients -> {"away", "there", "gone"}] /\ backlog \subseteq Clients
  /\ unread \in [Clients -> 0..MaxUnread]
  /\ stream \in [Clients -> {"none", "open", "deleted"}]
  /\ connections \in Seq(Clients) /\ running \in BOOLEAN
  /\ port \in 0..MaxRuns
  /\ acceptor \in [Runs -> {"none", "open", "test", "accept", "push", "shut", "delete", "clear", "ended"}]
  /\ accepted \in [Runs -> Clients \cup {NoClient}]
  /\ main \in {"idle", "loop", "pull", "send", "crashed"} /\ runs \in 0..MaxRuns
  /\ todo \subseteq Sinks /\ conit \in Nat
  /\ changed \in [Sinks -> BOOLEAN] /\ due \in [Clients -> SUBSET Sinks]

Init ==
  /\ client = [c \in Clients |-> "away"] /\ backlog = {} /\ unread = [c \in Clients |-> 0]
  /\ stream = [c \in Clients |-> "none"] /\ connections = <<>> /\ running = FALSE
  /\ port = 0 /\ acceptor = [r \in Runs |-> "none"] /\ accepted = [r \in Runs |-> NoClient]
  /\ main = "idle" /\ runs = 0 /\ todo = {} /\ conit = 1
  /\ changed = [s \in Sinks |-> FALSE] /\ due = [c \in Clients |-> {}]

-----------------------------------------------------------------------------
(* The clients.                                                             *)

Connect(c) ==
  /\ client[c] = "away" /\ port # 0
  /\ client' = [client EXCEPT ![c] = "there"] /\ backlog' = backlog \cup {c}
  /\ UNCHANGED <<unread, listVars, running, threadVars, changed, mainVars>>

Read(c) ==
  /\ client[c] = "there" /\ unread[c] > 0
  /\ unread' = [unread EXCEPT ![c] = @ - 1]
  /\ UNCHANGED <<client, backlog, listVars, running, threadVars, changed, mainVars>>

Disconnect(c) ==
  /\ client[c] = "there" /\ client' = [client EXCEPT ![c] = "gone"]
  /\ unread' = [unread EXCEPT ![c] = 0]
  /\ UNCHANGED <<backlog, listVars, running, threadVars, changed, mainVars>>

-----------------------------------------------------------------------------
(* The main thread.                                                         *)

Start ==
  /\ main = "idle" /\ runs < MaxRuns
  /\ main' = "loop" /\ runs' = runs + 1
  /\ acceptor' = [acceptor EXCEPT ![runs + 1] = "open"]
  /\ UNCHANGED <<netVars, listVars, running, accepted, port, changed, todo, conit>>

(* TCPSink::onEventGenerated *)
Produce(s) ==
  /\ main = "loop"
  /\ changed' = [changed EXCEPT ![s] = TRUE]
  /\ due' = [c \in Clients |-> IF c \in Listed THEN due[c] \cup {s} ELSE due[c]]
  /\ UNCHANGED <<netVars, stream, connections, running, threadVars, mainVars>>

(* pullEvent reads the size of the list without the mutex; if nobody is on
   it the sinks stay changed. *)
PullEvent ==
  /\ main = "loop" /\ connections # <<>>
  /\ todo' = {s \in Sinks : changed[s]} /\ todo' # {}
  /\ main' = "pull"
  /\ UNCHANGED <<netVars, listVars, running, threadVars, changed, runs, conit>>

(* The mutex is free here: the acceptor holds it only inside one step.  The
   sink is the first of todo; in which order does not matter. *)
LockLoop ==
  /\ main = "pull"
  /\ main' = "send" /\ conit' = 1
  /\ UNCHANGED <<netVars, listVars, running, threadVars, changed, runs, todo>>

Current == CHOOSE s \in todo : TRUE

(* Mutant: the connection that follows one that failed is passed over. *)
SendFails_Skips ==
  LET c == connections[conit] IN
  /\ main = "send" /\ conit \in DOMAIN connections /\ stream[c] = "open"
  /\ client[c] = "gone"
  /\ stream' = [stream EXCEPT ![c] = "deleted"]
  /\ connections' = RemoveAt(connections, conit) /\ conit' = conit + 1
  /\ due' = [due EXCEPT ![c] = {}]
  /\ UNCHANGED <<netVars, running, threadVars, changed, main, runs, todo>>

(* Mutant: the connection that failed is taken off the list but not closed. *)
SendFails_Open ==
  LET c == connections[conit] IN
  /\ main = "send" /\ conit \in DOMAIN connections /\ stream[c] = "open"
  /\ client[c] = "gone"
  /\ connections' = RemoveAt(connections, conit)
  /\ due' = [due EXCEPT ![c] = {}]
  /\ UNCHANGED <<netVars, running, stream, threadVars, changed, mainVars>>

(* send_n does not send all to a client that has gone. *)
SendFails ==
  LET c == connections[conit] IN
  /\ main = "send" /\ conit \in DOMAIN connections /\ stream[c] = "open"
  /\ client[c] = "gone"
  /\ stream' = [stream EXCEPT ![c] = "deleted"]
  /\ connections' = RemoveAt(connections, conit)
  /\ due' = [due EXCEPT ![c] = {}]
  /\ UNCHANGED <<netVars, running, threadVars, changed, mainVars>>

(* send_n waits while the connection holds no more; to a client that has
   gone it may still succeed. *)
SendSucceeds ==
  LET c == connections[conit] IN
  /\ main = "send" /\ conit \in DOMAIN connections /\ stream[c] = "open"
  /\ IF client[c] = "gone" THEN UNCHANGED unread
     ELSE unread[c] < MaxUnread /\ unread' = [unread EXCEPT ![c] = @ + 1]
  /\ due' = [due EXCEPT ![c] = @ \ {Current}]
  /\ conit' = conit + 1
  /\ UNCHANGED <<client, backlog, stream, connections, running, threadVars, changed,
                 main, runs, todo>>

(* The loop uses a stream that the acceptor's end has deleted, or runs past
   the end of a list it has cleared. *)
SendCrashes ==
  /\ main = "send"
  /\ \/ conit \in DOMAIN connections /\ stream[connections[conit]] = "deleted"
     \/ conit > Len(connections) + 1
  /\ main' = "crashed"
  /\ UNCHANGED <<netVars, listVars, running, threadVars, changed, runs, todo, conit>>

(* Mutant: after one sink's event no sink is changed. *)
UnlockLoop_All ==
  /\ main = "send" /\ conit = Len(connections) + 1
  /\ changed' = [s \in Sinks |-> FALSE] /\ todo' = {}
  /\ main' = "loop" /\ conit' = 1
  /\ UNCHANGED <<netVars, listVars, running, threadVars, runs>>

UnlockLoop ==
  /\ main = "send" /\ conit = Len(connections) + 1
  /\ changed' = [changed EXCEPT ![Current] = FALSE]
  /\ todo' = todo \ {Current}
  /\ main' = IF todo' = {} THEN "loop" ELSE "pull"
  /\ conit' = 1
  /\ UNCHANGED <<netVars, listVars, running, threadVars, runs>>

(* close() does not wait for the thread. *)
Close ==
  /\ main = "loop"
  /\ running' = FALSE /\ main' = "idle"
  /\ UNCHANGED <<netVars, listVars, threadVars, changed, runs, todo, conit>>

-----------------------------------------------------------------------------
(* The acceptor thread of run r.                                            *)

Goes(r, place) == acceptor' = [acceptor EXCEPT ![r] = place]

(* The port may still be in use, which only shows when accept fails.  The
   thread sets running, whatever close() has done before. *)
Open(r) ==
  /\ acceptor[r] = "open" /\ Goes(r, "test")
  /\ port' = IF port = 0 THEN r ELSE port
  /\ running' = TRUE
  /\ UNCHANGED <<netVars, listVars, accepted, changed, mainVars>>

Test(r) ==
  /\ acceptor[r] = "test" /\ Goes(r, IF running THEN "accept" ELSE "shut")
  /\ UNCHANGED <<netVars, listVars, running, accepted, port, changed, mainVars>>

(* Mutant: the thread waits in accept until a client comes. *)
AcceptFails_Waits(r) ==
  /\ acceptor[r] = "accept" /\ port # r /\ Goes(r, "test")
  /\ UNCHANGED <<netVars, listVars, running, accepted, port, changed, mainVars>>

(* After the time-out, if no client waits, or at once without the port. *)
AcceptFails(r) ==
  /\ acceptor[r] = "accept" /\ (backlog = {} \/ port # r) /\ Goes(r, "test")
  /\ UNCHANGED <<netVars, listVars, running, accepted, port, changed, mainVars>>

Accept(r) ==
  /\ acceptor[r] = "accept" /\ port = r /\ Goes(r, "push")
  /\ \E c \in backlog :
       /\ backlog' = backlog \ {c} /\ stream' = [stream EXCEPT ![c] = "open"]
       /\ accepted' = [accepted EXCEPT ![r] = c]
  /\ UNCHANGED <<client, unread, connections, due, running, port, changed, mainVars>>

(* Mutant: the thread goes back to accept without putting it on the list. *)
Push_Dropped(r) ==
  /\ acceptor[r] = "push" /\ main # "send" /\ Goes(r, "test")
  /\ accepted' = [accepted EXCEPT ![r] = NoClient]
  /\ UNCHANGED <<netVars, listVars, port, running, changed, mainVars>>

Push(r) ==
  /\ acceptor[r] = "push" /\ main # "send" /\ Goes(r, "test")
  /\ connections' = Append(connections, accepted[r])
  /\ accepted' = [accepted EXCEPT ![r] = NoClient]
  /\ UNCHANGED <<netVars, stream, due, port, running, changed, mainVars>>

(* acceptor.close(): clients that were not accepted are cut off. *)
Shut(r) ==
  /\ acceptor[r] = "shut" /\ Goes(r, "delete")
  /\ IF port = r
     THEN /\ port' = 0 /\ backlog' = {}
          /\ client' = [c \in Clients |-> IF c \in backlog THEN "gone" ELSE client[c]]
     ELSE UNCHANGED <<port, backlog, client>>
  /\ UNCHANGED <<unread, listVars, running, accepted, changed, mainVars>>

(* All connections are closed and deleted, and then the list is cleared.  A
   stream that the acceptor of another run has deleted, and not yet taken off
   the list, is used and deleted again. *)
DeleteAll(r) ==
  /\ acceptor[r] = "delete" /\ Goes(r, "clear")
  /\ stream' = [c \in Clients |-> IF c \in Listed THEN "deleted" ELSE stream[c]]
  /\ main' = IF \E c \in Listed : stream[c] = "deleted" THEN "crashed" ELSE main
  /\ UNCHANGED <<netVars, connections, due, running, accepted, port, changed, runs, todo, conit>>

ClearAll(r) ==
  /\ acceptor[r] = "clear" /\ Goes(r, "ended")
  /\ connections' = <<>> /\ due' = [c \in Clients |-> {}]
  /\ UNCHANGED <<netVars, stream, running, accepted, port, changed, mainVars>>

-----------------------------------------------------------------------------
Sending == LockLoop \/ SendFails \/ SendSucceeds \/ SendCrashes \/ UnlockLoop

Ends(r) == Shut(r) \/ DeleteAll(r) \/ ClearAll(r)

Next ==
  \/ Start \/ PullEvent \/ Sending \/ Close
  \/ \E s \in Sinks : Produce(s)
  \/ \E c \in Clients : Connect(c) \/ Read(c) \/ Disconnect(c)
  \/ \E r \in Runs :
       Open(r) \/ Test(r) \/ AcceptFails(r) \/ Accept(r) \/ Push(r) \/ Ends(r)

(* Every thread goes on, the main loop pulls again and again, the mutex is
   not always kept from one who wants it, and the Readers read. *)
Fairness ==
  /\ WF_vars(PullEvent) /\ WF_vars(Sending)
  /\ \A r \in Runs :
       /\ WF_vars(Open(r) \/ Test(r) \/ AcceptFails(r) \/ Accept(r) \/ Ends(r))
       /\ SF_vars(Push(r))
  /\ \A c \in Readers : WF_vars(Read(c))

Spec == Init /\ [][Next]_vars /\ Fairness

-----------------------------------------------------------------------------
(* The main loop is in send_n and the client neither reads nor goes: "send
   could be blocking on slow connections". *)
Blocked ==
  /\ main = "send" /\ conit \in DOMAIN connections
  /\ connections[conit] \notin Readers /\ unread[connections[conit]] = MaxUnread

(* A sink that is not changed has sent its last event to every connection on
   the list, unless that connection came later: whichever connections fail
   inside the loop and whenever the acceptor adds one. *)
UpToDate ==
  main # "crashed" =>
    \A c \in Listed : due[c] \subseteq {s \in Sinks : changed[s]}

(* While the main loop was started once, it never uses a stream that was
   deleted, and a stream is open exactly for the connections on the list and
   the one that was just accepted, except while the acceptor ends. *)
FirstRunSafe ==
  runs <= 1 =>
    /\ main # "crashed"
    /\ \/ \E r \in Runs : acceptor[r] = "clear"
       \/ {c \in Clients : stream[c] = "open"} =
            (Listed \cup {accepted[r] : r \in Runs}) \ {NoClient}

(* A client that waits is put on the list, unless the acceptor is closed or
   the main loop is blocked with the mutex. *)
AllAccepted ==
  \A c \in Clients :
    c \in backlog ~> c \in Listed \/ client[c] = "gone" \/ main = "crashed" \/ Blocked

(* What a sink has for a connection is sent to it, or a later event is, while
   the main loop runs. *)
EventsSent ==
  \A c \in Clients, s \in Sinks :
    s \in due[c] ~> s \notin due[c] \/ main \in {"idle", "crashed"} \/ Blocked

(* close() ends the acceptors and the connections with them, unless a thread
   sets running after it or the main loop is started again. *)
ClosedEnds ==
  (main = "idle" /\ runs > 0)
    ~> (\A r \in 1..runs : acceptor[r] = "ended") \/ running \/ main # "idle"
=============================================================================
