---------------------------- MODULE TCPModule_proofs ----------------------------
(* Proofs about TCPModule, for any clients, sinks and number of runs. *)
EXTENDS TCPModule, SequenceTheorems, TLAPS

LEMMA RemoveAtSeq ==
  ASSUME NEW T, NEW s \in Seq(T), NEW k \in 1..Len(s)
  PROVE  /\ RemoveAt(s, k) \in Seq(T) /\ Len(RemoveAt(s, k)) = Len(s) - 1
         /\ \A i \in 1..(Len(s) - 1) : RemoveAt(s, k)[i] = IF i < k THEN s[i] ELSE s[i + 1]
<1>1. Len(s) \in Nat /\ k \in Nat /\ k >= 1 /\ k <= Len(s)
  BY LenProperties
<1>2. /\ SubSeq(s, 1, k - 1) \in Seq(T) /\ Len(SubSeq(s, 1, k - 1)) = k - 1
      /\ \A i \in 1..(k - 1) : SubSeq(s, 1, k - 1)[i] = s[i]
  BY <1>1
<1>3. /\ SubSeq(s, k + 1, Len(s)) \in Seq(T) /\ Len(SubSeq(s, k + 1, Len(s))) = Len(s) - k
      /\ \A i \in 1..(Len(s) - k) : SubSeq(s, k + 1, Len(s))[i] = s[i + k]
  BY <1>1
<1>. DEFINE front == SubSeq(s, 1, k - 1)
             back == SubSeq(s, k + 1, Len(s))
<1>4. RemoveAt(s, k) = front \o back
  BY DEF RemoveAt
<1>. HIDE DEF front, back
<1>. /\ front \in Seq(T) /\ Len(front) = k - 1
     /\ back \in Seq(T) /\ Len(back) = Len(s) - k
     /\ \A i \in 1..(k - 1) : front[i] = s[i]
     /\ \A i \in 1..(Len(s) - k) : back[i] = s[i + k]
  BY <1>2, <1>3 DEF front, back
<1>5. /\ front \o back \in Seq(T) /\ Len(front \o back) = Len(s) - 1
      /\ \A i \in 1..(Len(s) - 1) :
           (front \o back)[i] = IF i <= k - 1 THEN front[i] ELSE back[i - (k - 1)]
  <2>1. /\ front \o back \in Seq(T) /\ Len(front \o back) = Len(front) + Len(back)
        /\ \A i \in 1..(Len(front) + Len(back)) :
             (front \o back)[i] = IF i <= Len(front) THEN front[i] ELSE back[i - Len(front)]
    BY ConcatProperties
  <2>2. Len(front) + Len(back) = Len(s) - 1
    BY <1>1
  <2>. QED
    BY <2>1, <2>2
<1>6. ASSUME NEW i \in 1..(Len(s) - 1)
      PROVE  (front \o back)[i] = IF i < k THEN s[i] ELSE s[i + 1]
  <2>1. CASE i < k
    <3>1. i \in 1..(k - 1) /\ i <= k - 1
      BY <1>1, <2>1
    <3>. QED
      BY <1>5, <2>1, <3>1
  <2>2. CASE ~(i < k)
    <3>1. i - (k - 1) \in 1..(Len(s) - k) /\ i - (k - 1) + k = i + 1 /\ ~(i <= k - 1)
      BY <1>1, <2>2
    <3>2. back[i - (k - 1)] = s[i + 1]
      BY <3>1
    <3>. QED
      BY <1>5, <2>2, <3>1, <3>2
  <2>. QED
    BY <2>1, <2>2
<1>. QED
  BY <1>4, <1>5, <1>6

(* An acceptor has accepted a connection exactly when it is about to put it on
   the list; a run that has not begun has no acceptor. *)
PushInv ==
  \A r \in Runs :
    /\ acceptor[r] = "push" <=> accepted[r] # NoClient
    /\ r > runs => acceptor[r] = "none"

TypeInv == TypeOK /\ PushInv

(* What an acceptor accepted is a connection when it puts it on the list. *)
LEMMA PushAppends ==
  ASSUME TypeInv, NEW r \in Runs, Push(r)
  PROVE  /\ accepted[r] \in Clients /\ connections' = Append(connections, accepted[r])
         /\ connections' \in Seq(Clients) /\ Len(connections') = Len(connections) + 1
         /\ \A i \in 1..Len(connections) : connections'[i] = connections[i]
         /\ connections'[Len(connections) + 1] = accepted[r]
         /\ Listed' = Listed \cup {accepted[r]}
<1>1. accepted[r] \in Clients /\ connections \in Seq(Clients)
  BY DEF TypeInv, TypeOK, PushInv, Push
<1>2. connections' = Append(connections, accepted[r])
  BY DEF Push
<1>3. /\ connections' \in Seq(Clients) /\ Len(connections') = Len(connections) + 1
      /\ \A i \in 1..Len(connections) : connections'[i] = connections[i]
      /\ connections'[Len(connections) + 1] = accepted[r]
  BY <1>1, <1>2
<1>4. DOMAIN connections = 1..Len(connections) /\ DOMAIN connections' = 1..Len(connections')
      /\ Len(connections) \in Nat
  BY <1>1, <1>3
<1>. QED
  BY <1>1, <1>2, <1>3, <1>4 DEF Listed, ToSet

(* The connection that failed is taken off the list. *)
LEMMA FailRemoves ==
  ASSUME TypeInv, SendFails
  PROVE  /\ conit \in 1..Len(connections) /\ connections[conit] \in Clients
         /\ connections' \in Seq(Clients) /\ Len(connections') = Len(connections) - 1
         /\ \A i \in 1..(Len(connections) - 1) :
              connections'[i] = IF i < conit THEN connections[i] ELSE connections[i + 1]
         /\ Listed' \subseteq Listed /\ Listed \subseteq Listed' \cup {connections[conit]}
<1>1. connections \in Seq(Clients) /\ conit \in 1..Len(connections)
  BY DEF TypeInv, TypeOK, SendFails
<1>2. connections' = RemoveAt(connections, conit)
  BY DEF SendFails
<1>3. connections[conit] \in Clients /\ Len(connections) \in Nat
  BY <1>1
<1>4. /\ connections' \in Seq(Clients) /\ Len(connections') = Len(connections) - 1
      /\ \A i \in 1..(Len(connections) - 1) :
           connections'[i] = IF i < conit THEN connections[i] ELSE connections[i + 1]
  BY <1>1, <1>2, RemoveAtSeq
<1>5. DOMAIN connections = 1..Len(connections) /\ DOMAIN connections' = 1..(Len(connections) - 1)
  BY <1>1, <1>4
<1>6. ASSUME NEW c \in Listed' PROVE c \in Listed
  <2>1. PICK i \in 1..(Len(connections) - 1) : connections'[i] = c
    BY <1>5 DEF Listed, ToSet
  <2>2. c = connections[i] \/ c = connections[i + 1]
    BY <1>4, <2>1
  <2>3. i \in 1..Len(connections) /\ i + 1 \in 1..Len(connections)
    BY <1>3
  <2>. QED
    BY <1>5, <2>2, <2>3 DEF Listed, ToSet
<1>7. ASSUME NEW c \in Listed, c # connections[conit] PROVE c \in Listed'
  <2>1. PICK i \in 1..Len(connections) : connections[i] = c
    BY <1>5 DEF Listed, ToSet
  <2>2. i < conit \/ i > conit
    BY <1>1, <1>7, <2>1
  <2>3. CASE i < conit
    BY <1>1, <1>3, <1>4, <1>5, <2>1, <2>3 DEF Listed, ToSet
  <2>4. CASE i > conit
    <3>1. i - 1 \in 1..(Len(connections) - 1) /\ ~(i - 1 < conit) /\ (i - 1) + 1 = i
      BY <1>1, <1>3, <2>1, <2>4
    <3>2. connections'[i - 1] = c
      BY <1>4, <2>1, <3>1
    <3>. QED
      BY <1>5, <3>1, <3>2 DEF Listed, ToSet
  <2>. QED
    BY <2>2, <2>3, <2>4
<1>. QED
  BY <1>1, <1>3, <1>4, <1>6, <1>7

LEMMA TypeStep ==
  ASSUME TCPAssumption, TypeInv, [Next]_vars
  PROVE  TypeInv'
<1>. USE DEF TypeInv, TypeOK, PushInv, netVars, listVars, threadVars, mainVars, Runs
<1>1. ASSUME NEW c \in Clients, Connect(c) \/ Read(c) \/ Disconnect(c) PROVE TypeInv'
  <2>1. CASE Connect(c)
    BY <2>1 DEF Connect
  <2>2. CASE Read(c)
    BY <2>2, TCPAssumption DEF Read
  <2>3. CASE Disconnect(c)
    BY <2>3, TCPAssumption DEF Disconnect
  <2>. QED
    BY <1>1, <2>1, <2>2, <2>3
<1>2. CASE Start
  <2>1. runs + 1 \in Runs /\ runs' = runs + 1 /\ runs' \in 0..MaxRuns
    BY <1>2, TCPAssumption DEF Start
  <2>2. acceptor[runs + 1] = "none"
    BY <2>1
  <2>. QED
    BY <1>2, <2>1, <2>2 DEF Start
<1>3. ASSUME NEW s \in Sinks, Produce(s) PROVE TypeInv'
  BY <1>3 DEF Produce
<1>4. CASE PullEvent \/ LockLoop \/ SendCrashes \/ Close
  <2>1. CASE PullEvent
    BY <2>1 DEF PullEvent
  <2>2. CASE LockLoop
    BY <2>2 DEF LockLoop
  <2>3. CASE SendCrashes
    BY <2>3 DEF SendCrashes
  <2>4. CASE Close
    BY <2>4 DEF Close
  <2>. QED
    BY <1>4, <2>1, <2>2, <2>3, <2>4
<1>5. CASE SendFails
  <2>1. connections' \in Seq(Clients)
    BY <1>5, FailRemoves
  <2>. QED
    BY <1>5, <2>1 DEF SendFails
<1>6. CASE SendSucceeds
  <2>1. connections[conit] \in Clients
    BY <1>6 DEF SendSucceeds
  <2>2. unread' \in [Clients -> 0..MaxUnread]
    BY <1>6, <2>1, TCPAssumption DEF SendSucceeds
  <2>3. due' \in [Clients -> SUBSET Sinks]
    BY <1>6, <2>1 DEF SendSucceeds
  <2>. QED
    BY <1>6, <2>2, <2>3 DEF SendSucceeds
<1>7. CASE UnlockLoop
  BY <1>7 DEF UnlockLoop
<1>8. ASSUME NEW r \in Runs, Open(r) \/ Test(r) \/ AcceptFails(r) \/ Shut(r) \/ DeleteAll(r) \/ ClearAll(r)
      PROVE  TypeInv'
  <2>1. CASE Open(r)
    BY <2>1 DEF Open, Goes
  <2>2. CASE Test(r)
    BY <2>2 DEF Test, Goes
  <2>3. CASE AcceptFails(r)
    BY <2>3 DEF AcceptFails, Goes
  <2>4. CASE Shut(r)
    <3>1. port' \in 0..MaxRuns /\ client' \in [Clients -> {"away", "there", "gone"}] /\ backlog' \subseteq Clients
      BY <2>4, TCPAssumption DEF Shut
    <3>2. /\ acceptor' \in [Runs -> {"none", "open", "test", "accept", "push", "shut", "delete", "clear", "ended"}]
          /\ PushInv'
      BY <2>4 DEF Shut, Goes
    <3>. QED
      BY <2>4, <3>1, <3>2 DEF Shut
  <2>5. CASE DeleteAll(r)
    BY <2>5 DEF DeleteAll, Goes
  <2>6. CASE ClearAll(r)
    <3>1. connections' \in Seq(Clients) /\ due' \in [Clients -> SUBSET Sinks]
      BY <2>6 DEF ClearAll
    <3>2. /\ acceptor' \in [Runs -> {"none", "open", "test", "accept", "push", "shut", "delete", "clear", "ended"}]
          /\ PushInv'
      BY <2>6 DEF ClearAll, Goes
    <3>. QED
      BY <2>6, <3>1, <3>2 DEF ClearAll
  <2>. QED
    BY <1>8, <2>1, <2>2, <2>3, <2>4, <2>5, <2>6
<1>9. ASSUME NEW r \in Runs, Accept(r) PROVE TypeInv'
  <2>1. PICK c \in backlog : /\ backlog' = backlog \ {c} /\ stream' = [stream EXCEPT ![c] = "open"]
                             /\ accepted' = [accepted EXCEPT ![r] = c]
    BY <1>9 DEF Accept
  <2>2. /\ acceptor' \in [Runs -> {"none", "open", "test", "accept", "push", "shut", "delete", "clear", "ended"}]
        /\ accepted' \in [Runs -> Clients \cup {NoClient}]
    BY <1>9, <2>1 DEF Accept, Goes
  <2>3. PushInv'
    <3>1. c # NoClient /\ acceptor[r] = "accept" /\ runs' = runs
      BY <1>9, TCPAssumption DEF Accept
    <3>2. \A q \in Runs : /\ acceptor'[q] = IF q = r THEN "push" ELSE acceptor[q]
                          /\ accepted'[q] = IF q = r THEN c ELSE accepted[q]
      BY <1>9, <2>1 DEF Accept, Goes
    <3>. QED
      BY <3>1, <3>2
  <2>. QED
    BY <1>9, <2>1, <2>2, <2>3 DEF Accept
<1>10. ASSUME NEW r \in Runs, Push(r) PROVE TypeInv'
  BY <1>10, PushAppends DEF Push, Goes
<1>11. CASE UNCHANGED vars
  BY <1>11 DEF vars
<1>. QED
  BY <1>1, <1>2, <1>3, <1>4, <1>5, <1>6, <1>7, <1>8, <1>9, <1>10, <1>11 DEF Next, Sending, Ends

(* The types, and which acceptor has a connection in its hand. *)
LEMMA TypeInvariant == Spec => []TypeInv
<1>1. Init => TypeInv
  <2>. SUFFICES ASSUME Init PROVE TypeInv
    OBVIOUS
  <2>1. MaxUnread \in Nat /\ MaxRuns \in Nat /\ \A r \in Runs : r \in Nat
    BY TCPAssumption DEF Runs
  <2>2. connections \in Seq(Clients) /\ conit \in Nat /\ port \in 0..MaxRuns /\ runs \in 0..MaxRuns
    BY <2>1 DEF Init
  <2>3. unread \in [Clients -> 0..MaxUnread]
    BY <2>1 DEF Init
  <2>. QED
    BY <2>2, <2>3 DEF Init, TypeInv, TypeOK, PushInv
<1>2. TypeInv /\ [Next]_vars => TypeInv'
  BY TCPAssumption, TypeStep
<1>. QED
  BY <1>1, <1>2, PTL DEF Spec

(* Every variable keeps its type: in particular only connections are on the
   list, never what a failed accept left. *)
THEOREM TypeCorrect == Spec => []TypeOK
BY TypeInvariant, PTL DEF TypeInv

-----------------------------------------------------------------------------
(* Nobody that is not on the list is due anything; what somebody on it is due
   comes from a sink that is changed; and of the sink whose event is sent,
   nothing is due to those in front of the place in the list. *)
DueInv ==
  /\ \A c \in Clients \ Listed : due[c] = {}
  /\ UpToDate
  /\ main \in {"pull", "send"} => todo # {}
  /\ main = "send" => \A i \in DOMAIN connections : i < conit => Current \notin due[connections[i]]

LEMMA ListedClients == TypeOK => Listed \subseteq Clients
BY DEF TypeOK, Listed, ToSet

LEMMA DueStep ==
  ASSUME TCPAssumption, TypeInv, DueInv, [Next]_vars
  PROVE  DueInv'
<1>. USE DEF DueInv, UpToDate
<1>1. /\ Listed \subseteq Clients /\ DOMAIN connections = 1..Len(connections)
      /\ Len(connections) \in Nat /\ \A i \in DOMAIN connections : connections[i] \in Listed
  BY ListedClients DEF TypeInv, TypeOK, Listed, ToSet
<1>2. ASSUME UNCHANGED <<connections, due, changed>>,
             main' = "crashed" \/ main # "crashed",
             \/ main' \notin {"pull", "send"}
             \/ UNCHANGED <<main, todo, conit>>
             \/ main' \in {"pull", "send"} /\ todo' # {} /\ (main' = "send" => conit' = 1)
      PROVE  DueInv'
  <2>1. Listed' = Listed
    BY <1>2 DEF Listed
  <2>2. \A i \in DOMAIN connections : ~(i < 1)
    BY <1>1
  <2>. QED
    BY <1>1, <1>2, <2>1, <2>2 DEF Current
<1>3. ASSUME NEW c \in Clients, Connect(c) \/ Read(c) \/ Disconnect(c) PROVE DueInv'
  BY <1>3 DEF Connect, Read, Disconnect, listVars, mainVars, Listed, Current
<1>4. CASE Start \/ PullEvent \/ LockLoop \/ SendCrashes \/ Close
  BY <1>2, <1>4 DEF Start, PullEvent, LockLoop, SendCrashes, Close, listVars
<1>5. ASSUME NEW s \in Sinks, Produce(s) PROVE DueInv'
  <2>1. /\ Listed' = Listed /\ main = "loop" /\ main' = main
        /\ \A c \in Clients : due'[c] = IF c \in Listed THEN due[c] \cup {s} ELSE due[c]
        /\ \A t \in Sinks : changed'[t] = IF t = s THEN TRUE ELSE changed[t]
    BY <1>5 DEF Produce, mainVars, TypeInv, TypeOK, Listed
  <2>2. \A c \in Listed : due[c] \subseteq {t \in Sinks : changed[t]}
    BY <2>1
  <2>3. ASSUME NEW c \in Listed PROVE due'[c] \subseteq {t \in Sinks : changed'[t]}
    <3>1. due'[c] = due[c] \cup {s} /\ due[c] \subseteq {t \in Sinks : changed[t]}
      BY <1>1, <2>1, <2>2
    <3>2. ASSUME NEW t \in due'[c] PROVE t \in Sinks /\ changed'[t]
      BY ONLY <2>1, <3>1, <3>2, s \in Sinks
    <3>. QED
      BY <3>2
  <2>. QED
    BY <2>1, <2>3
<1>6. CASE SendFails
  <2>1. /\ conit \in 1..Len(connections) /\ connections[conit] \in Clients
        /\ DOMAIN connections' = 1..(Len(connections) - 1)
        /\ \A i \in 1..(Len(connections) - 1) :
              connections'[i] = IF i < conit THEN connections[i] ELSE connections[i + 1]
        /\ Listed' \subseteq Listed /\ Listed \subseteq Listed' \cup {connections[conit]}
    BY <1>6, FailRemoves
  <2>2. /\ main = "send" /\ UNCHANGED <<main, conit, todo, changed>>
        /\ \A c \in Clients : due'[c] = IF c = connections[conit] THEN {} ELSE due[c]
    BY <1>6 DEF SendFails, mainVars, TypeInv, TypeOK
  <2>3. Current' = Current
    BY <2>2 DEF Current
  <2>. QED
    BY <1>1, <2>1, <2>2, <2>3
<1>7. CASE SendSucceeds
  <2>1. /\ conit \in DOMAIN connections /\ main = "send" /\ conit' = conit + 1
        /\ UNCHANGED <<main, todo, changed, connections>> /\ Current' = Current /\ Listed' = Listed
        /\ \A c \in Clients : due'[c] = IF c = connections[conit] THEN due[c] \ {Current} ELSE due[c]
    BY <1>7 DEF SendSucceeds, TypeInv, TypeOK, Current, Listed
  <2>2. \A c \in Clients : due'[c] \subseteq due[c]
    BY <2>1
  <2>3. UpToDate' /\ \A c \in Clients \ Listed' : due'[c] = {}
    BY <1>1, <2>1, <2>2
  <2>4. conit \in Nat /\ todo # {}
    BY <2>1 DEF TypeInv, TypeOK
  <2>5. ASSUME NEW i \in DOMAIN connections, i < conit + 1 PROVE Current \notin due'[connections[i]]
    <3>1. i < conit \/ i = conit
      BY <1>1, <2>4, <2>5
    <3>2. Current \notin due[connections[i]] \/ connections[i] = connections[conit]
      BY <2>1, <3>1
    <3>3. connections[i] \in Clients
      BY <1>1
    <3>4. due'[connections[i]] = IF connections[i] = connections[conit]
                                 THEN due[connections[i]] \ {Current} ELSE due[connections[i]]
      BY <2>1, <3>3
    <3>. QED
      BY ONLY <3>2, <3>4
  <2>. QED
    BY <2>1, <2>3, <2>4, <2>5
<1>8. CASE UnlockLoop
  <2>1. /\ main = "send" /\ conit = Len(connections) + 1 /\ main' \in {"loop", "pull"}
        /\ (main' = "pull" => todo' # {}) /\ UNCHANGED <<connections, due>> /\ Listed' = Listed
        /\ \A s \in Sinks : changed'[s] = IF s = Current THEN FALSE ELSE changed[s]
    BY <1>8 DEF UnlockLoop, TypeInv, TypeOK, listVars, Listed
  <2>2. \A c \in Listed : Current \notin due[c]
    BY <1>1, <2>1 DEF Listed, ToSet
  <2>3. \A c \in Listed : due[c] \subseteq {s \in Sinks : changed[s]}
    BY <2>1
  <2>4. UpToDate'
    BY ONLY <2>1, <2>2, <2>3 DEF UpToDate
  <2>. QED
    BY <2>1, <2>4
<1>9. ASSUME NEW r \in Runs, Open(r) \/ Test(r) \/ AcceptFails(r) \/ Accept(r) \/ Shut(r) \/ DeleteAll(r)
      PROVE  DueInv'
  <2>1. /\ UNCHANGED <<connections, due, changed, todo, conit>>
        /\ main' = main \/ main' = "crashed"
    BY <1>9 DEF Open, Test, AcceptFails, Accept, Shut, DeleteAll, listVars, mainVars
  <2>. QED
    BY <2>1 DEF Listed, Current
<1>10. ASSUME NEW r \in Runs, Push(r) PROVE DueInv'
  <2>1. accepted[r] \in Clients /\ Listed' = Listed \cup {accepted[r]}
    BY <1>10, PushAppends
  <2>2. main # "send" /\ UNCHANGED <<main, todo, due, changed>>
    BY <1>10 DEF Push, mainVars
  <2>. QED
    BY <1>1, <2>1, <2>2
<1>11. ASSUME NEW r \in Runs, ClearAll(r) PROVE DueInv'
  <2>1. /\ connections' = <<>> /\ UNCHANGED <<main, todo, changed>>
        /\ \A c \in Clients : due'[c] = {}
    BY <1>11 DEF ClearAll, mainVars
  <2>2. Listed' = {} /\ DOMAIN connections' = {}
    BY <2>1 DEF Listed, ToSet
  <2>. QED
    BY <2>1, <2>2
<1>12. CASE UNCHANGED vars
  BY <1>12 DEF vars, listVars, mainVars, Listed, Current
<1>. QED
  BY <1>3, <1>4, <1>5, <1>6, <1>7, <1>8, <1>9, <1>10, <1>11, <1>12 DEF Next, Sending, Ends

(* A sink that is not changed has sent its last event to every connection that
   was on the list: pullEvent passes over none, whichever fail on the way and
   whenever the acceptor adds one or a thread of an earlier run clears the
   list. *)
THEOREM SentToAll == Spec => []UpToDate
<1>1. Init => DueInv
  BY DEF Init, DueInv, UpToDate, Listed, ToSet
<1>2. TypeInv /\ DueInv /\ [Next]_vars => DueInv'
  BY TCPAssumption, DueStep
<1>. QED
  BY <1>1, <1>2, TypeInvariant, PTL DEF Spec, DueInv

-----------------------------------------------------------------------------
(* A connection is nowhere before it is accepted, and then at one place of the
   list or with one acceptor. *)
ConnInv ==
  /\ \A c \in Clients : client[c] = "away" \/ c \in backlog => stream[c] = "none"
  /\ \A c \in Clients : client[c] = "away" => c \notin backlog
  /\ \A c \in Clients : stream[c] = "none" => c \notin Listed /\ \A r \in Runs : accepted[r] # c
  /\ \A i, j \in DOMAIN connections : connections[i] = connections[j] => i = j
  /\ \A r \in Runs : accepted[r] \notin Listed
  /\ \A r, q \in Runs : accepted[r] = accepted[q] /\ accepted[r] # NoClient => r = q

(* In the first run the acceptor comes to its end only after close(). *)
FirstRunInv ==
  runs <= 1 =>
    /\ main # "crashed"
    /\ \A r \in Runs :
         \/ acceptor[r] \in {"shut", "delete", "clear", "ended"}
         \/ acceptor[r] \in {"test", "accept", "push"} /\ ~running
         => main = "idle"
    /\ main = "send" => conit <= Len(connections) + 1
    /\ \A c \in Clients :
         stream[c] = "open" <=>
           \/ c \in Listed /\ \A r \in Runs : acceptor[r] # "clear"
           \/ \E r \in Runs : accepted[r] = c

LEMMA ConnStep ==
  ASSUME TCPAssumption, TypeInv, ConnInv, [Next]_vars
  PROVE  ConnInv'
<1>. USE DEF ConnInv
<1>1. /\ Listed \subseteq Clients /\ DOMAIN connections = 1..Len(connections)
      /\ Len(connections) \in Nat /\ \A i \in DOMAIN connections : connections[i] \in Listed
  BY ListedClients DEF TypeInv, TypeOK, Listed, ToSet
<1>2. ASSUME UNCHANGED <<connections, accepted, stream>>,
             \A c \in Clients : client'[c] = "away" => client[c] = "away" /\ c \notin backlog',
             \A c \in Clients : c \in backlog' => c \in backlog \/ client[c] = "away"
      PROVE  ConnInv'
  BY <1>2 DEF Listed
<1>3. ASSUME NEW c \in Clients, Connect(c) \/ Read(c) \/ Disconnect(c) PROVE ConnInv'
  <2>1. UNCHANGED <<connections, accepted, stream>>
    BY <1>3 DEF Connect, Read, Disconnect, listVars, threadVars
  <2>2. \A d \in Clients : client'[d] = IF d = c THEN client'[c] ELSE client[d]
    BY <1>3 DEF Connect, Read, Disconnect, TypeInv, TypeOK
  <2>3. client'[c] = "away" => client[c] = "away" /\ backlog' = backlog
    BY <1>3 DEF Connect, Read, Disconnect, TypeInv, TypeOK
  <2>4. backlog' \subseteq backlog \cup {c} /\ (c \in backlog' => c \in backlog \/ client[c] = "away")
    BY <1>3 DEF Connect, Read, Disconnect
  <2>. QED
    BY <1>2, <2>1, <2>2, <2>3, <2>4
<1>4. CASE \/ Start \/ PullEvent \/ LockLoop \/ SendSucceeds \/ SendCrashes \/ UnlockLoop \/ Close
           \/ \E s \in Sinks : Produce(s)
  <2>1. UNCHANGED <<connections, accepted, stream, client, backlog>>
    BY <1>4 DEF Start, PullEvent, LockLoop, SendSucceeds, SendCrashes, UnlockLoop, Close, Produce,
             netVars, listVars, threadVars
  <2>. QED
    BY <1>2, <2>1
<1>5. CASE SendFails
  <2>1. /\ conit \in 1..Len(connections) /\ connections[conit] \in Clients
        /\ DOMAIN connections' = 1..(Len(connections) - 1)
        /\ \A i \in 1..(Len(connections) - 1) :
              connections'[i] = IF i < conit THEN connections[i] ELSE connections[i + 1]
        /\ Listed' \subseteq Listed
    BY <1>5, FailRemoves
  <2>2. /\ UNCHANGED <<client, backlog, accepted>> /\ stream[connections[conit]] = "open"
        /\ \A c \in Clients : stream'[c] = IF c = connections[conit] THEN "deleted" ELSE stream[c]
    BY <1>5 DEF SendFails, netVars, threadVars, TypeInv, TypeOK
  <2>3. ASSUME NEW i \in DOMAIN connections', NEW j \in DOMAIN connections',
               connections'[i] = connections'[j]
        PROVE  i = j
    <3>1. /\ connections'[i] = connections[IF i < conit THEN i ELSE i + 1]
          /\ connections'[j] = connections[IF j < conit THEN j ELSE j + 1]
      BY <2>1
    <3>2. /\ (IF i < conit THEN i ELSE i + 1) \in DOMAIN connections
          /\ (IF j < conit THEN j ELSE j + 1) \in DOMAIN connections
      BY <1>1, <2>1
    <3>3. (IF i < conit THEN i ELSE i + 1) = (IF j < conit THEN j ELSE j + 1)
      BY <2>3, <3>1, <3>2
    <3>. QED
      BY <1>1, <2>1, <3>3
  <2>. QED
    BY <1>1, <2>1, <2>2, <2>3
<1>6. ASSUME NEW r \in Runs, Open(r) \/ Test(r) \/ AcceptFails(r) \/ Shut(r) PROVE ConnInv'
  <2>1. UNCHANGED <<connections, accepted, stream>>
    BY <1>6 DEF Open, Test, AcceptFails, Shut, listVars
  <2>2. CASE UNCHANGED <<client, backlog>>
    BY <1>2, <2>1, <2>2
  <2>3. CASE Shut(r) /\ port = r
    <3>1. /\ backlog' = {}
          /\ \A c \in Clients : client'[c] = IF c \in backlog THEN "gone" ELSE client[c]
      BY <2>3 DEF Shut
    <3>. QED
      BY <1>2, <2>1, <3>1
  <2>. QED
    BY <1>6, <2>2, <2>3 DEF Open, Test, AcceptFails, Shut, netVars
<1>7. ASSUME NEW r \in Runs, Accept(r) PROVE ConnInv'
  <2>1. PICK c \in backlog : /\ backlog' = backlog \ {c} /\ stream' = [stream EXCEPT ![c] = "open"]
                             /\ accepted' = [accepted EXCEPT ![r] = c]
    BY <1>7 DEF Accept
  <2>2. /\ c \in Clients /\ UNCHANGED <<client, connections>> /\ Listed' = Listed
        /\ \A d \in Clients : stream'[d] = IF d = c THEN "open" ELSE stream[d]
        /\ \A q \in Runs : accepted'[q] = IF q = r THEN c ELSE accepted[q]
    BY <1>7, <2>1 DEF Accept, TypeInv, TypeOK, Listed
  <2>3. stream[c] = "none" /\ client[c] # "away" /\ c \notin Listed /\ \A q \in Runs : accepted[q] # c
    BY <2>1, <2>2
  <2>. QED
    BY <2>1, <2>2, <2>3
<1>8. ASSUME NEW r \in Runs, Push(r) PROVE ConnInv'
  <2>1. /\ accepted[r] \in Clients /\ Listed' = Listed \cup {accepted[r]}
        /\ DOMAIN connections' = 1..(Len(connections) + 1)
        /\ \A i \in 1..Len(connections) : connections'[i] = connections[i]
        /\ connections'[Len(connections) + 1] = accepted[r]
    BY <1>8, PushAppends
  <2>2. /\ UNCHANGED <<client, backlog, stream>>
        /\ \A q \in Runs : accepted'[q] = IF q = r THEN NoClient ELSE accepted[q]
    BY <1>8 DEF Push, netVars, TypeInv, TypeOK
  <2>3. ASSUME NEW i \in DOMAIN connections', NEW j \in DOMAIN connections',
               connections'[i] = connections'[j]
        PROVE  i = j
    <3>1. \A k \in DOMAIN connections' : k \in DOMAIN connections \/ k = Len(connections) + 1
      BY <1>1, <2>1
    <3>2. \A k \in DOMAIN connections : connections'[k] # accepted[r]
      BY <1>1, <2>1
    <3>. QED
      BY <1>1, <2>1, <2>3, <3>1, <3>2
  <2>4. NoClient \notin Clients /\ accepted[r] # NoClient
    BY <2>1, TCPAssumption
  <2>. QED
    BY <1>1, <2>1, <2>2, <2>3, <2>4
<1>9. ASSUME NEW r \in Runs, DeleteAll(r) PROVE ConnInv'
  <2>1. /\ UNCHANGED <<client, backlog, connections, accepted>> /\ Listed' = Listed
        /\ \A c \in Clients : stream'[c] = IF c \in Listed THEN "deleted" ELSE stream[c]
    BY <1>9 DEF DeleteAll, netVars, Listed
  <2>. QED
    BY <1>1, <2>1
<1>10. ASSUME NEW r \in Runs, ClearAll(r) PROVE ConnInv'
  <2>1. UNCHANGED <<client, backlog, stream, accepted>> /\ connections' = <<>>
    BY <1>10 DEF ClearAll, netVars
  <2>2. Listed' = {} /\ DOMAIN connections' = {}
    BY <2>1 DEF Listed, ToSet
  <2>. QED
    BY <2>1, <2>2
<1>11. CASE UNCHANGED vars
  BY <1>11 DEF vars, netVars, listVars, threadVars, Listed
<1>. QED
  BY <1>3, <1>4, <1>5, <1>6, <1>7, <1>8, <1>9, <1>10, <1>11 DEF Next, Sending, Ends

LEMMA FirstRunStep ==
  ASSUME TCPAssumption, TypeInv, ConnInv, FirstRunInv, [Next]_vars
  PROVE  FirstRunInv'
<1>. SUFFICES ASSUME runs' <= 1 PROVE FirstRunInv'
  BY DEF FirstRunInv
<1>1. runs <= 1 /\ runs \in Nat /\ conit \in Nat
  BY DEF Next, Sending, Ends, Connect, Read, Disconnect, Start, Produce, PullEvent, LockLoop, SendFails,
     SendSucceeds, SendCrashes, UnlockLoop, Close, Open, Test, AcceptFails, Accept, Push, Shut,
     DeleteAll, ClearAll, mainVars, vars, TypeInv, TypeOK
<1>2. \A r, q \in Runs : acceptor[r] # "none" /\ acceptor[q] # "none" => r = q
  BY <1>1 DEF TypeInv, PushInv, Runs
<1>3. /\ Listed \subseteq Clients /\ DOMAIN connections = 1..Len(connections)
      /\ Len(connections) \in Nat /\ \A i \in DOMAIN connections : connections[i] \in Listed
  BY ListedClients DEF TypeInv, TypeOK, Listed, ToSet
<1>4. ASSUME NEW c \in Clients, Connect(c) \/ Read(c) \/ Disconnect(c) PROVE FirstRunInv'
  BY <1>4 DEF Connect, Read, Disconnect, listVars, threadVars, mainVars, FirstRunInv, Listed
<1>5. CASE Start
  <2>1. runs = 0 /\ main' = "loop" /\ UNCHANGED <<stream, connections, running, accepted>> /\ Listed' = Listed
    BY <1>1, <1>5 DEF Start, listVars, Listed
  <2>2. \A r \in Runs : acceptor[r] = "none" /\ acceptor'[r] \in {"none", "open"}
    BY <1>5, <2>1 DEF Start, TypeInv, TypeOK, PushInv, Runs
  <2>. QED
    BY <1>1, <2>1, <2>2 DEF FirstRunInv
<1>6. CASE PullEvent \/ LockLoop \/ SendSucceeds \/ UnlockLoop \/ Close \/ \E s \in Sinks : Produce(s)
  <2>1. UNCHANGED <<stream, connections, acceptor, accepted, runs>> /\ Listed' = Listed
    BY <1>6 DEF PullEvent, LockLoop, SendSucceeds, UnlockLoop, Close, Produce, listVars, threadVars,
       mainVars, Listed
  <2>2. main # "idle" /\ main' # "crashed"
    BY <1>6 DEF PullEvent, LockLoop, SendSucceeds, UnlockLoop, Close, Produce, mainVars
  <2>3. running' = running \/ main' = "idle"
    BY <1>6 DEF PullEvent, LockLoop, SendSucceeds, UnlockLoop, Close, Produce
  <2>4. main' = "send" => conit' <= Len(connections) + 1
    BY <1>1, <1>3, <1>6 DEF PullEvent, LockLoop, SendSucceeds, UnlockLoop, Close, Produce, mainVars
  <2>. QED
    BY <1>1, <2>1, <2>2, <2>3, <2>4 DEF FirstRunInv
<1>7. ASSUME SendCrashes PROVE FALSE
  <2>1. conit \in DOMAIN connections /\ stream[connections[conit]] = "deleted"
    BY <1>1, <1>3, <1>7 DEF SendCrashes, FirstRunInv
  <2>2. main = "send" /\ \A r \in Runs : acceptor[r] # "clear"
    BY <1>1, <1>7 DEF SendCrashes, FirstRunInv
  <2>3. stream[connections[conit]] = "open"
    BY <1>1, <1>3, <2>1, <2>2 DEF FirstRunInv
  <2>. QED
    BY <2>1, <2>3
<1>8. CASE SendFails
  <2>1. /\ conit \in 1..Len(connections) /\ connections[conit] \in Clients
        /\ DOMAIN connections' = 1..(Len(connections) - 1) /\ Len(connections') = Len(connections) - 1
        /\ \A i \in 1..(Len(connections) - 1) :
              connections'[i] = IF i < conit THEN connections[i] ELSE connections[i + 1]
        /\ Listed' \subseteq Listed /\ Listed \subseteq Listed' \cup {connections[conit]}
    BY <1>8, FailRemoves
  <2>2. /\ UNCHANGED <<acceptor, accepted, running, main, runs, conit>> /\ main = "send"
        /\ \A c \in Clients : stream'[c] = IF c = connections[conit] THEN "deleted" ELSE stream[c]
    BY <1>8 DEF SendFails, threadVars, mainVars, TypeInv, TypeOK
  <2>3. connections[conit] \notin Listed'
    <3>1. ASSUME NEW i \in DOMAIN connections', connections'[i] = connections[conit] PROVE FALSE
      <4>1. connections[IF i < conit THEN i ELSE i + 1] = connections[conit]
        BY <2>1, <3>1
      <4>2. (IF i < conit THEN i ELSE i + 1) \in DOMAIN connections /\ conit \in DOMAIN connections
        BY <1>3, <2>1
      <4>3. (IF i < conit THEN i ELSE i + 1) = conit
        BY <4>1, <4>2 DEF ConnInv
      <4>. QED
        BY <1>1, <2>1, <4>3
    <3>. QED
      BY <3>1 DEF Listed, ToSet
  <2>4. \A r \in Runs : accepted[r] # connections[conit]
    BY <1>3, <2>1 DEF ConnInv
  <2>5. \A r \in Runs : acceptor[r] # "clear"
    BY <1>1, <2>2 DEF FirstRunInv
  <2>6. \A c \in Clients :
          stream'[c] = "open" <=> c \in Listed' \/ \E r \in Runs : accepted[r] = c
    BY <1>1, <2>1, <2>2, <2>3, <2>4, <2>5 DEF FirstRunInv
  <2>7. conit' <= Len(connections') + 1
    BY <1>3, <2>1, <2>2
  <2>. QED
    BY <1>1, <2>2, <2>5, <2>6, <2>7 DEF FirstRunInv
<1>9. ASSUME NEW r \in Runs, Open(r) \/ Test(r) \/ AcceptFails(r) \/ Shut(r) PROVE FirstRunInv'
  <2>1. UNCHANGED <<stream, connections, accepted, main, runs, conit>> /\ Listed' = Listed
    BY <1>9 DEF Open, Test, AcceptFails, Shut, listVars, mainVars, Listed
  <2>2. \A q \in Runs : q # r => acceptor'[q] = "none" /\ acceptor[q] = "none"
    BY <1>2, <1>9 DEF Open, Test, AcceptFails, Shut, Goes, TypeInv, TypeOK
  <2>3. acceptor'[r] # "clear" /\ acceptor[r] # "clear"
    BY <1>9 DEF Open, Test, AcceptFails, Shut, Goes, TypeInv, TypeOK
  <2>4. \/ acceptor'[r] \in {"shut", "delete", "clear", "ended"}
        \/ acceptor'[r] \in {"test", "accept", "push"} /\ ~running'
        => main = "idle"
    BY <1>1, <1>9 DEF Open, Test, AcceptFails, Shut, Goes, FirstRunInv, TypeInv, TypeOK
  <2>. QED
    BY <1>1, <2>1, <2>2, <2>3, <2>4 DEF FirstRunInv
<1>10. ASSUME NEW r \in Runs, Accept(r) PROVE FirstRunInv'
  <2>1. PICK c \in backlog : /\ stream' = [stream EXCEPT ![c] = "open"]
                             /\ accepted' = [accepted EXCEPT ![r] = c]
    BY <1>10 DEF Accept
  <2>2. UNCHANGED <<connections, running, main, runs, conit>> /\ Listed' = Listed
    BY <1>10 DEF Accept, mainVars, Listed
  <2>3. c \in Clients /\ acceptor[r] = "accept"
    BY <1>10, <2>1 DEF Accept, TypeInv, TypeOK
  <2>4. accepted[r] = NoClient
    BY <2>3 DEF TypeInv, PushInv
  <2>5. \A d \in Clients : stream'[d] = IF d = c THEN "open" ELSE stream[d]
    BY <2>1 DEF TypeInv, TypeOK
  <2>6. /\ \A q \in Runs : accepted'[q] = IF q = r THEN c ELSE accepted[q]
        /\ \A q \in Runs : acceptor'[q] = IF q = r THEN "push" ELSE acceptor[q]
    BY <1>10, <2>1 DEF Accept, Goes, TypeInv, TypeOK
  <2>7. \A q \in Runs : acceptor[q] # "clear" /\ acceptor'[q] # "clear"
    BY <1>2, <2>3, <2>6
  <2>8. \A q \in Runs :
          \/ acceptor'[q] \in {"shut", "delete", "clear", "ended"}
          \/ acceptor'[q] \in {"test", "accept", "push"} /\ ~running
          => main = "idle"
    BY <1>1, <2>3, <2>6 DEF FirstRunInv
  <2>9. \A d \in Clients :
          stream'[d] = "open" <=> d \in Listed \/ \E q \in Runs : accepted'[q] = d
    <3>1. \A d \in Clients : (\E q \in Runs : accepted'[q] = d) <=> d = c \/ \E q \in Runs : accepted[q] = d
      BY <2>3, <2>4, <2>6, TCPAssumption
    <3>2. \A d \in Clients : stream[d] = "open" <=> d \in Listed \/ \E q \in Runs : accepted[q] = d
      BY <1>1, <2>7 DEF FirstRunInv
    <3>. QED
      BY <2>5, <3>1, <3>2
  <2>. QED
    BY <1>1, <2>2, <2>7, <2>8, <2>9 DEF FirstRunInv
<1>11. ASSUME NEW r \in Runs, Push(r) PROVE FirstRunInv'
  <2>1. accepted[r] \in Clients /\ Listed' = Listed \cup {accepted[r]}
    BY <1>11, PushAppends
  <2>2. UNCHANGED <<stream, running, main, runs, conit>> /\ main # "send" /\ acceptor[r] = "push"
    BY <1>11 DEF Push, mainVars
  <2>3. /\ \A q \in Runs : accepted'[q] = IF q = r THEN NoClient ELSE accepted[q]
        /\ \A q \in Runs : acceptor'[q] = IF q = r THEN "test" ELSE acceptor[q]
    BY <1>11 DEF Push, Goes, TypeInv, TypeOK
  <2>4. \A q \in Runs : acceptor[q] # "clear" /\ acceptor'[q] # "clear"
    BY <1>2, <2>2, <2>3
  <2>5. \A q \in Runs :
          \/ acceptor'[q] \in {"shut", "delete", "clear", "ended"}
          \/ acceptor'[q] \in {"test", "accept", "push"} /\ ~running
          => main = "idle"
    BY <1>1, <2>2, <2>3 DEF FirstRunInv
  <2>6. \A d \in Clients :
          stream[d] = "open" <=> d \in Listed' \/ \E q \in Runs : accepted'[q] = d
    <3>1. NoClient \notin Clients
      BY TCPAssumption
    <3>2. \A d \in Clients : stream[d] = "open" <=> d \in Listed \/ \E q \in Runs : accepted[q] = d
      BY <1>1, <2>4 DEF FirstRunInv
    <3>. QED
      BY <2>1, <2>3, <3>1, <3>2
  <2>. QED
    BY <1>1, <2>2, <2>4, <2>5, <2>6 DEF FirstRunInv
<1>12. ASSUME NEW r \in Runs, DeleteAll(r) PROVE FirstRunInv'
  <2>1. /\ UNCHANGED <<connections, accepted, running, runs, conit>> /\ Listed' = Listed
        /\ acceptor[r] = "delete"
        /\ \A c \in Clients : stream'[c] = IF c \in Listed THEN "deleted" ELSE stream[c]
        /\ \A q \in Runs : acceptor'[q] = IF q = r THEN "clear" ELSE acceptor[q]
        /\ main' = IF \E c \in Listed : stream[c] = "deleted" THEN "crashed" ELSE main
    BY <1>12 DEF DeleteAll, Goes, Listed, TypeInv, TypeOK
  <2>2. \A q \in Runs : accepted[q] \notin Listed
    BY DEF ConnInv
  <2>3. \A q \in Runs : acceptor[q] # "clear"
    BY <1>2, <2>1
  <2>4. \A c \in Listed : stream[c] = "open"
    BY <1>1, <1>3, <2>3 DEF FirstRunInv
  <2>5. main' = main
    BY <2>1, <2>4
  <2>. QED
    BY <1>1, <1>2, <2>1, <2>2, <2>5 DEF FirstRunInv
<1>13. ASSUME NEW r \in Runs, ClearAll(r) PROVE FirstRunInv'
  <2>1. /\ UNCHANGED <<stream, accepted, running, main, runs, conit>> /\ connections' = <<>>
        /\ acceptor[r] = "clear"
        /\ \A q \in Runs : acceptor'[q] = IF q = r THEN "ended" ELSE acceptor[q]
    BY <1>13 DEF ClearAll, Goes, mainVars, TypeInv, TypeOK
  <2>2. Listed' = {} /\ main = "idle"
    BY <1>1, <2>1 DEF Listed, ToSet, FirstRunInv
  <2>. QED
    BY <1>1, <2>1, <2>2 DEF FirstRunInv
<1>14. CASE UNCHANGED vars
  BY <1>14 DEF vars, listVars, threadVars, mainVars, FirstRunInv, Listed
<1>. QED
  BY <1>4, <1>5, <1>6, <1>7, <1>8, <1>9, <1>10, <1>11, <1>12, <1>13, <1>14 DEF Next, Sending, Ends

(* Where each connection is, and what the first run adds to that. *)
LEMMA FirstRunInvariant == Spec => [](ConnInv /\ FirstRunInv)
<1>1. Init => ConnInv /\ FirstRunInv
  <2>. SUFFICES ASSUME Init PROVE ConnInv /\ FirstRunInv
    OBVIOUS
  <2>1. Listed = {} /\ DOMAIN connections = {}
    BY DEF Init, Listed, ToSet
  <2>. QED
    BY <2>1, TCPAssumption DEF Init, ConnInv, FirstRunInv
<1>2. TypeInv /\ ConnInv /\ FirstRunInv /\ [Next]_vars => ConnInv' /\ FirstRunInv'
  BY TCPAssumption, ConnStep, FirstRunStep
<1>. QED
  BY <1>1, <1>2, TypeInvariant, PTL DEF Spec

(* While the main loop was started once, it never uses a stream that the end of
   the acceptor has deleted, and streams are open exactly while their
   connections are on the list or about to be put there. *)
THEOREM FirstRun == Spec => []FirstRunSafe
<1>1. TypeInv /\ FirstRunInv => FirstRunSafe
  <2>. SUFFICES ASSUME TypeInv, FirstRunInv, runs <= 1, \A r \in Runs : acceptor[r] # "clear"
       PROVE  {c \in Clients : stream[c] = "open"} =
                (Listed \cup {accepted[r] : r \in Runs}) \ {NoClient}
    BY DEF FirstRunSafe, FirstRunInv
  <2>1. Listed \subseteq Clients /\ \A r \in Runs : accepted[r] \in Clients \cup {NoClient}
    BY ListedClients DEF TypeInv, TypeOK
  <2>. QED
    BY <2>1, TCPAssumption DEF FirstRunInv
<1>. QED
  BY <1>1, TypeInvariant, FirstRunInvariant, PTL

(* However often the main loop is started, with acceptors of runs before
   still there, a connection is put on the list once: it is with one acceptor
   or at one place of the list, and on neither before it was accepted. *)
OnePlace ==
  /\ \A i, j \in DOMAIN connections : connections[i] = connections[j] => i = j
  /\ \A r, q \in Runs : accepted[r] = accepted[q] /\ accepted[r] # NoClient => r = q
  /\ \A r \in Runs : accepted[r] \notin Listed
  /\ \A c \in backlog : c \notin Listed /\ \A r \in Runs : accepted[r] # c

(* accept and push_back, by any number of acceptor threads, hand each connection
   to the list once, whichever of them fail inside the loop over it. *)
THEOREM ConnectionsDistinct == Spec => []OnePlace
<1>1. TypeInv /\ ConnInv => OnePlace
  BY DEF ConnInv, OnePlace, TypeInv, TypeOK
<1>. QED
  BY <1>1, TypeInvariant, FirstRunInvariant, PTL

(* While the main loop was started once, the end of the acceptor deletes only
   streams that are open, and pullEvent sends, and closes after a failure, only
   on such a one. *)
DeletedOnce ==
  runs <= 1 =>
    /\ \A r \in Runs : acceptor[r] = "delete" => \A c \in Listed : stream[c] = "open"
    /\ main = "send" => \A c \in Listed : stream[c] = "open"

(* No stream is deleted twice in a first run: neither by the two threads nor by
   one of them after the other has done it. *)
THEOREM StreamsDeletedOnce == Spec => []DeletedOnce
<1>1. TypeInv /\ ConnInv /\ FirstRunInv => DeletedOnce
  <2>. SUFFICES ASSUME TypeInv, FirstRunInv, runs <= 1
       PROVE  /\ \A r \in Runs : acceptor[r] = "delete" => \A c \in Listed : stream[c] = "open"
              /\ main = "send" => \A c \in Listed : stream[c] = "open"
    BY DEF DeletedOnce
  <2>1. Listed \subseteq Clients
    BY ListedClients DEF TypeInv
  <2>2. \A r, q \in Runs : acceptor[r] # "none" /\ acceptor[q] # "none" => r = q
    BY DEF TypeInv, TypeOK, PushInv, Runs
  <2>3. ASSUME \A r \in Runs : acceptor[r] # "clear" PROVE \A c \in Listed : stream[c] = "open"
    BY <2>1, <2>3 DEF FirstRunInv
  <2>4. \A r \in Runs : acceptor[r] = "delete" => \A q \in Runs : acceptor[q] # "clear"
    BY <2>2
  <2>5. main = "send" => \A q \in Runs : acceptor[q] # "clear"
    BY DEF FirstRunInv
  <2>. QED
    BY <2>3, <2>4, <2>5
<1>. QED
  BY <1>1, TypeInvariant, FirstRunInvariant, PTL
=============================================================================
