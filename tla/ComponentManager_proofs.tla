------------------------ MODULE ComponentManager_proofs ------------------------
(* Proofs about ComponentManager, for any components, applications and users,
   and whatever loads what. *)
EXTENDS ComponentManager, SequenceTheorems, FiniteSetTheorems, TLAPS

(* init() is called from the loop over initList and from callbacks; the loop over initList has
   dealt with the entries in front of its index, meets no NULL entry behind
   it, and made the outermost call for the entry at it. *)
ListInv ==
  /\ phase \notin {"init", "idle"} => stack = <<>>
  /\ phase \in {"configure", "idle"} => \A i \in DOMAIN initList : initList[i] # NULL
  /\ phase = "apps" => initList = <<>>
  /\ phase = "init" =>
       /\ \A i \in DOMAIN initList : i >= index => initList[i] # NULL
       /\ \A i \in DOMAIN initList : i < index => initList[i] \in Listed \cup {NULL}
       /\ stack # <<>> => index <= Len(initList) /\ stack[Len(stack)].comp = initList[index]

ManagerInv == TypeOK /\ ListInv

LEMMA ToSetAppend ==
  ASSUME NEW T, NEW s \in Seq(T), NEW e \in T
  PROVE  ToSet(Append(s, e)) = ToSet(s) \cup {e}
<1>1. /\ DOMAIN Append(s, e) = 1..(Len(s) + 1) /\ DOMAIN s = 1..Len(s)
      /\ \A i \in 1..Len(s) : Append(s, e)[i] = s[i]
      /\ Append(s, e)[Len(s) + 1] = e
  OBVIOUS
<1>2. Len(s) \in Nat
  OBVIOUS
<1>. QED
  BY <1>1, <1>2 DEF ToSet

(* Calls are put on the stack and replaced above the outermost one. *)
LEMMA StackPush ==
  ASSUME NEW call \in Calls, NEW callers \in Seq(Calls)
  PROVE  /\ <<call>> \o callers \in Seq(Calls)
         /\ <<call>> \o callers # <<>>
         /\ (<<call>> \o callers)[Len(<<call>> \o callers)]
              = IF callers = <<>> THEN call ELSE callers[Len(callers)]
OBVIOUS

LEMMA StackTop ==
  ASSUME NEW d, stack \in Seq(Calls), stack # <<>>
  PROVE  LET callers == <<[Head(stack) EXCEPT !.todo = @ \ {d}]>> \o Tail(stack) IN
         /\ callers \in Seq(Calls) /\ callers # <<>>
         /\ callers[Len(callers)].comp = stack[Len(stack)].comp
<1>. DEFINE top == [Head(stack) EXCEPT !.todo = @ \ {d}]
<1>1. Head(stack) \in Calls /\ Tail(stack) \in Seq(Calls)
  OBVIOUS
<1>2. top \in Calls /\ top.comp = Head(stack).comp
  BY <1>1 DEF Calls
<1>3. Tail(stack) = <<>> => stack[Len(stack)] = Head(stack)
  <2>1. Tail(stack) = <<>> => Len(Tail(stack)) = 0
    BY EmptySeq
  <2>2. Len(Tail(stack)) = Len(stack) - 1 /\ Len(stack) \in Nat /\ Head(stack) = stack[1]
    OBVIOUS
  <2>. QED
    BY <2>1, <2>2
<1>4. Tail(stack) # <<>> => Tail(stack)[Len(Tail(stack))] = stack[Len(stack)]
  OBVIOUS
<1>. HIDE DEF top
<1>5. /\ <<top>> \o Tail(stack) \in Seq(Calls) /\ <<top>> \o Tail(stack) # <<>>
      /\ (<<top>> \o Tail(stack))[Len(<<top>> \o Tail(stack))]
           = IF Tail(stack) = <<>> THEN top ELSE Tail(stack)[Len(Tail(stack))]
  BY <1>1, <1>2, StackPush
<1>. QED
  BY <1>2, <1>3, <1>4, <1>5 DEF top

LEMMA CallType ==
  ASSUME TypeOK, NEW c \in Components, NEW set
  PROVE  Call(c, set) \in Calls /\ Call(c, set).comp = c
BY DEF TypeOK, Call, Calls

(* What load() leaves: a crash, or the callers as they were, with a call above
   them or none. *)
LEMMA LoadForSteps ==
  ASSUME TypeOK, NEW d \in Components, NEW callers \in Seq(Calls), LoadFor(d, callers)
  PROVE  /\ isInit' \in [Components -> BOOLEAN] /\ early' \subseteq Components
         /\ \/ phase' = "crashed" /\ stack' = <<>>
            \/ phase' = phase /\ stack' = callers
            \/ phase' = phase /\ \E call \in Calls : stack' = <<call>> \o callers
<1>1. isInit' \in [Components -> BOOLEAN] /\ early' \subseteq Components
  BY DEF LoadFor, TypeOK
<1>2. Call(d, FALSE) \in Calls /\ Call(d, isInit[d]) \in Calls
  BY CallType
<1>. QED
  BY <1>1, <1>2 DEF LoadFor

LEMMA LoadInv ==
  ASSUME ManagerInv, NEW d \in Components, NEW callers \in Seq(Calls), LoadFor(d, callers),
         UNCHANGED <<needs, lists, videoUsers, done>>, phase \in {"init", "idle"},
         phase = "init" =>
           /\ callers # <<>> /\ stack # <<>>
           /\ callers[Len(callers)].comp = stack[Len(stack)].comp
  PROVE  ManagerInv'
<1>. USE DEF ManagerInv, lists
<1>1. Listed' = Listed
  BY DEF Listed, ToSet
<1>2. /\ isInit' \in [Components -> BOOLEAN] /\ early' \subseteq Components
      /\ \/ phase' = "crashed" /\ stack' = <<>>
         \/ phase' = phase /\ stack' = callers
         \/ phase' = phase /\ \E call \in Calls : stack' = <<call>> \o callers
  BY LoadForSteps
<1>3. CASE phase' = "crashed" /\ stack' = <<>>
  <2>1. TypeOK'
    BY <1>2, <1>3 DEF TypeOK, Phases
  <2>2. ListInv'
    BY <1>3 DEF ListInv
  <2>. QED
    BY <2>1, <2>2
<1>4. ASSUME phase' = phase, stack' \in Seq(Calls),
             phase = "init" => stack' # <<>> /\ stack'[Len(stack')].comp = callers[Len(callers)].comp
      PROVE  ManagerInv'
  <2>1. TypeOK'
    BY <1>2, <1>4 DEF TypeOK
  <2>2. ListInv'
    BY <1>1, <1>4 DEF ListInv
  <2>. QED
    BY <2>1, <2>2
<1>5. ASSUME NEW call \in Calls, phase' = phase, stack' = <<call>> \o callers PROVE ManagerInv'
  BY <1>4, <1>5, StackPush
<1>. QED
  BY <1>2, <1>3, <1>4, <1>5

(* The component whose init() succeeds is on the list afterwards. *)
LEMMA SucceedsListed ==
  ASSUME TypeOK, InitSucceeds
  PROVE  Listed' = Listed \cup {Head(stack).comp} /\ Head(stack).comp \in Components
<1>1. Head(stack).comp \in Components
  <2>1. Head(stack) \in Calls
    BY DEF InitSucceeds, TypeOK
  <2>. QED
    BY <2>1 DEF Calls
<1>2. /\ ToSet(Append(compList, Head(stack).comp)) = ToSet(compList) \cup {Head(stack).comp}
      /\ ToSet(Append(appList, Head(stack).comp)) = ToSet(appList) \cup {Head(stack).comp}
  BY <1>1, ToSetAppend DEF TypeOK
<1>3. \/ appList' = Append(appList, Head(stack).comp) /\ compList' = compList
      \/ compList' = Append(compList, Head(stack).comp) /\ appList' = appList
  BY DEF InitSucceeds
<1>. QED
  BY <1>1, <1>2, <1>3 DEF Listed

(* init() returns and uncovers the call below it. *)
LEMMA StackPop ==
  ASSUME stack \in Seq(Calls), stack # <<>>
  PROVE  /\ Tail(stack) \in Seq(Calls) /\ Head(stack).comp \in Components
         /\ Len(stack) \in Nat \ {0}
         /\ Len(stack) = 1 => Tail(stack) = <<>> /\ Head(stack) = stack[Len(stack)]
         /\ Len(stack) # 1 => /\ Tail(stack) # <<>>
                              /\ Tail(stack)[Len(Tail(stack))] = stack[Len(stack)]
<1>1. Head(stack) \in Calls
  OBVIOUS
<1>2. Head(stack).comp \in Components
  BY <1>1 DEF Calls
<1>3. /\ Tail(stack) \in Seq(Calls) /\ Len(stack) \in Nat \ {0}
      /\ Len(Tail(stack)) = Len(stack) - 1 /\ Head(stack) = stack[1]
      /\ \A i \in 1..Len(Tail(stack)) : Tail(stack)[i] = stack[i + 1]
  BY HeadTailProperties, EmptySeq
<1>4. Tail(stack) = <<>> <=> Len(Tail(stack)) = 0
  BY <1>3, EmptySeq
<1>. QED
  BY <1>2, <1>3, <1>4

LEMMA ConnectTypes ==
  ASSUME TypeOK, NEW c, ConnectComponents(c)
  PROVE  videoUsers' \in [Users -> Nat]
BY DEF TypeOK, ConnectComponents

LEMMA SucceedsInv ==
  ASSUME ManagerInv, InitSucceeds
  PROVE  ManagerInv'
<1>. USE DEF ManagerInv
<1>. DEFINE c == Head(stack).comp
<1>1. /\ stack \in Seq(Calls) /\ stack # <<>> /\ stack' = Tail(stack)
      /\ phase' = phase /\ initList' = initList
      /\ index' = IF Outermost THEN index + 1 ELSE index
  BY DEF InitSucceeds, TypeOK
<1>2. Listed' = Listed \cup {c} /\ c \in Components
  BY SucceedsListed
<1>3. phase # "apps" /\ phase # "configure"
  BY <1>1 DEF ListInv
<1>4. Outermost => /\ index <= Len(initList) /\ c = initList[index] /\ stack' = <<>>
  BY <1>1, StackPop DEF Outermost, ListInv
<1>5. ~Outermost /\ phase = "init" =>
        stack' # <<>> /\ stack'[Len(stack')] = stack[Len(stack)]
  BY <1>1, StackPop DEF Outermost
<1>6. index \in Nat /\ Len(initList) \in Nat /\ DOMAIN initList = 1..Len(initList)
  BY DEF TypeOK
<1>7. TypeOK'
  <2>1. compList' \in Seq(Components) /\ appList' \in Seq(Components)
    <3>1. Append(compList, c) \in Seq(Components) /\ Append(appList, c) \in Seq(Components)
      BY <1>2 DEF TypeOK
    <3>. QED
      BY <3>1 DEF InitSucceeds, TypeOK
  <2>2. videoUsers' \in [Users -> Nat]
    BY ConnectTypes DEF InitSucceeds
  <2>3. isInit' \in [Components -> BOOLEAN] /\ done' \subseteq Components
    BY <1>2 DEF InitSucceeds, TypeOK
  <2>4. index' \in 1..(1 + IF phase' = "apps" THEN Len(appList') ELSE Len(initList'))
    BY <1>1, <1>3, <1>4, <1>6 DEF TypeOK
  <2>5. stack' \in Seq(Calls)
    BY <1>1, StackPop
  <2>. QED
    BY <1>1, <2>1, <2>2, <2>3, <2>4, <2>5 DEF InitSucceeds, TypeOK
<1>8. ListInv'
  <2>1. CASE Outermost
    BY <1>1, <1>2, <1>4, <1>6, <2>1 DEF ListInv, Outermost
  <2>2. CASE ~Outermost
    BY <1>1, <1>2, <1>3, <1>5, <1>6, <2>2 DEF ListInv
  <2>. QED
    BY <2>1, <2>2
<1>. QED
  BY <1>7, <1>8

LEMMA FailsInv ==
  ASSUME ManagerInv, InitFails
  PROVE  ManagerInv'
<1>. USE DEF ManagerInv
<1>1. /\ stack \in Seq(Calls) /\ stack # <<>> /\ stack' = Tail(stack) /\ phase' = phase
  BY DEF InitFails, TypeOK
<1>2. Listed' = Listed
  BY DEF InitFails, Listed, ToSet
<1>3. phase # "apps" /\ phase # "configure"
  BY <1>1 DEF ListInv
<1>4. index \in Nat /\ Len(initList) \in Nat /\ DOMAIN initList = 1..Len(initList)
  BY DEF TypeOK
<1>5. isInit' \in [Components -> BOOLEAN] /\ stack' \in Seq(Calls)
  BY <1>1, StackPop DEF InitFails, TypeOK
<1>6. CASE Outermost
  <2>1. index <= Len(initList) /\ stack' = <<>>
    BY <1>1, <1>6, StackPop DEF Outermost, ListInv
  <2>2. initList' = [initList EXCEPT ![index] = NULL] /\ index' = index + 1
    BY <1>6 DEF InitFails
  <2>3. /\ initList' \in Seq(Components \cup {NULL}) /\ Len(initList') = Len(initList)
        /\ \A i \in 1..Len(initList) : initList'[i] = IF i = index THEN NULL ELSE initList[i]
    <3>1. index \in 1..Len(initList) /\ initList \in Seq(Components \cup {NULL})
      BY <1>6, <2>1 DEF Outermost, TypeOK
    <3>. QED
      BY <2>2, <3>1, ExceptSeq
  <2>4. TypeOK'
    BY <1>1, <1>3, <1>4, <1>5, <2>1, <2>2, <2>3 DEF InitFails, TypeOK
  <2>5. DOMAIN initList' = 1..Len(initList) /\ phase = "init"
    BY <1>6, <2>2, <1>4 DEF Outermost
  <2>6. ListInv'
    BY <1>1, <1>2, <1>4, <2>1, <2>2, <2>3, <2>5 DEF ListInv
  <2>. QED
    BY <2>4, <2>6
<1>7. CASE ~Outermost
  <2>1. initList' = initList /\ index' = index
    BY <1>7 DEF InitFails
  <2>2. phase = "init" => stack' # <<>> /\ stack'[Len(stack')] = stack[Len(stack)]
    BY <1>1, <1>7, StackPop DEF Outermost
  <2>3. TypeOK'
    BY <1>1, <1>5, <2>1 DEF InitFails, TypeOK
  <2>4. ListInv'
    BY <1>1, <1>2, <1>3, <2>1, <2>2 DEF ListInv
  <2>. QED
    BY <2>3, <2>4
<1>. QED
  BY <1>6, <1>7

LEMMA LoopStepsInv ==
  ASSUME ManagerInv, StartMainLoop \/ Update \/ InitNext \/ InitsDone \/ UpdateApplication
                     \/ UpdateReturns \/ ShutDown \/ VideoStops
  PROVE  ManagerInv'
<1>. USE DEF ManagerInv, lists
<1>1. index \in Nat /\ Len(initList) \in Nat /\ DOMAIN initList = 1..Len(initList) /\ Len(appList) \in Nat
  BY DEF TypeOK
<1>2. Listed' = Listed
  BY DEF StartMainLoop, Update, InitNext, InitsDone, UpdateApplication, UpdateReturns, ShutDown, VideoStops, Listed,
         ToSet
<1>3. CASE StartMainLoop
  BY <1>1, <1>3 DEF StartMainLoop, TypeOK, ListInv, Phases
<1>4. CASE Update
  BY <1>1, <1>2, <1>4 DEF Update, Idle, TypeOK, ListInv, Phases
<1>5. CASE InitNext
  <2>1. initList[index] \in Components
    <3>1. phase = "init" /\ index \in 1..Len(initList)
      BY <1>1, <1>5 DEF InitNext, TypeOK
    <3>2. initList[index] \in Components \cup {NULL}
      BY <3>1 DEF TypeOK
    <3>. QED
      BY <1>1, <3>1, <3>2 DEF ListInv
  <2>2. /\ Call(initList[index], isInit[initList[index]]) \in Calls
        /\ Call(initList[index], isInit[initList[index]]).comp = initList[index]
    BY <2>1, CallType
  <2>3. stack' \in Seq(Calls) /\ stack' # <<>> /\ stack'[Len(stack')].comp = initList[index]
    BY <1>5, <2>2 DEF InitNext
  <2>. QED
    BY <1>1, <1>2, <1>5, <2>3 DEF InitNext, TypeOK, ListInv
<1>6. CASE InitsDone
  BY <1>1, <1>6 DEF InitsDone, TypeOK, ListInv, Phases
<1>7. CASE UpdateApplication
  BY <1>1, <1>7 DEF UpdateApplication, TypeOK, ListInv
<1>8. CASE UpdateReturns
  <2>1. initList' = <<>> /\ index' = 1
    BY <1>8 DEF UpdateReturns, ListInv
  <2>. QED
    BY <1>1, <1>8, <2>1 DEF UpdateReturns, TypeOK, ListInv, Phases
<1>9. CASE ShutDown
  BY <1>1, <1>9 DEF ShutDown, Idle, TypeOK, ListInv, Phases
<1>10. CASE VideoStops
  <2>1. /\ phase' = "down" /\ stack' = <<>> /\ index' = 1
        /\ UNCHANGED <<needs, demandList, initList, compList, appList, isInit, videoUsers, done, early>>
    BY <1>10 DEF VideoStops
  <2>2. TypeOK'
    BY <1>1, <2>1 DEF TypeOK, Phases, Calls
  <2>. QED
    BY <2>1, <2>2 DEF ListInv
<1>. QED
  BY <1>3, <1>4, <1>5, <1>6, <1>7, <1>8, <1>9, <1>10

LEMMA AddInv ==
  ASSUME ManagerInv, NEW c \in Components, AddComponent(c)
  PROVE  ManagerInv'
<1>. USE DEF ManagerInv
<1>1. Append(initList, c) \in Seq(Components \cup {NULL})
  BY DEF TypeOK
<1>2. /\ Len(Append(initList, c)) = Len(initList) + 1 /\ Len(initList) \in Nat
      /\ \A i \in DOMAIN Append(initList, c) : Append(initList, c)[i] \in {c} \cup ToSet(initList)
  BY DEF TypeOK, ToSet
<1>3. /\ phase = "configure" /\ phase' = phase /\ stack' = stack /\ index' = index
      /\ initList' \in {initList, Append(initList, c)}
  BY DEF AddComponent
<1>4. c # NULL
  BY ComponentsAssumption
<1>5. TypeOK'
  <2>1. initList' \in Seq(Components \cup {NULL}) /\ Len(initList') \in {Len(initList), Len(initList) + 1}
    BY <1>1, <1>2, <1>3 DEF TypeOK
  <2>2. index' \in 1..(1 + Len(initList'))
    BY <1>2, <1>3, <2>1 DEF TypeOK
  <2>3. demandList' \subseteq Components
    BY DEF AddComponent, TypeOK
  <2>. QED
    BY <1>3, <2>1, <2>2, <2>3 DEF AddComponent, TypeOK
<1>6. ListInv'
  BY <1>2, <1>3, <1>4 DEF ListInv, ToSet
<1>. QED
  BY <1>5, <1>6

LEMMA LoadsInv ==
  ASSUME ManagerInv, NEW d \in Components, Load(d) \/ CallbackLoads(d)
  PROVE  ManagerInv'
<1>1. CASE Load(d)
  <2>1. stack \in Seq(Calls) /\ stack # <<>>
    BY <1>1 DEF Load, ManagerInv, TypeOK
  <2>. DEFINE callers == <<[Head(stack) EXCEPT !.todo = @ \ {d}]>> \o Tail(stack)
  <2>2. /\ callers \in Seq(Calls) /\ callers # <<>>
        /\ callers[Len(callers)].comp = stack[Len(stack)].comp
    BY <2>1, StackTop
  <2>3. LoadFor(d, callers) /\ UNCHANGED <<needs, lists, videoUsers, done>>
    BY <1>1 DEF Load
  <2>4. phase \in {"init", "idle"}
    BY <2>1 DEF ManagerInv, ListInv
  <2>. HIDE DEF callers
  <2>. QED
    BY <2>1, <2>2, <2>3, <2>4, LoadInv
<1>2. CASE CallbackLoads(d)
  <2>1. <<>> \in Seq(Calls)
    OBVIOUS
  <2>2. phase = "idle" /\ LoadFor(d, <<>>) /\ UNCHANGED <<needs, lists, videoUsers, done>>
    BY <1>2 DEF CallbackLoads, Idle
  <2>. QED
    BY <2>1, <2>2, LoadInv
<1>. QED
  BY <1>1, <1>2

(* What the loop over initList and the calls of init() inside it keep. *)
LEMMA ManagerInvariant == Spec => []ManagerInv
<1>1. Init => ManagerInv
  BY DEF Init, ManagerInv, TypeOK, ListInv, Phases
<1>2. ManagerInv /\ [Next]_vars => ManagerInv'
  <2>1. ManagerInv /\ UNCHANGED vars => ManagerInv'
    BY DEF ManagerInv, TypeOK, ListInv, Listed, ToSet, vars, lists
  <2>. QED
    BY <2>1, LoopStepsInv, AddInv, LoadsInv, SucceedsInv, FailsInv DEF Next
<1>. QED
  BY <1>1, <1>2, PTL DEF Spec

(* Every variable keeps its type: in particular update()'s index stays inside
   the list that is changed under it, and no NULL entry is initialised. *)
THEOREM TypeCorrect == Spec => []TypeOK
BY ManagerInvariant, PTL DEF ManagerInv

(* The loop over initList deals with every entry, and leaves none that failed
   to a callback. *)
THEOREM ListDealtWith == Spec => AllDealtWith
<1>1. ManagerInv /\ [Next]_vars =>
        [/\ phase = "init" /\ phase' = "apps" =>
              \A i \in DOMAIN initList : initList[i] \in Listed \cup {NULL}
         /\ phase = "idle" => phase' # "crashed"]_vars
  <2>. SUFFICES ASSUME ManagerInv, Next
       PROVE  /\ phase = "init" /\ phase' = "apps" =>
                   \A i \in DOMAIN initList : initList[i] \in Listed \cup {NULL}
              /\ phase = "idle" => phase' # "crashed"
    OBVIOUS
  <2>1. ASSUME phase = "init", phase' = "apps"
        PROVE  \A i \in DOMAIN initList : initList[i] \in Listed \cup {NULL}
    <3>1. InitsDone
      BY <2>1 DEF Next, AddComponent, Load, CallbackLoads, LoadFor, StartMainLoop, Update, InitNext,
                  UpdateApplication, UpdateReturns, InitSucceeds, InitFails, ShutDown, VideoStops,
                  Idle
    <3>2. index > Len(initList) /\ index \in Nat /\ DOMAIN initList = 1..Len(initList)
      BY <3>1 DEF InitsDone, ManagerInv, TypeOK
    <3>. QED
      BY <2>1, <3>2 DEF ManagerInv, ListInv
  <2>2. ASSUME phase = "idle" PROVE phase' # "crashed"
    <3>1. \A d : ~Crashes(d)
      BY <2>2 DEF Crashes, ManagerInv, ListInv
    <3>. QED
      BY <2>2, <3>1 DEF Next, AddComponent, Load, CallbackLoads, LoadFor, StartMainLoop, Update, InitNext,
                  InitsDone, UpdateApplication, UpdateReturns, InitSucceeds, InitFails, ShutDown, VideoStops
  <2>. QED
    BY <2>1, <2>2
<1>. QED
  BY <1>1, ManagerInvariant, PTL DEF Spec, AllDealtWith
-----------------------------------------------------------------------------
(* Users and provider of video are connected when the later of the two is
   listed, and once: in whatever order and inside whatever init() they are
   initialised, and if they are initialised again. *)
THEOREM UsersConnected == Spec => []ConnectedOnce
<1>1. Init => ConnectedOnce
  BY DEF Init, ConnectedOnce, Listed, ToSet
<1>2. TypeOK /\ ConnectedOnce /\ [Next]_vars => ConnectedOnce'
  <2>. SUFFICES ASSUME TypeOK, ConnectedOnce, [Next]_vars PROVE ConnectedOnce'
    OBVIOUS
  <2>1. CASE InitSucceeds
    <3>. DEFINE c == Head(stack).comp
    <3>1. Listed' = Listed \cup {c}
      BY <2>1, SucceedsListed
    <3>2. ConnectComponents(c)
      BY <2>1 DEF InitSucceeds
    <3>3. Provider \notin Users
      BY ComponentsAssumption
    <3>. HIDE DEF c
    <3>. SUFFICES ASSUME NEW u \in Users
         PROVE  videoUsers'[u] = IF {u, Provider} \subseteq Listed' THEN 1 ELSE 0
      BY DEF ConnectedOnce
    <3>4. videoUsers'[u] = IF /\ (c = Provider /\ u \in Listed) \/ (c = u /\ Provider \in Listed)
                              /\ videoUsers[u] = 0
                           THEN 1 ELSE videoUsers[u]
      BY <3>2 DEF ConnectComponents
    <3>5. videoUsers[u] = IF {u, Provider} \subseteq Listed THEN 1 ELSE 0
      BY DEF ConnectedOnce
    <3>. QED
      BY <3>1, <3>3, <3>4, <3>5
  <2>2. CASE UNCHANGED <<videoUsers, compList, appList>>
    BY <2>2 DEF ConnectedOnce, Listed, ToSet
  <2>3. CASE UNCHANGED vars
    BY <2>2, <2>3 DEF vars, lists
  <2>4. ASSUME NEW d \in Components, AddComponent(d) \/ Load(d) \/ CallbackLoads(d)
        PROVE  ConnectedOnce'
    BY <2>2, <2>4 DEF AddComponent, Load, CallbackLoads, lists
  <2>5. CASE \/ StartMainLoop \/ Update \/ InitNext \/ InitsDone \/ UpdateApplication
             \/ UpdateReturns \/ InitFails \/ ShutDown \/ VideoStops
    BY <2>2, <2>5 DEF StartMainLoop, Update, InitNext, InitsDone, UpdateApplication, UpdateReturns,
             InitFails, ShutDown, VideoStops, lists
  <2>. QED
    BY <2>1, <2>3, <2>4, <2>5 DEF Next
<1>. QED
  BY <1>1, <1>2, TypeCorrect, PTL DEF Spec

-----------------------------------------------------------------------------
(* OnlyEarlyAnomalies.  A call that is on is that of a component load() took
   from initList, or that was to be loaded on demand, or of the loop's entry;
   calls below are of components with greater numbers, so that no component is
   initialised inside its own init(); and whoever was not taken early is not
   listed before, and isInit is not set. *)
Fresh(c) == c \notin Listed /\ ~isInit[c]

NeedsInv == \A c \in Components : \A d \in needs[c] : d < c

StackInv ==
  \A i \in 1..Len(stack) :
    /\ stack[i].todo \subseteq needs[stack[i].comp]
    /\ \A j \in 1..Len(stack) : i < j => stack[i].comp < stack[j].comp
    /\ stack[i].comp \in early \/ Fresh(stack[i].comp)
    /\ \/ stack[i].comp \in early \cup demandList
       \/ phase = "init" /\ i = Len(stack)

(* Each component is added once, to one of the two lists, while all are fresh;
   an entry the loop has not yet dealt with is fresh, unless load() took it. *)
EntriesInv ==
  /\ phase = "configure" => \A c \in Components : Fresh(c)
  /\ \A i \in DOMAIN initList : initList[i] \notin demandList
  /\ \A i, j \in DOMAIN initList : initList[i] = initList[j] /\ initList[i] # NULL => i = j
  /\ phase \in {"configure", "idle", "init"} =>
       \A i \in DOMAIN initList :
         (phase = "init" => i >= index) => initList[i] \in early \cup {NULL} \/ Fresh(initList[i])

EarlyInv == NeedsInv /\ StackInv /\ EntriesInv /\ OnlyEarlyAnomalies

(* The history grows, and a component keeps being fresh, while no call returns
   and none is made. *)
LEMMA QuietSteps ==
  ASSUME ManagerInv, EarlyInv,
         \/ StartMainLoop \/ Update \/ InitNext \/ InitsDone \/ UpdateApplication \/ UpdateReturns
         \/ ShutDown \/ VideoStops \/ UNCHANGED vars \/ \E c \in Components : AddComponent(c)
  PROVE  EarlyInv'
<1>. USE DEF EarlyInv, lists
<1>1. /\ UNCHANGED <<needs, compList, appList, isInit, done, early>>
  BY DEF StartMainLoop, Update, InitNext, InitsDone, UpdateApplication, UpdateReturns, ShutDown, VideoStops, vars,
         AddComponent
<1>2. Listed' = Listed /\ \A c : Fresh(c)' = Fresh(c)
  BY <1>1 DEF Listed, ToSet, Fresh
<1>3. NeedsInv' /\ OnlyEarlyAnomalies'
  BY <1>1, <1>2 DEF NeedsInv, OnlyEarlyAnomalies, Entries
<1>4. index \in Nat /\ Len(initList) \in Nat /\ DOMAIN initList = 1..Len(initList)
  BY DEF ManagerInv, TypeOK
<1>5. CASE StartMainLoop \/ Update \/ UpdateApplication \/ UpdateReturns \/ ShutDown \/ UNCHANGED vars
  <2>1. UNCHANGED <<initList, demandList, stack>>
    BY <1>5 DEF StartMainLoop, Update, UpdateApplication, UpdateReturns, ShutDown, vars
  <2>2. EntriesInv'
    <3>1. CASE UNCHANGED vars
      BY <1>2, <3>1 DEF EntriesInv, vars
    <3>2. CASE StartMainLoop \/ Update \/ ShutDown
      BY <1>1, <1>2, <2>1, <3>2 DEF EntriesInv, StartMainLoop, Update, ShutDown, Idle
    <3>3. CASE UpdateApplication \/ UpdateReturns
      <4>1. initList = <<>> /\ phase' # "configure"
        BY <3>3 DEF ManagerInv, ListInv, UpdateApplication, UpdateReturns
      <4>. QED
        BY <2>1, <4>1 DEF EntriesInv
    <3>. QED
      BY <1>5, <3>1, <3>2, <3>3
  <2>3. StackInv'
    <3>1. CASE UNCHANGED vars
      BY <1>2, <3>1 DEF StackInv, vars
    <3>2. CASE stack = <<>>
      BY <2>1, <3>2 DEF StackInv
    <3>3. stack = <<>> \/ UNCHANGED vars
      BY <1>5 DEF ManagerInv, ListInv, StartMainLoop, Update, UpdateApplication, UpdateReturns, ShutDown, Idle
    <3>. QED
      BY <3>1, <3>2, <3>3
  <2>. QED
    BY <1>3, <2>2, <2>3
<1>6. CASE InitsDone
  <2>1. initList' = <<>> /\ stack' = <<>> /\ phase' = "apps"
    BY <1>6 DEF InitsDone
  <2>. QED
    BY <1>3, <2>1 DEF EntriesInv, StackInv
<1>7. CASE InitNext
  <2>. DEFINE c == initList[index]
  <2>1. /\ c \in Components /\ UNCHANGED <<initList, demandList, phase, index>> /\ phase = "init"
        /\ index \in DOMAIN initList
    <3>1. UNCHANGED <<initList, demandList, phase, index>> /\ phase = "init" /\ index <= Len(initList)
      BY <1>7 DEF InitNext
    <3>2. index \in Nat \ {0} /\ initList \in Seq(Components \cup {NULL})
      BY DEF ManagerInv, TypeOK
    <3>3. index \in DOMAIN initList
      BY <1>4, <3>1, <3>2
    <3>4. c \in Components \cup {NULL} /\ c # NULL
      <4>1. c \in Components \cup {NULL}
        BY <3>2, <3>3
      <4>2. c # NULL
        BY <3>1, <3>2, <3>3 DEF ManagerInv, ListInv
      <4>. QED
        BY <4>1, <4>2
    <3>. QED
      BY <3>1, <3>3, <3>4
  <2>2. EntriesInv'
    BY <1>1, <1>2, <2>1 DEF EntriesInv
  <2>3. c \in early \/ Fresh(c)
    BY <2>1, <1>4, ComponentsAssumption DEF EntriesInv
  <2>4. stack' = <<Call(c, isInit[c])>>
    BY <1>7 DEF InitNext
  <2>5. Call(c, isInit[c]).comp = c /\ Call(c, isInit[c]).todo \subseteq needs[c]
    BY DEF Call
  <2>6. Len(stack') = 1 /\ stack'[1] = Call(c, isInit[c])
    BY <2>4
  <2>7. StackInv'
    BY <1>1, <1>2, <2>1, <2>3, <2>5, <2>6 DEF StackInv
  <2>. QED
    BY <1>3, <2>2, <2>7
<1>8. ASSUME NEW c \in Components, AddComponent(c) PROVE EarlyInv'
  <2>1. phase = "configure" /\ phase' = phase /\ stack' = stack /\ stack = <<>>
    BY <1>8 DEF AddComponent, ManagerInv, ListInv
  <2>2. /\ Len(Append(initList, c)) = Len(initList) + 1
        /\ \A i \in 1..Len(initList) : Append(initList, c)[i] = initList[i]
        /\ Append(initList, c)[Len(initList) + 1] = c
        /\ DOMAIN Append(initList, c) = 1..(Len(initList) + 1)
    BY DEF ManagerInv, TypeOK
  <2>3. c \notin demandList /\ \A i \in DOMAIN initList : initList[i] # c
    BY <1>8 DEF AddComponent, ToSet
  <2>4. CASE demandList' = demandList \cup {c} /\ initList' = initList
    BY <1>1, <1>2, <1>3, <2>1, <2>3, <2>4 DEF EntriesInv, StackInv
  <2>5. CASE initList' = Append(initList, c) /\ demandList' = demandList
    <3>1. Fresh(c)'
      BY <1>2, <2>1 DEF EntriesInv
    <3>2. StackInv'
      BY <2>1 DEF StackInv
    <3>3. EntriesInv'
      <4>1. DOMAIN initList' = 1..(Len(initList) + 1)
        BY <2>2, <2>5
      <4>2. \A i \in 1..Len(initList) : initList'[i] = initList[i]
        BY <2>2, <2>5
      <4>3. initList'[Len(initList) + 1] = c
        BY <2>2, <2>5
      <4>4. \A i \in 1..(Len(initList) + 1) : i \in 1..Len(initList) \/ i = Len(initList) + 1
        BY <1>4
      <4>. QED
        BY <1>1, <1>2, <1>4, <2>1, <2>3, <2>5, <3>1, <4>1, <4>2, <4>3, <4>4 DEF EntriesInv
    <3>. QED
      BY <1>3, <3>2, <3>3
  <2>. QED
    BY <1>8, <2>4, <2>5 DEF AddComponent
<1>9. CASE VideoStops
  <2>1. stack' = <<>> /\ phase' = "down" /\ UNCHANGED <<initList, demandList>>
    BY <1>9 DEF VideoStops
  <2>2. EntriesInv'
    BY <2>1 DEF EntriesInv
  <2>3. StackInv'
    BY <2>1 DEF StackInv
  <2>. QED
    BY <1>3, <2>2, <2>3
<1>. QED
  BY <1>5, <1>6, <1>7, <1>8, <1>9

(* Fresh in the state after a step. *)
FreshAfter(c) == c \notin Listed' /\ ~isInit'[c]

(* What load() leaves, once more: whoever was fresh stays so, and a call it makes
   is of a component that is fresh or was taken from initList. *)
LEMMA LoadForOutcome ==
  ASSUME TypeOK, NEW d \in Components, NEW callers, LoadFor(d, callers), UNCHANGED lists
  PROVE  /\ Listed' = Listed /\ early \subseteq early'
         /\ \A c \in Components : Fresh(c) => FreshAfter(c)
         /\ \/ phase' = "crashed" /\ stack' = <<>>
            \/ phase' = phase /\ stack' = callers
            \/ /\ phase' = phase
               /\ d \in early' \/ (d \in demandList /\ FreshAfter(d))
               /\ \E call \in Calls : /\ call.comp = d /\ call.todo \subseteq needs[d]
                                      /\ stack' = <<call>> \o callers
<1>1. Listed' = Listed
  BY DEF Listed, ToSet, lists
<1>2. early \subseteq early'
  BY DEF LoadFor
<1>3. isInit' = isInit \/ isInit' = [isInit EXCEPT ![d] = FALSE]
  BY DEF LoadFor
<1>4. \A c \in Components : Fresh(c) => FreshAfter(c)
  BY <1>1, <1>3 DEF Fresh, FreshAfter, TypeOK
<1>5. \A set : /\ Call(d, set) \in Calls /\ Call(d, set).comp = d
               /\ Call(d, set).todo \subseteq needs[d]
  BY CallType DEF Call
<1>6. CASE /\ d \in demandList \ Listed
           /\ stack' = <<Call(d, FALSE)>> \o callers
           /\ isInit' = [isInit EXCEPT ![d] = FALSE] /\ UNCHANGED <<phase, early>>
  <2>1. FreshAfter(d)
    BY <1>1, <1>6 DEF FreshAfter, TypeOK
  <2>. QED
    BY <1>1, <1>2, <1>4, <1>5, <1>6, <2>1
<1>7. CASE /\ stack' = <<Call(d, isInit[d])>> \o callers
           /\ early' = early \cup {d} /\ UNCHANGED <<phase, isInit>>
  <2>1. PICK made \in Calls : made = Call(d, isInit[d])
    BY <1>5
  <2>2. made.comp = d /\ made.todo \subseteq needs[d]
    BY <1>5, <2>1
  <2>3. stack' = <<made>> \o callers /\ d \in early' /\ phase' = phase
    BY <1>7, <2>1
  <2>. QED
    BY <1>1, <1>2, <1>4, <2>2, <2>3
<1>8. CASE stack' = callers /\ UNCHANGED <<phase, isInit, early>>
  BY <1>1, <1>2, <1>4, <1>8
<1>9. CASE stack' = <<>> /\ phase' = "crashed"
  BY <1>1, <1>2, <1>4, <1>9
<1>. QED
  BY <1>6, <1>7, <1>8, <1>9 DEF LoadFor

(* The callers stay as they were, but for what is still to be loaded. *)
SameCallers(callers) ==
  /\ callers \in Seq(Calls) /\ Len(callers) = Len(stack)
  /\ \A i \in 1..Len(stack) :
       callers[i].comp = stack[i].comp /\ callers[i].todo \subseteq stack[i].todo

LEMMA StackComps ==
  ASSUME TypeOK
  PROVE  /\ Len(stack) \in Nat
         /\ \A i \in 1..Len(stack) : stack[i].comp \in Components /\ stack[i].comp \in Nat
<1>1. stack \in Seq(Calls) /\ Len(stack) \in Nat
  BY DEF TypeOK
<1>2. \A i \in 1..Len(stack) : stack[i] \in Calls
  BY <1>1
<1>. QED
  BY <1>1, <1>2, ComponentsAssumption DEF Calls

LEMMA PushKeepsStack ==
  ASSUME TypeOK, StackInv, NEW d \in Components, NEW callers, SameCallers(callers),
         \A i \in 1..Len(stack) : d < stack[i].comp,
         NEW call \in Calls, call.comp = d, call.todo \subseteq needs[d],
         stack' = <<call>> \o callers, phase' = phase,
         d \in early' \/ (d \in demandList /\ FreshAfter(d)),
         UNCHANGED <<needs, demandList>>, early \subseteq early',
         \A c \in Components : Fresh(c) => FreshAfter(c)
  PROVE  StackInv'
<1>1. Len(stack) \in Nat /\ \A i \in 1..Len(stack) : stack[i].comp \in Components
  BY StackComps
<1>7. \A k \in 1..Len(stack) : \/ stack[k].comp \in early \cup demandList
                               \/ phase = "init" /\ k = Len(stack)
  BY DEF StackInv
<1>2. /\ Len(stack') = Len(stack) + 1 /\ stack'[1] = call
      /\ \A i \in 1..Len(stack) : stack'[i + 1] = callers[i]
  BY <1>1 DEF SameCallers
<1>3. \A i \in 1..Len(stack) :
        stack'[i + 1].comp = stack[i].comp /\ stack'[i + 1].todo \subseteq stack[i].todo
  BY <1>2 DEF SameCallers
<1>4. \A i \in 1..Len(stack') : i = 1 \/ \E k \in 1..Len(stack) : i = k + 1
  <2>. TAKE i \in 1..Len(stack')
  <2>1. i = 1 \/ (i - 1 \in 1..Len(stack) /\ i = (i - 1) + 1)
    BY <1>1, <1>2
  <2>. QED
    BY <2>1
<1>. SUFFICES ASSUME NEW i \in 1..Len(stack')
     PROVE  /\ stack'[i].todo \subseteq needs[stack'[i].comp]
            /\ \A j \in 1..Len(stack') : i < j => stack'[i].comp < stack'[j].comp
            /\ stack'[i].comp \in early' \/ FreshAfter(stack'[i].comp)
            /\ \/ stack'[i].comp \in early' \cup demandList
               \/ phase = "init" /\ i = Len(stack')
  BY DEF StackInv, Fresh, FreshAfter
<1>5. CASE i = 1
  <2>1. ASSUME NEW j \in 1..Len(stack'), i < j PROVE stack'[i].comp < stack'[j].comp
    <3>1. PICK m \in 1..Len(stack) : j = m + 1
      BY <1>4, <1>5, <2>1
    <3>. QED
      BY <1>2, <1>3, <1>5, <3>1
  <2>2. stack'[i] = call
    BY <1>2, <1>5
  <2>. QED
    BY <2>1, <2>2
<1>6. ASSUME NEW k \in 1..Len(stack), i = k + 1
      PROVE  /\ stack'[i].todo \subseteq needs[stack'[i].comp]
             /\ \A j \in 1..Len(stack') : i < j => stack'[i].comp < stack'[j].comp
             /\ stack'[i].comp \in early' \/ FreshAfter(stack'[i].comp)
             /\ \/ stack'[i].comp \in early' \cup demandList
                \/ phase = "init" /\ i = Len(stack')
  <2>1. stack'[i].comp = stack[k].comp /\ stack'[i].todo \subseteq stack[k].todo
    BY <1>3, <1>6
  <2>2. ASSUME NEW j \in 1..Len(stack'), i < j PROVE stack'[i].comp < stack'[j].comp
    <3>1. j # 1
      BY <1>6, <2>2, <1>1
    <3>2. PICK m \in 1..Len(stack) : j = m + 1
      BY <1>4, <3>1
    <3>3. k < m
      BY <1>6, <2>2, <3>2
    <3>4. stack[k].comp < stack[m].comp
      BY <3>3 DEF StackInv
    <3>. QED
      BY <1>3, <2>1, <3>2, <3>4
  <2>3. stack[k].comp \in early \/ Fresh(stack[k].comp)
    BY DEF StackInv
  <2>4. stack'[i].comp \in early' \/ FreshAfter(stack'[i].comp)
    <3>1. PICK c \in Components : c = stack[k].comp
      BY <1>1
    <3>2. stack'[i].comp = c /\ (c \in early \/ Fresh(c))
      BY <2>1, <2>3, <3>1
    <3>. QED
      BY <3>2
  <2>5. stack'[i].todo \subseteq needs[stack'[i].comp]
    BY <2>1 DEF StackInv
  <2>6. stack[k].comp \in early \cup demandList \/ (phase = "init" /\ k = Len(stack))
    BY <1>7
  <2>7. k = Len(stack) => i = Len(stack')
    BY <1>2, <1>6
  <2>. QED
    BY <2>1, <2>2, <2>4, <2>5, <2>6, <2>7
<1>. QED
  BY <1>4, <1>5, <1>6

(* load() puts a call above its callers, or goes back to them. *)
LEMMA LoadKeepsEarly ==
  ASSUME TypeOK, EarlyInv, NEW d \in Components, NEW callers, SameCallers(callers),
         \A i \in 1..Len(stack) : d < stack[i].comp,
         LoadFor(d, callers), UNCHANGED <<needs, lists, videoUsers, done>>
  PROVE  EarlyInv'
<1>1. /\ Listed' = Listed /\ early \subseteq early'
      /\ \A c \in Components : Fresh(c) => FreshAfter(c)
  BY LoadForOutcome
<1>2. \/ phase' = "crashed" /\ stack' = <<>>
      \/ phase' = phase /\ stack' = callers
      \/ /\ phase' = phase
         /\ d \in early' \/ (d \in demandList /\ FreshAfter(d))
         /\ \E call \in Calls : /\ call.comp = d /\ call.todo \subseteq needs[d]
                                /\ stack' = <<call>> \o callers
  BY LoadForOutcome
<1>3. NeedsInv' /\ OnlyEarlyAnomalies'
  BY <1>1 DEF EarlyInv, NeedsInv, OnlyEarlyAnomalies, Entries, lists
<1>4. EntriesInv'
  <2>1. \A i \in DOMAIN initList : initList[i] \in Components \cup {NULL}
    BY DEF TypeOK
  <2>2. phase' \in {phase, "crashed"} /\ UNCHANGED <<demandList, initList, index>>
    BY <1>2 DEF lists
  <2>3. phase' = "configure" => \A c \in Components : FreshAfter(c)
    BY <1>1, <2>2 DEF EarlyInv, EntriesInv
  <2>4. ASSUME phase' \in {"configure", "idle", "init"}, NEW i \in DOMAIN initList,
               phase' = "init" => i >= index
        PROVE  initList[i] \in early' \cup {NULL} \/ FreshAfter(initList[i])
    <3>1. PICK c \in Components \cup {NULL} : c = initList[i]
      BY <2>1
    <3>2. c \in early \cup {NULL} \/ Fresh(c)
      BY <2>2, <2>4, <3>1 DEF EarlyInv, EntriesInv
    <3>. QED
      BY <1>1, <3>1, <3>2
  <2>. QED
    BY <2>2, <2>3, <2>4 DEF EarlyInv, EntriesInv, Fresh, FreshAfter
<1>5. StackInv'
  <2>1. CASE stack' = <<>>
    BY <2>1 DEF StackInv
  <2>2. CASE phase' = phase /\ stack' = callers
    <3>. SUFFICES ASSUME NEW i \in 1..Len(stack)
         PROVE  /\ callers[i].todo \subseteq needs[callers[i].comp]
                /\ \A j \in 1..Len(stack) : i < j => callers[i].comp < callers[j].comp
                /\ callers[i].comp \in early' \/ FreshAfter(callers[i].comp)
                /\ \/ callers[i].comp \in early' \cup demandList
                   \/ phase = "init" /\ i = Len(stack)
      BY <2>2 DEF StackInv, SameCallers, lists, Fresh, FreshAfter
    <3>9. PICK c \in Components : c = stack[i].comp
      BY StackComps
    <3>1. callers[i].comp = c /\ (c \in early \/ Fresh(c))
      BY <3>9 DEF SameCallers, EarlyInv, StackInv
    <3>2. /\ callers[i].todo \subseteq needs[callers[i].comp]
          /\ \A j \in 1..Len(stack) : i < j => callers[i].comp < callers[j].comp
          /\ \/ callers[i].comp \in early' \cup demandList
             \/ phase = "init" /\ i = Len(stack)
      BY <1>1 DEF SameCallers, EarlyInv, StackInv
    <3>3. c \in early' \/ FreshAfter(c)
      BY <1>1, <3>1
    <3>. QED
      BY <3>1, <3>2, <3>3
  <2>3. ASSUME phase' = phase, d \in early' \/ (d \in demandList /\ FreshAfter(d)),
               NEW call \in Calls, call.comp = d, call.todo \subseteq needs[d],
               stack' = <<call>> \o callers
        PROVE  StackInv'
    BY <1>1, <2>3, PushKeepsStack DEF EarlyInv, lists
  <2>. QED
    BY <1>2, <2>1, <2>2, <2>3
<1>. QED
  BY <1>3, <1>4, <1>5 DEF EarlyInv

LEMMA LoadsEarly ==
  ASSUME ManagerInv, EarlyInv, NEW d \in Components, Load(d) \/ CallbackLoads(d)
  PROVE  EarlyInv'
<1>1. CASE Load(d)
  <2>. DEFINE top == [Head(stack) EXCEPT !.todo = @ \ {d}]
              callers == <<top>> \o Tail(stack)
  <2>1. stack \in Seq(Calls) /\ stack # <<>> /\ Head(stack) = stack[1] /\ d \in stack[1].todo
    BY <1>1 DEF Load, ManagerInv, TypeOK
  <2>2. Head(stack) \in Calls /\ Len(stack) \in Nat \ {0}
    BY <2>1, EmptySeq
  <2>3. top \in Calls /\ top.comp = stack[1].comp /\ top.todo \subseteq stack[1].todo
    BY <2>1, <2>2 DEF Calls
  <2>4. /\ Tail(stack) \in Seq(Calls) /\ Len(Tail(stack)) = Len(stack) - 1
        /\ \A i \in 1..Len(Tail(stack)) : Tail(stack)[i] = stack[i + 1]
    BY <2>1, HeadTailProperties
  <2>5. callers \in Seq(Calls)
    BY <2>1, StackTop
  <2>. HIDE DEF top
  <2>6. /\ Len(callers) = Len(stack) /\ callers[1] = top
        /\ \A i \in 1..Len(Tail(stack)) : callers[i + 1] = Tail(stack)[i]
    BY <2>2, <2>3, <2>4
  <2>. HIDE DEF callers
  <2>7. ASSUME NEW i \in 1..Len(stack)
        PROVE  callers[i].comp = stack[i].comp /\ callers[i].todo \subseteq stack[i].todo
    <3>1. CASE i = 1
      BY <3>1, <2>3, <2>6
    <3>2. CASE i # 1
      <4>1. i - 1 \in 1..Len(Tail(stack)) /\ i = (i - 1) + 1
        BY <2>2, <2>4, <3>2
      <4>2. callers[i] = stack[i]
        BY <2>4, <2>6, <4>1
      <4>. QED
        BY <4>2
    <3>. QED
      BY <3>1, <3>2
  <2>8. \A i \in 1..Len(stack) : stack[i].comp \in Components /\ stack[i].comp \in Nat
    BY StackComps DEF ManagerInv
  <2>9. d < stack[1].comp
    BY <2>1, <2>2, <2>8 DEF EarlyInv, StackInv, NeedsInv
  <2>10. \A i \in 1..Len(stack) : d < stack[i].comp
    <3>. SUFFICES ASSUME NEW i \in 1..Len(stack) PROVE d < stack[i].comp
      OBVIOUS
    <3>1. i = 1 \/ 1 < i
      BY <2>2
    <3>2. 1 < i => stack[1].comp < stack[i].comp
      BY <2>2 DEF EarlyInv, StackInv
    <3>3. d \in Nat /\ stack[i].comp \in Nat /\ stack[1].comp \in Nat
      BY <2>2, <2>8, ComponentsAssumption
    <3>. QED
      BY <2>9, <3>1, <3>2, <3>3
  <2>11. LoadFor(d, callers) /\ UNCHANGED <<needs, lists, videoUsers, done>>
    BY <1>1 DEF Load, callers, top
  <2>. QED
    BY <2>5, <2>6, <2>7, <2>10, <2>11, LoadKeepsEarly DEF ManagerInv, SameCallers
<1>2. CASE CallbackLoads(d)
  <2>1. /\ stack = <<>> /\ phase = "idle" /\ LoadFor(d, <<>>)
        /\ UNCHANGED <<needs, lists, videoUsers, done>>
    BY <1>2 DEF CallbackLoads, Idle
  <2>2. Len(stack) = 0 /\ 1..Len(stack) = {}
    BY <2>1
  <2>3. SameCallers(<<>>)
    BY <2>1, <2>2 DEF SameCallers
  <2>. QED
    BY <2>1, <2>2, <2>3, LoadKeepsEarly DEF ManagerInv
<1>. QED
  BY <1>1, <1>2

(* init() returns: the calls below it are of other components. *)
LEMMA ReturnKeepsStack ==
  ASSUME TypeOK, StackInv, stack # <<>>, stack' = Tail(stack),
         UNCHANGED <<needs, demandList, early, phase>>,
         \A c \in Components : c # Head(stack).comp /\ Fresh(c) => FreshAfter(c)
  PROVE  StackInv'
<1>1. Len(stack) \in Nat /\ \A i \in 1..Len(stack) : stack[i].comp \in Components /\ stack[i].comp \in Nat
  BY StackComps
<1>2. /\ Len(Tail(stack)) = Len(stack) - 1 /\ Head(stack) = stack[1]
      /\ \A i \in 1..Len(Tail(stack)) : Tail(stack)[i] = stack[i + 1]
  BY HeadTailProperties DEF TypeOK
<1>3. /\ Len(stack') = Len(stack) - 1
      /\ \A i \in 1..Len(stack') : i + 1 \in 1..Len(stack) /\ stack'[i] = stack[i + 1]
  BY <1>1, <1>2
<1>. SUFFICES ASSUME NEW i \in 1..Len(stack')
     PROVE  /\ stack'[i].todo \subseteq needs[stack'[i].comp]
            /\ \A j \in 1..Len(stack') : i < j => stack'[i].comp < stack'[j].comp
            /\ stack'[i].comp \in early \/ FreshAfter(stack'[i].comp)
            /\ \/ stack'[i].comp \in early \cup demandList
               \/ phase = "init" /\ i = Len(stack')
  BY DEF StackInv, Fresh, FreshAfter
<1>4. PICK k \in 1..Len(stack) : k = i + 1
  BY <1>3
<1>5. stack'[i] = stack[k]
  BY <1>3, <1>4
<1>6. ASSUME NEW j \in 1..Len(stack'), i < j PROVE stack'[i].comp < stack'[j].comp
  <2>1. PICK m \in 1..Len(stack) : m = j + 1
    BY <1>3
  <2>2. stack'[j] = stack[m] /\ k < m
    BY <1>1, <1>3, <1>4, <1>6, <2>1
  <2>. QED
    BY <1>5, <2>2 DEF StackInv
<1>7. stack'[i].comp \in early \/ FreshAfter(stack'[i].comp)
  <2>1. PICK c \in Components : c = stack[k].comp
    BY <1>1
  <2>2. 1 \in 1..Len(stack) /\ 1 < k
    BY <1>1, <1>3, <1>4
  <2>3. stack[1].comp < stack[k].comp
    BY <2>2 DEF StackInv
  <2>4. c # Head(stack).comp
    BY <1>1, <1>2, <2>1, <2>2, <2>3
  <2>5. c \in early \/ Fresh(c)
    BY <2>1 DEF StackInv
  <2>. QED
    BY <1>5, <2>1, <2>4, <2>5
<1>8. \/ stack[k].comp \in early \cup demandList
      \/ phase = "init" /\ k = Len(stack)
  BY DEF StackInv
<1>9. k = Len(stack) => i = Len(stack')
  <2>. SUFFICES ASSUME k = Len(stack) PROVE i = Len(stack')
    OBVIOUS
  <2>1. Len(stack') = Len(stack) - 1
    BY <1>3
  <2>2. i = Len(stack) - 1
    BY <1>1, <1>4
  <2>. QED
    BY <2>1, <2>2
<1>10. stack'[i].todo \subseteq needs[stack'[i].comp]
  BY <1>5 DEF StackInv
<1>. QED
  BY <1>5, <1>6, <1>7, <1>8, <1>9, <1>10

(* The component whose init() returns is no entry the loop has yet to deal
   with, unless load() took it. *)
LEMMA ReturnKeepsEntries ==
  ASSUME ManagerInv, EarlyInv, InitSucceeds \/ InitFails,
         \A c \in Components : c # Head(stack).comp /\ Fresh(c) => FreshAfter(c)
  PROVE  EntriesInv'
<1>. DEFINE top == Head(stack).comp
<1>1. stack \in Seq(Calls) /\ stack # <<>> /\ UNCHANGED <<phase, demandList, early>>
  BY DEF InitSucceeds, InitFails, ManagerInv, TypeOK
<1>2. /\ top = stack[1].comp /\ top \in Components /\ Len(stack) \in Nat \ {0}
      /\ Len(stack) = 1 => Head(stack) = stack[Len(stack)]
  BY <1>1, StackPop
<1>3. phase \in {"init", "idle"}
  BY <1>1 DEF ManagerInv, ListInv
<1>4. /\ index \in Nat /\ Len(initList) \in Nat /\ DOMAIN initList = 1..Len(initList)
      /\ \A i \in DOMAIN initList : initList[i] \in Components \cup {NULL}
  BY DEF ManagerInv, TypeOK
<1>5. Outermost => index \in DOMAIN initList /\ initList[index] = top
  BY <1>1, <1>2, <1>4 DEF Outermost, ManagerInv, ListInv, TypeOK
<1>6. /\ index' = IF Outermost THEN index + 1 ELSE index
      /\ DOMAIN initList' = DOMAIN initList
      /\ \A i \in DOMAIN initList : initList'[i] = initList[i] \/ initList'[i] = NULL
  <2>1. CASE InitSucceeds
    BY <2>1 DEF InitSucceeds
  <2>2. CASE InitFails /\ Outermost
    <3>1. index' = index + 1 /\ initList' = [initList EXCEPT ![index] = NULL]
      BY <2>2 DEF InitFails
    <3>. QED
      BY <1>5, <2>2, <3>1
  <2>3. CASE InitFails /\ ~Outermost
    BY <2>3 DEF InitFails
  <2>. QED
    BY <2>1, <2>2, <2>3
<1>7. top \in early \cup demandList \/ (phase = "init" /\ Len(stack) = 1)
  <2>1. 1 \in 1..Len(stack)
    BY <1>2
  <2>2. \/ stack[1].comp \in early \cup demandList
        \/ phase = "init" /\ 1 = Len(stack)
    BY <2>1 DEF EarlyInv, StackInv
  <2>. QED
    BY <1>2, <2>2
<1>8. NULL \notin demandList
  BY ComponentsAssumption DEF ManagerInv, TypeOK
<1>9. ASSUME NEW i \in DOMAIN initList, phase' = "init" => i >= index'
      PROVE  \/ initList'[i] \in early \cup {NULL}
             \/ FreshAfter(initList'[i])
  <2>1. PICK e \in Components \cup {NULL} : e = initList[i]
    BY <1>4
  <2>2. phase = "init" => i >= index
    BY <1>1, <1>4, <1>6, <1>9
  <2>3. e \in early \cup {NULL} \/ Fresh(e)
    BY <1>3, <2>1, <2>2 DEF EarlyInv, EntriesInv
  <2>4. CASE e = top
    <3>1. e \notin demandList
      BY <2>1 DEF EarlyInv, EntriesInv
    <3>2. ASSUME phase = "init", Len(stack) = 1 PROVE FALSE
      <4>1. index' = index + 1 /\ initList[index] = top /\ index \in DOMAIN initList
        BY <1>5, <1>6, <3>2 DEF Outermost
      <4>2. initList[i] = initList[index] /\ initList[i] # NULL /\ i # index
        BY <1>1, <1>2, <1>4, <1>9, <2>1, <2>4, <3>2, <4>1, ComponentsAssumption
      <4>. QED
        BY <4>1, <4>2 DEF EarlyInv, EntriesInv
    <3>3. e \in early
      BY <1>7, <2>4, <3>1, <3>2
    <3>. QED
      BY <1>6, <2>1, <3>3
  <2>5. CASE e # top
    BY <1>6, <2>1, <2>3, <2>5
  <2>. QED
    BY <2>4, <2>5
<1>10. \A i \in DOMAIN initList' : initList'[i] \notin demandList'
  BY <1>1, <1>6, <1>8 DEF EarlyInv, EntriesInv
<1>11. \A i, j \in DOMAIN initList' :
         initList'[i] = initList'[j] /\ initList'[i] # NULL => i = j
  BY <1>6 DEF EarlyInv, EntriesInv
<1>. QED
  BY <1>1, <1>3, <1>6, <1>9, <1>10, <1>11 DEF EntriesInv, Fresh, FreshAfter

(* A list has one entry more of what is appended, and of nothing else. *)
LEMMA EntriesAppend ==
  ASSUME NEW s \in Seq(Components), NEW c \in Components, NEW d \in Components
  PROVE  /\ d # c => Entries(Append(s, d), c) = Entries(s, c)
         /\ c \notin ToSet(s) => Entries(s, c) = 0 /\ Entries(Append(s, c), c) = 1
<1>1. /\ DOMAIN s = 1..Len(s) /\ Len(s) \in Nat
      /\ \A e \in Components : /\ DOMAIN Append(s, e) = 1..(Len(s) + 1)
                               /\ Append(s, e)[Len(s) + 1] = e
                               /\ \A i \in 1..Len(s) : Append(s, e)[i] = s[i]
  OBVIOUS
<1>2. ASSUME d # c PROVE Entries(Append(s, d), c) = Entries(s, c)
  <2>1. {i \in DOMAIN Append(s, d) : Append(s, d)[i] = c} = {i \in DOMAIN s : s[i] = c}
    BY <1>1, <1>2
  <2>. QED
    BY <2>1 DEF Entries
<1>3. ASSUME c \notin ToSet(s) PROVE Entries(s, c) = 0 /\ Entries(Append(s, c), c) = 1
  <2>1. {i \in DOMAIN s : s[i] = c} = {}
    BY <1>3 DEF ToSet
  <2>2. {i \in DOMAIN Append(s, c) : Append(s, c)[i] = c} = {Len(s) + 1}
    BY <1>1, <2>1
  <2>. QED
    BY <2>1, <2>2, FS_EmptySet, FS_Singleton DEF Entries
<1>. QED
  BY <1>2, <1>3

LEMMA SucceedsEarly ==
  ASSUME ManagerInv, EarlyInv, InitSucceeds
  PROVE  EarlyInv'
<1>1. PICK top \in Components : top = Head(stack).comp
  BY SucceedsListed DEF ManagerInv
<1>2. /\ Listed' = Listed \cup {top}
      /\ isInit' = [isInit EXCEPT ![top] = TRUE]
      /\ done' = IF isInit[top] THEN done ELSE done \cup {top}
      /\ stack # <<>> /\ stack' = Tail(stack) /\ UNCHANGED <<needs, demandList, early, phase>>
      /\ \/ appList' = Append(appList, top) /\ compList' = compList
         \/ compList' = Append(compList, top) /\ appList' = appList
  BY <1>1, SucceedsListed DEF InitSucceeds, ManagerInv
<1>3. \A c \in Components : c # top /\ Fresh(c) => FreshAfter(c)
  BY <1>2 DEF Fresh, FreshAfter, ManagerInv, TypeOK
<1>4. StackInv' /\ EntriesInv'
  BY <1>1, <1>2, <1>3, ReturnKeepsStack, ReturnKeepsEntries DEF ManagerInv, EarlyInv
<1>5. top \in early \/ Fresh(top)
  <2>1. stack \in Seq(Calls) /\ Len(stack) \in Nat \ {0}
    BY <1>2, StackPop DEF ManagerInv, TypeOK
  <2>2. 1 \in 1..Len(stack) /\ Head(stack) = stack[1]
    BY <2>1
  <2>3. PICK i \in 1..Len(stack) : stack[i].comp = top
    BY <1>1, <2>2
  <2>. QED
    BY <2>3 DEF EarlyInv, StackInv
<1>6. ASSUME NEW c \in Components, c \notin early
      PROVE  /\ Entries(compList', c) + Entries(appList', c) <= 1
             /\ c \in Listed' => c \in done'
  <2>1. compList \in Seq(Components) /\ appList \in Seq(Components)
    BY DEF ManagerInv, TypeOK
  <2>2. CASE c # top
    <3>1. Entries(compList', c) = Entries(compList, c) /\ Entries(appList', c) = Entries(appList, c)
      <4>1. CASE appList' = Append(appList, top) /\ compList' = compList
        BY <2>1, <2>2, <4>1, EntriesAppend
      <4>2. CASE compList' = Append(compList, top) /\ appList' = appList
        BY <2>1, <2>2, <4>2, EntriesAppend
      <4>. QED
        BY <1>2, <4>1, <4>2
    <3>. QED
      BY <1>2, <1>6, <2>2, <3>1 DEF EarlyInv, OnlyEarlyAnomalies
  <2>3. CASE c = top
    <3>1. c \notin ToSet(compList) /\ c \notin ToSet(appList) /\ ~isInit[c]
      BY <1>5, <1>6, <2>3 DEF Fresh, Listed
    <3>2. Entries(compList', c) + Entries(appList', c) = 1
      <4>1. CASE appList' = Append(appList, top) /\ compList' = compList
        <5>1. Entries(appList', c) = 1 /\ Entries(compList', c) = 0
          BY <2>1, <2>3, <3>1, <4>1, EntriesAppend
        <5>. QED
          BY <5>1
      <4>2. CASE compList' = Append(compList, top) /\ appList' = appList
        <5>1. Entries(compList', c) = 1 /\ Entries(appList', c) = 0
          BY <2>1, <2>3, <3>1, <4>2, EntriesAppend
        <5>. QED
          BY <5>1
      <4>. QED
        BY <1>2, <4>1, <4>2
    <3>. QED
      BY <1>2, <2>3, <3>1, <3>2
  <2>. QED
    BY <2>2, <2>3
<1>7. OnlyEarlyAnomalies'
  BY <1>2, <1>6 DEF OnlyEarlyAnomalies, Entries
<1>. QED
  BY <1>2, <1>4, <1>7 DEF EarlyInv, NeedsInv

LEMMA FailsEarly ==
  ASSUME ManagerInv, EarlyInv, InitFails
  PROVE  EarlyInv'
<1>1. stack \in Seq(Calls) /\ stack # <<>>
  BY DEF InitFails, ManagerInv, TypeOK
<1>2. PICK top \in Components : top = Head(stack).comp
  BY <1>1, StackPop
<1>3. /\ UNCHANGED <<needs, demandList, early, phase, compList, appList, done>>
      /\ stack' = Tail(stack) /\ \E b \in BOOLEAN : isInit' = [isInit EXCEPT ![top] = b]
  BY <1>2 DEF InitFails
<1>4. Listed' = Listed
  BY <1>3 DEF Listed, ToSet
<1>5. \A c \in Components : c # top /\ Fresh(c) => FreshAfter(c)
  BY <1>3, <1>4 DEF Fresh, FreshAfter, ManagerInv, TypeOK
<1>6. StackInv' /\ EntriesInv'
  BY <1>1, <1>2, <1>3, <1>5, ReturnKeepsStack, ReturnKeepsEntries DEF ManagerInv, EarlyInv
<1>. QED
  BY <1>3, <1>4, <1>6 DEF EarlyInv, NeedsInv, OnlyEarlyAnomalies, Entries

(* Which components the calls of init() that are on, and the lists, can hold. *)
LEMMA EarlyInvariant == Spec => []EarlyInv
<1>1. Init => EarlyInv
  <2>. SUFFICES ASSUME Init PROVE EarlyInv
    OBVIOUS
  <2>1. NeedsInv /\ StackInv
    BY DEF Init, NeedsInv, StackInv
  <2>2. \A c \in Components : Fresh(c)
    BY DEF Init, Fresh, Listed, ToSet
  <2>3. EntriesInv
    BY <2>2 DEF Init, EntriesInv
  <2>4. \A c \in Components : Entries(compList, c) = 0 /\ Entries(appList, c) = 0
    <3>1. \A c \in Components : {i \in DOMAIN <<>> : <<>>[i] = c} = {}
      OBVIOUS
    <3>. QED
      BY <3>1, FS_EmptySet DEF Init, Entries
  <2>. QED
    BY <2>1, <2>2, <2>3, <2>4 DEF EarlyInv, OnlyEarlyAnomalies, Fresh
<1>2. ManagerInv /\ EarlyInv /\ [Next]_vars => EarlyInv'
  BY QuietSteps, LoadsEarly, SucceedsEarly, FailsEarly DEF Next
<1>. QED
  BY <1>1, <1>2, ManagerInvariant, PTL DEF Spec

(* Nothing is listed twice, nor without its init(), that load() did not take
   from initList. *)
THEOREM AnomaliesAreEarly == Spec => []OnlyEarlyAnomalies
<1>. QED
  BY EarlyInvariant, PTL DEF EarlyInv

(* The calls of init() that are on are of different components, each loaded,
   directly or through others, by those below it, so that there are never
   more of them than components: load() inside init() does not come back to
   an init() that is on, where isInit may or may not be set already. *)
Nested ==
  /\ \A i, j \in 1..Len(stack) : stack[i].comp = stack[j].comp => i = j
  /\ \A i \in 1..Len(stack) : \A j \in 1..Len(stack) : i < j => stack[j].comp \notin stack[i].todo
  /\ Len(stack) <= Cardinality(Components)

LEMMA NestingBounded ==
  ASSUME ManagerInv, EarlyInv
  PROVE  Nested
<1>1. stack \in Seq(Calls) /\ Len(stack) \in Nat /\ DOMAIN stack = 1..Len(stack)
  BY DEF ManagerInv, TypeOK
<1>2. \A i \in 1..Len(stack) : stack[i] \in Calls /\ stack[i].comp \in Components
  <2>1. \A i \in 1..Len(stack) : stack[i] \in Calls
    BY <1>1
  <2>. QED
    BY <2>1 DEF Calls
<1>3. \A c \in Components : c \in Nat
  BY ComponentsAssumption
<1>4. \A i, j \in 1..Len(stack) : i < j => stack[i].comp < stack[j].comp
  BY DEF EarlyInv, StackInv
<1>5. \A i, j \in 1..Len(stack) : stack[i].comp = stack[j].comp => i = j
  <2>. SUFFICES ASSUME NEW i \in 1..Len(stack), NEW j \in 1..Len(stack), i # j
       PROVE  stack[i].comp # stack[j].comp
    OBVIOUS
  <2>1. i < j \/ j < i
    BY <1>1
  <2>2. stack[i].comp \in Nat /\ stack[j].comp \in Nat
    BY <1>2, <1>3
  <2>. QED
    BY <1>4, <2>1, <2>2
<1>6. ASSUME NEW i \in 1..Len(stack), NEW j \in 1..Len(stack), i < j
      PROVE  stack[j].comp \notin stack[i].todo
  <2>1. stack[i].todo \subseteq needs[stack[i].comp]
    BY DEF EarlyInv, StackInv
  <2>2. \A d \in needs[stack[i].comp] : d < stack[i].comp
    BY <1>2 DEF EarlyInv, NeedsInv
  <2>3. stack[i].comp < stack[j].comp /\ stack[i].comp \in Nat /\ stack[j].comp \in Nat
    BY <1>2, <1>3, <1>4, <1>6
  <2>4. ~(stack[j].comp < stack[i].comp)
    BY <2>3
  <2>. QED
    BY <2>1, <2>2, <2>4
<1>7. Len(stack) <= Cardinality(Components)
  <2>. DEFINE place == [i \in 1..Len(stack) |-> stack[i].comp]
  <2>1. place \in Injection(1..Len(stack), Components)
    BY <1>2, <1>5 DEF Injection, IsInjective
  <2>2. Cardinality(1..Len(stack)) <= Cardinality(Components)
    BY <2>1, FS_Injection, ComponentsAssumption
  <2>3. IsFiniteSet(1..Len(stack)) /\ Cardinality(1..Len(stack)) = Len(stack)
    BY <1>1, FS_Interval
  <2>. QED
    BY <2>2, <2>3
<1>. QED
  BY <1>5, <1>6, <1>7 DEF Nested

(* init() nests: whatever a component's init() loads, none is called again
   while it is on. *)
THEOREM InitsNest == Spec => []Nested
<1>1. ManagerInv /\ EarlyInv => Nested
  BY NestingBounded
<1>. QED
  BY <1>1, ManagerInvariant, EarlyInvariant, PTL

=============================================================================
