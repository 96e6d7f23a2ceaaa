--------------------------- MODULE ComponentManager ---------------------------
(***************************************************************************)
(* Studierstube's components (kernel/ComponentManager.cxx): the kernel's   *)
(* configuration adds them, the update callback initialises those that     *)
(* were added and updates the applications, and init() of a component, or  *)
(* a callback of the scene graph, loads others by name, inside the loop    *)
(* that walks over the list of what is to be initialised.  Components that *)
(* use video are connected with the one that provides it.                  *)
(*                                                                         *)
(* All this happens in the thread of the GUI's main loop: calls nest, and  *)
(* stack holds the calls of init() that are on.  Every component of the    *)
(* tree begins init() by asking whether isInit is set; some set it at once *)
(* (Video, Event, Starlight), others when they have succeeded (Viewer).    *)
(* Names are the components themselves.  What an init() loads is a set,    *)
(* loaded in any order, and no component needs itself through others.      *)
(***************************************************************************)
EXTENDS Naturals, Sequences, FiniteSets, SequencesExt

CONSTANTS
  Components,     \* the components a configuration may name: numbers, each needs only smaller ones
  Applications,   \* those whose type is Application
  Provider,       \* the component that provides video
  Users,          \* those that use it
  NULL            \* the entry of a component whose init() failed

ASSUME ComponentsAssumption ==
  /\ IsFiniteSet(Components) /\ Components \subseteq Nat /\ NULL \notin Components
  /\ Applications \subseteq Components
  /\ Provider \in Components /\ Users \subseteq Components \ {Provider}

VARIABLES
  needs,               \* the components that init() of a component loads
  phase,               \* what the main thread does: see Phases
  demandList,          \* the components to be loaded on demand
  initList, index,     \* the components to be initialised, and update's position in it
  compList, appList,   \* the components and applications that are initialised
  isInit,              \* Component::isInit
  stack,               \* the calls of init() that are on, the innermost first
  videoUsers,          \* how many entries a user has in the provider's lists
  done,                \* history: the components whose init() has done its work
  early                \* history: those that load() took from initList

lists == <<demandList, initList, index, compList, appList>>
vars == <<needs, phase, lists, isInit, stack, videoUsers, done, early>>

Phases == {"configure", "idle", "init", "apps", "crashed", "down"}
Calls == [comp : Components, todo : SUBSET Components]

(* isLoaded *)
Listed == ToSet(compList) \cup ToSet(appList)

TypeOK ==
  /\ needs \in [Components -> SUBSET Components]
  /\ phase \in Phases
  /\ demandList \subseteq Components /\ initList \in Seq(Components \cup {NULL})
  /\ index \in 1..(1 + IF phase = "apps" THEN Len(appList) ELSE Len(initList))
  /\ compList \in Seq(Components) /\ appList \in Seq(Components)
  /\ isInit \in [Components -> BOOLEAN] /\ stack \in Seq(Calls)
  /\ videoUsers \in [Users -> Nat]
  /\ done \subseteq Components /\ early \subseteq Components

Init ==
  /\ needs \in {f \in [Components -> SUBSET Components] :
                  \A c \in Components : \A d \in f[c] : d < c}
  /\ phase = "configure"
  /\ demandList = {} /\ initList = <<>> /\ index = 1 /\ compList = <<>> /\ appList = <<>>
  /\ isInit = [c \in Components |-> FALSE] /\ stack = <<>>
  /\ videoUsers = [u \in Users |-> 0]
  /\ done = {} /\ early = {}

(* addComponent, for an element of the configuration: in any order, and
   some components are not named at all. *)
AddComponent(c) ==
  /\ phase = "configure" /\ c \notin demandList \cup ToSet(initList)
  /\ \/ demandList' = demandList \cup {c} /\ UNCHANGED initList
     \/ initList' = Append(initList, c) /\ UNCHANGED demandList
  /\ UNCHANGED <<needs, phase, index, compList, appList, isInit, stack, videoUsers, done, early>>

StartMainLoop ==
  /\ phase = "configure" /\ phase' = "idle"
  /\ UNCHANGED <<needs, lists, isInit, stack, videoUsers, done, early>>

-----------------------------------------------------------------------------
(* The update callback.                                                     *)

Idle == phase = "idle" /\ stack = <<>>

Update ==
  /\ Idle /\ phase' = "init" /\ index' = 1
  /\ UNCHANGED <<needs, demandList, initList, compList, appList, isInit, stack, videoUsers, done, early>>

(* init() of component c is called: it has nothing to do if isInit is set. *)
Call(c, set) == [comp |-> c, todo |-> IF set THEN {} ELSE needs[c]]

InitNext ==
  /\ phase = "init" /\ stack = <<>> /\ index <= Len(initList)
  /\ stack' = <<Call(initList[index], isInit[initList[index]])>>
  /\ UNCHANGED <<needs, phase, lists, isInit, videoUsers, done, early>>

InitsDone ==
  /\ phase = "init" /\ stack = <<>> /\ index > Len(initList)
  /\ phase' = "apps" /\ initList' = <<>> /\ index' = 1
  /\ UNCHANGED <<needs, demandList, compList, appList, isInit, stack, videoUsers, done, early>>

(* The applications are updated one after the other. *)
UpdateApplication ==
  /\ phase = "apps" /\ index <= Len(appList)
  /\ index' = index + 1
  /\ UNCHANGED <<needs, phase, demandList, initList, compList, appList, isInit, stack, videoUsers,
                 done, early>>

UpdateReturns ==
  /\ phase = "apps" /\ index > Len(appList)
  /\ phase' = "idle" /\ index' = 1
  /\ UNCHANGED <<needs, demandList, initList, compList, appList, isInit, stack, videoUsers, done, early>>

-----------------------------------------------------------------------------
(* load() *)

(* The scan of initList reads the name of every entry in front of d, and an
   entry that is NULL is dereferenced. *)
Crashes(d) ==
  \E i \in DOMAIN initList :
    initList[i] = NULL /\ \A j \in 1..i : initList[j] # d

(* Mutant: load() does not ask whether the component is loaded. *)
LoadFor_Again(d, callers) ==
  \/ /\ d \in demandList
     /\ stack' = <<Call(d, FALSE)>> \o callers
     /\ isInit' = [isInit EXCEPT ![d] = FALSE] /\ UNCHANGED <<phase, early>>
  \/ /\ d \notin demandList
     /\ stack' = callers /\ UNCHANGED <<phase, isInit, early>>

(* load(d), where callers are the calls of init() it returns to: d is loaded
   already; a new object is made of it on demand, whose isInit is not set; it
   is taken from initList, where it stays; or it, or its library, is not
   found. *)
LoadFor(d, callers) ==
  \/ /\ d \in Listed
     /\ stack' = callers /\ UNCHANGED <<phase, isInit, early>>
  \/ /\ d \in demandList \ Listed
     /\ stack' = <<Call(d, FALSE)>> \o callers
     /\ isInit' = [isInit EXCEPT ![d] = FALSE] /\ UNCHANGED <<phase, early>>
  \/ /\ d \notin demandList \cup Listed /\ Crashes(d)
     /\ stack' = <<>> /\ phase' = "crashed" /\ UNCHANGED <<isInit, early>>
  \/ /\ d \in ToSet(initList) \ (demandList \cup Listed) /\ ~Crashes(d)
     /\ stack' = <<Call(d, isInit[d])>> \o callers
     /\ early' = early \cup {d} /\ UNCHANGED <<phase, isInit>>
  \/ /\ \/ d \in demandList \ Listed
        \/ d \notin ToSet(initList) \cup demandList \cup Listed /\ ~Crashes(d)
     /\ stack' = callers /\ UNCHANGED <<phase, isInit, early>>

(* init() of the innermost component loads d. *)
Load(d) ==
  /\ stack # <<>> /\ d \in Head(stack).todo
  /\ LoadFor(d, <<[Head(stack) EXCEPT !.todo = @ \ {d}]>> \o Tail(stack))
  /\ UNCHANGED <<needs, lists, videoUsers, done>>

(* A callback of the scene graph (SoWindowHandling, a control mode) loads d. *)
CallbackLoads(d) ==
  /\ Idle /\ LoadFor(d, <<>>)
  /\ UNCHANGED <<needs, lists, videoUsers, done>>

-----------------------------------------------------------------------------
(* init() returns *)

(* The call was made by update's loop. *)
Outermost == phase = "init" /\ Len(stack) = 1

(* Mutant: the component that is new is connected only as a user. *)
ConnectComponents_Users(c) ==
  videoUsers' = [u \in Users |->
    IF c = u /\ Provider \in Listed /\ videoUsers[u] = 0 THEN 1 ELSE videoUsers[u]]

(* connectComponents: a new provider registers all users that are listed, a
   new user registers with a provider that is; vp_registerVideoUser does
   nothing for a user it has. *)
ConnectComponents(c) ==
  videoUsers' = [u \in Users |->
    IF /\ (c = Provider /\ u \in Listed) \/ (c = u /\ Provider \in Listed)
       /\ videoUsers[u] = 0
    THEN 1 ELSE videoUsers[u]]

(* Mutant: update's loop goes on to the next entry when a nested call returns. *)
InitSucceeds_Skips ==
  /\ stack # <<>> /\ Head(stack).todo = {}
  /\ LET c == Head(stack).comp IN
     /\ ConnectComponents(c)
     /\ IF c \in Applications THEN appList' = Append(appList, c) /\ UNCHANGED compList
        ELSE compList' = Append(compList, c) /\ UNCHANGED appList
     /\ done' = IF isInit[c] THEN done ELSE done \cup {c}
     /\ isInit' = [isInit EXCEPT ![c] = TRUE]
  /\ stack' = Tail(stack)
  /\ index' = IF phase = "init" THEN index + 1 ELSE index
  /\ UNCHANGED <<needs, phase, demandList, initList, early>>

(* init() returns true: at once if isInit was set, else when its work is
   done.  The component is connected and then listed. *)
InitSucceeds ==
  /\ stack # <<>> /\ Head(stack).todo = {}
  /\ LET c == Head(stack).comp IN
     /\ ConnectComponents(c)
     /\ IF c \in Applications THEN appList' = Append(appList, c) /\ UNCHANGED compList
        ELSE compList' = Append(compList, c) /\ UNCHANGED appList
     /\ done' = IF isInit[c] THEN done ELSE done \cup {c}
     /\ isInit' = [isInit EXCEPT ![c] = TRUE]
  /\ stack' = Tail(stack)
  /\ index' = IF Outermost THEN index + 1 ELSE index
  /\ UNCHANGED <<needs, phase, demandList, initList, early>>

(* Mutant: update's loop tries a component again until it can be initialised. *)
InitFails_Retried ==
  /\ stack # <<>>
  /\ LET c == Head(stack).comp IN
     /\ ~isInit[c] /\ \E b \in BOOLEAN : isInit' = [isInit EXCEPT ![c] = b]
  /\ stack' = Tail(stack)
  /\ UNCHANGED <<needs, phase, lists, videoUsers, done, early>>

(* init() returns false, at any point of its work; isInit may be set already.
   load() ignores that, update's loop leaves NULL in its list. *)
InitFails ==
  /\ stack # <<>>
  /\ LET c == Head(stack).comp IN
     /\ ~isInit[c] /\ \E b \in BOOLEAN : isInit' = [isInit EXCEPT ![c] = b]
  /\ stack' = Tail(stack)
  /\ IF Outermost THEN initList' = [initList EXCEPT ![index] = NULL] /\ index' = index + 1
     ELSE UNCHANGED <<initList, index>>
  /\ UNCHANGED <<needs, phase, demandList, compList, appList, videoUsers, done, early>>

(* Kernel::stop, from a callback of the main loop, shuts every listed
   component down, then the process exits. *)
ShutDown ==
  /\ Idle /\ phase' = "down"
  /\ UNCHANGED <<needs, lists, isInit, stack, videoUsers, done, early>>

(* initOpenVideo has failed, and Video calls Kernel::stop itself: in its
   init(), single-threaded, before the call returns, also under update; or in
   the thread that init() starts, at any later step of the main thread.  The
   process exits from under the calls that are on. *)
VideoStops ==
  /\ \/ stack # <<>> /\ Head(stack) = [comp |-> Provider, todo |-> {}] /\ ~isInit[Provider]
     \/ Provider \in done /\ phase \notin {"crashed", "down"}
  /\ phase' = "down" /\ stack' = <<>> /\ index' = 1
  /\ UNCHANGED <<needs, demandList, initList, compList, appList, isInit, videoUsers, done, early>>

-----------------------------------------------------------------------------
Next ==
  \/ \E c \in Components : AddComponent(c) \/ Load(c) \/ CallbackLoads(c)
  \/ StartMainLoop \/ Update \/ InitNext \/ InitsDone
  \/ UpdateApplication \/ UpdateReturns
  \/ InitSucceeds \/ InitFails \/ ShutDown \/ VideoStops

(* The main thread goes on inside a callback. *)
Works ==
  \/ InitNext \/ InitsDone \/ UpdateApplication \/ UpdateReturns
  \/ InitSucceeds \/ InitFails \/ \E c \in Components : Load(c)

Spec == Init /\ [][Next]_vars /\ WF_vars(Works)

-----------------------------------------------------------------------------
Entries(s, c) == Cardinality({i \in DOMAIN s : s[i] = c})

(* A user is in the provider's lists once when both are listed, and not at
   all before: whichever of the two is initialised first, also inside the
   other's init(), and however often connectComponents is called for them. *)
ConnectedOnce ==
  \A u \in Users : videoUsers[u] = IF {u, Provider} \subseteq Listed THEN 1 ELSE 0

(* A component is listed twice (and then updated and shut down twice), or
   listed although its init() failed, only if load() took it from initList,
   where it stayed. *)
OnlyEarlyAnomalies ==
  \A c \in Components :
    \/ c \in early
    \/ Entries(compList, c) + Entries(appList, c) <= 1 /\ (c \in Listed => c \in done)

(* When the loop over initList ends, every entry was initialised and listed,
   or failed; and of those that failed it leaves none behind: load() from a
   callback never meets a NULL entry. *)
AllDealtWith ==
  [][/\ phase = "init" /\ phase' = "apps" =>
          \A i \in DOMAIN initList : initList[i] \in Listed \cup {NULL}
     /\ phase = "idle" => phase' # "crashed"]_vars

(* The update callback returns, whatever its components load and wherever
   they fail, unless the process ends under it: load() dereferences an entry
   that is NULL, or Video calls Kernel::stop. *)
UpdateEnds == phase \in {"init", "apps"} ~> phase \in {"idle", "crashed", "down"}
=============================================================================
