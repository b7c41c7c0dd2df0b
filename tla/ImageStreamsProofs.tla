------------------------- MODULE ImageStreamsProofs -------------------------
(***************************************************************************)
(* First the list of plugins: whoever has initialised the library finds    *)
(* all of it until the program ends, proved for any number of threads and  *)
(* plugins, with and without the loader of a shared library; and the       *)
(* format found is that of the first enabled plugin that accepts the       *)
(* content.                                                                *)
(*                                                                         *)
(* Then what the answers of the stream adapters are worth, for streams of  *)
(* any length, items of any size, and any sequence of requests: until it   *)
(* fails a stream is a file; an answer overstates by one item at most; and *)
(* a plugin that looks at every answer can only miss a loss in its last    *)
(* request.                                                                *)
(***************************************************************************)
EXTENDS ImageStreams, TLAPS, SequenceTheorems

Stages == {"out", "calling", "counting", "building", "in"}
Active(u) == stage[u] \in {"calling", "counting", "building"}
Names == {Formats[i] : i \in DOMAIN Formats}

(* Who has counted itself in s_plugin_reference_count: the loader, and the *)
(* static object, or the thread that constructs it.                        *)
LoaderCounts == stage[loader] \in {"building", "in"}
ThreadCounts == guard = "set" \/ \E t \in Threads : stage[t] = "building"
RefsCounted ==
  refs = (IF LoaderCounts THEN 1 ELSE 0) + (IF ThreadCounts THEN 1 ELSE 0)

TypeInv ==
  /\ refs \in Int
  /\ guard \in {"unset", "running", "set", "gone"}
  /\ stage \in [Users -> Stages] /\ seen \in [Users -> Nat]
  /\ plugins.made \in {"none", "list", "deleted"} /\ plugins.nodes \in Seq(Names)
  /\ plugins = [made |-> plugins.made, nodes |-> plugins.nodes]

(* One user at a time is inside FreeImage_Initialise: the loader before    *)
(* main, or the thread that constructs the static object.                  *)
OneAtATime ==
  /\ \A u, v \in Users : Active(u) /\ Active(v) => u = v
  /\ Active(loader) => guard = "unset"
  /\ \A t \in Threads : /\ Active(t) => guard = "running"
                        /\ stage[t] = "in" => guard = "set"

(* so that the count it has read is still right when it writes it.         *)
CountKnown == \A u \in Users : stage[u] = "counting" => seen[u] = refs

(* The plugins that the user u has added so far have their own numbers,    *)
(* unless one is missing.                                                  *)
Growing(u) ==
  /\ seen[u] < Len(Formats)
  /\ refs = 1
  /\ plugins.made = "list"
  /\ \/ starved
     \/ /\ Len(plugins.nodes) = seen[u]
        /\ \A i \in 1..seen[u] : plugins.nodes[i] = Formats[i]
Whole ==
  \/ plugins = [made |-> "list", nodes |-> Formats]
  \/ starved /\ plugins.made \in {"none", "list"}

IInv ==
  /\ TypeInv
  /\ OneAtATime
  /\ RefsCounted
  /\ CountKnown
  /\ \A u \in Users : stage[u] = "building" => Growing(u)
  /\ refs > 0 /\ (\A u \in Users : stage[u] # "building") => Whole

-----------------------------------------------------------------------------
(* A list with every plugin under its own number is the list of formats.   *)
LEMMA SameList ==
  ASSUME NEW s \in Seq(Names), Len(s) = Len(Formats),
         \A i \in 1..Len(Formats) : s[i] = Formats[i]
  PROVE  s = Formats
<1>1. Formats \in Seq(Names)
  BY PluginAssumption DEF Names
<1> HIDE DEF Names
<1> QED
  BY <1>1

(* When the program starts nobody has counted, and nothing is built.       *)
THEOREM InitInvariant == Init => IInv
<1> SUFFICES ASSUME Init PROVE IInv
  OBVIOUS
<1>1. /\ refs = 0 /\ plugins = NoList /\ guard = "unset"
      /\ seen = [u \in Users |-> 0]
      /\ \E s \in {"out", "calling"} : stage = [u \in Users |-> IF u = loader THEN s ELSE "out"]
  BY DEF Init, InitList
<1>2. plugins.made = "none" /\ plugins.nodes = << >>
  BY <1>1 DEF NoList
<1>3. TypeInv
  BY <1>1, <1>2 DEF TypeInv, NoList, Stages, Names
<1>4. /\ \A t \in Threads : stage[t] = "out"
      /\ stage[loader] \in {"out", "calling"}
  BY <1>1, PluginAssumption DEF Users
<1>5. OneAtATime
  BY <1>1, <1>4 DEF OneAtATime, Active, Users
<1>6. RefsCounted
  BY <1>1, <1>4 DEF RefsCounted, LoaderCounts, ThreadCounts
<1>7. \A u \in Users : stage[u] \notin {"counting", "building"}
  BY <1>4 DEF Users
<1> QED
  BY <1>1, <1>3, <1>5, <1>6, <1>7 DEF IInv, CountKnown

-----------------------------------------------------------------------------
(* A thread that reaches the static object first begins to construct it;   *)
(* one that reaches it later passes.                                       *)
LEMMA EnterKeeps ==
  ASSUME IInv, NEW t \in Threads, EnterInitializer(t) \/ PassInitializer(t)
  PROVE  IInv'
<1>1. /\ stage[t] = "out" /\ t \in Users /\ t # loader /\ ~Active(loader)
      /\ UNCHANGED <<refs, plugins, enabled, starved, seen>>
  BY PluginAssumption
     DEF EnterInitializer, PassInitializer, BeforeMain, Active, Users
<1>2. CASE EnterInitializer(t)
  <2>1. /\ guard = "unset" /\ guard' = "running"
        /\ stage' = [stage EXCEPT ![t] = "calling"]
    BY <1>2 DEF EnterInitializer, MayEnter
  <2>2. \A u \in Users : ~Active(u)
    BY <1>1, <2>1 DEF IInv, OneAtATime, Users
  <2>3. /\ \A u \in Users : u # t => stage'[u] = stage[u]
        /\ stage'[t] = "calling" /\ stage' \in [Users -> Stages]
    BY <1>1, <2>1 DEF IInv, TypeInv, Stages
  <2>4. OneAtATime'
    BY <1>1, <2>1, <2>2, <2>3 DEF IInv, OneAtATime, Active, Users
  <2>5. LoaderCounts' = LoaderCounts /\ ~ThreadCounts /\ ~ThreadCounts'
    BY <1>1, <2>1, <2>2, <2>3 DEF LoaderCounts, ThreadCounts, Active, Users
  <2>6. \A u \in Users : stage'[u] \notin {"counting", "building"} /\ stage[u] # "building"
    BY <2>2, <2>3 DEF Active
  <2> QED
    BY <1>1, <2>1, <2>3, <2>4, <2>5, <2>6
       DEF IInv, TypeInv, RefsCounted, CountKnown, Whole
<1>3. CASE PassInitializer(t)
  <2>1. guard = "set" /\ guard' = guard /\ stage' = [stage EXCEPT ![t] = "in"]
    BY <1>3 DEF PassInitializer
  <2>2. /\ \A u \in Users : u # t => stage'[u] = stage[u]
        /\ stage'[t] = "in" /\ stage' \in [Users -> Stages]
    BY <1>1, <2>1 DEF IInv, TypeInv, Stages
  <2>3. OneAtATime'
    BY <1>1, <2>1, <2>2 DEF IInv, OneAtATime, Active, Users
  <2>4. LoaderCounts' = LoaderCounts /\ ThreadCounts' = ThreadCounts
    BY <1>1, <2>1, <2>2 DEF LoaderCounts, ThreadCounts, Users
  <2>5. \A u \in Users : stage'[u] \in {"counting", "building"} => stage'[u] = stage[u]
    BY <2>2
  <2>6. \A u \in Users : stage'[u] # "building" <=> stage[u] # "building"
    BY <1>1, <2>2
  <2> QED
    BY <1>1, <2>1, <2>2, <2>3, <2>4, <2>5, <2>6
       DEF IInv, TypeInv, RefsCounted, CountKnown, Growing, Whole
<1> QED
  BY <1>2, <1>3

(* FreeImage_Initialise reads the count: nobody else changes it meanwhile. *)
LEMMA ReadCountKeeps ==
  ASSUME IInv, NEW u \in Users, ReadCount(u)
  PROVE  IInv'
<1>1. /\ stage[u] = "calling"
      /\ seen' = [seen EXCEPT ![u] = refs]
      /\ stage' = [stage EXCEPT ![u] = "counting"]
      /\ UNCHANGED <<refs, plugins, enabled, starved, guard>>
  BY DEF ReadCount
<1>2. \A v \in Users : Active(v) => v = u
  BY <1>1 DEF IInv, OneAtATime, Active
<1>3. /\ \A v \in Users : v # u => stage'[v] = stage[v] /\ seen'[v] = seen[v]
      /\ stage'[u] = "counting" /\ seen'[u] = refs
      /\ stage' \in [Users -> Stages]
  BY <1>1 DEF IInv, TypeInv, Stages
<1>4. refs \in Nat
  BY DEF IInv, TypeInv, RefsCounted
<1>5. seen' \in [Users -> Nat]
  BY <1>1, <1>4 DEF IInv, TypeInv
<1>6. OneAtATime'
  BY <1>1, <1>2, <1>3 DEF IInv, OneAtATime, Active, Users
<1>7. LoaderCounts' = LoaderCounts /\ ThreadCounts' = ThreadCounts
  BY <1>1, <1>3 DEF LoaderCounts, ThreadCounts, Users
<1>8. \A v \in Users : stage'[v] # "building" /\ stage[v] # "building"
  BY <1>1, <1>2, <1>3 DEF Active
<1>9. \A v \in Users : stage'[v] = "counting" => v = u
  BY <1>2, <1>3 DEF Active
<1> QED
  BY <1>1, <1>3, <1>5, <1>6, <1>7, <1>8, <1>9
     DEF IInv, TypeInv, RefsCounted, CountKnown, Whole

(* What Leave does to the stages, for whoever is inside: the loader leaves *)
(* before main, a thread completes the static object.                      *)
LEMMA LeaveKeeps ==
  ASSUME IInv, NEW u \in Users, Active(u), Leave(u)
  PROVE  /\ \A v \in Users : v # u => stage'[v] = stage[v]
         /\ stage'[u] = "in" /\ stage' \in [Users -> Stages]
         /\ \A v \in Users : ~(stage'[v] \in {"calling", "counting", "building"})
         /\ guard' \in {"unset", "running", "set", "gone"}
         /\ OneAtATime'
         /\ u = loader => LoaderCounts' /\ (ThreadCounts' <=> ThreadCounts) /\ ~ThreadCounts
         /\ u # loader => (LoaderCounts' <=> LoaderCounts) /\ ThreadCounts'
<1>1. stage' = [stage EXCEPT ![u] = "in"] /\ guard' = IF u = loader THEN guard ELSE "set"
  BY DEF Leave, GuardAfter
<1>2. /\ \A v \in Users : v # u => stage'[v] = stage[v]
      /\ stage'[u] = "in" /\ stage' \in [Users -> Stages]
  BY <1>1 DEF IInv, TypeInv, Stages
<1>3. \A v \in Users : Active(v) => v = u
  BY DEF IInv, OneAtATime
<1>4. \A v \in Users : ~(stage'[v] \in {"calling", "counting", "building"})
  BY <1>2, <1>3 DEF Active
<1>5. CASE u = loader
  <2>1. guard = "unset" /\ guard' = "unset"
    BY <1>1, <1>5 DEF IInv, OneAtATime
  <2>2. \A t \in Threads : t # u /\ t \in Users /\ ~Active(t) /\ stage[t] # "in"
    BY <1>3, <1>5, <2>1, PluginAssumption DEF IInv, OneAtATime, Users
  <2>3. OneAtATime'
    BY <1>2, <1>4, <1>5, <2>1, <2>2 DEF OneAtATime, Active, Users
  <2>4. LoaderCounts' /\ ~ThreadCounts' /\ ~ThreadCounts
    BY <1>2, <1>5, <2>1, <2>2 DEF LoaderCounts, ThreadCounts, Active
  <2> QED
    BY <1>2, <1>4, <1>5, <2>1, <2>3, <2>4
<1>6. CASE u # loader
  <2>1. u \in Threads /\ guard' = "set" /\ loader \in Users
    BY <1>1, <1>6 DEF Users
  <2>2. OneAtATime'
    BY <1>2, <1>4, <2>1 DEF OneAtATime, Active, Users
  <2>3. (LoaderCounts' <=> LoaderCounts) /\ ThreadCounts'
    BY <1>2, <1>6, <2>1 DEF LoaderCounts, ThreadCounts
  <2> QED
    BY <1>2, <1>4, <1>6, <2>1, <2>2, <2>3
<1> QED
  BY <1>5, <1>6

(* and writes it. The first user begins to build the list, or finds no     *)
(* memory for it; a later one finds it built.                              *)
LEMMA WriteCountKeeps ==
  ASSUME IInv, NEW u \in Users, WriteCount(u)
  PROVE  IInv'
<1>1. /\ stage[u] = "counting" /\ Active(u)
      /\ refs' = seen[u] + 1 /\ seen' = [seen EXCEPT ![u] = 0]
      /\ seen[u] = refs
  BY DEF WriteCount, Active, IInv, CountKnown
<1>2. refs \in Nat /\ refs' = refs + 1 /\ seen' \in [Users -> Nat]
  BY <1>1 DEF IInv, TypeInv, RefsCounted
<1>3. \A v \in Users : Active(v) => v = u
  BY <1>1 DEF IInv, OneAtATime
<1>4. \A v \in Users : stage[v] # "building"
  BY <1>1, <1>3 DEF Active
<1>5. ASSUME Leave(u), TypeInv', refs' > 0 => Whole' PROVE IInv'
  <2>1. \A v \in Users : ~(stage'[v] \in {"calling", "counting", "building"})
    BY <1>1, <1>5, LeaveKeeps
  <2>2. OneAtATime'
    BY <1>1, <1>5, LeaveKeeps
  <2>3. CASE u = loader
    <3>1. LoaderCounts' /\ ~ThreadCounts' /\ ~ThreadCounts
      BY <1>1, <1>5, <2>3, LeaveKeeps
    <3>2. ~LoaderCounts
      BY <1>1, <2>3 DEF LoaderCounts
    <3>3. RefsCounted'
      BY <1>2, <3>1, <3>2 DEF IInv, RefsCounted
    <3> QED
      BY <1>5, <2>1, <2>2, <3>3 DEF IInv, CountKnown
  <2>4. CASE u # loader
    <3>1. (LoaderCounts' <=> LoaderCounts) /\ ThreadCounts'
      BY <1>1, <1>5, <2>4, LeaveKeeps
    <3>2. ~ThreadCounts
      BY <1>1, <1>4, <2>4 DEF ThreadCounts, Users, IInv, OneAtATime
    <3>3. RefsCounted'
      BY <1>2, <3>1, <3>2 DEF IInv, RefsCounted
    <3> QED
      BY <1>5, <2>1, <2>2, <3>3 DEF IInv, CountKnown
  <2> QED
    BY <2>3, <2>4
<1>6. CASE seen[u] # 0 /\ Leave(u) /\ UNCHANGED <<plugins, enabled, starved>>
  <2>1. Whole'
    BY <1>1, <1>2, <1>4, <1>6 DEF IInv, Whole
  <2>2. TypeInv'
    BY <1>1, <1>2, <1>6, LeaveKeeps DEF IInv, TypeInv
  <2> QED
    BY <1>5, <1>6, <2>1, <2>2
<1>7. CASE /\ seen[u] = 0 /\ plugins' = NoList /\ starved' = TRUE
           /\ Leave(u) /\ UNCHANGED enabled
  <2>1. plugins'.made = "none" /\ plugins'.nodes = << >>
    BY <1>7 DEF NoList
  <2>2. Whole'
    BY <1>7, <2>1 DEF Whole
  <2>3. TypeInv'
    BY <1>1, <1>2, <1>7, <2>1, LeaveKeeps DEF IInv, TypeInv, NoList
  <2> QED
    BY <1>5, <1>7, <2>2, <2>3
<1>8. CASE /\ seen[u] = 0 /\ plugins' = NewList /\ enabled' = {}
           /\ stage' = [stage EXCEPT ![u] = "building"]
           /\ UNCHANGED <<starved, guard>>
  <2>1. /\ \A v \in Users : v # u => stage'[v] = stage[v]
        /\ stage'[u] = "building" /\ stage' \in [Users -> Stages]
    BY <1>8 DEF IInv, TypeInv, Stages
  <2>2. plugins'.made = "list" /\ plugins'.nodes = << >>
    BY <1>8 DEF NewList
  <2>3. TypeInv'
    BY <1>2, <1>8, <2>1, <2>2 DEF IInv, TypeInv, NewList
  <2>4. OneAtATime'
    BY <1>1, <1>3, <1>8, <2>1 DEF IInv, OneAtATime, Active, Users
  <2>5. RefsCounted'
    <3>1. CASE u = loader
      <4>1. LoaderCounts' /\ ~LoaderCounts
        BY <1>1, <2>1, <3>1 DEF LoaderCounts
      <4>2. \A t \in Threads : t # u /\ t \in Users
        BY <3>1, PluginAssumption DEF Users
      <4>3. ThreadCounts' <=> ThreadCounts
        BY <1>8, <2>1, <4>2 DEF ThreadCounts
      <4> QED
        BY <1>2, <4>1, <4>3 DEF IInv, RefsCounted
    <3>2. CASE u # loader
      <4>1. LoaderCounts' <=> LoaderCounts
        BY <2>1, <3>2 DEF LoaderCounts, Users
      <4>2. u \in Threads /\ guard = "running"
        BY <1>1, <3>2 DEF Users, IInv, OneAtATime
      <4>3. ThreadCounts' /\ ~ThreadCounts
        BY <1>4, <2>1, <4>2 DEF ThreadCounts, Users
      <4> QED
        BY <1>2, <4>1, <4>3 DEF IInv, RefsCounted
    <3> QED
      BY <3>1, <3>2
  <2>6. seen'[u] = 0 /\ Len(Formats) \in Nat \ {0} /\ refs' = 1
    BY <1>1, <1>8, PluginAssumption DEF IInv, TypeInv
  <2>7. Growing(u)'
    BY <2>2, <2>6 DEF Growing
  <2>8. \A v \in Users : stage'[v] \in {"counting", "building"} => v = u
    BY <1>3, <2>1 DEF Active
  <2> QED
    BY <2>1, <2>3, <2>4, <2>5, <2>7, <2>8 DEF IInv, CountKnown
<1> QED
  BY <1>1, <1>6, <1>7, <1>8 DEF WriteCount

(* A call of AddNode: the next plugin gets the next number, or memory ran  *)
(* out; after the last call the list is whole, or known not to be.         *)
LEMMA AddNodeKeeps ==
  ASSUME IInv, NEW u \in Users, AddNode(u)
  PROVE  IInv'
<1> DEFINE next == seen[u] + 1
<1>1. stage[u] = "building" /\ Active(u) /\ Growing(u)
  BY DEF AddNode, Active, IInv
<1>2. /\ Len(Formats) \in Nat /\ seen[u] \in Nat /\ next \in 1..Len(Formats)
      /\ Formats[next] \in Names
  <2>1. Len(Formats) \in Nat /\ DOMAIN Formats = 1..Len(Formats)
    BY PluginAssumption
  <2>2. seen[u] \in Nat
    BY DEF IInv, TypeInv
  <2> QED
    BY <1>1, <2>1, <2>2 DEF Growing, Names
<1>3. refs' = refs /\ refs = 1
  BY <1>1 DEF AddNode, Growing
<1>4. seen' = [seen EXCEPT ![u] = IF next < Len(Formats) THEN next ELSE 0]
  BY DEF AddNode
<1>5. \A v \in Users : Active(v) => v = u
  BY <1>1 DEF IInv, OneAtATime
(* what the list has become *)
<1>6. /\ plugins' = [made |-> plugins'.made, nodes |-> plugins'.nodes]
      /\ plugins'.nodes \in Seq(Names) /\ plugins'.made = "list"
      /\ \/ starved'
         \/ /\ Len(plugins'.nodes) = next
            /\ \A i \in 1..next : plugins'.nodes[i] = Formats[i]
  <2>0. /\ plugins = [made |-> plugins.made, nodes |-> plugins.nodes]
        /\ plugins.nodes \in Seq(Names) /\ plugins.made = "list"
        /\ \/ starved
           \/ /\ Len(plugins.nodes) = seen[u]
              /\ \A i \in 1..seen[u] : plugins.nodes[i] = Formats[i]
    BY <1>1 DEF IInv, TypeInv, Growing
  <2>1. CASE /\ plugins' = [plugins EXCEPT !.nodes = Append(@, Formats[next])]
             /\ UNCHANGED starved
    <3>1. plugins' = [made |-> "list", nodes |-> Append(plugins.nodes, Formats[next])]
      BY <2>0, <2>1
    <3>2. plugins'.made = "list" /\ plugins'.nodes = Append(plugins.nodes, Formats[next])
      BY <3>1
    <3>3. plugins'.nodes \in Seq(Names) /\ Len(plugins'.nodes) = Len(plugins.nodes) + 1
      BY <1>2, <2>0, <3>2
    <3>4. plugins' = [made |-> plugins'.made, nodes |-> plugins'.nodes]
      BY <3>1, <3>2
    <3>5. ASSUME ~starved
          PROVE  Len(plugins'.nodes) = next /\ \A i \in 1..next : plugins'.nodes[i] = Formats[i]
      <4>1. \A i \in 1..next : plugins'.nodes[i] = Formats[i]
        BY <1>2, <2>0, <3>2, <3>5
      <4> QED
        BY <2>0, <3>3, <3>5, <4>1
    <3>6. starved' = starved
      BY <2>1
    <3> QED
      BY <3>2, <3>3, <3>4, <3>5, <3>6
  <2>2. CASE starved' = TRUE /\ UNCHANGED plugins
    BY <2>0, <2>2
  <2> QED
    BY <2>1, <2>2 DEF AddNode
<1>7. CASE next < Len(Formats)
  <2>1. stage' = stage /\ guard' = guard
    BY <1>7 DEF AddNode
  <2>2. seen'[u] = next /\ seen' \in [Users -> Nat]
    BY <1>2, <1>4, <1>7 DEF IInv, TypeInv
  <2>3. Growing(u)'
    BY <1>3, <1>6, <1>7, <2>2 DEF Growing
  <2>4. TypeInv' /\ OneAtATime' /\ RefsCounted'
    BY <1>3, <1>6, <2>1, <2>2
       DEF IInv, TypeInv, OneAtATime, Active, RefsCounted, LoaderCounts, ThreadCounts
  <2>5. \A v \in Users : stage'[v] \in {"counting", "building"} => v = u
    BY <1>5, <2>1 DEF Active
  <2> QED
    BY <1>1, <2>1, <2>3, <2>4, <2>5 DEF IInv, CountKnown
<1>8. CASE ~(next < Len(Formats))
  <2>1. Leave(u) /\ next = Len(Formats)
    BY <1>2, <1>8 DEF AddNode
  <2>2. /\ OneAtATime' /\ stage' \in [Users -> Stages]
        /\ guard' \in {"unset", "running", "set", "gone"}
        /\ \A v \in Users : ~(stage'[v] \in {"calling", "counting", "building"})
    BY <1>1, <2>1, LeaveKeeps
  <2>3. seen' \in [Users -> Nat]
    BY <1>2, <1>4 DEF IInv, TypeInv
  <2>4. TypeInv'
    BY <1>3, <1>6, <2>2, <2>3 DEF TypeInv
  <2>5. (LoaderCounts' <=> LoaderCounts) /\ (ThreadCounts' <=> ThreadCounts)
    <3>1. CASE u = loader
      BY <1>1, <2>1, <3>1, LeaveKeeps DEF LoaderCounts
    <3>2. CASE u # loader
      <4>1. ThreadCounts
        BY <1>1, <3>2 DEF ThreadCounts, Users
      <4> QED
        BY <1>1, <2>1, <3>2, <4>1, LeaveKeeps
    <3> QED
      BY <3>1, <3>2
  <2>6. RefsCounted'
    BY <1>3, <2>5 DEF IInv, RefsCounted
  <2>7. Whole'
    <3>1. CASE starved'
      BY <1>6, <3>1 DEF Whole
    <3>2. CASE ~starved'
      <4>1. plugins'.nodes = Formats
        BY <1>6, <2>1, <3>2, SameList
      <4> QED
        BY <1>6, <4>1 DEF Whole
    <3> QED
      BY <3>1, <3>2
  <2> QED
    BY <2>2, <2>4, <2>6, <2>7 DEF IInv, CountKnown
<1> QED
  BY <1>7, <1>8

(* When the program ends the static object goes, and after it the loader:  *)
(* the list stays as long as one of the two has counted itself.            *)
LEMMA DestroyKeeps ==
  ASSUME IInv, DestroyInitializer \/ DestroyLibrary
  PROVE  IInv'
<1>1. /\ refs' = refs - 1 /\ UNCHANGED <<enabled, starved, seen>>
      /\ plugins' = IF refs' = 0 THEN Deleted ELSE plugins
  BY DEF DestroyInitializer, DestroyLibrary, DeInitialise, LastUser
<1>2. /\ plugins' = [made |-> plugins'.made, nodes |-> plugins'.nodes]
      /\ plugins'.nodes \in Seq(Names) /\ plugins'.made \in {"none", "list", "deleted"}
  <2>1. Deleted = [made |-> Deleted.made, nodes |-> Deleted.nodes]
        /\ Deleted.made = "deleted" /\ Deleted.nodes \in Seq(Names)
    BY DEF Deleted
  <2> QED
    BY <1>1, <2>1 DEF IInv, TypeInv
<1>3. loader \in Users /\ loader \notin Threads /\ Threads \subseteq Users
  BY PluginAssumption DEF Users
<1>4. CASE DestroyInitializer
  <2>1. /\ guard = "set" /\ guard' = "gone"
        /\ stage' = [u \in Users |-> IF u = loader THEN stage[u] ELSE "out"]
        /\ \A t \in Threads : stage[t] \in {"out", "in"}
    BY <1>4 DEF DestroyInitializer
  <2>2. stage'[loader] = stage[loader] /\ \A t \in Threads : stage'[t] = "out"
    BY <1>3, <2>1
  <2>3. ~Active(loader)
    BY <2>1 DEF IInv, OneAtATime
  <2>4. \A u \in Users : ~Active(u) /\ ~(stage'[u] \in {"calling", "counting", "building"})
    BY <2>1, <2>2, <2>3 DEF Active, Users
  <2>5. LoaderCounts' = LoaderCounts /\ ThreadCounts /\ ~ThreadCounts'
    BY <2>1, <2>2 DEF LoaderCounts, ThreadCounts
  <2>6. RefsCounted'
    BY <1>1, <2>5 DEF IInv, RefsCounted
  <2>7. TypeInv'
    BY <1>1, <1>2, <2>1 DEF IInv, TypeInv, Stages
  <2>8. OneAtATime'
    BY <1>3, <2>2, <2>4 DEF OneAtATime, Active
  <2>9. refs' > 0 => Whole'
    BY <1>1, <2>4 DEF IInv, TypeInv, Whole, Active
  <2> QED
    BY <2>4, <2>6, <2>7, <2>8, <2>9 DEF IInv, CountKnown
<1>5. CASE DestroyLibrary
  <2>1. /\ stage[loader] = "in" /\ guard \in {"unset", "gone"} /\ guard' = "gone"
        /\ stage' = [stage EXCEPT ![loader] = "out"]
        /\ \A t \in Threads : stage[t] = "out"
    BY <1>5 DEF DestroyLibrary
  <2>2. /\ stage'[loader] = "out" /\ \A t \in Threads : stage'[t] = "out"
        /\ stage' \in [Users -> Stages]
    BY <1>3, <2>1 DEF IInv, TypeInv, Stages
  <2>3. LoaderCounts /\ ~LoaderCounts' /\ ~ThreadCounts /\ ~ThreadCounts'
    BY <2>1, <2>2 DEF LoaderCounts, ThreadCounts
  <2>4. refs' = 0
    BY <1>1, <2>3 DEF IInv, RefsCounted
  <2>5. \A u \in Users : stage'[u] = "out"
    BY <2>2 DEF Users
  <2>6. TypeInv' /\ OneAtATime' /\ RefsCounted'
    BY <1>1, <1>2, <2>1, <2>2, <2>3, <2>4, <2>5
       DEF IInv, TypeInv, OneAtATime, Active, RefsCounted
  <2> QED
    BY <2>4, <2>5, <2>6 DEF IInv, CountKnown
<1> QED
  BY <1>4, <1>5

(* Everything else leaves alone what the invariant is about.               *)
LEMMA ListUntouched ==
  ASSUME IInv, UNCHANGED <<refs, plugins, starved, guard, stage, seen>>
  PROVE  IInv'
<1>1. TypeInv' /\ OneAtATime' /\ RefsCounted' /\ CountKnown'
  BY DEF IInv, TypeInv, OneAtATime, Active, RefsCounted, LoaderCounts, ThreadCounts, CountKnown
<1>2. \A u \in Users : stage'[u] = "building" => Growing(u)'
  BY DEF IInv, Growing
<1>3. refs' > 0 /\ (\A u \in Users : stage'[u] # "building") => Whole'
  BY DEF IInv, Whole
<1> QED
  BY <1>1, <1>2, <1>3 DEF IInv

(* Every step of the threads, of the loader and of the streams keeps it.   *)
THEOREM NextInvariant == IInv /\ [Next]_vars => IInv'
<1> SUFFICES ASSUME IInv, [Next]_vars PROVE IInv'
  OBVIOUS
<1>1. CASE ListStep
  <2>1. ASSUME NEW t \in Threads, EnterInitializer(t) \/ PassInitializer(t) PROVE IInv'
    BY <2>1, EnterKeeps
  <2>2. ASSUME NEW t \in Threads, StartScan(t) PROVE IInv'
    BY <2>2, ListUntouched DEF StartScan, listVars
  <2>3. ASSUME NEW u \in Users, ReadCount(u) \/ WriteCount(u) \/ AddNode(u) PROVE IInv'
    BY <2>3, ReadCountKeeps, WriteCountKeeps, AddNodeKeeps
  <2>4. ASSUME NEW t \in Threads, NEW fif \in DOMAIN Formats, NEW enable \in BOOLEAN,
               SetPluginEnabled(t, fif, enable)
        PROVE  IInv'
    BY <2>4, ListUntouched DEF SetPluginEnabled
  <2>5. ASSUME NEW moved \in {0, 1}, Validate(moved) PROVE IInv'
    BY <2>5, ListUntouched DEF Validate, listVars
  <2>6. CASE CloseFile
    BY <2>6, ListUntouched DEF CloseFile, listVars
  <2> QED
    BY <1>1, <2>1, <2>2, <2>3, <2>4, <2>5, <2>6 DEF ListStep
<1>2. CASE AtExit
  BY <1>2, DestroyKeeps DEF AtExit
<1>3. CASE UNCHANGED listVars
  BY <1>3, ListUntouched DEF listVars
<1>4. ASSUME NEW t \in Threads, NEW fif \in DOMAIN Formats, NEW what \in {"load", "save"},
             Begin(t, fif, what)
      PROVE  UNCHANGED listVars
  BY <1>4 DEF Begin
<1>5. ASSUME NEW label \in Labels, NEW size \in Sizes, NEW count \in Counts,
             Request(label, size, count)
      PROVE  UNCHANGED listVars
  BY <1>5 DEF Request
<1>6. MovesOn \/ Works \/ End \/ UsersTurn => UNCHANGED listVars
  BY DEF MovesOn, Works, End, UsersTurn
<1>7. UNCHANGED vars => UNCHANGED listVars
  BY DEF vars
<1> QED
  BY <1>1, <1>2, <1>3, <1>4, <1>5, <1>6, <1>7 DEF Next, ListWorks

(* Every thread whose initialisation has returned, and the loader, find a  *)
(* whole list that nobody is building or has deleted.                      *)
THEOREM ListIsThere == Spec => []ListThere
<1>1. Init => IInv
  BY InitInvariant
<1>2. IInv /\ [Next]_vars => IInv'
  BY NextInvariant
<1>3. IInv => ListThere
  <2> SUFFICES ASSUME IInv, NEW u \in Users, stage[u] = "in"
               PROVE  (\A v \in Users : stage[v] # "building") /\ Whole
    BY DEF ListThere, Whole
  <2>1. CASE u = loader
    <3>1. LoaderCounts
      BY <2>1 DEF LoaderCounts
    <3>2. refs > 0
      BY <3>1 DEF IInv, RefsCounted
    <3>3. ASSUME NEW v \in Users, stage[v] = "building" PROVE FALSE
      <4>1. v \in Threads /\ refs = 1
        BY <2>1, <3>3 DEF Users, IInv, Growing
      <4>2. ThreadCounts
        BY <3>3, <4>1 DEF ThreadCounts
      <4> QED
        BY <3>1, <4>1, <4>2 DEF IInv, RefsCounted
    <3> QED
      BY <3>2, <3>3 DEF IInv
  <2>2. CASE u # loader
    <3>1. guard = "set"
      BY <2>2 DEF Users, IInv, OneAtATime
    <3>2. refs > 0
      BY <3>1 DEF IInv, RefsCounted, ThreadCounts
    <3>3. \A v \in Users : ~Active(v)
      BY <3>1 DEF Users, IInv, OneAtATime
    <3> QED
      BY <3>2, <3>3 DEF IInv, Active
  <2> QED
    BY <2>1, <2>2
<1> QED
  BY <1>1, <1>2, <1>3, PTL DEF Spec
-----------------------------------------------------------------------------
(* A detection, while it goes on and after it.  The plugins it has come by *)
(* did not accept the content, or were switched off when they were asked;  *)
(* the TIFF plugin it goes on from did accept it.                          *)
Passed(fif) == plugins.nodes[fif] \in scan.accepting => plugins.nodes[fif] \in scan.skipped
PassedAll(last) == \A fif \in 1..(last - 1) : Passed(fif)
Accepted(fif) == plugins.nodes[fif] \in scan.accepting
Scans == [on : BOOLEAN, fif : Nat, tiff : BOOLEAN, accepting : SUBSET Names, at : {0},
          skipped : SUBSET Names]
GoingOn ==
  /\ scan.fif > 0
  /\ PassedAll(scan.fif)
  /\ scan.tiff => scan.fif = Fif(Tiff) /\ Accepted(scan.fif)
ScanInv ==
  /\ scan \in Scans
  /\ scan # NoScan => guard = "set"
  /\ scan.on => GoingOn
  /\ DetectsByContent

(* The two plugins have different numbers, from 1 on.                      *)
LEMMA TwoNumbers ==
  /\ Fif(Tiff) \in Nat \ {0} /\ Fif(Raw) \in Nat \ {0} /\ Fif(Tiff) # Fif(Raw)
<1>1. DOMAIN Formats \subseteq Nat \ {0}
  BY PluginAssumption
<1>2. PICK i \in DOMAIN Formats, j \in DOMAIN Formats : Formats[i] = Tiff /\ Formats[j] = Raw
  BY PluginAssumption
<1>3. /\ Fif(Tiff) \in DOMAIN Formats /\ Formats[Fif(Tiff)] = Tiff
      /\ Fif(Raw) \in DOMAIN Formats /\ Formats[Fif(Raw)] = Raw
  BY <1>2 DEF Fif
<1>4. QED
  BY <1>1, <1>3, PluginAssumption

(* What DetectsByContent says of a detection that has just ended, by what  *)
(* it answers.                                                             *)
LEMMA EndsRight ==
  ASSUME scan'.at = 0, plugins' = plugins,
         \/ scan'.fif = 0 /\ PassedAll(FIFCount + 1)'
         \/ scan'.fif # 0 /\ ~scan'.tiff /\ scan'.fif # Fif(Tiff)
            /\ PassedAll(scan.fif)' /\ Accepted(scan.fif)'
         \/ scan'.fif # 0 /\ scan'.tiff /\ PassedAll(Fif(Tiff))' /\ Accepted(scan.fif)'
            /\ (scan'.fif = Fif(Tiff) /\ IsNode(Fif(Raw)) => Passed(Fif(Raw))')
  PROVE  DetectsByContent'
BY TwoNumbers DEF DetectsByContent, PassedAll, Passed, Accepted, IsNode, FIFCount

(* A plugin that was passed stays passed.                                  *)
LEMMA StaysPassed ==
  ASSUME plugins' = plugins, scan'.accepting = scan.accepting,
         scan.skipped \subseteq scan'.skipped
  PROVE  /\ \A n : PassedAll(n) => PassedAll(n)'
         /\ \A n : Accepted(n) => Accepted(n)'
BY DEF PassedAll, Passed, Accepted

(* A plugin that was asked and did not accept the content is passed.       *)
LEMMA AskedNext ==
  ASSUME ScanInv, TypeInv, NEW fif \in Nat, IsNode(fif), NEW plugin, plugin = plugins.nodes[fif],
         NEW skipped, skipped = IF plugin \in enabled THEN scan.skipped
                                                     ELSE scan.skipped \cup {plugin}
  PROVE  /\ skipped \in SUBSET Names /\ scan.skipped \subseteq skipped
         /\ ~Accepts(plugin) => (plugin \in scan.accepting => plugin \in skipped)
         /\ Accepts(plugin) => plugin \in scan.accepting /\ skipped = scan.skipped
<1>1. plugin \in Names
  BY DEF TypeInv, IsNode, FIFCount
<1>2. scan.skipped \in SUBSET Names /\ scan.at = 0
  BY DEF ScanInv, Scans
<1>3. QED
  BY <1>1, <1>2 DEF Accepts

(* What becomes of the record when a field is set.                          *)
LEMMA SetSkipped ==
  ASSUME NEW on, NEW fif, NEW tiff, NEW accepting, NEW at, NEW skipped, NEW m
  PROVE  [[on |-> on, fif |-> fif, tiff |-> tiff, accepting |-> accepting, at |-> at,
           skipped |-> skipped] EXCEPT !.skipped = m]
         = [on |-> on, fif |-> fif, tiff |-> tiff, accepting |-> accepting, at |-> at,
            skipped |-> m]
OBVIOUS

(* The same for the place in the file.                                     *)
LEMMA SetAt ==
  ASSUME NEW on, NEW fif, NEW tiff, NEW accepting, NEW at, NEW skipped, NEW a
  PROVE  [[on |-> on, fif |-> fif, tiff |-> tiff, accepting |-> accepting, at |-> at,
           skipped |-> skipped] EXCEPT !.at = a]
         = [on |-> on, fif |-> fif, tiff |-> tiff, accepting |-> accepting, at |-> a,
            skipped |-> skipped]
OBVIOUS

(* Validate: the loop asks one plugin, and goes on or ends.                *)
LEMMA ValidateScans ==
  ASSUME ScanInv, TypeInv, NEW moved, Validate(moved)
  PROVE  ScanInv'
<1>1. /\ scan.on /\ UNCHANGED <<plugins, guard>>
      /\ GoingOn /\ scan # NoScan /\ guard = "set"
  BY DEF Validate, listVars, ScanInv, NoScan
<1>2. PICK n, tiff, accepting, skipped :
        /\ scan = [on |-> TRUE, fif |-> n, tiff |-> tiff, accepting |-> accepting, at |-> 0,
                   skipped |-> skipped]
        /\ n \in Nat /\ tiff \in BOOLEAN /\ accepting \in SUBSET Names /\ skipped \in SUBSET Names
  BY <1>1 DEF ScanInv, Scans
<1>3. scan.fif = n /\ scan.tiff = tiff /\ scan.accepting = accepting /\ scan.skipped = skipped
      /\ scan.at = 0
  BY <1>2
<1> DEFINE fif == IF tiff THEN Fif(Raw) ELSE n
           plugin == plugins.nodes[fif]
           met == IF plugin \in enabled THEN skipped ELSE skipped \cup {plugin}
           asked == [on |-> TRUE, fif |-> n, tiff |-> tiff, accepting |-> accepting, at |-> 0,
                     skipped |-> met]
<1>4. [Asked(plugin) EXCEPT !.at = IF plugin \in enabled THEN PutBack(@, moved) ELSE @] = asked
  <2> HIDE DEF met, plugin
  <2>1. PICK o, a : o = TRUE /\ a = 0
    OBVIOUS
  <2>2. scan = [on |-> o, fif |-> n, tiff |-> tiff, accepting |-> accepting, at |-> a,
                skipped |-> skipped]
    BY <1>2, <2>1
  <2>3. Asked(plugin) = [on |-> o, fif |-> n, tiff |-> tiff, accepting |-> accepting, at |-> a,
                         skipped |-> met]
    <3>1. Asked(plugin) = [scan EXCEPT !.skipped = met]
      BY <1>3 DEF Asked, met
    <3>2. QED
      BY <2>2, <3>1, SetSkipped
  <2>4. [[on |-> o, fif |-> n, tiff |-> tiff, accepting |-> accepting, at |-> a, skipped |-> met]
           EXCEPT !.at = a]
        = [on |-> o, fif |-> n, tiff |-> tiff, accepting |-> accepting, at |-> a,
           skipped |-> met]
    BY SetAt
  <2>5. [Asked(plugin) EXCEPT !.at = IF plugin \in enabled THEN PutBack(@, moved) ELSE @]
        = [on |-> o, fif |-> n, tiff |-> tiff, accepting |-> accepting, at |-> a,
           skipped |-> met]
    BY <2>3, <2>4 DEF PutBack
  <2>6. QED
    BY <2>1, <2>5
<1>5. fif \in Nat /\ fif > 0 /\ n > 0
  BY <1>1, <1>2, <1>3, TwoNumbers DEF GoingOn
<1>6. scan' =
        IF ~IsNode(fif) THEN Ended(IF tiff THEN n ELSE 0, scan)
        ELSE IF Accepts(plugin)
          THEN IF fif = Fif(Tiff) /\ ~tiff THEN [asked EXCEPT !.tiff = TRUE]
               ELSE Ended(fif, asked)
        ELSE IF tiff THEN Ended(n, asked)
        ELSE [asked EXCEPT !.fif = @ + 1]
  <2> HIDE DEF asked, met
  <2>1. fif = IF scan.tiff THEN Fif(Raw) ELSE scan.fif
    BY <1>3
  <2> HIDE DEF fif
  <2>2. plugins.nodes[IF scan.tiff THEN Fif(Raw) ELSE scan.fif] = plugin
    BY <2>1
  <2> HIDE DEF plugin
  <2>3. QED
    BY <1>3, <1>4, <2>1, <2>2 DEF Validate
<1>7. IsNode(fif) =>
         /\ met \in SUBSET Names /\ skipped \subseteq met
         /\ ~Accepts(plugin) => (plugin \in accepting => plugin \in met)
         /\ Accepts(plugin) => plugin \in accepting /\ met = skipped
  BY <1>3, <1>5, AskedNext
<1>8. /\ asked.on = TRUE /\ asked.fif = n /\ asked.tiff = tiff
      /\ asked.accepting = accepting /\ asked.at = 0 /\ asked.skipped = met
  OBVIOUS
<1>9. PassedAll(n) /\ (tiff => n = Fif(Tiff) /\ Accepted(n))
  BY <1>1, <1>3 DEF GoingOn
<1>10. ASSUME NEW on \in BOOLEAN, NEW k \in Nat, NEW t \in BOOLEAN,
              NEW m \in SUBSET Names, skipped \subseteq m,
              scan' = [on |-> on, fif |-> k, tiff |-> t, accepting |-> accepting, at |-> 0,
                       skipped |-> m]
       PROVE  /\ scan' \in Scans /\ (scan' # NoScan => guard' = "set")
              /\ scan'.on = on /\ scan'.fif = k /\ scan'.tiff = t /\ scan'.at = 0
              /\ scan'.accepting = accepting /\ scan'.skipped = m
              /\ PassedAll(n)' /\ (tiff => Accepted(n)')
  <2>1. /\ scan'.on = on /\ scan'.fif = k /\ scan'.tiff = t /\ scan'.at = 0
        /\ scan'.accepting = accepting /\ scan'.skipped = m
    BY <1>10
  <2>2. PassedAll(n)' /\ (tiff => Accepted(n)')
    BY <1>1, <1>3, <1>9, <1>10, <2>1, StaysPassed
  <2>3. scan' \in Scans
    BY <1>2, <1>10 DEF Scans
  <2>4. QED
    BY <1>1, <2>1, <2>2, <2>3
<1> HIDE DEF asked, met, plugin
<1>11. CASE ~IsNode(fif)
  <2>1. scan' = [on |-> FALSE, fif |-> IF tiff THEN n ELSE 0, tiff |-> tiff,
                 accepting |-> accepting, at |-> 0, skipped |-> skipped]
    BY <1>2, <1>6, <1>11 DEF Ended
  <2>2. /\ scan' \in Scans /\ (scan' # NoScan => guard' = "set")
        /\ ~scan'.on /\ scan'.fif = (IF tiff THEN n ELSE 0) /\ scan'.tiff = tiff /\ scan'.at = 0
        /\ PassedAll(n)' /\ (tiff => Accepted(n)')
    BY <1>2, <1>10, <2>1
  <2>3. CASE tiff
    BY <1>1, <1>5, <1>9, <1>11, <2>2, <2>3, EndsRight DEF ScanInv
  <2>4. CASE ~tiff
    <3>1. n > FIFCount
      BY <1>2, <1>5, <1>11, <2>4 DEF IsNode, FIFCount
    <3>2. PassedAll(FIFCount + 1)'
      BY <1>1, <1>2, <2>2, <3>1 DEF PassedAll, FIFCount
    <3>3. QED
      BY <1>1, <2>2, <2>4, <3>2, EndsRight DEF ScanInv
  <2>5. QED
    BY <1>2, <2>3, <2>4
<1>12. CASE IsNode(fif) /\ Accepts(plugin) /\ fif = Fif(Tiff) /\ ~tiff
  <2>1. scan' = [on |-> TRUE, fif |-> n, tiff |-> TRUE, accepting |-> accepting, at |-> 0,
                 skipped |-> met]
    BY <1>6, <1>12 DEF asked
  <2>2. /\ scan' \in Scans /\ (scan' # NoScan => guard' = "set")
        /\ scan'.on /\ scan'.fif = n /\ scan'.tiff /\ scan'.accepting = accepting
        /\ PassedAll(n)'
    BY <1>2, <1>7, <1>10, <1>12, <2>1
  <2>3. Accepted(n)'
    BY <1>1, <1>7, <1>12, <2>2 DEF Accepted, plugin
  <2>4. GoingOn' /\ DetectsByContent'
    BY <1>5, <1>12, <2>2, <2>3 DEF GoingOn, DetectsByContent
  <2>5. QED
    BY <2>2, <2>4 DEF ScanInv
<1>13. CASE IsNode(fif) /\ Accepts(plugin) /\ ~(fif = Fif(Tiff) /\ ~tiff)
  <2>1. scan' = [on |-> FALSE, fif |-> fif, tiff |-> tiff, accepting |-> accepting, at |-> 0,
                 skipped |-> met]
    BY <1>6, <1>13 DEF asked, Ended
  <2>2. /\ scan' \in Scans /\ (scan' # NoScan => guard' = "set")
        /\ ~scan'.on /\ scan'.fif = fif /\ scan'.tiff = tiff /\ scan'.at = 0
        /\ scan'.accepting = accepting /\ PassedAll(n)'
    BY <1>2, <1>5, <1>7, <1>10, <1>13, <2>1
  <2>3. Accepted(scan.fif)'
    BY <1>1, <1>7, <1>13, <2>2 DEF Accepted, plugin
  <2>4. fif # Fif(Tiff)
    BY <1>13, TwoNumbers
  <2>5. IF tiff THEN PassedAll(Fif(Tiff))' ELSE PassedAll(scan.fif)'
    BY <1>9, <2>2
  <2>6. DetectsByContent'
    BY <1>1, <1>5, <2>2, <2>3, <2>4, <2>5, EndsRight
  <2>7. QED
    BY <2>2, <2>6 DEF ScanInv
<1>14. CASE IsNode(fif) /\ ~Accepts(plugin) /\ tiff
  <2>1. scan' = [on |-> FALSE, fif |-> n, tiff |-> tiff, accepting |-> accepting, at |-> 0,
                 skipped |-> met]
    BY <1>6, <1>14 DEF asked, Ended
  <2>2. /\ scan' \in Scans /\ (scan' # NoScan => guard' = "set")
        /\ ~scan'.on /\ scan'.fif = n /\ scan'.tiff /\ scan'.at = 0
        /\ scan'.accepting = accepting /\ scan'.skipped = met
        /\ PassedAll(n)' /\ Accepted(n)'
    BY <1>2, <1>7, <1>10, <1>14, <2>1
  <2>3. Passed(Fif(Raw))'
    BY <1>1, <1>7, <1>14, <2>2 DEF Passed, plugin
  <2>4. DetectsByContent'
    BY <1>1, <1>5, <1>9, <1>14, <2>2, <2>3, EndsRight
  <2>5. QED
    BY <2>2, <2>4 DEF ScanInv
<1>15. CASE IsNode(fif) /\ ~Accepts(plugin) /\ ~tiff
  <2>1. scan' = [on |-> TRUE, fif |-> n + 1, tiff |-> tiff, accepting |-> accepting, at |-> 0,
                 skipped |-> met]
    BY <1>6, <1>15 DEF asked
  <2>0. n + 1 \in Nat
    BY <1>2
  <2>2. /\ scan' \in Scans /\ (scan' # NoScan => guard' = "set")
        /\ scan'.on /\ scan'.fif = n + 1 /\ ~scan'.tiff
        /\ scan'.accepting = accepting /\ scan'.skipped = met /\ PassedAll(n)'
    BY <1>2, <1>7, <1>10, <1>15, <2>0, <2>1
  <2>3. Passed(n)'
    BY <1>1, <1>7, <1>15, <2>2 DEF Passed, plugin
  <2>4. PassedAll(scan.fif)'
    BY <1>2, <2>2, <2>3 DEF PassedAll
  <2>5. GoingOn' /\ DetectsByContent'
    BY <1>2, <2>2, <2>4 DEF GoingOn, DetectsByContent
  <2>6. QED
    BY <2>2, <2>5 DEF ScanInv
<1>16. QED
  BY <1>11, <1>12, <1>13, <1>14, <1>15

-----------------------------------------------------------------------------
(* Without a detection there is nothing to say.                            *)
LEMMA NoScanIsRight ==
  /\ scan = NoScan => ScanInv
  /\ scan' = NoScan => ScanInv'
<1>1. NoScan \in Scans /\ NoScan.on = FALSE
  BY DEF NoScan, Scans
<1> QED
  BY <1>1 DEF ScanInv, DetectsByContent

(* Steps that touch neither the list nor the detection change nothing.     *)
LEMMA ScanUntouched ==
  ASSUME ScanInv, UNCHANGED <<plugins, guard, scan>>
  PROVE  ScanInv'
BY DEF ScanInv, GoingOn, PassedAll, Passed, Accepted, DetectsByContent, FIFCount, IsNode

(* Nobody detects a format while somebody is inside FreeImage_Initialise.  *)
LEMMA NoScanMeanwhile ==
  ASSUME IInv, ScanInv, NEW u \in Users, Active(u)
  PROVE  scan = NoScan
BY DEF IInv, OneAtATime, Users, ScanInv

(* FreeImage_GetFileType opens a file: the loop begins with plugin 1.      *)
LEMMA StartScans ==
  ASSUME IInv, ScanInv, NEW t \in Threads, StartScan(t)
  PROVE  ScanInv'
<1>1. guard' = "set"
  BY DEF StartScan, Returned, listVars, IInv, OneAtATime
<1>2. PICK accepting \in SUBSET Names :
        scan' = [NoScan EXCEPT !.on = TRUE, !.fif = 1, !.accepting = accepting]
  BY DEF StartScan, Names
<1>3. scan' = [on |-> TRUE, fif |-> 1, tiff |-> FALSE, accepting |-> accepting, at |-> 0,
               skipped |-> {}]
  BY <1>2 DEF NoScan
<1>4. scan'.on /\ scan'.fif = 1 /\ ~scan'.tiff
  BY <1>3
<1>5. scan' \in Scans
  BY <1>3 DEF Scans
<1>6. GoingOn' /\ DetectsByContent'
  BY <1>4 DEF GoingOn, PassedAll, DetectsByContent
<1> QED
  BY <1>1, <1>5, <1>6 DEF ScanInv

(* No step of the threads, the loader and the streams spoils a detection.  *)
THEOREM NextScans == IInv /\ ScanInv /\ [Next]_vars => ScanInv'
<1> SUFFICES ASSUME IInv, ScanInv, [Next]_vars PROVE ScanInv'
  OBVIOUS
<1>1. CASE ListStep
  <2>1. ASSUME NEW t \in Threads, EnterInitializer(t) PROVE ScanInv'
    <3>1. guard = "unset" /\ scan' = scan
      BY <2>1 DEF EnterInitializer, MayEnter
    <3>2. scan = NoScan
      BY <3>1 DEF ScanInv
    <3> QED
      BY <3>1, <3>2, NoScanIsRight
  <2>2. ASSUME NEW t \in Threads, PassInitializer(t) PROVE ScanInv'
    BY <2>2, ScanUntouched DEF PassInitializer
  <2>3. ASSUME NEW t \in Threads, StartScan(t) PROVE ScanInv'
    BY <2>3, StartScans
  <2>4. ASSUME NEW u \in Users, ReadCount(u) \/ WriteCount(u) \/ AddNode(u) PROVE ScanInv'
    <3>1. Active(u) /\ scan' = scan
      BY <2>4 DEF ReadCount, WriteCount, AddNode, Active
    <3> QED
      BY <3>1, NoScanMeanwhile, NoScanIsRight
  <2>5. ASSUME NEW t \in Threads, NEW fif \in DOMAIN Formats, NEW enable \in BOOLEAN,
               SetPluginEnabled(t, fif, enable)
        PROVE  ScanInv'
    BY <2>5, ScanUntouched DEF SetPluginEnabled
  <2>6. ASSUME NEW moved \in {0, 1}, Validate(moved) PROVE ScanInv'
    BY <2>6, ValidateScans DEF IInv
  <2>7. CASE CloseFile
    BY <2>7, NoScanIsRight DEF CloseFile
  <2> QED
    BY <1>1, <2>1, <2>2, <2>3, <2>4, <2>5, <2>6, <2>7 DEF ListStep
<1>2. CASE AtExit
  <2>1. scan' = scan /\ (guard = "set" => scan = NoScan)
    BY <1>2 DEF AtExit, DestroyInitializer, DestroyLibrary, DeInitialise
  <2> QED
    BY <2>1, NoScanIsRight DEF ScanInv
<1>3. CASE UNCHANGED <<listVars, scan>>
  BY <1>3, ScanUntouched DEF listVars
<1>4. ASSUME NEW t \in Threads, NEW fif \in DOMAIN Formats, NEW what \in {"load", "save"},
             Begin(t, fif, what)
      PROVE  UNCHANGED <<listVars, scan>>
  BY <1>4 DEF Begin
<1>5. ASSUME NEW label \in Labels, NEW size \in Sizes, NEW count \in Counts,
             Request(label, size, count)
      PROVE  UNCHANGED <<listVars, scan>>
  BY <1>5 DEF Request
<1>6. MovesOn \/ Works \/ End \/ UsersTurn => UNCHANGED <<listVars, scan>>
  BY DEF MovesOn, Works, End, UsersTurn
<1>7. UNCHANGED vars => UNCHANGED <<listVars, scan>>
  BY DEF vars
<1> QED
  BY <1>1, <1>2, <1>3, <1>4, <1>5, <1>6, <1>7 DEF Next, ListWorks

(* The format that is found is that of the first enabled plugin that       *)
(* accepts the content from its start, RAW before TIFF, whatever the other *)
(* threads switch off meanwhile and however far each plugin has read.      *)
THEOREM FormatIsByContent == Spec => []DetectsByContent
<1>1. Init => IInv /\ ScanInv
  BY InitInvariant, NoScanIsRight DEF Init, InitList
<1>2. IInv /\ ScanInv /\ [Next]_vars => (IInv /\ ScanInv)'
  BY NextInvariant, NextScans
<1>3. IInv /\ ScanInv => DetectsByContent
  BY DEF ScanInv
<1> QED
  BY <1>1, <1>2, <1>3, PTL DEF Spec

-----------------------------------------------------------------------------
(* The requests of a plugin to a stream.                                   *)
ByteValues == {Hole} \cup ((Labels \cup {"file", Hole}) \X Int)
Calls == [proc : {"none", "read", "write"}, label : Labels \cup {Hole}, size : Nat,
          count : Nat, moved : Seq(ByteValues), part : Nat, items : Nat,
          from : Nat, before : Seq(ByteValues)]

StreamType ==
  /\ bytes \in Seq(ByteValues) /\ Len(bytes) <= MaxLength
  /\ position \in 0..MaxLength
  /\ failed \in BOOLEAN
  /\ call \in Calls
  /\ Busy => call.count > 0
  /\ op \in {"none", "load", "save"}
  /\ short \in {"none", "last", "earlier"}
  /\ trusts \in BOOLEAN

(* What ReadProc and WriteProc have moved when they look at the stream:    *)
(* whole items, until it fails.                                            *)
ReadSoFar ==
  IF call.size = 1
    THEN call.part = Len(call.moved) /\ call.part <= call.count /\ call.items = 0
    ELSE /\ Len(call.moved) = call.items * call.size + call.part
         /\ call.items <= call.count
         /\ call.items = call.count => call.part = 0
         /\ call.part <= call.size
         /\ IF failed THEN call.size > 0 => call.part < call.size
                      ELSE call.part \in {0, call.size}
WrittenSoFar ==
  /\ call.items <= call.count /\ call.part = 0 /\ call.size > 0
  /\ Len(call.moved) <= call.items * call.size
  /\ call.items * call.size <= Len(call.moved) + call.size
  /\ ~failed => Len(call.moved) = call.items * call.size

(* A stream that came short once stays failed until the plugin is through, *)
(* and moves nothing more for it.                                          *)
FailsForGood ==
  /\ Busy => op # "none"
  /\ op = "none" => short = "none"
  /\ short # "none" => failed /\ (Busy => call.items = 0 /\ call.part = 0)

SInv ==
  /\ StreamType
  /\ call.proc = "read" => ReadSoFar
  /\ call.proc = "write" => WrittenSoFar
  /\ FailsForGood
  /\ LossOnlyAtTheEnd

-----------------------------------------------------------------------------
(* One item more, in bytes.                                                *)
LEMMA OneMore ==
  ASSUME NEW items \in Nat, NEW size \in Nat
  PROVE  /\ (items + 1) * size = items * size + size
         /\ items * size \in Nat /\ items * size = size * items
  OBVIOUS

(* The values of the parts of a request, spelled out.                      *)
LEMMA CallFields ==
  ASSUME SInv
  PROVE  /\ call = [proc |-> call.proc, label |-> call.label, size |-> call.size,
                    count |-> call.count, moved |-> call.moved, part |-> call.part,
                    items |-> call.items, from |-> call.from, before |-> call.before]
         /\ call.proc \in {"none", "read", "write"} /\ call.label \in Labels \cup {Hole}
         /\ call.size \in Nat /\ call.count \in Nat /\ call.part \in Nat
         /\ call.items \in Nat /\ call.from \in Nat
         /\ call.moved \in Seq(ByteValues) /\ call.before \in Seq(ByteValues)
         /\ Len(call.moved) \in Nat /\ position \in Nat /\ Len(bytes) \in Nat
  BY StreamAssumption DEF SInv, StreamType, Calls

(* No request at all is one of the values too.                             *)
LEMMA IdleIsCall == Idle \in Calls /\ Idle.proc = "none"
  BY DEF Idle, Calls, Nothing

-----------------------------------------------------------------------------
(* A piece of a sequence.                                                  *)
LEMMA Slice ==
  ASSUME NEW S, NEW s \in Seq(S), NEW i \in Nat, NEW n \in Nat, n = 0 \/ i + n <= Len(s)
  PROVE  /\ SubSeq(s, i + 1, i + n) \in Seq(S)
         /\ Len(SubSeq(s, i + 1, i + n)) = n
         /\ \A k \in 1..n : SubSeq(s, i + 1, i + n)[k] = s[i + k]
<1> DEFINE first == i + 1
           last == i + n
<1>1. first \in Int /\ last \in Int /\ \A k \in first..last : s[k] \in S
  OBVIOUS
<1>2. last - first + 1 = n /\ (IF first <= last THEN last - first + 1 ELSE 0) = n
      /\ \A k \in 1..n : first + k - 1 = i + k
  OBVIOUS
<1> HIDE DEF first, last
<1>3. /\ SubSeq(s, first, last) \in Seq(S)
      /\ Len(SubSeq(s, first, last)) = IF first <= last THEN last - first + 1 ELSE 0
      /\ \A k \in 1..last - first + 1 : SubSeq(s, first, last)[k] = s[first + k - 1]
  BY <1>1, SubSeqProperties
<1> QED
  BY <1>2, <1>3 DEF first, last

(* What was read from a place on, and is read on from where it ended.      *)
IsPiece(m, s, from) == \A k \in 1..Len(m) : m[k] = s[from + k]
(* Two pieces that follow each other are one.                              *)
LEMMA ReadsOn ==
  ASSUME NEW S, NEW s \in Seq(S), NEW m \in Seq(S), NEW more \in Seq(S), NEW from \in Nat,
         IsPiece(m, s, from), IsPiece(more, s, from + Len(m))
  PROVE  IsPiece(m \o more, s, from)
<1> DEFINE p == from + Len(m)
           n == Len(more)
<1>1. p \in Nat /\ Len(m) \in Nat /\ n \in Nat
  OBVIOUS
<1>2. \A k \in 1..n : more[k] = s[p + k]
  BY DEF IsPiece
<1>3. /\ Len(m \o more) = Len(m) + n
      /\ \A k \in 1..Len(m) + n :
           (m \o more)[k] = IF k <= Len(m) THEN m[k] ELSE more[k - Len(m)]
  BY ConcatProperties
<1>4. ASSUME NEW k \in 1..Len(m) + n PROVE (m \o more)[k] = s[from + k]
  <2>1. CASE k <= Len(m)
    BY <1>1, <1>3, <2>1 DEF IsPiece
  <2>2. CASE ~(k <= Len(m))
    <3>1. k - Len(m) \in 1..n /\ p + (k - Len(m)) = from + k
      BY <1>1, <2>2
    <3>2. (m \o more)[k] = more[k - Len(m)]
      BY <1>3, <2>2
    <3> QED
      BY <1>2, <3>1, <3>2
  <2> QED
    BY <2>1, <2>2
<1> QED
  BY <1>3, <1>4 DEF IsPiece

(* What istream::read takes: no more than there is, and less than it was   *)
(* asked for only when the stream fails.                                   *)
LEMMA Taken ==
  ASSUME SInv, NEW n \in Nat, Take(n)
  PROVE  \E tot \in Nat :
           /\ (tot = n /\ ~failed') \/ (tot < n /\ failed')
           /\ failed' \in BOOLEAN
           /\ position' = position + tot /\ position' \in 0..MaxLength
           /\ bytes' = bytes
           /\ call'.proc = call.proc /\ call'.size = call.size /\ call'.count = call.count
           /\ call'.items = call.items /\ call'.part = call.part + tot
           /\ call' \in Calls
           /\ Len(call'.moved) = Len(call.moved) + tot
           /\ call'.moved = call.moved \o SubSeq(bytes, position + 1, position + tot)
           /\ call'.before = call.before /\ call'.from = call.from
           /\ tot = 0 \/ position + tot <= Len(bytes)
<1> DEFINE tot == Smaller(n, Available)
           more == SubSeq(bytes, position + 1, position + tot)
<1>1. /\ failed' = (tot < n) /\ position' = position + tot /\ bytes' = bytes
      /\ call' = [call EXCEPT !.moved = @ \o more, !.part = @ + tot]
  BY DEF Take
<1>2. tot \in Nat /\ tot <= n /\ (tot = 0 \/ position + tot <= Len(bytes))
  BY CallFields DEF Smaller, Larger, Available
<1>3. position' \in 0..MaxLength
  BY <1>1, <1>2, CallFields, StreamAssumption DEF SInv, StreamType
<1> HIDE DEF tot
<1>4. more \in Seq(ByteValues) /\ Len(more) = tot
  <2>1. bytes \in Seq(ByteValues) /\ position \in Nat
    BY CallFields DEF SInv, StreamType
  <2> QED
    BY <1>2, <2>1, Slice
<1> HIDE DEF more
<1>5. /\ call.moved \o more \in Seq(ByteValues)
      /\ Len(call.moved \o more) = Len(call.moved) + tot
  BY <1>4, CallFields, ConcatProperties
<1> DEFINE all == call.moved \o more
<1> HIDE DEF all
<1>6. call' = [proc |-> call.proc, label |-> call.label, size |-> call.size,
               count |-> call.count, moved |-> all, part |-> call.part + tot,
               items |-> call.items, from |-> call.from, before |-> call.before]
  BY <1>1, CallFields DEF all
<1>7. call' \in Calls
  BY <1>2, <1>5, <1>6, CallFields, SMTT(30) DEF Calls, all
<1>8. (tot = n /\ ~failed') \/ (tot < n /\ failed')
  <2>1. CASE tot < n
    BY <1>1, <1>2, <2>1
  <2>2. CASE ~(tot < n)
    <3>1. (tot < n) = FALSE
      BY <2>2
    <3>2. ~failed'
      BY <1>1, <3>1
    <3> QED
      BY <1>2, <2>2, <3>2
  <2> QED
    BY <2>1, <2>2
<1>9. /\ call'.moved = call.moved \o SubSeq(bytes, position + 1, position + tot)
      /\ call'.before = call.before /\ call'.from = call.from
      /\ Len(call'.moved) = Len(call.moved) + tot
      /\ call'.proc = call.proc /\ call'.size = call.size /\ call'.count = call.count
      /\ call'.items = call.items /\ call'.part = call.part + tot
  BY <1>5, <1>6 DEF all, more
<1>10. failed' \in BOOLEAN /\ (tot = 0 \/ position + tot <= Len(bytes))
       /\ position' = position + tot /\ bytes' = bytes
  BY <1>1, <1>2
<1> tot \in Nat
  BY <1>2
<1> WITNESS tot \in Nat
<1> QED
  BY <1>3, <1>7, <1>8, <1>9, <1>10

(* A step inside a request keeps to itself: nothing is noted of it.        *)
LEMMA InsideKeeps ==
  ASSUME SInv, Busy, Note, call' \in Calls, call'.proc = call.proc,
         call'.count = call.count,
         bytes' \in Seq(ByteValues), Len(bytes') <= MaxLength,
         position' \in 0..MaxLength, failed' \in BOOLEAN,
         short # "none" => failed' /\ call'.items = 0 /\ call'.part = 0
  PROVE  /\ StreamType' /\ FailsForGood' /\ LossOnlyAtTheEnd'
         /\ UNCHANGED opVars
<1>1. UNCHANGED opVars
  BY DEF Note, Busy
<1>2. StreamType'
  BY <1>1 DEF SInv, StreamType, Busy, opVars
<1> QED
  BY <1>1, <1>2 DEF SInv, FailsForGood, Busy, LossOnlyAtTheEnd, opVars

(* istream::read for items of one byte, and for one other item.            *)
LEMMA ReadTakes ==
  ASSUME SInv, call.proc = "read", ~failed, Note,
         NEW n \in Nat, Take(n),
         \/ call.size = 1 /\ n = call.count - call.part
         \/ /\ call.size # 1 /\ n = call.size /\ call.items # call.count
            /\ call.part < call.size \/ (call.size = 0 /\ short = "none")
  PROVE  SInv' /\ call'.proc = call.proc
<1>1. PICK tot \in Nat :
        /\ (tot = n /\ ~failed') \/ (tot < n /\ failed')
        /\ failed' \in BOOLEAN
        /\ position' \in 0..MaxLength /\ bytes' = bytes
        /\ call'.proc = call.proc /\ call'.size = call.size /\ call'.count = call.count
        /\ call'.items = call.items /\ call'.part = call.part + tot
        /\ call' \in Calls
        /\ Len(call'.moved) = Len(call.moved) + tot
  BY Taken
<1>3. short = "none"
  BY DEF SInv, FailsForGood
<1>4. StreamType' /\ FailsForGood' /\ LossOnlyAtTheEnd'
  BY <1>1, <1>3, InsideKeeps DEF Busy, SInv, StreamType
<1>5. ReadSoFar'
  <2>1. CASE call.size = 1
    BY <1>1, <2>1, CallFields DEF SInv, ReadSoFar
  <2>2. CASE call.size # 1
    <3> DEFINE whole == call.items * call.size
    <3>1. whole \in Nat
      BY OneMore, CallFields
    <3>2. n = call.size /\ call.items # call.count /\ call.part = 0
      BY <2>2, CallFields DEF SInv, ReadSoFar
    <3>3. Len(call.moved) = whole /\ call.items <= call.count
      BY <2>2, <3>1, <3>2, CallFields DEF SInv, ReadSoFar
    <3>4. call'.items * call'.size = whole
      BY <1>1
    <3> HIDE DEF whole
    <3>5. Len(call'.moved) = call'.items * call'.size + call'.part
      BY <1>1, <3>1, <3>2, <3>3, <3>4, CallFields
    <3>6. IF failed' THEN call'.part < call'.size ELSE call'.part = call'.size
      BY <1>1, <3>2, CallFields
    <3>7. call'.size # 1 /\ call'.part <= call'.size
      BY <1>1, <2>2, <3>2, CallFields
    <3>8. call'.items <= call'.count /\ call'.items # call'.count
      BY <1>1, <3>2, <3>3
    <3> QED
      BY <3>5, <3>6, <3>7, <3>8 DEF ReadSoFar
  <2> QED
    BY <2>1, <2>2
<1> QED
  BY <1>1, <1>4, <1>5 DEF SInv

(* An item that is complete is counted.                                    *)
LEMMA CountItemKeeps ==
  ASSUME SInv, call.proc = "read", call.size > 1, call.part >= call.size, CountItem, Note
  PROVE  SInv' /\ call'.proc = call.proc
<1>1. call' = [proc |-> call.proc, label |-> call.label, size |-> call.size,
               count |-> call.count, moved |-> call.moved, part |-> call.part - call.size,
               items |-> call.items + 1, from |-> call.from, before |-> call.before]
      /\ UNCHANGED <<bytes, position, failed>>
  BY CallFields DEF CountItem
<1>2. call' \in Calls
  BY <1>1, CallFields DEF Calls
<1>3. /\ Len(call.moved) = call.items * call.size + call.part
      /\ call.part = call.size /\ ~failed
      /\ call.items <= call.count /\ call.items # call.count
  BY CallFields DEF SInv, ReadSoFar, StreamType
<1>4. short = "none"
  BY <1>3 DEF SInv, FailsForGood
<1>5. StreamType' /\ FailsForGood' /\ LossOnlyAtTheEnd'
  BY <1>1, <1>2, <1>4, InsideKeeps DEF Busy, SInv, StreamType
<1>6. call'.items * call'.size = call.items * call.size + call.size
  BY <1>1, OneMore, CallFields
<1>7. ReadSoFar'
  <2> DEFINE whole == call.items * call.size
  <2>1. whole \in Nat
    BY OneMore, CallFields
  <2>2. Len(call.moved) = whole + call.size /\ call'.items * call'.size = whole + call.size
    BY <1>3, <1>6
  <2> HIDE DEF whole
  <2>3. call'.part = 0 /\ call'.size = call.size /\ call'.moved = call.moved
    BY <1>1, <1>3, CallFields
  <2>4. Len(call'.moved) = call'.items * call'.size + call'.part
    BY <2>1, <2>2, <2>3, CallFields
  <2>5. call'.items <= call'.count /\ failed' = failed
    BY <1>1, <1>3, CallFields
  <2> QED
    BY <1>3, <2>3, <2>4, <2>5, CallFields DEF ReadSoFar
<1> QED
  BY <1>1, <1>5, <1>7 DEF SInv

(* ostream::write: an item, or a part of one and the stream fails.         *)
LEMMA PutKeeps ==
  ASSUME SInv, call.proc = "write", GoesOn, Note,
         NEW n \in 0..call.size, n = 0 \/ position + n <= MaxLength, Put(n)
  PROVE  SInv' /\ call'.proc = call.proc
<1> DEFINE more == [k \in 1..n |-> Byte(call.label, Len(call.moved) + k)]
           all == call.moved \o more
<1>1. /\ ~failed /\ call.items < call.count /\ short = "none"
      /\ Len(call.moved) = call.items * call.size
  BY DEF GoesOn, SInv, FailsForGood, WrittenSoFar
<1>2. n \in Nat /\ n <= call.size
  BY CallFields
<1>3. more \in Seq(ByteValues) /\ Len(more) = n
  <2>1. \A k \in 1..n : Byte(call.label, Len(call.moved) + k) \in ByteValues
    BY <1>2, CallFields DEF Byte, ByteValues
  <2>2. more \in [1..n -> ByteValues]
    BY <2>1
  <2> HIDE DEF more
  <2> QED
    BY <1>2, <2>2
<1> HIDE DEF more
<1>4. all \in Seq(ByteValues) /\ Len(all) = Len(call.moved) + n
  BY <1>3, CallFields, ConcatProperties
<1>5. call' = [call EXCEPT !.items = @ + 1,
                 !.moved = @ \o [k \in 1..n |-> Byte(call.label, Len(@) + k)]]
  BY DEF Put
<1>6. call' = [proc |-> call.proc, label |-> call.label, size |-> call.size,
               count |-> call.count, moved |-> all, part |-> call.part,
               items |-> call.items + 1, from |-> call.from, before |-> call.before]
  BY <1>5, CallFields DEF more
<1> HIDE DEF all
<1>7. call' \in Calls
  BY <1>4, <1>6, CallFields DEF Calls
<1>8. bytes' \in Seq(ByteValues) /\ Len(bytes') <= MaxLength
  <2>1. CASE n = 0
    BY <2>1 DEF Put, SInv, StreamType
  <2>2. CASE n # 0
    <3> DEFINE longer == Larger(Len(bytes), position + n)
    <3>1. longer \in Nat /\ longer <= MaxLength
      BY <1>2, <2>2, CallFields DEF Larger, SInv, StreamType
    <3>2. Written(n) = [k \in 1..longer |->
            IF position < k /\ k <= position + n
              THEN Byte(call.label, Len(call.moved) + k - position)
            ELSE IF k <= Len(bytes) THEN bytes[k] ELSE Hole]
      BY DEF Written
    <3>3. \A k \in 1..longer : Byte(call.label, Len(call.moved) + k - position) \in ByteValues
      BY <3>1, CallFields, SMTT(30) DEF Byte, ByteValues
    <3>4. \A k \in 1..longer : k <= Len(bytes) => bytes[k] \in ByteValues
      BY <3>1, CallFields DEF SInv, StreamType
    <3> HIDE DEF longer
    <3>5. Written(n) \in [1..longer -> ByteValues]
      BY <3>2, <3>3, <3>4 DEF ByteValues
    <3>6. Written(n) \in Seq(ByteValues) /\ Len(Written(n)) = longer
      BY <3>1, <3>2, <3>5
    <3> QED
      BY <2>2, <3>1, <3>6 DEF Put
  <2> QED
    BY <2>1, <2>2
<1>9. position' \in 0..MaxLength
  BY <1>2, CallFields, StreamAssumption DEF Put, SInv, StreamType
<1>10. failed' = (n < call.size) /\ failed' \in BOOLEAN
  BY <1>1 DEF Put, SInv, StreamType
<1>11. StreamType' /\ FailsForGood' /\ LossOnlyAtTheEnd'
  BY <1>1, <1>6, <1>7, <1>8, <1>9, <1>10, InsideKeeps DEF Busy
<1>12. call'.items * call'.size = Len(call.moved) + call.size
  BY <1>1, <1>6, OneMore, CallFields
<1>13. WrittenSoFar'
  <2>1. call'.items <= call'.count /\ call'.part = 0 /\ call'.size > 0
    BY <1>1, <1>6, CallFields DEF SInv, WrittenSoFar
  <2>2. Len(call'.moved) = Len(call.moved) + n /\ call'.size = call.size
    BY <1>4, <1>6
  <2>3. ~failed' => n = call.size
    <3>1. CASE n < call.size
      BY <1>10, <3>1
    <3> QED
      BY <1>2, <3>1, CallFields
  <2> QED
    BY <1>2, <1>12, <2>1, <2>2, <2>3, CallFields, SMTT(30) DEF WrittenSoFar
<1> QED
  BY <1>6, <1>11, <1>13 DEF SInv

-----------------------------------------------------------------------------
(* What an answer of so many items is worth.                               *)
Spare(items) == items * call.size - Len(call.moved)
Worth(items) ==
  /\ call.size = 0 => items = call.items
  /\ call.size > 0 =>
    /\ ~failed => items = call.count /\ Len(call.moved) = call.size * call.count
    /\ Loses => failed
    /\ short # "none" => items # call.count
    /\ IF call.proc = "read" THEN Spare(items) \in 0..(call.size - 1)
                             ELSE Spare(items) \in 0..call.size

(* Each turn of the loops in ReadProc and WriteProc moves some bytes or    *)
(* answers, and an answer is worth what it should be: items of one byte,   *)
LEMMA ReadBytesAnswers ==
  ASSUME SInv, ReadBytes, Note
  PROVE  \/ SInv' /\ call'.proc # "none"
         \/ \E items \in Nat : Return(items) /\ Worth(items)
<1>1. call.proc = "read" /\ call.size = 1 /\ Busy /\ call.count > 0
  BY DEF ReadBytes, Busy, SInv, StreamType
<1>2. call.part = Len(call.moved) /\ call.part <= call.count
  BY <1>1 DEF SInv, ReadSoFar
<1>3. CASE ~failed /\ call.part < call.count
  <2>1. Take(call.count - call.part) /\ call.count - call.part \in Nat
    BY <1>2, <1>3, CallFields DEF ReadBytes
  <2> QED
    BY <1>1, <1>3, <2>1, ReadTakes
<1>4. CASE ~(~failed /\ call.part < call.count)
  <2>1. Return(call.part)
    BY <1>4 DEF ReadBytes
  <2>2. Loses => failed
    BY <1>1, <1>2, <1>4, CallFields DEF Loses
  <2>3. short # "none" => call.part # call.count
    BY <1>1, CallFields DEF SInv, FailsForGood
  <2>4. Spare(call.part) = 0
    BY <1>1, <1>2, CallFields DEF Spare
  <2>5. ~failed => call.part = call.count /\ Len(call.moved) = call.size * call.count
    BY <1>1, <1>2, <1>4, CallFields
  <2>6. Worth(call.part)
    BY <1>1, <2>2, <2>3, <2>4, <2>5 DEF Worth
  <2> QED
    BY <2>1, <2>6, CallFields
<1> QED
  BY <1>3, <1>4

(* other items,                                                            *)
LEMMA ReadItemsAnswers ==
  ASSUME SInv, ReadItems, Note
  PROVE  \/ SInv' /\ call'.proc # "none"
         \/ \E items \in Nat : Return(items) /\ Worth(items)
<1>1. call.proc = "read" /\ call.size # 1 /\ Busy /\ call.count > 0
  BY DEF ReadItems, Busy, SInv, StreamType
<1>2. /\ Len(call.moved) = call.items * call.size + call.part
      /\ call.items <= call.count
      /\ call.items = call.count => call.part = 0
      /\ failed /\ call.size > 0 => call.part < call.size
  BY <1>1 DEF SInv, ReadSoFar
<1> DEFINE whole == call.items * call.size
<1>3. whole \in Nat /\ Len(call.moved) = whole + call.part
  BY <1>2, OneMore, CallFields
<1>4. short # "none" => failed /\ call.items = 0 /\ call.part = 0
  BY <1>1 DEF SInv, FailsForGood
<1>5. CASE call.items = call.count
  <2>1. Return(call.items)
    BY <1>5 DEF ReadItems
  <2>2. Len(call.moved) = whole /\ whole = call.size * call.count
    BY <1>2, <1>3, <1>5, OneMore, CallFields
  <2>3. ~Loses
    BY <2>2, CallFields DEF Loses
  <2>4. Spare(call.items) = 0
    BY <1>3, <2>2 DEF Spare
  <2>5. Worth(call.items)
    BY <1>1, <1>4, <1>5, <2>2, <2>3, <2>4, CallFields DEF Worth
  <2> QED
    BY <2>1, <2>5, CallFields
<1>6. CASE call.items # call.count /\ call.size > 0 /\ call.part >= call.size
  <2>1. CountItem /\ call.size > 1
    BY <1>1, <1>6, CallFields DEF ReadItems
  <2> QED
    BY <1>1, <1>6, <2>1, CountItemKeeps
<1>7. CASE /\ call.items # call.count /\ ~(call.size > 0 /\ call.part >= call.size)
           /\ failed \/ NothingComes
  <2> DEFINE items == Items(call.items, call.part)
  <2>1. Return(items)
    BY <1>7 DEF ReadItems
  <2>2. items \in Nat /\ items = call.items + (IF call.part > 0 THEN 1 ELSE 0)
    BY CallFields DEF Items
  <2>3. ASSUME call.size > 0 PROVE Spare(items) \in 0..(call.size - 1)
    <3>1. items * call.size = whole + (IF call.part > 0 THEN call.size ELSE 0)
      BY <2>2, OneMore, CallFields, SMTT(30)
    <3> HIDE DEF whole, items
    <3> QED
      BY <1>3, <1>7, <2>3, <3>1, CallFields, SMTT(30) DEF Spare
  <2>4. call.size > 0 => failed
    BY <1>7 DEF NothingComes
  <2>5. short # "none" => items # call.count
    BY <1>1, <1>4, <2>2, CallFields
  <2>6. call.size = 0 => items = call.items
    BY <1>1, <2>2, CallFields DEF SInv, ReadSoFar
  <2>7. Worth(items)
    BY <1>1, <2>3, <2>4, <2>5, <2>6 DEF Worth
  <2> QED
    BY <2>1, <2>2, <2>7
<1>8. CASE /\ call.items # call.count /\ ~(call.size > 0 /\ call.part >= call.size)
           /\ ~(failed \/ NothingComes)
  <2>1. Take(call.size) /\ ~failed /\ call.part < call.size /\ call.size \in Nat
    BY <1>8, CallFields DEF ReadItems, NothingComes
  <2> QED
    BY <1>1, <1>8, <2>1, ReadTakes
<1> QED
  BY <1>5, <1>6, <1>7, <1>8

(* and writes.                                                             *)
LEMMA WriteItemsAnswers ==
  ASSUME SInv, WriteItems, Note
  PROVE  \/ SInv' /\ call'.proc # "none"
         \/ \E items \in Nat : Return(items) /\ Worth(items)
<1>1. call.proc = "write" /\ Busy /\ call.count > 0 /\ WrittenSoFar
  BY DEF WriteItems, Busy, SInv, StreamType
<1>2. CASE GoesOn
  <2>1. PICK n \in 0..call.size :
          (n = 0 \/ (~failed /\ position + n <= MaxLength)) /\ Put(n)
    BY <1>2 DEF WriteItems
  <2> QED
    BY <1>1, <1>2, <2>1, PutKeeps
<1>3. CASE ~GoesOn
  <2>1. Return(call.items)
    BY <1>3 DEF WriteItems
  <2> DEFINE whole == call.items * call.size
  <2>2. /\ whole \in Nat /\ Len(call.moved) <= whole /\ whole <= Len(call.moved) + call.size
        /\ ~failed => Len(call.moved) = whole
    BY <1>1, OneMore, CallFields DEF WrittenSoFar
  <2>3. ~failed => whole = call.size * call.count
    BY <1>1, <1>3, OneMore, CallFields DEF GoesOn, WrittenSoFar
  <2>4. Loses => failed
    <3> HIDE DEF whole
    <3> QED
      BY <2>2, <2>3, CallFields DEF Loses
  <2>5. short # "none" => call.items # call.count
    BY <1>1, CallFields DEF SInv, FailsForGood
  <2>6. Spare(call.items) \in 0..call.size
    <3>1. Spare(call.items) = whole - Len(call.moved)
      BY DEF Spare
    <3> HIDE DEF whole
    <3> QED
      BY <2>2, <3>1, CallFields
  <2>7. ~failed => call.items = call.count /\ Len(call.moved) = call.size * call.count
    BY <1>1, <1>3, <2>2, <2>3, CallFields DEF GoesOn, WrittenSoFar
  <2>8. Worth(call.items)
    BY <2>4, <2>5, <2>6, <2>7, <1>1 DEF Worth
  <2> QED
    BY <2>1, <2>8, CallFields
<1> QED
  BY <1>2, <1>3

(* With its answer a request is over, and its loss is noted.               *)
LEMMA ReturnKeeps ==
  ASSUME SInv, Busy, Note, NEW items \in Nat, Return(items), Worth(items)
  PROVE  SInv'
<1>1. /\ call' = Idle /\ answer'.items = items /\ ~Busy'
      /\ UNCHANGED <<bytes, position, failed>>
  BY IdleIsCall DEF Return, Reply, Busy
<1>2. CASE call.size = 0
  <2>1. UNCHANGED opVars
    BY <1>2 DEF Note
  <2>2. StreamType'
    BY <1>1, <2>1, IdleIsCall DEF SInv, StreamType, opVars
  <2> QED
    BY <1>1, <2>1, <2>2, IdleIsCall
       DEF SInv, FailsForGood, LossOnlyAtTheEnd, opVars
<1>3. CASE call.size # 0
  <2>1. /\ trusts' = (trusts /\ items = call.count)
        /\ short' = IF short # "none" THEN "earlier" ELSE IF Loses THEN "last" ELSE "none"
        /\ op' = op
    BY <1>1, <1>3, IdleIsCall DEF Note
  <2>2. call.size > 0
    BY <1>3, CallFields
  <2>3. /\ Loses => failed
        /\ short # "none" => items # call.count /\ failed
    BY <2>2 DEF Worth, SInv, FailsForGood
  <2>4. trusts' \in BOOLEAN /\ (short # "none" => ~trusts')
    <3>1. CASE items = call.count
      BY <2>1, <2>3, <3>1 DEF SInv, StreamType
    <3>2. CASE items # call.count
      <4>1. trusts' = FALSE
        BY <2>1, <3>2
      <4> QED
        BY <4>1
    <3> QED
      BY <3>1, <3>2
  <2>5. StreamType'
    BY <1>1, <2>1, <2>4, IdleIsCall DEF SInv, StreamType
  <2>6. FailsForGood'
    <3>1. op' # "none" /\ ~Busy'
      BY <1>1, <2>1 DEF SInv, FailsForGood
    <3>2. short' # "none" => failed'
      BY <1>1, <2>1, <2>3
    <3> QED
      BY <3>1, <3>2 DEF FailsForGood
  <2>7. LossOnlyAtTheEnd'
    BY <2>1, <2>4 DEF LossOnlyAtTheEnd
  <2> QED
    BY <1>1, <2>5, <2>6, <2>7, IdleIsCall DEF SInv
<1> QED
  BY <1>2, <1>3

(* Either way the invariant stays.                                         *)
LEMMA WorksAnswers ==
  ASSUME SInv, Works
  PROVE  \/ SInv' /\ call'.proc # "none"
         \/ Busy /\ SInv' /\ \E items \in Nat : Return(items) /\ Worth(items)
<1>1. Busy /\ Note
  BY DEF Works, Busy, ReadBytes, ReadItems, WriteItems
<1> QED
  BY <1>1, ReadBytesAnswers, ReadItemsAnswers, WriteItemsAnswers, ReturnKeeps DEF Works

-----------------------------------------------------------------------------
(* A request begins with nothing moved.                                    *)
LEMMA RequestKeeps ==
  ASSUME SInv, NEW label \in Labels, NEW size \in Sizes, NEW count \in Counts,
         Request(label, size, count)
  PROVE  SInv'
<1>1. size \in Nat /\ count \in Nat /\ count > 0
  BY StreamAssumption
<1>2. PICK proc \in {"read", "write"}, name \in Labels \cup {Hole} :
        /\ Start(proc, name, size, count) /\ op # "none"
        /\ proc = "write" => size > 0
  BY <1>1 DEF Request
<1>3. /\ call' = [proc |-> proc, label |-> name, size |-> size, count |-> count,
                  moved |-> << >>, part |-> 0, items |-> 0,
                  from |-> position, before |-> bytes]
      /\ UNCHANGED <<bytes, position, failed, opVars>>
  BY <1>2 DEF Start, Idle, Nothing, Request
<1>4. call' \in Calls
  BY <1>1, <1>3, CallFields DEF Calls, SInv, StreamType
<1>5. StreamType'
  BY <1>1, <1>3, <1>4 DEF SInv, StreamType, opVars
<1>6. 0 * size = 0
  BY <1>1
<1>7. call'.proc = "read" => ReadSoFar'
  BY <1>1, <1>3, <1>6 DEF ReadSoFar
<1>8. call'.proc = "write" => WrittenSoFar'
  BY <1>1, <1>2, <1>3, <1>6 DEF WrittenSoFar
<1>9. FailsForGood' /\ LossOnlyAtTheEnd'
  BY <1>2, <1>3 DEF SInv, FailsForGood, LossOnlyAtTheEnd, opVars
<1> QED
  BY <1>5, <1>7, <1>8, <1>9 DEF SInv

(* Between two requests the stream is told and sought, which never makes a *)
(* failed one good again; after the load or save its user may.             *)
LEMMA QuietKeeps ==
  ASSUME SInv, call' = call, UNCHANGED bytes,
         position' \in 0..MaxLength, failed' \in BOOLEAN,
         \/ op # "none" /\ UNCHANGED opVars /\ (failed => failed')
         \/ op = "none" /\ UNCHANGED opVars
         \/ /\ op' \in {"none", "load", "save"} /\ ~Busy
            /\ short' = "none" /\ trusts' = TRUE,
         Busy => failed' = failed
  PROVE  SInv'
<1>1. StreamType'
  BY DEF SInv, StreamType, Busy, opVars
<1>2. FailsForGood'
  BY DEF SInv, FailsForGood, Busy, opVars
<1>3. LossOnlyAtTheEnd'
  BY DEF SInv, LossOnlyAtTheEnd, opVars
<1>4. CASE Busy
  BY <1>1, <1>2, <1>3, <1>4 DEF SInv, ReadSoFar, WrittenSoFar
<1>5. CASE ~Busy
  BY <1>1, <1>2, <1>3, <1>5 DEF SInv, Busy
<1> QED
  BY <1>4, <1>5

(* A step that is not one of a request in progress.                        *)
LEMMA OthersKeep ==
  ASSUME SInv, [Next]_vars, ~Works
  PROVE  SInv' /\ ~(Busy /\ call'.proc = "none")
<1>1. UNCHANGED <<streamVars, opVars>> => SInv' /\ call' = call
  <2> SUFFICES ASSUME UNCHANGED <<streamVars, opVars>> PROVE SInv' /\ call' = call
    OBVIOUS
  <2> QED
    BY QuietKeeps DEF SInv, StreamType, streamVars
<1>2. ASSUME NEW t \in Threads, NEW fif \in DOMAIN Formats, NEW what \in {"load", "save"},
             Begin(t, fif, what)
      PROVE  SInv' /\ call' = call
  <2>1. /\ op = "none" /\ op' = what /\ trusts' = TRUE /\ short' = "none"
        /\ UNCHANGED streamVars
    BY <1>2 DEF Begin
  <2>2. ~Busy
    BY <2>1 DEF SInv, FailsForGood
  <2> QED
    BY <2>1, <2>2, QuietKeeps DEF SInv, StreamType, streamVars
<1>3. CASE End
  BY <1>3, QuietKeeps DEF End, SInv, StreamType, streamVars
<1>4. ASSUME NEW label \in Labels, NEW size \in Sizes, NEW count \in Counts,
             Request(label, size, count)
      PROVE  SInv' /\ ~Busy
  BY <1>4, RequestKeeps DEF Request, Start
<1>5. CASE MovesOn
  <2>1. op # "none" /\ UNCHANGED opVars /\ ~Busy /\ UNCHANGED <<bytes, call>>
    BY <1>5 DEF MovesOn, Tell, Seek
  <2>2. position' \in 0..MaxLength /\ failed' \in BOOLEAN /\ (failed => failed')
    <3>1. CASE Tell
      BY <3>1 DEF Tell, SInv, StreamType
    <3>2. ASSUME NEW base \in Bases, NEW offset \in Offsets, Seek(base + offset)
          PROVE  position' \in 0..MaxLength /\ failed' \in BOOLEAN /\ (failed => failed')
      <4>1. base + offset \in Int
        BY CallFields, StreamAssumption DEF Bases
      <4>2. /\ position' = IF failed \/ ~MayBe(base + offset) THEN position ELSE base + offset
            /\ failed' = (failed \/ ~MayBe(base + offset)) /\ base + offset <= MaxLength
        BY <3>2 DEF Seek
      <4>3. MayBe(base + offset) => base + offset >= 0
        BY DEF MayBe
      <4> QED
        BY <4>1, <4>2, <4>3, StreamAssumption DEF SInv, StreamType
    <3> QED
      BY <1>5, <3>1, <3>2 DEF MovesOn
  <2> QED
    BY <2>1, <2>2, QuietKeeps
<1>6. CASE UsersTurn
  <2>1. PICK target \in 0..MaxLength : Clear(target)
    BY <1>6 DEF UsersTurn
  <2>2. op = "none" /\ UNCHANGED opVars /\ ~Busy /\ UNCHANGED <<bytes, call>>
        /\ position' \in 0..MaxLength /\ failed' \in BOOLEAN
    BY <1>6, <2>1 DEF UsersTurn, Clear
  <2> QED
    BY <2>2, QuietKeeps
<1>7. CASE UNCHANGED vars
  BY <1>1, <1>7 DEF vars, Busy
<1> QED
  BY <1>1, <1>2, <1>3, <1>4, <1>5, <1>6, <1>7
     DEF Next, ListWorks, Busy

(* A stream begins with no request, and nothing is missing.                *)
THEOREM InitStreamInvariant == Init => SInv
<1> SUFFICES ASSUME Init PROVE SInv
  OBVIOUS
<1>1. PICK n \in 0..MaxLength : bytes = [k \in 1..n |-> Byte("file", k)]
  BY DEF Init, InitStream
<1>2. n \in Nat /\ n <= MaxLength
  BY StreamAssumption
<1>3. bytes \in [1..n -> ByteValues]
  BY <1>1 DEF Byte, ByteValues
<1>4. bytes \in Seq(ByteValues) /\ Len(bytes) = n
  BY <1>1, <1>2, <1>3
<1>5. /\ position = 0 /\ failed = FALSE /\ call = Idle
      /\ op = "none" /\ trusts = TRUE /\ short = "none"
  BY DEF Init, InitStream
<1>6. ~Busy
  BY <1>5, IdleIsCall DEF Busy
<1>7. StreamType
  <2>1. position \in 0..MaxLength
    BY <1>5, StreamAssumption
  <2>2. call \in Calls /\ failed \in BOOLEAN /\ trusts \in BOOLEAN
    BY <1>5, IdleIsCall
  <2> QED
    BY <1>2, <1>4, <1>5, <1>6, <2>1, <2>2 DEF StreamType
<1>8. FailsForGood /\ LossOnlyAtTheEnd
  BY <1>5, <1>6 DEF FailsForGood, LossOnlyAtTheEnd
<1> QED
  BY <1>6, <1>7, <1>8 DEF SInv, Busy

(* Every step keeps what the answers of a stream rest on.                  *)
THEOREM NextStreamInvariant == SInv /\ [Next]_vars => SInv'
  BY WorksAnswers, OthersKeep

(* The variables keep the values they may have: the list of plugins has at *)
(* most its two users, and no stream grows over the room it has.           *)
THEOREM TypeCorrectness == Spec => []TypeOK
<1>1. IInv /\ SInv => TypeOK
  <2> SUFFICES ASSUME IInv, SInv PROVE TypeOK
    OBVIOUS
  <2>1. refs \in 0..2
    BY DEF IInv, RefsCounted
  <2>2. plugins.nodes \in Seq({Formats[i] : i \in DOMAIN Formats})
    BY DEF IInv, TypeInv, Names
  <2> QED
    BY <2>1, <2>2 DEF IInv, TypeInv, SInv, StreamType, TypeOK
<1> QED
  BY <1>1, InitInvariant, NextInvariant, InitStreamInvariant, NextStreamInvariant, PTL DEF Spec

(* However requests, tells and seeks follow each other, bytes that a load  *)
(* or save has lost before its last request have been seen to be missing.  *)
THEOREM LossIsNoticed == Spec => []LossOnlyAtTheEnd
<1>1. SInv => LossOnlyAtTheEnd
  BY DEF SInv
<1> QED
  BY <1>1, InitStreamInvariant, NextStreamInvariant, PTL DEF Spec

(* An answer to a read overstates what came by less than one item, one to  *)
(* a write by one item at most, for items of any size.                     *)
THEOREM AnswersAreClose == Spec => OverstatesOneItem
<1> DEFINE Close == Busy /\ call'.proc = "none" /\ call.size > 0 =>
                      LET spare == answer'.items * call.size - Len(call.moved)
                      IN IF call.proc = "read" THEN spare \in 0..(call.size - 1)
                                               ELSE spare \in 0..call.size
<1>1. SInv /\ [Next]_vars => [Close]_vars
  <2> SUFFICES ASSUME SInv, [Next]_vars, Busy, call'.proc = "none", call.size > 0
               PROVE  LET spare == answer'.items * call.size - Len(call.moved)
                      IN IF call.proc = "read" THEN spare \in 0..(call.size - 1)
                                               ELSE spare \in 0..call.size
    OBVIOUS
  <2>1. Works
    BY OthersKeep
  <2>2. PICK items \in Nat : Return(items) /\ Worth(items)
    BY <2>1, WorksAnswers
  <2>3. answer'.items = items
    BY <2>2 DEF Return, Reply
  <2> QED
    BY <2>2, <2>3 DEF Worth, Spare
<1> QED
  BY <1>1, InitStreamInvariant, NextStreamInvariant, PTL DEF Spec, OverstatesOneItem

-----------------------------------------------------------------------------
(* A request in progress has moved the bytes from its start up to where    *)
(* the stream is now.                                                      *)
Overwritten ==
  [k \in 1..Larger(Len(call.before), position) |->
     IF call.from < k /\ k <= position THEN Byte(call.label, k - call.from)
     ELSE IF k <= Len(call.before) THEN call.before[k] ELSE Hole]
Moving ==
  /\ Busy => call.size \in Sizes /\ call.count \in Counts
  /\ call.proc = "read" =>
       /\ bytes = call.before /\ position = call.from + Len(call.moved)
       /\ Len(call.moved) > 0 => position <= Len(bytes)
       /\ IsPiece(call.moved, bytes, call.from)
       /\ call.size = 0 => call.moved = << >> /\ call.items = 0
  /\ call.proc = "write" =>
       /\ call.label \in Labels
       /\ ~failed => /\ position = call.from + Len(call.moved)
                     /\ bytes = IF Len(call.moved) = 0 THEN call.before ELSE Overwritten
FInv == SInv /\ Moving

(* istream::read goes on where the last one stopped.                       *)
LEMMA TakeMoves ==
  ASSUME FInv, call.proc = "read", call.size # 0, NEW n \in Nat, Take(n)
  PROVE  Moving'
<1>1. PICK tot \in Nat :
        /\ position' = position + tot /\ bytes' = bytes
        /\ call'.proc = call.proc /\ call'.size = call.size /\ call'.count = call.count
        /\ Len(call'.moved) = Len(call.moved) + tot
        /\ call'.moved = call.moved \o SubSeq(bytes, position + 1, position + tot)
        /\ call'.before = call.before /\ call'.from = call.from
        /\ tot = 0 \/ position + tot <= Len(bytes)
  BY Taken DEF FInv
<1>2. /\ bytes = call.before /\ position = call.from + Len(call.moved)
      /\ Len(call.moved) > 0 => position <= Len(bytes)
      /\ IsPiece(call.moved, bytes, call.from)
      /\ call.size \in Sizes /\ call.count \in Counts
  BY DEF FInv, Moving, Busy
<1>3. SInv /\ Len(call.moved) \in Nat /\ position \in Nat /\ Len(bytes) \in Nat
      /\ call.from \in Nat /\ call.moved \in Seq(ByteValues)
  BY CallFields DEF FInv
<1>4. bytes \in Seq(ByteValues)
  BY <1>3 DEF SInv, StreamType
<1>5. IsPiece(call'.moved, bytes, call.from)
  <2> DEFINE more == SubSeq(bytes, position + 1, position + tot)
  <2>1. /\ more \in Seq(ByteValues) /\ Len(more) = tot
        /\ \A k \in 1..tot : more[k] = bytes[position + k]
    BY <1>1, <1>3, <1>4, Slice
  <2> HIDE DEF more
  <2>2. IsPiece(more, bytes, call.from + Len(call.moved))
    BY <1>2, <2>1 DEF IsPiece
  <2>3. IsPiece(call.moved \o more, bytes, call.from)
    BY <1>2, <1>3, <1>4, <2>1, <2>2, ReadsOn
  <2> QED
    BY <1>1, <2>3 DEF more
<1>6. tot = 0 => position' = position
  BY <1>1, <1>3
<1>7. position' = call'.from + Len(call'.moved) /\ (Len(call'.moved) > 0 => position' <= Len(bytes'))
  <2>1. position' = call'.from + Len(call'.moved)
    BY <1>1, <1>2, <1>3
  <2>2. CASE tot = 0
    BY <1>1, <1>2, <1>3, <1>6, <2>1, <2>2
  <2>3. CASE tot # 0
    BY <1>1, <2>1, <2>3
  <2> QED
    BY <2>1, <2>2, <2>3
<1> QED
  BY <1>1, <1>2, <1>5, <1>7 DEF Moving

(* ostream::write goes on where the last one stopped.                      *)
LEMMA PutMoves ==
  ASSUME FInv, call.proc = "write", GoesOn, NEW n \in 0..call.size, Put(n)
  PROVE  Moving'
<1>1. SInv /\ ~failed /\ call.size \in Nat /\ call.size > 0
  BY CallFields DEF GoesOn, FInv, SInv, WrittenSoFar
<1>2. /\ position \in Nat /\ Len(call.moved) \in Nat /\ Len(bytes) \in Nat
      /\ call.from \in Nat /\ Len(call.before) \in Nat
  BY <1>1, CallFields
<1>3. /\ call.label \in Labels /\ position = call.from + Len(call.moved)
      /\ bytes = IF Len(call.moved) = 0 THEN call.before ELSE Overwritten
      /\ call.size \in Sizes /\ call.count \in Counts
  BY <1>1 DEF FInv, Moving, Busy
<1> DEFINE more == [k \in 1..n |-> Byte(call.label, Len(call.moved) + k)]
<1>4. /\ call'.proc = "write" /\ call'.label = call.label
      /\ call'.size = call.size /\ call'.count = call.count
      /\ call'.moved = call.moved \o more
      /\ call'.before = call.before /\ call'.from = call.from
      /\ position' = position + n
      /\ failed' = (failed \/ n < call.size)
      /\ bytes' = IF n = 0 THEN bytes ELSE Written(n)
  BY <1>1, CallFields DEF Put
<1>5. CASE failed'
  BY <1>3, <1>4, <1>5 DEF Moving
<1>6. CASE ~failed'
  <2>1. n = call.size
    <3>1. CASE n < call.size
      BY <1>4, <1>6, <3>1
    <3> QED
      BY <1>1, <3>1
  <2>2. Len(call'.moved) = Len(call.moved) + n
    <3>1. more \in [1..n -> (Labels \X Int)]
      BY <1>2, <1>3 DEF Byte
    <3> HIDE DEF more
    <3>2. Len(more) = n /\ more \in Seq(Labels \X Int)
      BY <1>1, <2>1, <3>1
    <3>3. Labels \X Int \subseteq ByteValues
      BY DEF ByteValues
    <3>4. more \in Seq(ByteValues) /\ call.moved \in Seq(ByteValues)
      BY <1>1, <3>2, <3>3, CallFields
    <3>5. Len(call.moved \o more) = Len(call.moved) + Len(more)
      BY <3>4, ConcatProperties
    <3> QED
      BY <1>4, <3>2, <3>5
  <2>3. position' = call'.from + Len(call'.moved) /\ Len(call'.moved) # 0
    <3>1. call'.from = call.from /\ position' = position + n /\ n \in Nat \ {0}
      BY <1>1, <1>4, <2>1
    <3>2. position = call.from + Len(call.moved)
      BY <1>3
    <3> QED
      BY <1>2, <2>2, <3>1, <3>2, SMTT(30)
  <2>4. bytes' = Overwritten'
    <3>1. bytes' = [k \in 1..Larger(Len(bytes), position + n) |->
             IF position < k /\ k <= position + n
               THEN Byte(call.label, Len(call.moved) + k - position)
             ELSE IF k <= Len(bytes) THEN bytes[k] ELSE Hole]
      BY <1>1, <1>4, <2>1 DEF Written
    <3>2. Overwritten' = [k \in 1..Larger(Len(call.before), position + n) |->
             IF call.from < k /\ k <= position + n THEN Byte(call.label, k - call.from)
             ELSE IF k <= Len(call.before) THEN call.before[k] ELSE Hole]
      BY <1>4 DEF Overwritten
    <3>3. Larger(Len(bytes), position + n) = Larger(Len(call.before), position + n)
      <4>1. CASE Len(call.moved) = 0
        BY <1>3, <4>1
      <4>2. CASE Len(call.moved) # 0
        <5>1. Len(bytes) = Larger(Len(call.before), position)
          BY <1>2, <1>3, <4>2 DEF Overwritten, Larger
        <5> QED
          BY <1>1, <1>2, <2>1, <5>1 DEF Larger
      <4> QED
        BY <4>1, <4>2
    <3>4. ASSUME NEW k \in 1..Larger(Len(bytes), position + n)
          PROVE  (IF position < k /\ k <= position + n
                    THEN Byte(call.label, Len(call.moved) + k - position)
                  ELSE IF k <= Len(bytes) THEN bytes[k] ELSE Hole)
                 = (IF call.from < k /\ k <= position + n THEN Byte(call.label, k - call.from)
                    ELSE IF k <= Len(call.before) THEN call.before[k] ELSE Hole)
      <4>1. k \in Nat \ {0} /\ Len(call.moved) + k - position = k - call.from
        BY <1>2, <1>3, <2>1 DEF Larger
      <4>2. CASE Len(call.moved) = 0
        BY <1>2, <1>3, <4>1, <4>2
      <4>3. CASE Len(call.moved) # 0
        <5>1. Len(bytes) = Larger(Len(call.before), position)
          BY <1>2, <1>3, <4>3 DEF Overwritten, Larger
        <5>2. k <= Len(bytes) => bytes[k] =
                IF call.from < k /\ k <= position THEN Byte(call.label, k - call.from)
                ELSE IF k <= Len(call.before) THEN call.before[k] ELSE Hole
          BY <1>2, <1>3, <4>1, <4>3, <5>1 DEF Overwritten
        <5>3. CASE position < k /\ k <= position + n
          BY <1>1, <1>2, <1>3, <2>1, <4>1, <5>3
        <5>4. CASE k <= position
          <6>1. k <= Len(bytes) /\ k <= position + n /\ ~(position < k)
            BY <1>1, <1>2, <2>1, <4>1, <5>1, <5>4 DEF Larger
          <6> QED
            BY <1>1, <5>2, <5>4, <6>1
        <5>5. CASE k > position + n
          <6>1. /\ ~(k <= position) /\ position < k /\ ~(k <= position + n)
                /\ k <= Len(call.before) /\ k <= Len(bytes)
            BY <1>1, <1>2, <2>1, <4>1, <5>1, <5>5 DEF Larger
          <6> QED
            BY <5>2, <6>1
        <5> QED
          BY <1>1, <1>2, <2>1, <4>1, <5>3, <5>4, <5>5
      <4> QED
        BY <4>2, <4>3
    <3> QED
      BY <3>1, <3>2, <3>3, <3>4
  <2> QED
    BY <1>3, <1>4, <2>3, <2>4 DEF Moving
<1> QED
  BY <1>5, <1>6

(* So does counting an item; an answer ends it.                            *)
LEMMA WorksMoves ==
  ASSUME FInv, Works
  PROVE  /\ Moving'
         /\ call'.proc # "none" =>
              UNCHANGED answer /\ call'.before = call.before /\ call'.from = call.from
<1>1. SInv /\ Busy
  BY DEF FInv, Works, Busy, ReadBytes, ReadItems, WriteItems
<1>2. ASSUME NEW items, Return(items) PROVE Moving' /\ call'.proc = "none"
  BY <1>2, IdleIsCall DEF Return, Moving, Busy
<1>3. ASSUME NEW n \in Nat, Take(n), call.proc = "read", call.size # 0
      PROVE  Moving' /\ UNCHANGED answer /\ call'.before = call.before /\ call'.from = call.from
  <2>1. call'.before = call.before /\ call'.from = call.from
    BY <1>1, <1>3, Taken
  <2> QED
    BY <1>3, <2>1, TakeMoves DEF Take
<1>4. CASE ReadBytes
  <2>1. call.count - call.part \in Nat \/ ~(call.part < call.count)
    BY <1>1, CallFields
  <2>2. call.proc = "read" /\ call.size # 0
    BY <1>4 DEF ReadBytes
  <2> QED
    BY <1>2, <1>3, <1>4, <2>1, <2>2 DEF ReadBytes
<1>5. CASE ReadItems
  <2>1. call.proc = "read" /\ call.size \in Nat
    BY <1>1, <1>5, CallFields DEF ReadItems
  <2>2. CASE CountItem /\ call.size > 0
    <3>1. call' = [proc |-> call.proc, label |-> call.label, size |-> call.size,
                   count |-> call.count, moved |-> call.moved, part |-> call.part - call.size,
                   items |-> call.items + 1, from |-> call.from, before |-> call.before]
          /\ UNCHANGED <<bytes, position, failed, answer>>
      BY <1>1, <2>2, CallFields DEF CountItem
    <3>2. Moving'
      BY <2>1, <2>2, <3>1 DEF FInv, Moving, Busy
    <3> QED
      BY <3>1, <3>2
  <2>3. \/ \E items \in {call.items, Items(call.items, call.part)} : Return(items)
        \/ CountItem /\ call.size > 0
        \/ Take(call.size) /\ call.size # 0
    BY <1>5 DEF ReadItems, NothingComes
  <2> QED
    BY <1>2, <1>3, <2>1, <2>2, <2>3
<1>6. CASE WriteItems
  <2>1. CASE GoesOn
    <3>1. PICK n \in 0..call.size : Put(n)
      BY <1>6, <2>1 DEF WriteItems
    <3>2. UNCHANGED answer /\ call'.before = call.before /\ call'.from = call.from
      BY <1>1, <3>1, CallFields DEF Put
    <3> QED
      BY <1>6, <2>1, <3>1, <3>2, PutMoves DEF WriteItems
  <2>2. CASE ~GoesOn
    BY <1>2, <1>6, <2>2 DEF WriteItems
  <2> QED
    BY <2>1, <2>2
<1> QED
  BY <1>4, <1>5, <1>6 DEF Works

(* Steps that are not of a request leave one that is in progress alone, or *)
(* begin one.                                                              *)
LEMMA OthersMove ==
  ASSUME FInv, [Next]_vars, ~Works
  PROVE  Moving'
<1>1. CASE Busy /\ UNCHANGED streamVars
  BY <1>1 DEF FInv, Moving, streamVars, Overwritten, Busy
<1>2. CASE ~Busy /\ call' = call
  BY <1>2 DEF Moving, Busy
<1>3. ASSUME NEW label \in Labels, NEW size \in Sizes, NEW count \in Counts,
             Request(label, size, count)
      PROVE  Moving'
  <2>1. PICK proc \in {"read", "write"}, name \in Labels \cup {Hole} :
          /\ Start(proc, name, size, count)
          /\ proc = "write" => name \in Labels
    BY <1>3 DEF Request
  <2>2. /\ call' = [proc |-> proc, label |-> name, size |-> size, count |-> count,
                    moved |-> << >>, part |-> 0, items |-> 0,
                    from |-> position, before |-> bytes]
        /\ UNCHANGED <<bytes, position>>
    BY <2>1 DEF Start, Idle, Nothing
  <2>3. Len(<< >>) = 0 /\ position \in Nat
    BY CallFields DEF FInv
  <2> QED
    BY <2>1, <2>2, <2>3 DEF Moving, IsPiece, Busy
<1>4. MovesOn \/ UsersTurn => ~Busy /\ call' = call
  BY DEF MovesOn, UsersTurn, Tell, Seek, Clear
<1>5. ASSUME NEW t \in Threads, NEW fif \in DOMAIN Formats, NEW what \in {"load", "save"},
             Begin(t, fif, what)
      PROVE  UNCHANGED streamVars
  BY <1>5 DEF Begin
<1>6. UNCHANGED vars \/ End => UNCHANGED streamVars
  BY DEF vars, End
<1>7. UNCHANGED streamVars => Moving'
  BY <1>1, <1>2 DEF streamVars
<1> QED
  BY <1>2, <1>3, <1>4, <1>5, <1>6, <1>7 DEF Next, ListWorks

-----------------------------------------------------------------------------
(* What is there for all items is enough for that many.                    *)
LEMMA AllItemsThere ==
  \A a, c \in Nat, s \in Nat \ {0} : s * c <= a => c <= a \div s
<1> SUFFICES ASSUME NEW a \in Nat, NEW c \in Nat, NEW s \in Nat \ {0}, s * c <= a
             PROVE  c <= a \div s
  OBVIOUS
<1>1. PICK q \in Nat : q = a \div s
  OBVIOUS
<1>2. a < s * (q + 1)
  BY <1>1
<1>3. ASSUME q + 1 <= c PROVE FALSE
  <2>1. s * (q + 1) <= s * c
    BY <1>3
  <2> QED
    BY <1>2, <2>1
<1> QED
  BY <1>1, <1>3

(* Until the stream fails, the answer to a request is the one a file gives *)
(* at once.                                                                *)
LEMMA ReadRefines ==
  ASSUME FInv, call.proc = "read", call.size > 0, ~failed,
         NEW items \in Nat, Return(items), Worth(items)
  PROVE  File!Next
<1> DEFINE size == call.size
           count == call.count
           n == count * size
<1>1. size \in Sizes \ {0} /\ count \in Counts /\ size \in Nat \ {0} /\ count \in Nat \ {0}
  <2>1. size \in Sizes /\ count \in Counts
    BY DEF FInv, Moving, Busy
  <2>2. size \in Nat /\ count \in Nat \ {0}
    BY <2>1, StreamAssumption
  <2> QED
    BY <2>1, <2>2
<1>2. n \in Nat /\ n > 0 /\ n = size * count
  BY <1>1
<1>3. items = count /\ Len(call.moved) = n
  BY <1>2 DEF Worth
<1>4. /\ bytes = call.before /\ position = call.from + n /\ position <= Len(bytes)
      /\ IsPiece(call.moved, bytes, call.from)
  BY <1>2, <1>3 DEF FInv, Moving
<1>5. call.from \in Nat /\ Len(bytes) \in Nat /\ call.moved \in Seq(ByteValues)
  BY CallFields DEF FInv
<1>6. call.moved = [k \in 1..n |-> call.before[call.from + k]]
  <2>1. DOMAIN call.moved = 1..n /\ call.moved = [k \in DOMAIN call.moved |-> call.moved[k]]
    BY <1>3, <1>5
  <2>2. \A k \in 1..n : call.moved[k] = call.before[call.from + k]
    BY <1>3, <1>4 DEF IsPiece
  <2> HIDE DEF n
  <2> QED
    BY <2>1, <2>2
<1> DEFINE available == Len(call.before) - call.from
<1> HIDE DEF n
<1>7. /\ available \in Nat /\ size * count <= available
      /\ File!Larger(available, 0) = available
  BY <1>2, <1>4, <1>5 DEF File!Larger
<1>8. File!Smaller(count, available \div size) = count
  <2>1. count <= available \div size /\ available \div size \in Nat
    BY <1>1, <1>7, AllItemsThere
  <2> QED
    BY <1>1, <2>1 DEF File!Smaller
<1>9. /\ call' = Idle /\ ~Busy' /\ UNCHANGED <<bytes, position, failed>>
      /\ answer' = File!Reply(count, [k \in 1..n |-> call.before[call.from + k]])
  BY <1>3, <1>6, IdleIsCall DEF Return, Busy, Reply, File!Reply
<1>10. Busy
  BY DEF Busy
<1>11. File!Read(size, count)
  BY <1>4, <1>7, <1>8, <1>9, <1>10 DEF File!Read, n
<1> QED
  BY <1>1, <1>11 DEF File!Next

(* The same for a write,                                                   *)
LEMMA WriteRefines ==
  ASSUME FInv, call.proc = "write", ~failed, NEW items \in Nat, Return(items), Worth(items)
  PROVE  File!Next
<1> DEFINE size == call.size
           count == call.count
           n == size * count
<1>1. /\ size \in Sizes \ {0} /\ count \in Counts /\ size \in Nat \ {0} /\ count \in Nat \ {0}
      /\ call.label \in Labels
  <2>1. size \in Sizes /\ count \in Counts /\ call.label \in Labels
    BY DEF FInv, Moving, Busy
  <2>2. size \in Nat /\ count \in Nat \ {0}
    BY <2>1, StreamAssumption
  <2>3. size > 0
    BY DEF FInv, SInv, WrittenSoFar
  <2> QED
    BY <2>1, <2>2, <2>3
<1>2. n \in Nat /\ n > 0
  BY <1>1
<1>3. items = count /\ Len(call.moved) = n
  BY <1>1 DEF Worth
<1>4. bytes = Overwritten /\ position = call.from + n
  BY <1>2, <1>3 DEF FInv, Moving
<1> HIDE DEF n
<1>5. /\ call' = Idle /\ ~Busy' /\ UNCHANGED <<bytes, position, failed>>
      /\ answer' = File!Reply(count, File!Nothing)
  BY <1>3, IdleIsCall DEF Return, Busy, Reply, File!Reply, Nothing, File!Nothing
<1>6. Busy
  BY DEF Busy
<1>7. bytes' = [k \in 1..File!Larger(Len(call.before), call.from + n) |->
           IF call.from < k /\ k <= call.from + n THEN File!Byte(call.label, k - call.from)
           ELSE IF k <= Len(call.before) THEN call.before[k]
           ELSE Hole]
  BY <1>4, <1>5 DEF Overwritten, File!Larger, Larger, File!Byte, Byte
<1>8. File!Write(call.label, size, count)
  BY <1>4, <1>5, <1>6, <1>7 DEF File!Write, n
<1> QED
  BY <1>1, <1>8 DEF File!Next

(* for items of no size, of which none is read,                            *)
LEMMA EmptyReadRefines ==
  ASSUME FInv, call.proc = "read", call.size = 0, NEW items \in Nat, Return(items), Worth(items)
  PROVE  File!Next
<1>1. items = 0 /\ call.moved = << >> /\ bytes = call.before /\ position = call.from + 0
  BY DEF Worth, FInv, Moving
<1>2. position = call.from
  BY <1>1, CallFields DEF FInv
<1>3. /\ call' = Idle /\ ~Busy' /\ Busy /\ UNCHANGED <<bytes, position>>
      /\ answer' = File!Reply(0, File!Nothing)
  BY <1>1, IdleIsCall DEF Return, Busy, Reply, File!Reply, File!Nothing
<1>4. File!WriteFails
  BY <1>1, <1>2, <1>3 DEF File!WriteFails
<1> QED
  BY <1>4 DEF File!Next

(* and for the calls that tell and seek.                                   *)
LEMMA MovesOnRefines ==
  ASSUME FInv, MovesOn, ~failed, ~failed'
  PROVE  File!Next
<1>1. ~Busy /\ ~Busy' /\ UNCHANGED bytes
  BY DEF MovesOn, Tell, Seek, Busy
<1>2. CASE Tell
  <2>1. answer' = File!Reply(position, File!Nothing) /\ UNCHANGED position
    BY <1>2 DEF Tell, Reply, Nothing, File!Reply, File!Nothing
  <2>2. File!Tell
    BY <1>1, <2>1 DEF File!Tell
  <2> QED
    BY <2>2 DEF File!Next
<1>3. ASSUME NEW base \in Bases, NEW offset \in Offsets, Seek(base + offset)
      PROVE  File!Next
  <2>1. MayBe(base + offset)
    BY <1>3 DEF Seek
  <2>2. /\ base + offset >= 0 /\ position' = base + offset
        /\ answer' = File!Reply(0, File!Nothing)
    BY <1>3, <2>1 DEF Seek, MayBe, Reply, Nothing, File!Reply, File!Nothing
  <2>3. base \in File!Bases
    BY <1>1 DEF Bases, File!Bases
  <2>4. File!Seek(base + offset)
    BY <1>1, <2>2 DEF File!Seek
  <2> QED
    BY <2>3, <2>4 DEF File!Next
<1> QED
  BY <1>2, <1>3 DEF MovesOn

(* All other steps leave the file as it is.                                *)
LEMMA StepRefines ==
  ASSUME FInv, [Next]_vars, op # "none", ~failed, ~failed'
  PROVE  [File!Next]_(File!byteVars)
<1>1. CASE Works
  <2>1. SInv /\ Busy
    BY <1>1 DEF FInv, Works, Busy, ReadBytes, ReadItems, WriteItems
  <2>2. CASE call'.proc # "none"
    <3>1. Busy' /\ UNCHANGED answer /\ call'.before = call.before /\ call'.from = call.from
      BY <1>1, <2>2, WorksMoves DEF Busy
    <3> QED
      BY <2>1, <3>1 DEF File!byteVars
  <2>3. CASE call'.proc = "none"
    <3>1. PICK items \in Nat : Return(items) /\ Worth(items)
      BY <1>1, <2>1, <2>3, WorksAnswers
    <3>2. call.proc \in {"read", "write"} /\ call.size \in Nat
      BY <2>1, CallFields DEF Busy
    <3> QED
      BY <3>1, <3>2, ReadRefines, WriteRefines, EmptyReadRefines
  <2> QED
    BY <2>2, <2>3
<1>2. CASE MovesOn
  BY <1>2, MovesOnRefines
<1>3. ASSUME NEW label \in Labels, NEW size \in Sizes, NEW count \in Counts,
             Request(label, size, count)
      PROVE  UNCHANGED File!byteVars
  <2>1. ~Busy /\ Busy' /\ call'.before = bytes /\ call'.from = position /\ UNCHANGED answer
    BY <1>3 DEF Request, Start, Busy, Idle
  <2> QED
    BY <2>1 DEF File!byteVars
<1>4. UNCHANGED streamVars => UNCHANGED File!byteVars
  BY DEF streamVars, File!byteVars, Busy
<1>5. UNCHANGED vars \/ End => UNCHANGED streamVars
  BY DEF vars, End
<1>6. ASSUME NEW t \in Threads, NEW fif \in DOMAIN Formats, NEW what \in {"load", "save"}
      PROVE  ~Begin(t, fif, what)
  BY DEF Begin
<1>7. ~UsersTurn
  BY DEF UsersTurn
<1> QED
  BY <1>1, <1>2, <1>3, <1>4, <1>5, <1>6, <1>7 DEF Next, ListWorks

(* Until it fails, a stream that a plugin reads and writes through the     *)
(* wrapper is a file, with requests for any number of items of any size:   *)
(* each answer is that of one fread or fwrite, and between two of them     *)
(* nothing is seen of the loop over the items.                             *)
THEOREM StreamIsFile == Spec => LikeAFile
<1>1. Init => FInv
  BY InitStreamInvariant, IdleIsCall DEF FInv, Moving, Busy, Init, InitStream
<1>2. FInv /\ [Next]_vars => FInv'
  BY NextStreamInvariant, WorksMoves, OthersMove DEF FInv
<1>3. FInv /\ [Next]_vars
        => [op # "none" /\ ~failed /\ ~failed' => File!Next]_(File!byteVars)
  BY StepRefines
<1> QED
  BY <1>1, <1>2, <1>3, PTL DEF Spec, LikeAFile
=============================================================================
