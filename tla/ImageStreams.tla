---------------------------- MODULE ImageStreams ----------------------------
(***************************************************************************)
(* Threads that use the wrapper (image/image.cpp): each constructs Images, *)
(* and one at a time loads from or saves to a stream that the program      *)
(* keeps, or detects the format of a file.  Composes PluginList and        *)
(* StreamIO.                                                               *)
(*                                                                         *)
(* A load or a save is the work of a plugin, which may make any requests   *)
(* it likes, look at an answer or not, and stop when it likes.             *)
(***************************************************************************)
EXTENDS PluginList, StreamIO

VARIABLES
  work,     \* bound: the program has to do with streams or with files, for
            \* detection and streams have nothing in common but the list
  op,       \* what the plugin is doing: nothing, a load or a save
  trusts,   \* every request of this load or save was answered in full
  short     \* in which request of it bytes went missing: none, last, earlier

opVars == <<work, op, trusts, short>>
vars == <<listVars, scan, streamVars, opVars>>

Init ==
  /\ InitList /\ InitStream
  /\ work \in {"streams", "files"} /\ (work = "files" => Len(bytes) = 0 /\ onFile)
  /\ op = "none" /\ trusts = TRUE /\ short = "none"

(* FreeImage_LoadFromHandle and SaveToHandle call the plugin of a number,  *)
(* enabled or not; without one the wrapper throws and nothing has changed. *)
(* Bound: what a plugin does to a stream depends neither on the plugins    *)
(* that are missing nor on those disabled, so it is explored with all.     *)
Explored == plugins.nodes = Formats /\ enabled = {Formats[i] : i \in DOMAIN Formats}
Begin(t, fif, what) ==
  /\ Returned(t) /\ op = "none" /\ work = "streams"
  /\ IsNode(fif) /\ Explored
  /\ op' = what /\ trusts' = TRUE /\ short' = "none"
  /\ UNCHANGED <<work, listVars, scan, streamVars>>

End ==
  /\ op # "none" /\ ~Busy
  /\ op' = "none" /\ trusts' = TRUE /\ short' = "none"
  /\ UNCHANGED <<work, listVars, scan, streamVars>>

Request(label, size, count) ==
  /\ \/ op = "load" /\ Start("read", Hole, size, count)
     \/ op = "save" /\ size > 0 /\ Start("write", label, size, count)
  /\ UNCHANGED <<listVars, scan, opVars>>

MovesOn ==
  /\ op # "none"
  /\ Tell \/ \E base \in Bases, offset \in Offsets : Seek(base + offset)
  /\ UNCHANGED <<listVars, scan, opVars>>

(* What trusts and short note when a request is answered.                  *)
Loses == call.size > 0 /\ Len(call.moved) < call.size * call.count
Note ==
  IF call'.proc # "none" \/ call.size = 0 THEN UNCHANGED opVars
  ELSE /\ trusts' = (trusts /\ answer'.items = call.count)
       /\ short' = IF short # "none" THEN "earlier"
                   ELSE IF Loses THEN "last" ELSE "none"
       /\ UNCHANGED <<work, op>>

Works ==
  /\ ReadBytes \/ ReadItems \/ WriteItems
  /\ Note
  /\ UNCHANGED <<listVars, scan>>

UsersTurn ==
  /\ op = "none" /\ Explored /\ work = "streams"
  /\ \E target \in 0..MaxLength : Clear(target)
  /\ UNCHANGED <<listVars, scan, opVars>>

(* The program ends between two loads or saves.                            *)
AtExit == op = "none" /\ (DestroyInitializer \/ DestroyLibrary)

ListWorks ==
  /\ ListStep
  /\ work = "files" \/ (UNCHANGED scan /\ enabled \subseteq enabled')
  /\ UNCHANGED <<streamVars, opVars>>

Next ==
  \/ ListWorks
  \/ AtExit /\ UNCHANGED <<streamVars, opVars>>
  \/ \E t \in Threads, fif \in DOMAIN Formats, what \in {"load", "save"} : Begin(t, fif, what)
  \/ \E label \in Labels, size \in Sizes, count \in Counts : Request(label, size, count)
  \/ MovesOn \/ Works \/ End \/ UsersTurn

(* A thread that initialises the library goes on, and so does a request:   *)
(* neither waits for anything.                                             *)
Initialises == \E u \in Users : ReadCount(u) \/ WriteCount(u) \/ AddNode(u)
Fairness ==
  /\ WF_vars(Initialises /\ UNCHANGED <<streamVars, opVars>>)
  /\ WF_vars(Works)

Spec == Init /\ [][Next]_vars /\ Fairness

-----------------------------------------------------------------------------
(* The values the variables may have.                                      *)
TypeOK ==
  /\ refs \in 0..2
  /\ plugins.made \in {"none", "list", "deleted"}
  /\ plugins.nodes \in Seq({Formats[i] : i \in DOMAIN Formats})
  /\ guard \in {"unset", "running", "set", "gone"}
  /\ Len(bytes) <= MaxLength /\ position \in 0..MaxLength
  /\ failed \in BOOLEAN
  /\ op \in {"none", "load", "save"}
  /\ short \in {"none", "last", "earlier"}

(* From the return of its initialisation until the program ends, a user    *)
(* finds the whole list, with each plugin under its own number, unless     *)
(* memory ran out while it was built: the threads never see a list that    *)
(* another still builds, builds again or has deleted (image/image.cpp:459, *)
(* Plugin.cpp:220 and 351).                                                *)
ListThere ==
  \A u \in Users : stage[u] = "in" =>
    /\ \A v \in Users : stage[v] # "building"
    /\ \/ plugins = [made |-> "list", nodes |-> Formats]
       \/ starved /\ plugins.made \in {"none", "list"}

(* The format found is that of the first plugin, among those enabled when  *)
(* they were asked, that accepts the content from its start, RAW before    *)
(* TIFF: however far each plugin has read, the next one reads the same     *)
(* (GetType.cpp:37, Plugin.cpp:804).                                       *)
DetectsByContent ==
  LET found == scan.fif
      last == IF found = 0 THEN FIFCount + 1
              ELSE IF scan.tiff THEN Fif(Tiff) ELSE found
      Passed(fif) == plugins.nodes[fif] \in scan.accepting => plugins.nodes[fif] \in scan.skipped
  IN scan # NoScan /\ ~scan.on =>
       /\ scan.at = 0
       /\ \A fif \in 1..(last - 1) : Passed(fif)
       /\ found # 0 => plugins.nodes[found] \in scan.accepting
       /\ found = Fif(Tiff) /\ IsNode(Fif(Raw)) => Passed(Fif(Raw))

(* A plugin that looks at every answer notices that bytes went missing, if *)
(* it makes one more request: when all its requests were answered in full, *)
(* bytes can only be missing from the last (image/image.cpp:359 and 370).  *)
LossOnlyAtTheEnd == short = "earlier" => ~trusts

(* An answer overstates what was read or written by less than an item, or, *)
(* for a write, by one item (image/image.cpp:359 and 370).                 *)
OverstatesOneItem ==
  [][Busy /\ call'.proc = "none" /\ call.size > 0 =>
       LET spare == answer'.items * call.size - Len(call.moved)
       IN IF call.proc = "read" THEN spare \in 0..(call.size - 1) ELSE spare \in 0..call.size]_vars

File == INSTANCE ByteFile WITH
  Sizes <- Sizes \ {0}, Documents <- {},
  contents <- IF Busy THEN call.before ELSE bytes,
  position <- IF Busy THEN call.from ELSE position

(* As long as a stream does not fail, a plugin cannot tell it from a file  *)
(* that fread and fwrite serve: the loops of ReadProc and WriteProc move   *)
(* the same bytes to the same place and leave the same position.           *)
LikeAFile ==
  [][op # "none" /\ ~failed /\ ~failed' => File!Next]_(File!byteVars)

(* Every request of a plugin ends, also one for items of no size.          *)
RequestsEnd == Busy ~> ~Busy

(* The thread that runs FreeImage_Initialise gets through, and lets the    *)
(* threads go on that wait for it at the static object.                    *)
OthersLetIn == guard = "running" ~> guard = "set"
=============================================================================
