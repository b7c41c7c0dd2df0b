----------------------------- MODULE PluginList -----------------------------
(***************************************************************************)
(* The list of format plugins (FreeImage/Plugin.cpp): who builds it, who   *)
(* deletes it, and how the format of a file is detected with it            *)
(* (FreeImage/GetType.cpp).                                                *)
(*                                                                         *)
(* FreeImage counts its users without a lock.  The wrapper puts a static   *)
(* object in front (ImageInitializer): the threads that construct an Image *)
(* all pass by it, one of them runs FreeImage_Initialise and the others    *)
(* wait.  A shared library has one more user, the loader, whose            *)
(* constructor runs before main and whose destructor runs after it.        *)
(*                                                                         *)
(* The actions leave the file a format is detected on to scan; streams     *)
(* are in StreamIO and ImageStreams composes the two.  Beside some helpers *)
(* stand mutants of them, used by nothing: a property is tested by putting *)
(* a mutant in the place of its helper.                                    *)
(***************************************************************************)
EXTENDS Integers, Sequences, FiniteSets

CONSTANTS
  Threads,    \* the threads of the program
  loader,     \* the loader of a shared library
  Formats,    \* the plugins, in the order of the calls of AddNode
  Tiff, Raw   \* two of them

Users == Threads \cup {loader}

ASSUME PluginAssumption ==
  /\ loader \notin Threads
  /\ Formats \in Seq({Formats[i] : i \in DOMAIN Formats})
  /\ \A i, j \in DOMAIN Formats : Formats[i] = Formats[j] => i = j
  /\ Tiff # Raw /\ \E i, j \in DOMAIN Formats : Formats[i] = Tiff /\ Formats[j] = Raw

VARIABLES
  refs,      \* s_plugin_reference_count
  plugins,   \* s_plugins: none, or the nodes of a list, or deleted
  enabled,   \* the plugins whose m_enabled is set
  starved,   \* some allocation for the list failed
  guard,     \* the static object of ImageInitializer: unset, running, set, gone
  stage,     \* how far each user is in its initialisation
  seen,      \* the count each user read
  scan       \* the detection of a format

listVars == <<refs, plugins, enabled, starved, guard, stage, seen>>

-----------------------------------------------------------------------------
NoList == [made |-> "none", nodes |-> << >>]
NewList == [made |-> "list", nodes |-> << >>]
Deleted == [made |-> "deleted", nodes |-> << >>]

(* The number of a format in the enumeration FREE_IMAGE_FORMAT, from 1 on. *)
Fif(format) == CHOOSE i \in DOMAIN Formats : Formats[i] = format
FIFCount == Len(plugins.nodes)
IsNode(fif) == fif \in 1..FIFCount

NoScan == [on |-> FALSE, fif |-> 0, tiff |-> FALSE, accepting |-> {}, at |-> 0,
           skipped |-> {}]

InitList ==
  /\ refs = 0 /\ plugins = NoList /\ enabled = {} /\ starved = FALSE
  /\ guard = "unset"
  /\ stage \in {[u \in Users |-> IF u = loader THEN s ELSE "out"] : s \in {"out", "calling"}}
  /\ seen = [u \in Users |-> 0]
  /\ scan = NoScan

BeforeMain == stage[loader] \in {"calling", "counting", "building"}
Returned(t) == stage[t] = "in"

(* A thread reaches the static object: it is the first, or it waits until  *)
(* the first is through.                                                   *)
MayEnter_Always == guard \in {"unset", "running"}
MayEnter == guard = "unset"
EnterInitializer(t) ==
  /\ ~BeforeMain /\ stage[t] = "out" /\ MayEnter
  /\ guard' = "running"
  /\ stage' = [stage EXCEPT ![t] = "calling"]
  /\ UNCHANGED <<refs, plugins, enabled, starved, seen, scan>>

PassInitializer(t) ==
  /\ ~BeforeMain /\ stage[t] = "out" /\ guard = "set"
  /\ stage' = [stage EXCEPT ![t] = "in"]
  /\ UNCHANGED <<refs, plugins, enabled, starved, guard, seen, scan>>

(* FreeImage_Initialise is through: so is the static object.               *)
GuardAfter_Unset(u) == IF u = loader THEN guard ELSE "running"
GuardAfter(u) == IF u = loader THEN guard ELSE "set"
Leave(u) ==
  /\ stage' = [stage EXCEPT ![u] = "in"]
  /\ guard' = GuardAfter(u)

(* s_plugin_reference_count++ == 0: read, written, compared.               *)
ReadCount(u) ==
  /\ stage[u] = "calling"
  /\ seen' = [seen EXCEPT ![u] = refs]
  /\ stage' = [stage EXCEPT ![u] = "counting"]
  /\ UNCHANGED <<refs, plugins, enabled, starved, guard, scan>>

WriteCount(u) ==
  /\ stage[u] = "counting"
  /\ refs' = seen[u] + 1
  /\ IF seen[u] # 0
       THEN Leave(u) /\ UNCHANGED <<plugins, enabled, starved>>
       ELSE \/ /\ plugins' = NewList /\ enabled' = {}
               /\ stage' = [stage EXCEPT ![u] = "building"]
               /\ UNCHANGED <<starved, guard>>
            \/ plugins' = NoList /\ starved' = TRUE /\ Leave(u) /\ UNCHANGED enabled
  /\ seen' = [seen EXCEPT ![u] = 0]
  /\ UNCHANGED scan

(* The calls of AddNode, one for each plugin: it takes the next number, or *)
(* there is no memory for it and the next plugin takes that number.        *)
AddNode(u) ==
  /\ stage[u] = "building"
  /\ seen' = [seen EXCEPT ![u] = IF @ + 1 < Len(Formats) THEN @ + 1 ELSE 0]
  /\ \/ /\ plugins' = [plugins EXCEPT !.nodes = Append(@, Formats[seen[u] + 1])]
        /\ enabled' = enabled \cup {Formats[seen[u] + 1]}
        /\ UNCHANGED starved
     \/ starved' = TRUE /\ UNCHANGED <<plugins, enabled>>
  /\ IF seen[u] + 1 < Len(Formats) THEN UNCHANGED <<stage, guard>> ELSE Leave(u)
  /\ UNCHANGED <<refs, scan>>

(* The list goes with its last user; the pointer to it stays.              *)
LastUser_Any(count) == TRUE
LastUser(count) == count = 0
DeInitialise ==
  /\ refs' = refs - 1
  /\ plugins' = IF LastUser(refs') THEN Deleted ELSE plugins
  /\ UNCHANGED <<enabled, starved, seen, scan>>

(* After main: the static object, when the program has joined its threads. *)
DestroyInitializer ==
  /\ guard = "set" /\ scan = NoScan
  /\ \A t \in Threads : stage[t] \in {"out", "in"}
  /\ DeInitialise
  /\ guard' = "gone"
  /\ stage' = [u \in Users |-> IF u = loader THEN stage[u] ELSE "out"]

DestroyLibrary ==
  /\ stage[loader] = "in"
  /\ guard \in {"unset", "gone"}
  /\ \A t \in Threads : stage[t] = "out"
  /\ DeInitialise
  /\ guard' = "gone"
  /\ stage' = [stage EXCEPT ![loader] = "out"]

-----------------------------------------------------------------------------
(* FreeImage_SetPluginEnabled, by a thread, also while another detects.    *)
SetPluginEnabled(t, fif, enable) ==
  /\ Returned(t) /\ IsNode(fif)
  /\ enabled' = IF enable THEN enabled \cup {plugins.nodes[fif]}
                          ELSE enabled \ {plugins.nodes[fif]}
  /\ UNCHANGED <<refs, plugins, starved, guard, stage, seen, scan>>

(* FreeImage_GetFileTypeFromHandle: the content is one that the plugins of *)
(* "accepting" accept when they read it from its start, offset 0.          *)
StartScan(t) ==
  /\ Returned(t) /\ ~scan.on
  /\ \E accepting \in SUBSET {Formats[i] : i \in DOMAIN Formats} :
       scan' = [NoScan EXCEPT !.on = TRUE, !.fif = 1, !.accepting = accepting]
  /\ UNCHANGED listVars

(* FreeImage_ValidateFIF: the plugin reads as far as it likes and the      *)
(* handle is put back to where it was.                                     *)
PutBack_Never(before, after) == after
PutBack(before, after) == before
Accepts(plugin) == plugin \in enabled /\ plugin \in scan.accepting /\ scan.at = 0
Asked(plugin) ==
  [scan EXCEPT !.skipped = IF plugin \in enabled THEN @ ELSE @ \cup {plugin}]
Ended(answer, asked) == [asked EXCEPT !.on = FALSE, !.fif = answer]

(* A file that the TIFF plugin accepts is offered to the RAW plugin too.   *)
Validate(moved) ==
  /\ scan.on
  /\ LET fif == IF scan.tiff THEN Fif(Raw) ELSE scan.fif
         plugin == plugins.nodes[fif]
         asked == [Asked(plugin) EXCEPT
                    !.at = IF plugin \in enabled THEN PutBack(@, moved) ELSE @]
     IN scan' =
          IF ~IsNode(fif) THEN Ended(IF scan.tiff THEN scan.fif ELSE 0, scan)
          ELSE IF Accepts(plugin)
            THEN IF fif = Fif(Tiff) /\ ~scan.tiff THEN [asked EXCEPT !.tiff = TRUE]
                 ELSE Ended(fif, asked)
          ELSE IF scan.tiff THEN Ended(scan.fif, asked)
          ELSE [asked EXCEPT !.fif = @ + 1]
  /\ UNCHANGED listVars

(* FreeImage_GetFileType closes the file it has opened for this.           *)
CloseFile == ~scan.on /\ scan # NoScan /\ scan' = NoScan /\ UNCHANGED listVars

ListStep ==
  \/ \E t \in Threads : EnterInitializer(t) \/ PassInitializer(t) \/ StartScan(t)
  \/ \E u \in Users : ReadCount(u) \/ WriteCount(u) \/ AddNode(u)
  \/ \E t \in Threads, fif \in DOMAIN Formats, enable \in BOOLEAN :
       SetPluginEnabled(t, fif, enable)
  \/ \E moved \in {0, 1} : Validate(moved)
  \/ CloseFile
=============================================================================
