------------------------------ MODULE ToolLoader ------------------------------
(***************************************************************************)
(* The tools an LLM is offered, internal/runtime/tool_loader.go: a         *)
(* goroutine reads a directory of JSON files every five seconds, file by   *)
(* file, into a new map, and swaps it for the old one under the mutex the  *)
(* readers take.  Somebody may edit the directory at any moment.           *)
(***************************************************************************)
EXTENDS Naturals

CONSTANTS NumFiles,   \* the files, numbered in the order of their names
          Tools,      \* what a file may define
          NameOf,     \* NameOf[t]: Function.Name of a tool
          NoTool,     \* there is no such file, or nothing is offered
          Broken,     \* a file that cannot be read or parsed
          MaxEdits    \* bound on the edits of the directory

Files == 1..NumFiles
Names == {NameOf[t] : t \in Tools}
Contents == Tools \cup {NoTool, Broken}

ASSUME LoaderAssumption == /\ NumFiles \in Nat /\ MaxEdits \in Nat
                           /\ DOMAIN NameOf = Tools
                           /\ NoTool \notin Tools /\ Broken \notin Tools

VARIABLES dir,       \* "there", "missing" or "unreadable"
          file,      \* file[f]: what file f holds
          edits,     \* the edits so far
          lpc,       \* where the loader is
          listed,    \* entries: the files ReadDir found
          newTools,  \* newTools[n]: the map being built
          tools,     \* tools[n]: ToolLoader.tools
          seen       \* observer: seen[f]: what f held since the scan began

directoryVars == <<dir, file, edits>>
loaderVars == <<directoryVars, lpc, listed, newTools, tools, seen>>

NoTools == [n \in Names |-> NoTool]

LoaderInit == /\ dir \in {"there", "missing", "unreadable"}
              /\ \/ file = [f \in Files |-> NoTool]
                 \/ dir # "missing" /\ file \in [Files -> Contents]
              /\ edits = 0
              /\ lpc = "tick"
              /\ listed = {}
              /\ newTools = NoTools
              /\ tools = NoTools
              /\ seen = [f \in Files |-> {file[f]}]

------------------------------------------------------------------------------
(* loadTools, called at the start and by every tick.                         *)

\* The map is not made anew.
ReadDirKeeping ==
    /\ lpc = "tick" /\ dir = "there"
    /\ listed' = {f \in Files : file[f] # NoTool}
    /\ seen' = [f \in Files |-> {file[f]}]
    /\ lpc' = "load"
    /\ UNCHANGED <<directoryVars, newTools, tools>>

ReadDir ==
    /\ lpc = "tick" /\ dir = "there"
    /\ listed' = {f \in Files : file[f] # NoTool}
    /\ newTools' = NoTools
    /\ seen' = [f \in Files |-> {file[f]}]
    /\ lpc' = "load"
    /\ UNCHANGED <<directoryVars, tools>>

\* A directory that is missing is created, and the old tools stay until the
\* next scan; one that cannot be read or created leaves them for good.
ReadDirFails ==
    /\ lpc = "tick" /\ dir = "missing"
    /\ dir' = "there"
    /\ seen' = [f \in Files |-> seen[f] \cup {file[f]}]
    /\ UNCHANGED <<file, edits, lpc, listed, newTools, tools>>

IsNext(f) == f \in listed /\ \A g \in listed : f <= g

\* The first file that defines a name keeps it.
LoadToolFileFirst(f) ==
    /\ lpc = "load" /\ IsNext(f)
    /\ listed' = listed \ {f}
    /\ newTools' = IF dir = "there" /\ file[f] \in Tools /\ newTools[NameOf[file[f]]] = NoTool
                   THEN [newTools EXCEPT ![NameOf[file[f]]] = file[f]]
                   ELSE newTools
    /\ UNCHANGED <<directoryVars, lpc, tools, seen>>

\* loadToolFile; a file that is gone by now, or broken, is left out.
LoadToolFile(f) ==
    /\ lpc = "load" /\ IsNext(f)
    /\ listed' = listed \ {f}
    /\ newTools' = IF dir = "there" /\ file[f] \in Tools
                   THEN [newTools EXCEPT ![NameOf[file[f]]] = file[f]]
                   ELSE newTools
    /\ UNCHANGED <<directoryVars, lpc, tools, seen>>

\* tl.tools = newTools, under the mutex.
SwapTools ==
    /\ lpc = "load" /\ listed = {}
    /\ tools' = newTools
    /\ lpc' = "tick"
    /\ UNCHANGED <<directoryVars, listed, newTools, seen>>

\* Stop, or the end of the context: watchLoop looks between two scans.
StopLoader ==
    /\ lpc = "tick"
    /\ lpc' = "stopped"
    /\ UNCHANGED <<directoryVars, listed, newTools, tools, seen>>

------------------------------------------------------------------------------
(* The directory.                                                            *)

EditFile(f, c) ==
    /\ dir = "there" /\ edits < MaxEdits
    /\ edits' = edits + 1
    /\ c # file[f]
    /\ file' = [file EXCEPT ![f] = c]
    /\ seen' = [seen EXCEPT ![f] = @ \cup {c}]
    /\ UNCHANGED <<dir, lpc, listed, newTools, tools>>

\* The directory is removed with its files, locked, or unlocked.
EditDirectory ==
    /\ edits < MaxEdits
    /\ edits' = edits + 1
    /\ \/ /\ dir = "there" /\ dir' = "missing"
          /\ file' = [f \in Files |-> NoTool]
       \/ dir = "there" /\ dir' = "unreadable" /\ UNCHANGED file
       \/ dir = "unreadable" /\ dir' = "there" /\ UNCHANGED file
    /\ seen' = [f \in Files |-> seen[f] \cup {file'[f], NoTool}]
    /\ UNCHANGED <<lpc, listed, newTools, tools>>

LoaderStep == ReadDir \/ ReadDirFails \/ SwapTools \/ \E f \in Files : LoadToolFile(f)

LoaderNext == \/ LoaderStep
              \/ StopLoader
              \/ \E f \in Files, c \in Contents : EditFile(f, c)
              \/ EditDirectory

LoaderSpec == LoaderInit /\ [][LoaderNext]_loaderVars

\* The ticker ticks and the goroutine runs.
LoaderFairness == WF_loaderVars(LoaderStep)

------------------------------------------------------------------------------
(* Properties.                                                               *)

LoaderTypeOK == /\ dir \in {"there", "missing", "unreadable"}
                /\ file \in [Files -> Contents]
                /\ edits \in 0..MaxEdits
                /\ lpc \in {"tick", "load", "stopped"}
                /\ listed \subseteq Files
                /\ newTools \in [Names -> Tools \cup {NoTool}]
                /\ tools \in [Names -> Tools \cup {NoTool}]
                /\ seen \in [Files -> SUBSET Contents]

Defines(f, n) == {t \in seen[f] \cap Tools : NameOf[t] = n}

\* The tools change only to the result of one whole scan, also when the
\* directory is edited under it: each was in its file since the scan began,
\* and one that was in its file all the while is there, unless a later file
\* defined its name.
OfferIsOneScan ==
    [][tools' # tools \/ (lpc = "load" /\ lpc' = "tick") =>
          \A n \in Names :
             /\ tools'[n] = NoTool \/ \E f \in Files : tools'[n] \in Defines(f, n)
             /\ \A f \in Files, t \in Tools :
                   /\ NameOf[t] = n /\ seen[f] = {t}
                   /\ \A g \in Files : g > f => Defines(g, n) = {}
                   => tools'[n] = t]_loaderVars

\* What a directory defines: the last file that has a name decides.
Defined == [n \in Names |->
               LET fs == {f \in Files : file[f] \in Tools /\ NameOf[file[f]] = n}
               IN  IF fs = {} THEN NoTool
                   ELSE file[CHOOSE f \in fs : \A g \in fs : g <= f]]

\* While the loader runs, the last edit of a directory that can be read is
\* offered in the end, whenever it was made and whatever went wrong before.
DirectoryIsOffered ==
    <>[](lpc # "stopped" /\ dir # "unreadable") => <>[](tools = Defined)
=============================================================================
