------------------------------ MODULE SyncRules ------------------------------
(***************************************************************************)
(* How rule files become the tables that AnimSync takes as constants        *)
(* (SyncRules::Initialize): the directory is listed, the files are read in  *)
(* the order of their paths, each line adds an event or a typed variable,   *)
(* and the built-in Helmet Toggle profile stands in if no file was read.    *)
(*                                                                         *)
(* Initialize runs on one thread; it is cut into steps because the files    *)
(* may change, or fail, between two system calls.                           *)
(***************************************************************************)
EXTENDS Naturals, Sequences

CONSTANTS
  Events,     \* names of graph inputs
  Names,      \* names of graph variables
  Absent,     \* no entry in variableTypes_
  RuleFiles,  \* regular files .rule and .rules, numbered in path order
  OtherFiles, \* what else the directory may contain
  Profiles,   \* what a rule file may contain
  OARNames    \* the variables that the deployed OAR configs refer to

Types == {"bool", "int", "float"}
Start == "OffsetGPMA"
Stop  == "OffsetGPMAStop"
AnimType   == "iGPMAAnimationType"
OffsetType == "iGPMAOffsetType"

\* A trimmed line: a directive and its value, or one that is passed over
\* (blank, a comment, without a value, of no known directive).
Line == [directive : {"event"}, value : Events]
          \cup [directive : Types, value : Names]
          \cup [directive : {"ignored"}]

\* No profile has this number.
BuiltIn == 0
HelmetProfile == << [directive |-> "event", value |-> Start],
                    [directive |-> "event", value |-> Stop],
                    [directive |-> "int", value |-> AnimType],
                    [directive |-> "int", value |-> OffsetType] >>

ASSUME RulesAssumption ==
  /\ {Start, Stop} \subseteq Events /\ {AnimType, OffsetType} \subseteq Names
  /\ Absent \notin Types
  /\ RuleFiles \subseteq Nat \ {BuiltIn} /\ OtherFiles \cap RuleFiles = {}
  /\ Profiles \subseteq Seq(Line)
  /\ OARNames \subseteq Names

VARIABLES
  disk,          \* the rules directory: the content of each file (external)
  initialized,   \* SyncRules::initialized_
  profileCount,  \* SyncRules::profileCount_
  events,        \* SyncRules::events_
  variableTypes, \* SyncRules::variableTypes_; Absent if there is no entry
  variables,     \* SyncRules::variables_
  stage,         \* where Initialize is; "ready" once it has returned
  unlisted,      \* directory entries the iterator has yet to return
  files,         \* files found, and not yet opened
  lines,         \* the rest of the profile being read
  read,          \* history: the profiles read, and the number of their file
  candidates,    \* the OARVarCandidate lines of the log
  inUse          \* history: Initialize has returned, the rules are consulted

tables == <<profileCount, events, variableTypes, variables>>
cursor == <<unlisted, files, lines, read>>
vars == <<disk, initialized, tables, stage, cursor, candidates, inUse>>

Rule == [name : Names, type : Types]
Profile == [file : Nat, lines : Seq(Line)]
Candidate == [name : Names, profiled : BOOLEAN]

Directories == UNION {[some -> Profiles] : some \in SUBSET RuleFiles}

TypeOK ==
  /\ disk \in Directories
  /\ initialized \in BOOLEAN
  /\ profileCount \in Nat
  /\ events \subseteq Events
  /\ variableTypes \in [Names -> Types \cup {Absent}]
  /\ variables \in Seq(Rule)
  /\ stage \in {"start", "list", "parse", "ready"}
  /\ unlisted \subseteq RuleFiles \cup OtherFiles
  /\ files \subseteq RuleFiles
  /\ lines \in Seq(Line)
  /\ read \subseteq Profile
  /\ candidates \subseteq Candidate
  /\ inUse \in BOOLEAN

Init ==
  /\ disk \in Directories
  /\ initialized = FALSE
  /\ profileCount = 0 /\ events = {}
  /\ variableTypes = [n \in Names |-> Absent] /\ variables = << >>
  /\ stage = "start"
  /\ unlisted = {} /\ files = {} /\ lines = << >> /\ read = {}
  /\ candidates = {} /\ inUse = FALSE

-----------------------------------------------------------------------------
(* The tables. *)

AddEvent(e) ==
  /\ events' = events \cup {e}
  /\ UNCHANGED <<variableTypes, variables>>

\* Mutant: a conflicting type is remembered in the vector only.
AddVariableTwice(type, n) ==
  /\ IF variableTypes[n] = type
     THEN UNCHANGED variables
     ELSE variables' = Append(variables, [name |-> n, type |-> type])
  /\ variableTypes' = IF variableTypes[n] # Absent THEN variableTypes
                      ELSE [variableTypes EXCEPT ![n] = type]
  /\ UNCHANGED events

\* The first declaration of a variable counts; a repeated or conflicting one
\* is dropped.
AddVariable(type, n) ==
  /\ IF variableTypes[n] # Absent
     THEN UNCHANGED <<variableTypes, variables>>
     ELSE /\ variableTypes' = [variableTypes EXCEPT ![n] = type]
          /\ variables' = Append(variables, [name |-> n, type |-> type])
  /\ UNCHANGED events

-----------------------------------------------------------------------------
(* Initialize, called on every load. *)

\* Mutant: the flag is not looked at.
InitializeAgain ==
  /\ stage \in {"start", "ready"}
  /\ initialized' = TRUE
  /\ stage' = "list"
  /\ unlisted' \in {{}, DOMAIN disk \cup OtherFiles}
  /\ UNCHANGED <<disk, tables, files, lines, read, candidates, inUse>>

\* The flag is set before anything is loaded; no later load gets this far.
\* The directory may be missing.
Initialize ==
  /\ stage \in {"start", "ready"} /\ ~initialized
  /\ initialized' = TRUE
  /\ stage' = "list"
  /\ unlisted' \in {{}, DOMAIN disk \cup OtherFiles}
  /\ UNCHANGED <<disk, tables, files, lines, read, candidates, inUse>>

\* The directory iterator returns one entry after another in any order.
ListEntry ==
  /\ stage = "list"
  /\ \E entry \in unlisted :
       /\ unlisted' = unlisted \ {entry}
       /\ files' = files \cup ({entry} \cap RuleFiles)
  /\ UNCHANGED <<disk, initialized, tables, stage, lines, read, candidates, inUse>>

\* An error ends the loop as the end of the directory does.
FinishListing ==
  /\ stage = "list"
  /\ stage' = "parse" /\ unlisted' = {}
  /\ UNCHANGED <<disk, initialized, tables, files, lines, read, candidates, inUse>>

Reading(content) ==
  /\ profileCount' = profileCount + 1
  /\ lines' = content
  /\ UNCHANGED <<events, variableTypes, variables>>

\* Mutant: the files are read in the order of the directory.
OpenFileUnsorted ==
  /\ stage = "parse" /\ lines = << >>
  /\ \E f \in files :
       /\ files' = files \ {f}
       /\ \/ /\ f \in DOMAIN disk
             /\ Reading(disk[f])
             /\ read' = read \cup {[file |-> f, lines |-> disk[f]]}
          \/ UNCHANGED <<tables, lines, read>>
  /\ UNCHANGED <<disk, initialized, stage, unlisted, candidates, inUse>>

\* std::sort, then ParseRuleFile for each: the next file is the least of those
\* left.  One that does not open is passed over and is no profile.
OpenFile ==
  /\ stage = "parse" /\ lines = << >>
  /\ \E f \in files :
       /\ \A g \in files : f <= g
       /\ files' = files \ {f}
       /\ \/ /\ f \in DOMAIN disk
             /\ Reading(disk[f])
             /\ read' = read \cup {[file |-> f, lines |-> disk[f]]}
          \/ UNCHANGED <<tables, lines, read>>
  /\ UNCHANGED <<disk, initialized, stage, unlisted, candidates, inUse>>

\* Mutant: the value of any directive is taken for an event.
ReadLineUntyped ==
  /\ stage = "parse" /\ lines # << >>
  /\ lines' = Tail(lines)
  /\ LET line == Head(lines)
     IN \/ line.directive # "ignored" /\ AddEvent(line.value)
        \/ /\ line.directive = "ignored"
           /\ UNCHANGED <<events, variableTypes, variables>>
  /\ UNCHANGED <<disk, initialized, profileCount, stage, unlisted, files, read,
                 candidates, inUse>>

ReadLine ==
  /\ stage = "parse" /\ lines # << >>
  /\ lines' = Tail(lines)
  /\ LET line == Head(lines)
     IN \/ line.directive = "event" /\ AddEvent(line.value)
        \/ line.directive \in Types /\ AddVariable(line.directive, line.value)
        \/ /\ line.directive = "ignored"
           /\ UNCHANGED <<events, variableTypes, variables>>
  /\ UNCHANGED <<disk, initialized, profileCount, stage, unlisted, files, read,
                 candidates, inUse>>

LoadedFiles == stage = "parse" /\ lines = << >> /\ files = {}

AddBuiltInHelmetFallback ==
  /\ LoadedFiles /\ profileCount = 0
  /\ Reading(HelmetProfile)
  /\ read' = read \cup {[file |-> BuiltIn, lines |-> HelmetProfile]}
  /\ UNCHANGED <<disk, initialized, stage, unlisted, files, candidates, inUse>>

Noted(found) ==
  {[name |-> n, profiled |-> variableTypes[n] # Absent] : n \in found}

\* Mutant: discovery is done before the profiles are loaded.
DiscoverFirst ==
  /\ stage = "list"
  /\ \E found \in SUBSET OARNames : candidates' = Noted(found)
  /\ stage' = "parse" /\ unlisted' = {}
  /\ UNCHANGED <<disk, initialized, tables, files, lines, read, inUse>>

\* The configs that can be read are scanned; what they mention is logged, and
\* not synchronized.
DiscoverOARGraphVariables ==
  /\ LoadedFiles /\ profileCount # 0
  /\ \E found \in SUBSET OARNames : candidates' = Noted(found)
  /\ stage' = "ready" /\ inUse' = TRUE
  /\ UNCHANGED <<disk, initialized, tables, cursor>>

\* Somebody installs, edits or removes rule files (external).
FilesChange ==
  /\ disk' \in Directories
  /\ UNCHANGED <<initialized, tables, stage, cursor, candidates, inUse>>

Next ==
  \/ Initialize
  \/ ListEntry
  \/ FinishListing
  \/ OpenFile
  \/ ReadLine
  \/ AddBuiltInHelmetFallback
  \/ DiscoverOARGraphVariables
  \/ FilesChange

Spec == Init /\ [][Next]_vars

-----------------------------------------------------------------------------
(* Properties. *)

\* The lines of the profiles that were read, and which comes before which.
LineAt(place) == place.profile.lines[place.at]
Places == UNION {[profile : {p}, at : DOMAIN p.lines] : p \in read}
Before(a, b) == \/ a.profile.file < b.profile.file
                \/ a.profile = b.profile /\ a.at < b.at

Declares(n) ==
  {place \in Places : /\ LineAt(place).directive \in Types
                      /\ LineAt(place).value = n}

FirstType(n) ==
  LineAt(CHOOSE a \in Declares(n) :
           \A b \in Declares(n) \ {a} : Before(a, b)).directive

\* What is synchronized is what the profiles say, whatever order the directory
\* returns them in: every event, each variable with the type of its first
\* declaration, and the built-in profile if and only if no file was read
\* (README.md:63-66, 89-95).
RulesFollowFiles ==
  inUse =>
    /\ profileCount > 0
    /\ (\E p \in read : p.file = BuiltIn) => profileCount = 1
    /\ events = {LineAt(place).value :
                   place \in {q \in Places : LineAt(q).directive = "event"}}
    /\ \A n \in Names :
         variableTypes[n] = IF Declares(n) = {} THEN Absent ELSE FirstType(n)

\* The vector that the sender walks and the map that the receiver asks name
\* the same variables with the same types, each once (SyncRules.cpp:317-342):
\* AnimSync takes this for granted.
TablesAgree ==
  /\ \A i, j \in 1..Len(variables) : variables[i].name = variables[j].name => i = j
  /\ \A n \in Names, type \in Types :
       variableTypes[n] = type
         <=> \E i \in 1..Len(variables) : variables[i] = [name |-> n, type |-> type]

\* Rules in use never change, though every load calls Initialize again and the
\* files may have changed: the capture walks variables_ without a lock
\* (SyncRules.cpp:92-96, main.cpp:34, STRPMClient.cpp:74).
RulesStayPut == [][inUse => UNCHANGED tables]_vars

\* The log tells the variables that a profile synchronizes from those that only
\* OAR refers to; discovery adds none (README.md:97-99).
CandidatesToldApart ==
  \A c \in candidates :
    c.profiled <=> \E i \in 1..Len(variables) : variables[i].name = c.name

=============================================================================
