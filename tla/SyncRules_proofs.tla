-------------------------- MODULE SyncRules_proofs --------------------------
(***************************************************************************)
(* Theorems about SyncRules for every set of files, profiles and names.     *)
(***************************************************************************)
EXTENDS SyncRules, SequenceTheorems, TLAPS

-----------------------------------------------------------------------------
(* Type correctness. *)

LEMMA NameFacts ==
  /\ Start \in Events /\ Stop \in Events
  /\ AnimType \in Names /\ OffsetType \in Names
  /\ Absent \notin Types /\ OARNames \subseteq Names
  BY RulesAssumption

LEMMA FileFacts ==
  RuleFiles \subseteq Nat /\ (\A f \in RuleFiles : f # BuiltIn) /\ BuiltIn \in Nat
  BY RulesAssumption DEF BuiltIn

LEMMA HelmetType == HelmetProfile \in Seq(Line) /\ Len(HelmetProfile) > 0
<1>1. /\ [directive |-> "event", value |-> Start] \in Line
      /\ [directive |-> "event", value |-> Stop] \in Line
      /\ [directive |-> "int", value |-> AnimType] \in Line
      /\ [directive |-> "int", value |-> OffsetType] \in Line
  BY NameFacts DEF Line, Types
<1> QED
  BY <1>1 DEF HelmetProfile

\* A file that is there holds a profile.
LEMMA ContentType ==
  ASSUME TypeOK, NEW f \in DOMAIN disk
  PROVE  disk[f] \in Seq(Line)
<1>1. \E some \in SUBSET RuleFiles : disk \in [some -> Profiles]
  BY DEF TypeOK, Directories
<1>2. disk[f] \in Profiles
  BY <1>1
<1> QED
  BY <1>2, RulesAssumption

LEMMA ListedType ==
  ASSUME TypeOK, unlisted' \in {{}, DOMAIN disk \cup OtherFiles}
  PROVE  unlisted' \subseteq RuleFiles \cup OtherFiles
  BY DEF TypeOK, Directories

LEMMA LineFields ==
  ASSUME NEW line \in Line
  PROVE  /\ line.directive = "event" => line.value \in Events
         /\ line.directive \in Types => line.value \in Names
  BY DEF Line, Types

LEMMA AddVariableType ==
  ASSUME TypeOK, NEW type \in Types, NEW n \in Names, AddVariable(type, n)
  PROVE  /\ variableTypes' \in [Names -> Types \cup {Absent}]
         /\ variables' \in Seq(Rule) /\ events' = events
<1>1. [name |-> n, type |-> type] \in Rule
  BY DEF Rule
<1>2. /\ variableTypes \in [Names -> Types \cup {Absent}]
      /\ variables \in Seq(Rule)
  BY DEF TypeOK
<1>3. Append(variables, [name |-> n, type |-> type]) \in Seq(Rule)
  BY ONLY <1>1, <1>2, AppendProperties
<1>4. [variableTypes EXCEPT ![n] = type] \in [Names -> Types \cup {Absent}]
  BY ONLY <1>2, type \in Types, n \in Names
<1> QED
  BY <1>2, <1>3, <1>4 DEF AddVariable

LEMMA ReadingType ==
  ASSUME TypeOK, NEW content \in Seq(Line), NEW f \in Nat, Reading(content),
         read' = read \cup {[file |-> f, lines |-> content]}
  PROVE  /\ profileCount' \in Nat /\ lines' \in Seq(Line) /\ read' \subseteq Profile
         /\ events' \subseteq Events /\ variables' \in Seq(Rule)
         /\ variableTypes' \in [Names -> Types \cup {Absent}]
<1>1. [file |-> f, lines |-> content] \in Profile
  BY DEF Profile
<1> QED
  BY <1>1 DEF TypeOK, Reading

LEMMA TypeNext == TypeOK /\ [Next]_vars => TypeOK'
<1> SUFFICES ASSUME TypeOK, [Next]_vars PROVE TypeOK'
  OBVIOUS
<1> USE DEF TypeOK, tables, cursor
<1>1. CASE Initialize
  BY <1>1, ListedType DEF Initialize
<1>2. CASE ListEntry
  BY <1>2 DEF ListEntry
<1>3. CASE FinishListing
  BY <1>3 DEF FinishListing
<1>4. CASE OpenFile
  <2>1. PICK f \in files :
          /\ files' = files \ {f}
          /\ \/ /\ f \in DOMAIN disk /\ Reading(disk[f])
                /\ read' = read \cup {[file |-> f, lines |-> disk[f]]}
             \/ UNCHANGED <<tables, lines, read>>
    BY <1>4 DEF OpenFile
  <2>2. f \in Nat
    BY <2>1, FileFacts
  <2>3. CASE f \in DOMAIN disk /\ Reading(disk[f])
               /\ read' = read \cup {[file |-> f, lines |-> disk[f]]}
    BY <1>4, <2>1, <2>2, <2>3, ContentType, ReadingType DEF OpenFile
  <2> QED
    BY <1>4, <2>1, <2>3 DEF OpenFile
<1>5. CASE ReadLine
  <2>1. Head(lines) \in Line /\ Tail(lines) \in Seq(Line)
    BY <1>5, HeadTailProperties DEF ReadLine
  <2>2. /\ events' \subseteq Events /\ variables' \in Seq(Rule)
        /\ variableTypes' \in [Names -> Types \cup {Absent}]
    <3>1. CASE Head(lines).directive = "event" /\ AddEvent(Head(lines).value)
      BY <2>1, <3>1, LineFields DEF AddEvent
    <3>2. CASE /\ Head(lines).directive \in Types
               /\ AddVariable(Head(lines).directive, Head(lines).value)
      BY <2>1, <3>2, LineFields, AddVariableType
    <3> QED
      BY <1>5, <3>1, <3>2 DEF ReadLine
  <2> QED
    BY <1>5, <2>1, <2>2 DEF ReadLine
<1>6. CASE AddBuiltInHelmetFallback
  BY <1>6, HelmetType, FileFacts, ReadingType DEF AddBuiltInHelmetFallback
<1>7. CASE DiscoverOARGraphVariables
  <2>1. candidates' \subseteq Candidate
    <3>1. PICK found \in SUBSET OARNames : candidates' = Noted(found)
      BY <1>7 DEF DiscoverOARGraphVariables
    <3> SUFFICES ASSUME NEW n \in found
                 PROVE  [name |-> n, profiled |-> variableTypes[n] # Absent]
                          \in Candidate
      BY <3>1 DEF Noted
    <3> QED
      BY NameFacts DEF Candidate
  <2> QED
    BY <1>7, <2>1 DEF DiscoverOARGraphVariables
<1>8. CASE FilesChange
  BY <1>8 DEF FilesChange
<1>9. CASE UNCHANGED vars
  BY <1>9 DEF vars
<1> QED
  BY <1>1, <1>2, <1>3, <1>4, <1>5, <1>6, <1>7, <1>8, <1>9 DEF Next

LEMMA InitType == Init => TypeOK
<1> SUFFICES ASSUME Init PROVE TypeOK
  OBVIOUS
<1>1. variableTypes \in [Names -> Types \cup {Absent}]
  BY DEF Init
<1>2. variables \in Seq(Rule) /\ lines \in Seq(Line)
  BY EmptySeq DEF Init
<1> QED
  BY <1>1, <1>2 DEF Init, TypeOK

\* Whatever the files contain, and however often they change, the tables hold
\* named events and typed variables only.
THEOREM TypeCorrect == Spec => []TypeOK
  BY InitType, TypeNext, PTL DEF Spec

-----------------------------------------------------------------------------
(* The two tables of variables, and the moment they stop changing. *)

\* Only a reading in progress changes the tables, and it is over when the
\* rules are in use.
Settled ==
  /\ stage # "start" => initialized
  /\ inUse => stage = "ready"
  /\ candidates # {} => stage = "ready"

TableInv == TypeOK /\ TablesAgree /\ Settled /\ CandidatesToldApart

LEMMA AgreeAfterAdd ==
  ASSUME TypeOK, TablesAgree, NEW type \in Types, NEW n \in Names,
         AddVariable(type, n)
  PROVE  TablesAgree'
<1>1. CASE variableTypes[n] # Absent
  BY <1>1 DEF AddVariable, TablesAgree
<1>2. CASE variableTypes[n] = Absent
  <2> DEFINE rule == [name |-> n, type |-> type]
  <2>1. /\ variableTypes' = [variableTypes EXCEPT ![n] = type]
        /\ variables' = Append(variables, rule)
    BY <1>2 DEF AddVariable
  <2>2. /\ Len(variables') = Len(variables) + 1 /\ Len(variables) \in Nat
        /\ variables'[Len(variables) + 1] = rule
        /\ \A i \in 1..Len(variables) : /\ variables'[i] = variables[i]
                                        /\ variables[i] \in Rule
    <3>1. variables \in Seq(Rule)
      BY DEF TypeOK
    <3>2. rule \in Rule
      BY DEF Rule
    <3> QED
      BY ONLY <2>1, <3>1, <3>2, AppendProperties, ElementOfSeq, LenProperties
  <2>3. \A i \in 1..Len(variables) : variables[i].name # n
    <3> SUFFICES ASSUME NEW i \in 1..Len(variables), variables[i].name = n
                 PROVE  FALSE
      OBVIOUS
    <3>1. /\ variables[i] = [name |-> n, type |-> variables[i].type]
          /\ variables[i].type \in Types
      BY <2>2 DEF Rule
    <3>2. variableTypes[n] = variables[i].type
      BY <3>1 DEF TablesAgree
    <3> QED
      BY <1>2, <3>1, <3>2, NameFacts
  <2>4. \A i, j \in 1..Len(variables') :
          variables'[i].name = variables'[j].name => i = j
    BY <2>2, <2>3 DEF TablesAgree
  <2>5. ASSUME NEW m \in Names, NEW t \in Types
        PROVE  variableTypes'[m] = t
                 <=> \E i \in 1..Len(variables') :
                       variables'[i] = [name |-> m, type |-> t]
    <3>1. CASE m = n
      <4>1. variableTypes'[m] = type
        BY <2>1, <3>1 DEF TypeOK
      <4>2. ASSUME NEW i \in 1..Len(variables'),
                   variables'[i] = [name |-> m, type |-> t]
            PROVE  t = type
        <5>1. i = Len(variables) + 1
          BY <2>2, <2>3, <3>1, <4>2
        <5> QED
          BY <2>2, <4>2, <5>1
      <4>3. Len(variables) + 1 \in 1..Len(variables')
        BY <2>2
      <4> QED
        BY <2>2, <3>1, <4>1, <4>2, <4>3
    <3>2. CASE m # n
      <4>1. variableTypes'[m] = variableTypes[m]
        BY <2>1, <3>2 DEF TypeOK
      <4>2. \A i \in 1..Len(variables') :
              variables'[i] = [name |-> m, type |-> t] =>
                i \in 1..Len(variables)
        BY <2>2, <3>2
      <4>3. \A i \in 1..Len(variables) : i \in 1..Len(variables')
        BY <2>2
      <4> QED
        BY <2>2, <4>1, <4>2, <4>3 DEF TablesAgree
    <3> QED
      BY <3>1, <3>2
  <2> QED
    BY <2>4, <2>5 DEF TablesAgree
<1> QED
  BY <1>1, <1>2

LEMMA TableNext == TableInv /\ [Next]_vars => TableInv'
<1> SUFFICES ASSUME TableInv, [Next]_vars PROVE TableInv'
  OBVIOUS
<1>1. TypeOK /\ TypeOK' /\ TablesAgree /\ Settled /\ CandidatesToldApart
  BY TypeNext DEF TableInv
<1>2. ASSUME UNCHANGED <<variableTypes, variables>> PROVE TablesAgree'
  BY <1>1, <1>2 DEF TablesAgree
<1>3. ASSUME UNCHANGED <<variables, candidates>> PROVE CandidatesToldApart'
  BY <1>1, <1>3 DEF CandidatesToldApart
<1>4. CASE Initialize
  <2>1. Settled'
    BY <1>1, <1>4 DEF Initialize, Settled
  <2> QED
    BY <1>1, <1>2, <1>3, <1>4, <2>1 DEF Initialize, tables, TableInv
<1>5. CASE ListEntry \/ FinishListing
  <2>1. Settled'
    BY <1>1, <1>5 DEF ListEntry, FinishListing, Settled
  <2> QED
    BY <1>1, <1>2, <1>3, <1>5, <2>1 DEF ListEntry, FinishListing, tables, TableInv
<1>6. CASE OpenFile \/ AddBuiltInHelmetFallback
  <2>1. UNCHANGED <<variableTypes, variables, candidates, stage, initialized, inUse>>
    BY <1>6 DEF OpenFile, AddBuiltInHelmetFallback, Reading, tables
  <2> QED
    BY <1>1, <1>2, <1>3, <2>1 DEF Settled, TableInv
<1>7. CASE ReadLine
  <2>1. Head(lines) \in Line
    BY <1>1, <1>7, HeadTailProperties DEF ReadLine, TypeOK
  <2>2. TablesAgree'
    <3>1. CASE /\ Head(lines).directive \in Types
               /\ AddVariable(Head(lines).directive, Head(lines).value)
      BY <1>1, <2>1, <3>1, LineFields, AgreeAfterAdd
    <3> QED
      BY <1>2, <1>7, <3>1 DEF ReadLine, AddEvent
  <2>3. Settled' /\ CandidatesToldApart'
    BY <1>1, <1>7 DEF ReadLine, Settled, CandidatesToldApart
  <2> QED
    BY <1>1, <2>2, <2>3 DEF TableInv
<1>8. CASE DiscoverOARGraphVariables
  <2>1. PICK found \in SUBSET OARNames : candidates' = Noted(found)
    BY <1>8 DEF DiscoverOARGraphVariables
  <2>2. ASSUME NEW c \in candidates'
        PROVE  c.profiled <=> \E i \in 1..Len(variables) : variables[i].name = c.name
    <3>1. PICK n \in Names :
            c = [name |-> n, profiled |-> variableTypes[n] # Absent]
      BY <2>1, <2>2, NameFacts DEF Noted
    <3>2. c.name = n /\ (c.profiled <=> variableTypes[n] # Absent)
      BY <3>1
    <3>3. variableTypes[n] # Absent => variableTypes[n] \in Types
      BY <1>1 DEF TypeOK
    <3>4. ASSUME NEW i \in 1..Len(variables), variables[i].name = n
          PROVE  variableTypes[n] \in Types
      <4>1. /\ variables[i].type \in Types
            /\ variables[i] = [name |-> n, type |-> variables[i].type]
        <5>1. variables[i] \in Rule
          BY <1>1 DEF TypeOK
        <5> QED
          BY ONLY <3>4, <5>1 DEF Rule
      <4> QED
        BY <1>1, <4>1 DEF TablesAgree
    <3>5. ASSUME variableTypes[n] \in Types
          PROVE  \E i \in 1..Len(variables) : variables[i].name = n
      <4>1. PICK i \in 1..Len(variables) :
              variables[i] = [name |-> n, type |-> variableTypes[n]]
        BY <1>1, <3>5 DEF TablesAgree
      <4> QED
        BY ONLY <4>1
    <3> QED
      BY <3>2, <3>3, <3>4, <3>5, NameFacts
  <2>3. CandidatesToldApart'
    BY <1>8, <2>2 DEF DiscoverOARGraphVariables, tables, CandidatesToldApart
  <2>4. Settled'
    BY <1>1, <1>8 DEF DiscoverOARGraphVariables, LoadedFiles, Settled
  <2> QED
    BY <1>1, <1>2, <1>8, <2>3, <2>4 DEF DiscoverOARGraphVariables, tables, TableInv
<1>9. CASE FilesChange \/ UNCHANGED vars
  <2>1. UNCHANGED <<variableTypes, variables, candidates, stage, initialized, inUse>>
    BY <1>9 DEF FilesChange, vars, tables
  <2> QED
    BY <1>1, <1>2, <1>3, <2>1 DEF Settled, TableInv
<1> QED
  BY <1>4, <1>5, <1>6, <1>7, <1>8, <1>9 DEF Next

LEMMA TableInvariant == Spec => []TableInv
<1>1. Init => TableInv
  <2> SUFFICES ASSUME Init PROVE TableInv
    OBVIOUS
  <2>1. TypeOK
    BY InitType
  <2>2. /\ variables = << >> /\ variableTypes = [n \in Names |-> Absent]
        /\ candidates = {} /\ stage = "start" /\ inUse = FALSE
    BY DEF Init
  <2>3. TablesAgree
    <3>1. Len(variables) = 0
      BY <2>2
    <3>2. \A n \in Names, type \in Types : variableTypes[n] # type
      BY <2>2, NameFacts
    <3> QED
      BY <3>1, <3>2 DEF TablesAgree
  <2> QED
    BY <2>1, <2>2, <2>3 DEF TableInv, Settled, CandidatesToldApart
<1> QED
  BY <1>1, TableNext, PTL DEF Spec

\* The rules a client sends by and those it accepts packets by are the same:
\* what AnimSync assumes of Rules and PeerTypes.
THEOREM SendersAndReceiversAgree == Spec => []TablesAgree
  BY TableInvariant, PTL DEF TableInv

\* The log never calls a variable unprofiled that is synchronized.
THEOREM DiscoveryTellsApart == Spec => []CandidatesToldApart
  BY TableInvariant, PTL DEF TableInv

\* Once Initialize has returned the rules never change again, whatever happens
\* to the files and however often the game is loaded.
THEOREM RulesAreFixed == Spec => RulesStayPut
<1>1. TableInv /\ [Next]_vars => [inUse => UNCHANGED tables]_vars
  BY DEF TableInv, Settled, Next, Initialize, ListEntry, FinishListing, OpenFile,
         ReadLine, AddBuiltInHelmetFallback, DiscoverOARGraphVariables,
         LoadedFiles, FilesChange, vars
<1> QED
  BY <1>1, TableInvariant, PTL DEF Spec, RulesStayPut
-----------------------------------------------------------------------------
(* The tables follow the files. *)

\* A place whose line the reading has passed: every line of an earlier profile,
\* and those of the latest that are not left in "lines".
Passed(place) == \/ \E q \in read : place.profile.file < q.file
                 \/ place.at + Len(lines) <= Len(place.profile.lines)
Consumed == {place \in Places : Passed(place)}

\* What a set D of places says: which events, and which type of a variable.
DeclaringIn(D, n) ==
  {place \in D : LineAt(place).directive \in Types /\ LineAt(place).value = n}
EventsIn(D) ==
  {LineAt(place).value : place \in {q \in D : LineAt(q).directive = "event"}}
Oldest(D, a) == a \in D /\ \A b \in D \ {a} : Before(a, b)
TypesTold(types, D) ==
  \A n \in Names :
    \/ DeclaringIn(D, n) = {} /\ types[n] = Absent
    \/ \E a \in DeclaringIn(D, n) : /\ Oldest(DeclaringIn(D, n), a)
                                    /\ types[n] = LineAt(a).directive

\* Files are opened in their order, none twice, and the built-in profile only
\* if there was none.
ReadInOrder ==
  /\ \A p, q \in read : p.file = q.file => p = q
  /\ \A p \in read : \A f \in files : p.file < f
  /\ (\E p \in read : p.file = BuiltIn) => profileCount = 1 /\ files = {}
  /\ profileCount = 0 <=> read = {}
  /\ stage \in {"start", "list"} => read = {}
  /\ stage = "start" => files = {}
  /\ stage # "parse" => lines = << >>
  /\ stage = "ready" => profileCount # 0

\* What is left to read is the end of the latest profile.
IsRestOf(p) ==
  /\ Len(lines) <= Len(p.lines)
  /\ \A i \in 1..Len(lines) : lines[i] = p.lines[Len(p.lines) - Len(lines) + i]
Latest(p) == p \in read /\ \A q \in read \ {p} : q.file < p.file
RestOfLatest == lines # << >> => \E p \in read : Latest(p) /\ IsRestOf(p)

FilesInv ==
  /\ TypeOK /\ Settled
  /\ ReadInOrder /\ RestOfLatest
  /\ events = EventsIn(Consumed)
  /\ TypesTold(variableTypes, Consumed)

\* A place names a line of a profile that was read.
PlacesOf(profiles) == UNION {[profile : {p}, at : DOMAIN p.lines] : p \in profiles}

LEMMA PlaceFields ==
  ASSUME NEW R \in SUBSET Profile
  PROVE  /\ \A place \in PlacesOf(R) :
              /\ place.profile \in R
              /\ place.at \in 1..Len(place.profile.lines) /\ place.at \in Nat
              /\ LineAt(place) \in Line
              /\ place = [profile |-> place.profile, at |-> place.at]
         /\ \A p \in R : /\ p.file \in Nat /\ p.lines \in Seq(Line)
                         /\ Len(p.lines) \in Nat
                         /\ \A i \in 1..Len(p.lines) :
                              [profile |-> p, at |-> i] \in PlacesOf(R)
<1>1. \A p \in R : p.file \in Nat /\ p.lines \in Seq(Line)
  BY DEF Profile
<1>2. \A p \in R : Len(p.lines) \in Nat /\ DOMAIN p.lines = 1..Len(p.lines)
  BY <1>1, LenProperties
<1>3. ASSUME NEW place \in PlacesOf(R)
      PROVE  /\ place.profile \in R
             /\ place.at \in 1..Len(place.profile.lines) /\ place.at \in Nat
             /\ place = [profile |-> place.profile, at |-> place.at]
  <2>1. PICK p \in R : place \in [profile : {p}, at : DOMAIN p.lines]
    BY DEF PlacesOf
  <2>2. /\ place.profile = p /\ place.at \in DOMAIN p.lines
        /\ place = [profile |-> place.profile, at |-> place.at]
    BY <2>1
  <2>3. place.at \in 1..Len(p.lines) /\ Len(p.lines) \in Nat
    BY <1>2, <2>2
  <2> QED
    BY <2>2, <2>3
<1>4. \A place \in PlacesOf(R) : LineAt(place) \in Line
  BY <1>1, <1>3, ElementOfSeq DEF LineAt
<1>5. ASSUME NEW p \in R, NEW i \in 1..Len(p.lines)
      PROVE  [profile |-> p, at |-> i] \in PlacesOf(R)
  BY <1>2 DEF PlacesOf
<1> QED
  BY <1>1, <1>2, <1>3, <1>4, <1>5

\* A new place that all others come before adds its own line only.
LEMMA TypesAfterLine ==
  ASSUME TypeOK, NEW D, TypesTold(variableTypes, D), NEW new,
         LineAt(new) \in Line, \A b \in D : Before(b, new) /\ LineAt(b) \in Line,
         \/ /\ LineAt(new).directive \in Types
            /\ AddVariable(LineAt(new).directive, LineAt(new).value)
         \/ LineAt(new).directive \notin Types /\ UNCHANGED variableTypes
  PROVE  TypesTold(variableTypes', D \cup {new})
<1> DEFINE E == D \cup {new}
           line == LineAt(new)
<1>1. variableTypes \in [Names -> Types \cup {Absent}]
  BY DEF TypeOK
<1> SUFFICES ASSUME NEW n \in Names
             PROVE  \/ DeclaringIn(E, n) = {} /\ variableTypes'[n] = Absent
                    \/ \E a \in DeclaringIn(E, n) :
                         /\ Oldest(DeclaringIn(E, n), a)
                         /\ variableTypes'[n] = LineAt(a).directive
  BY DEF TypesTold
<1>2. CASE line.directive \in Types /\ line.value = n
  <2>0. DeclaringIn(E, n) = DeclaringIn(D, n) \cup {new}
    BY <1>2 DEF DeclaringIn
  <2>1. CASE DeclaringIn(D, n) = {}
    <3>1. variableTypes[n] = Absent
      BY <2>1 DEF TypesTold
    <3>2. variableTypes'[n] = line.directive
      BY <1>1, <1>2, <3>1 DEF AddVariable
    <3>3. Oldest(DeclaringIn(E, n), new) /\ new \in DeclaringIn(E, n)
      BY <2>0, <2>1 DEF Oldest
    <3> QED
      BY <3>2, <3>3
  <2>2. CASE DeclaringIn(D, n) # {}
    <3>1. PICK a \in DeclaringIn(D, n) : /\ Oldest(DeclaringIn(D, n), a)
                                         /\ variableTypes[n] = LineAt(a).directive
      BY <2>2 DEF TypesTold
    <3>2. a \in D /\ LineAt(a).directive \in Types
      BY <3>1 DEF DeclaringIn
    <3>3. variableTypes'[n] = variableTypes[n]
      BY <1>2, <3>1, <3>2, NameFacts DEF AddVariable
    <3>4. Oldest(DeclaringIn(E, n), a)
      BY <2>0, <3>1, <3>2 DEF Oldest
    <3> QED
      BY <3>1, <3>3, <3>4 DEF Oldest
  <2> QED
    BY <2>1, <2>2
<1>3. CASE ~(line.directive \in Types /\ line.value = n)
  <2>1. DeclaringIn(E, n) = DeclaringIn(D, n)
    BY <1>3 DEF DeclaringIn
  <2>2. variableTypes'[n] = variableTypes[n]
    BY <1>1, <1>3 DEF AddVariable
  <2> QED
    BY <2>1, <2>2 DEF TypesTold
<1> QED
  BY <1>2, <1>3

\* While nothing is left of the latest profile, all of its places are passed.
LEMMA AllConsumed ==
  ASSUME TypeOK, lines = << >>
  PROVE  Consumed = Places
<1>1. Len(lines) = 0 /\ read \in SUBSET Profile /\ Places = PlacesOf(read)
  BY EmptySeq DEF TypeOK, Places, PlacesOf
<1>2. ASSUME NEW place \in Places PROVE Passed(place)
  BY <1>1, PlaceFields DEF Passed
<1> QED
  BY <1>2 DEF Consumed

\* Opening a file adds places, and passes none of them.
LEMMA ReadingPassesNone ==
  ASSUME TypeOK, TypeOK', lines = << >>, NEW f \in Nat, NEW content \in Seq(Line),
         \A p \in read : p.file < f, lines' = content,
         read' = read \cup {[file |-> f, lines |-> content]}
  PROVE  Consumed' = Consumed
<1> DEFINE new == [file |-> f, lines |-> content]
<1>0. new \in Profile /\ new.file = f /\ new.lines = content
  BY DEF Profile
<1> HIDE DEF new
<1>1. /\ read' = read \cup {new} /\ lines' = new.lines
      /\ read \in SUBSET Profile /\ read' \in SUBSET Profile
      /\ Places = PlacesOf(read) /\ Places' = PlacesOf(read')
  BY <1>0 DEF new, TypeOK, Places, PlacesOf
<1>2. Consumed = Places
  BY AllConsumed
<1>3. ASSUME NEW place \in Places PROVE place \in Places' /\ Passed(place)'
  <2>1. /\ place.profile \in read /\ place.at \in 1..Len(place.profile.lines)
        /\ place = [profile |-> place.profile, at |-> place.at]
    BY <1>1, PlaceFields
  <2>2. place.profile \in read' /\ new \in read'
    BY <1>1, <2>1
  <2>3. place \in Places'
    BY <1>1, <2>1, <2>2, PlaceFields
  <2>4. Passed(place)'
    BY <1>0, <2>1, <2>2 DEF Passed
  <2> QED
    BY <2>3, <2>4
<1>4. ASSUME NEW place \in Places', place \notin Places PROVE ~Passed(place)'
  <2>1. /\ place.profile \in read' /\ place.at \in 1..Len(place.profile.lines)
        /\ place = [profile |-> place.profile, at |-> place.at]
        /\ place.at \in Nat /\ Len(place.profile.lines) \in Nat
    BY <1>1, PlaceFields
  <2>2. place.profile = new
    BY <1>1, <1>4, <2>1, PlaceFields
  <2>3. \A q \in read' : ~(new.file < q.file)
    BY <1>0, <1>1, PlaceFields
  <2> QED
    BY <1>1, <2>1, <2>2, <2>3 DEF Passed
<1> QED
  BY <1>2, <1>3, <1>4 DEF Consumed

\* Reading a line passes its place, which comes after all those passed before.
LEMMA LinePassesOne ==
  ASSUME TypeOK, ReadInOrder, RestOfLatest, lines # << >>,
         lines' = Tail(lines), UNCHANGED read
  PROVE  \E new \in Places :
           /\ Consumed' = Consumed \cup {new} /\ LineAt(new) = Head(lines)
           /\ \A b \in Consumed : Before(b, new) /\ LineAt(b) \in Line
           /\ RestOfLatest'
<1>1. /\ read \in SUBSET Profile /\ Places = PlacesOf(read) /\ Places' = Places
      /\ lines \in Seq(Line)
  BY DEF TypeOK, Places, PlacesOf
<1>2. /\ Len(lines) \in Nat /\ Len(lines) > 0 /\ Head(lines) = lines[1]
      /\ Len(lines') = Len(lines) - 1
      /\ \A i \in 1..Len(lines') : lines'[i] = lines[i+1]
  BY <1>1, HeadTailProperties, LenProperties, EmptySeq
<1>3. PICK p \in read : Latest(p) /\ IsRestOf(p)
  BY DEF RestOfLatest
<1>4. p.file \in Nat /\ Len(p.lines) \in Nat /\ Len(lines) <= Len(p.lines)
  BY <1>1, <1>3, PlaceFields DEF IsRestOf
<1> DEFINE at == Len(p.lines) - Len(lines) + 1
           new == [profile |-> p, at |-> at]
<1>5. at \in 1..Len(p.lines) /\ at \in Nat
  BY <1>2, <1>4
<1>6. new \in Places /\ new.profile = p /\ new.at = at
  BY <1>1, <1>3, <1>5, PlaceFields
<1>7. LineAt(new) = Head(lines)
  BY <1>2, <1>3, <1>6 DEF LineAt, IsRestOf
<1>8. \A q \in read : q # p => q.file < p.file /\ q.file \in Nat
  BY <1>1, <1>3, PlaceFields DEF Latest
<1> HIDE DEF new
<1>9. ASSUME NEW b \in Places
      PROVE  /\ Passed(b)' <=> Passed(b) \/ b = new
             /\ Passed(b) => Before(b, new) /\ LineAt(b) \in Line
  <2>1. /\ b.profile \in read /\ b.at \in Nat /\ LineAt(b) \in Line
        /\ Len(b.profile.lines) \in Nat /\ b.at \in 1..Len(b.profile.lines)
        /\ b = [profile |-> b.profile, at |-> b.at]
    BY <1>1, PlaceFields
  <2>2. CASE b.profile # p
    <3>1. b.profile.file < p.file
      BY <1>8, <2>1, <2>2
    <3>2. Passed(b) /\ Passed(b)'
      BY <1>3, <3>1 DEF Passed
    <3> QED
      BY <1>6, <2>1, <3>1, <3>2 DEF Before
  <2>3. CASE b.profile = p
    <3>1. ~ \E q \in read : p.file < q.file
      BY <1>4, <1>8
    <3>2. /\ Passed(b) <=> b.at + Len(lines) <= Len(p.lines)
          /\ Passed(b)' <=> b.at + (Len(lines) - 1) <= Len(p.lines)
      BY <1>2, <2>3, <3>1 DEF Passed
    <3>3. b = new <=> b.at = at
      BY <1>6, <2>1, <2>3 DEF new
    <3>4. /\ Passed(b) <=> b.at < at
          /\ Passed(b)' <=> b.at <= at
      BY <1>2, <1>4, <2>1, <3>2
    <3>5. Passed(b)' <=> Passed(b) \/ b = new
      BY <1>5, <2>1, <3>3, <3>4
    <3> QED
      BY <1>6, <2>1, <2>3, <3>4, <3>5 DEF Before
  <2> QED
    BY <2>2, <2>3
<1>10. Consumed' = Consumed \cup {new}
  BY <1>1, <1>6, <1>9 DEF Consumed
<1>11. IsRestOf(p)'
  <2>1. Len(lines') <= Len(p.lines)
    BY <1>2, <1>4
  <2>2. ASSUME NEW i \in 1..Len(lines')
        PROVE  lines'[i] = p.lines[Len(p.lines) - Len(lines') + i]
    <3>1. /\ i+1 \in 1..Len(lines)
          /\ Len(p.lines) - Len(lines) + (i+1) = Len(p.lines) - Len(lines') + i
      <4> DEFINE left == Len(lines)
                 all == Len(p.lines)
      <4>1. /\ left \in Nat /\ all \in Nat /\ left > 0
            /\ Len(lines') = left - 1 /\ i \in 1..(left - 1)
        BY <1>2, <1>4
      <4> HIDE DEF left, all
      <4>2. i+1 \in 1..left /\ all - left + (i+1) = all - (left - 1) + i
        BY <4>1
      <4> QED
        BY <4>1, <4>2 DEF left, all
    <3> QED
      BY <1>2, <1>3, <3>1 DEF IsRestOf
  <2> QED
    BY <2>1, <2>2 DEF IsRestOf
<1>12. RestOfLatest'
  BY <1>3, <1>11 DEF RestOfLatest, Latest
<1>13. \A b \in Consumed : Before(b, new) /\ LineAt(b) \in Line
  BY <1>9 DEF Consumed
<1> QED
  BY <1>6, <1>7, <1>10, <1>12, <1>13

\* The end of a file that was opened, or of the built-in profile.
LEMMA FilesAfterReading ==
  ASSUME FilesInv, TypeOK', Settled', ReadInOrder', lines = << >>,
         NEW f \in Nat, NEW content \in Seq(Line), \A p \in read : p.file < f,
         Reading(content), read' = read \cup {[file |-> f, lines |-> content]}
  PROVE  FilesInv'
<1> DEFINE new == [file |-> f, lines |-> content]
<1>1. TypeOK /\ lines' = content /\ UNCHANGED <<events, variableTypes>>
  BY DEF FilesInv, Reading
<1>2. Consumed' = Consumed
  BY <1>1, ReadingPassesNone
<1>3. RestOfLatest'
  <2>1. new \in read' /\ new.lines = lines' /\ new.file = f
    BY <1>1
  <2>2. \A q \in read' \ {new} : q.file < f
    OBVIOUS
  <2>3. Len(new.lines) \in Nat /\ lines' = new.lines
    BY <1>1, LenProperties
  <2>4. IsRestOf(new)'
    <3> HIDE DEF new
    <3> QED
      BY <2>3 DEF IsRestOf
  <2>5. Latest(new)'
    <3> HIDE DEF new
    <3> QED
      BY <2>1, <2>2 DEF Latest
  <2> HIDE DEF new
  <2> QED
    BY <2>1, <2>4, <2>5 DEF RestOfLatest
<1>4. events' = EventsIn(Consumed)' /\ TypesTold(variableTypes, Consumed)'
  BY <1>1, <1>2 DEF FilesInv, EventsIn, TypesTold, DeclaringIn, LineAt, Oldest, Before
<1> QED
  BY <1>3, <1>4 DEF FilesInv

\* Nothing is read in this step.
LEMMA FilesUnchanged ==
  ASSUME FilesInv, TypeOK', Settled', ReadInOrder',
         UNCHANGED <<events, variableTypes, lines, read>>
  PROVE  FilesInv'
<1>1. Consumed' = Consumed
  BY DEF Consumed, Passed, Places
<1>2. RestOfLatest'
  BY DEF FilesInv, RestOfLatest, Latest, IsRestOf
<1>3. events' = EventsIn(Consumed)' /\ TypesTold(variableTypes, Consumed)'
  BY <1>1 DEF FilesInv, EventsIn, TypesTold, DeclaringIn, LineAt, Oldest, Before
<1> QED
  BY <1>2, <1>3 DEF FilesInv

LEMMA FilesAfterLine ==
  ASSUME FilesInv, TypeOK', Settled', ReadInOrder', ReadLine
  PROVE  FilesInv'
<1>1. /\ TypeOK /\ ReadInOrder /\ RestOfLatest /\ lines # << >>
      /\ lines' = Tail(lines) /\ UNCHANGED read
  BY DEF FilesInv, ReadLine
<1>2. PICK new \in Places :
        /\ Consumed' = Consumed \cup {new} /\ LineAt(new) = Head(lines)
        /\ \A b \in Consumed : Before(b, new) /\ LineAt(b) \in Line
        /\ RestOfLatest'
  BY <1>1, LinePassesOne
<1>3. LineAt(new) \in Line
  BY <1>1, <1>2, HeadTailProperties DEF TypeOK
<1> DEFINE line == LineAt(new)
<1>4. \/ line.directive = "event" /\ AddEvent(line.value)
      \/ line.directive \in Types /\ AddVariable(line.directive, line.value)
      \/ line.directive = "ignored" /\ UNCHANGED <<events, variableTypes, variables>>
  BY <1>2 DEF ReadLine
<1>5. events' = EventsIn(Consumed')
  <2>1. events = EventsIn(Consumed)
    BY DEF FilesInv
  <2>2. CASE line.directive = "event"
    <3>1. events' = events \cup {line.value}
      BY <1>4, <2>2 DEF AddEvent, Types
    <3>2. EventsIn(Consumed \cup {new}) = EventsIn(Consumed) \cup {line.value}
      BY <2>2 DEF EventsIn
    <3> QED
      BY <1>2, <2>1, <3>1, <3>2
  <2>3. CASE line.directive # "event"
    <3>1. events' = events
      BY <1>4, <2>3 DEF AddVariable
    <3>2. EventsIn(Consumed \cup {new}) = EventsIn(Consumed)
      BY <2>3 DEF EventsIn
    <3> QED
      BY <1>2, <2>1, <3>1, <3>2
  <2> QED
    BY <2>2, <2>3
<1>6. TypesTold(variableTypes', Consumed')
  <2>1. TypesTold(variableTypes, Consumed)
    BY DEF FilesInv
  <2>2. \/ /\ LineAt(new).directive \in Types
           /\ AddVariable(LineAt(new).directive, LineAt(new).value)
        \/ LineAt(new).directive \notin Types /\ UNCHANGED variableTypes
    BY <1>4 DEF AddEvent, Types
  <2>3. TypesTold(variableTypes', Consumed \cup {new})
    BY <1>1, <1>2, <1>3, <2>1, <2>2, TypesAfterLine
  <2> QED
    BY <1>2, <2>3
<1> QED
  BY <1>2, <1>5, <1>6 DEF FilesInv

\* Each step keeps the order of the reading.
LEMMA OrderNext ==
  ASSUME FilesInv, TypeOK', [Next]_vars
  PROVE  Settled' /\ ReadInOrder'
<1>1. TypeOK /\ Settled /\ ReadInOrder
  BY DEF FilesInv
<1>2. \A p \in read : p.file \in Nat
  BY <1>1 DEF TypeOK, Profile
<1>3. CASE Initialize
  BY <1>1, <1>3 DEF Initialize, tables, Settled, ReadInOrder
<1>4. CASE ListEntry
  BY <1>1, <1>4 DEF ListEntry, tables, Settled, ReadInOrder
<1>5. CASE FinishListing
  BY <1>1, <1>5 DEF FinishListing, tables, Settled, ReadInOrder
<1>6. CASE OpenFile
  <2>1. PICK f \in files :
          /\ \A g \in files : f <= g
          /\ files' = files \ {f}
          /\ \/ /\ f \in DOMAIN disk /\ Reading(disk[f])
                /\ read' = read \cup {[file |-> f, lines |-> disk[f]]}
             \/ UNCHANGED <<tables, lines, read>>
    BY <1>6 DEF OpenFile
  <2>2. Settled'
    BY <1>1, <1>6 DEF OpenFile, Settled
  <2>3. \A g \in files : g \in Nat /\ g # BuiltIn
    BY <1>1, FileFacts DEF TypeOK
  <2>4. CASE UNCHANGED <<tables, lines, read>>
    BY <1>1, <1>6, <2>1, <2>2, <2>4 DEF OpenFile, tables, ReadInOrder
  <2>5. CASE /\ Reading(disk[f])
             /\ read' = read \cup {[file |-> f, lines |-> disk[f]]}
    <3> DEFINE new == [file |-> f, lines |-> disk[f]]
    <3>1. new.file = f /\ read' = read \cup {new} /\ profileCount' = profileCount + 1
          /\ stage' = "parse" /\ stage = "parse" /\ profileCount \in Nat
      BY <1>1, <1>6, <2>5 DEF OpenFile, Reading, TypeOK
    <3> HIDE DEF new
    <3>2. \A p \in read : p.file < f /\ p.file # BuiltIn
      BY <1>1, <2>1 DEF ReadInOrder
    <3>3. \A p, q \in read' : p.file = q.file => p = q
      BY <1>1, <1>2, <2>3, <3>1, <3>2 DEF ReadInOrder
    <3>4. \A p \in read' : \A g \in files' : p.file < g
      BY <1>1, <1>2, <2>1, <2>3, <3>1 DEF ReadInOrder
    <3>5. \A p \in read' : p.file # BuiltIn
      BY <2>1, <2>3, <3>1, <3>2
    <3>6. profileCount' # 0 /\ read' # {}
      BY <3>1
    <3> QED
      BY <2>2, <3>1, <3>3, <3>4, <3>5, <3>6 DEF ReadInOrder
  <2> QED
    BY <2>1, <2>4, <2>5
<1>7. CASE ReadLine
  BY <1>1, <1>7 DEF ReadLine, Settled, ReadInOrder
<1>8. CASE AddBuiltInHelmetFallback
  <2>1. Settled'
    BY <1>1, <1>8 DEF AddBuiltInHelmetFallback, LoadedFiles, Settled
  <2>2. read = {} /\ files' = {} /\ profileCount' = 1 /\ stage' = "parse"
        /\ read' = {[file |-> BuiltIn, lines |-> HelmetProfile]}
    BY <1>1, <1>8
    DEF AddBuiltInHelmetFallback, LoadedFiles, Reading, ReadInOrder
  <2>3. \E r : read' = {r}
    BY <2>2
  <2> QED
    BY ONLY <2>1, <2>2, <2>3 DEF ReadInOrder
<1>9. CASE DiscoverOARGraphVariables
  BY <1>1, <1>9
  DEF DiscoverOARGraphVariables, LoadedFiles, tables, cursor, Settled, ReadInOrder
<1>10. CASE FilesChange
  BY <1>1, <1>10 DEF FilesChange, tables, cursor, Settled, ReadInOrder
<1>11. CASE UNCHANGED vars
  BY <1>1, <1>11 DEF vars, tables, cursor, Settled, ReadInOrder
<1> QED
  BY <1>3, <1>4, <1>5, <1>6, <1>7, <1>8, <1>9, <1>10, <1>11 DEF Next

LEMMA FilesNext == FilesInv /\ [Next]_vars => FilesInv'
<1> SUFFICES ASSUME FilesInv, [Next]_vars PROVE FilesInv'
  OBVIOUS
<1>1. TypeOK /\ TypeOK' /\ Settled' /\ ReadInOrder /\ ReadInOrder'
  BY TypeNext, OrderNext DEF FilesInv
<1>2. CASE Initialize \/ ListEntry \/ FinishListing \/ DiscoverOARGraphVariables
             \/ FilesChange \/ UNCHANGED vars
  BY <1>1, <1>2, FilesUnchanged
  DEF Initialize, ListEntry, FinishListing, DiscoverOARGraphVariables,
      FilesChange, vars, tables, cursor
<1>3. CASE OpenFile
  <2>1. PICK f \in files :
          \/ /\ f \in DOMAIN disk /\ Reading(disk[f])
             /\ read' = read \cup {[file |-> f, lines |-> disk[f]]}
          \/ UNCHANGED <<tables, lines, read>>
    BY <1>3 DEF OpenFile
  <2>2. f \in Nat /\ \A p \in read : p.file < f
    BY <1>1, FileFacts DEF TypeOK, ReadInOrder
  <2>3. CASE /\ f \in DOMAIN disk /\ Reading(disk[f])
             /\ read' = read \cup {[file |-> f, lines |-> disk[f]]}
    <3>1. lines = << >>
      BY <1>3 DEF OpenFile
    <3> QED
      BY <1>1, <2>2, <2>3, <3>1, ContentType, FilesAfterReading
  <2> QED
    BY <1>1, <2>1, <2>3, FilesUnchanged DEF tables
<1>4. CASE ReadLine
  BY <1>1, <1>4, FilesAfterLine
<1>5. CASE AddBuiltInHelmetFallback
  <2>1. lines = << >> /\ read = {}
    BY <1>1, <1>5 DEF AddBuiltInHelmetFallback, LoadedFiles, ReadInOrder
  <2> QED
    BY <1>1, <1>5, <2>1, HelmetType, FileFacts, FilesAfterReading
    DEF AddBuiltInHelmetFallback
<1> QED
  BY <1>2, <1>3, <1>4, <1>5 DEF Next

LEMMA FilesInit == Init => FilesInv
<1> SUFFICES ASSUME Init PROVE FilesInv
  OBVIOUS
<1>1. TypeOK /\ Settled /\ ReadInOrder /\ RestOfLatest
  BY InitType DEF Init, Settled, ReadInOrder, RestOfLatest
<1>2. Consumed = {}
  BY DEF Init, Consumed, Places
<1>3. events = EventsIn(Consumed)
  BY <1>2 DEF Init, EventsIn
<1>4. TypesTold(variableTypes, Consumed)
  BY <1>2 DEF Init, TypesTold, DeclaringIn
<1> QED
  BY <1>1, <1>3, <1>4 DEF FilesInv

\* Two places of the profiles read: one at most comes before the other.
LEMMA BeforeIsStrict ==
  ASSUME FilesInv, NEW a \in Places, NEW b \in Places, Before(a, b)
  PROVE  ~Before(b, a)
<1>1. read \in SUBSET Profile /\ Places = PlacesOf(read)
  BY DEF FilesInv, TypeOK, Places, PlacesOf
<1>2. /\ a.profile \in read /\ b.profile \in read
      /\ a.profile.file \in Nat /\ b.profile.file \in Nat
      /\ a.at \in Nat /\ b.at \in Nat
  BY <1>1, PlaceFields
<1> QED
  BY <1>2 DEF Before

LEMMA FilesFollowed == FilesInv => RulesFollowFiles
<1> SUFFICES ASSUME FilesInv, inUse PROVE RulesFollowFiles
  BY DEF RulesFollowFiles
<1>1. TypeOK /\ stage = "ready" /\ lines = << >> /\ ReadInOrder
  BY DEF FilesInv, Settled, ReadInOrder
<1>2. Consumed = Places
  BY <1>1, AllConsumed
<1>3. profileCount > 0
  BY <1>1 DEF TypeOK, ReadInOrder
<1>4. (\E p \in read : p.file = BuiltIn) => profileCount = 1
  BY <1>1 DEF ReadInOrder
<1>5. events = {LineAt(place).value :
                  place \in {q \in Places : LineAt(q).directive = "event"}}
  BY <1>2 DEF FilesInv, EventsIn
<1>6. ASSUME NEW n \in Names
      PROVE  variableTypes[n] = IF Declares(n) = {} THEN Absent ELSE FirstType(n)
  <2>1. Declares(n) = DeclaringIn(Consumed, n)
    BY <1>2 DEF Declares, DeclaringIn
  <2>2. CASE Declares(n) = {} /\ variableTypes[n] = Absent
    BY <2>2
  <2>3. ASSUME NEW a \in Declares(n), Oldest(Declares(n), a),
               variableTypes[n] = LineAt(a).directive
        PROVE  variableTypes[n] = IF Declares(n) = {} THEN Absent
                                                     ELSE FirstType(n)
    <3> DEFINE D == Declares(n)
               c == CHOOSE x \in D : \A b \in D \ {x} : Before(x, b)
    <3>1. c \in D /\ \A b \in D \ {c} : Before(c, b)
      BY <2>3 DEF Oldest
    <3>2. a \in Places /\ c \in Places
      BY <3>1 DEF Declares
    <3> HIDE DEF c
    <3>3. c = a
      BY <2>3, <3>1, <3>2, BeforeIsStrict DEF Oldest
    <3>4. FirstType(n) = LineAt(c).directive
      BY DEF FirstType, c
    <3> QED
      BY <2>3, <3>3, <3>4
  <2> QED
    BY <2>1, <2>2, <2>3 DEF FilesInv, TypesTold
<1> QED
  BY <1>3, <1>4, <1>5, <1>6 DEF RulesFollowFiles

\* Whatever order the directory returns the files in, and however they change
\* meanwhile, the tables in use say what the profiles that were read say: all
\* their events, and each variable with the type of its first declaration.
THEOREM TablesFollowFiles == Spec => []RulesFollowFiles
  BY FilesInit, FilesNext, FilesFollowed, PTL DEF Spec

=============================================================================
