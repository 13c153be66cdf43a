----------------------- MODULE RuntimeInstall_proofs -----------------------
(***************************************************************************)
(* Theorems about RuntimeInstall, for any set of other plugins.             *)
(***************************************************************************)
EXTENDS RuntimeInstall, TLAPS

(***************************************************************************)
(* Types, and the registrations.                                           *)
(***************************************************************************)
\* The inductive invariant of the client's four stages.
ClientInv == TypeOK /\ RegisteredOnce /\ ResolverIsHeard

LEMMA ClientInit == ASSUME Init PROVE ClientInv
BY InstallAssumption DEF Init, ClientInv, TypeOK, RegisteredOnce, ResolverIsHeard,
   Impls, Slots, Ours, Engine

LEMMA HooksTyped ==
  ASSUME TypeOK, InstallHooks
  PROVE  /\ installed' \in [Slots -> BOOLEAN]
         /\ slot' \in [Slots -> Impls]
         /\ calls' \in [Slots -> [Impls -> Impls \cup {Nothing}]]
BY DEF TypeOK, InstallHooks, Impls

LEMMA ClientKept ==
  ASSUME ClientInv, NEW answers, Initialize(answers)
  PROVE  /\ messaging' \in BOOLEAN /\ channelRegistered' \in BOOLEAN
         /\ resolver' \in BOOLEAN /\ listenerRegistered' \in BOOLEAN
         /\ channels' \in Nat /\ listeners' \in Nat
         /\ RegisteredOnce' /\ ResolverIsHeard'
<1> DEFINE m == messaging \/ "messaging" \in answers
           c == channelRegistered \/ (m /\ "channel" \in answers)
           r == resolver \/ (c /\ "resolver" \in answers)
           l == listenerRegistered \/ (r /\ "listener" \in answers)
<1>1. /\ messaging' = m /\ channelRegistered' = c
      /\ resolver' = (r /\ l) /\ listenerRegistered' = l
  BY Zenon DEF Initialize
<1>2. /\ channels' = IF c /\ ~channelRegistered THEN channels + 1 ELSE channels
      /\ listeners' = IF l /\ ~listenerRegistered THEN listeners + 1 ELSE listeners
  BY Zenon DEF Initialize
<1>3. m \in BOOLEAN /\ c \in BOOLEAN /\ r \in BOOLEAN /\ l \in BOOLEAN
  OBVIOUS
<1>4. (channelRegistered => c) /\ (listenerRegistered => l)
  OBVIOUS
<1> HIDE DEF m, c, r, l
<1>5. /\ channels' = IF c THEN 1 ELSE 0
      /\ listeners' = IF l THEN 1 ELSE 0
  BY <1>2, <1>4 DEF ClientInv, RegisteredOnce
<1>6. /\ messaging' \in BOOLEAN /\ channelRegistered' \in BOOLEAN
      /\ resolver' \in BOOLEAN /\ listenerRegistered' \in BOOLEAN
  BY <1>1, <1>3
<1>7. RegisteredOnce' BY <1>1, <1>5 DEF RegisteredOnce
<1>8. ResolverIsHeard' BY <1>1, <1>3, <1>5 DEF ResolverIsHeard
<1>9. channels' \in Nat /\ listeners' \in Nat BY <1>5
<1> QED BY <1>6, <1>7, <1>8, <1>9

LEMMA ClientStep == ASSUME ClientInv, [Next]_vars PROVE ClientInv'
<1>1. CASE UNCHANGED vars
  BY <1>1 DEF vars, clientVars, oarVars, hookVars, ClientInv, TypeOK,
     RegisteredOnce, ResolverIsHeard
<1>2. ASSUME NEW answers \in SUBSET Stages, NEW oar \in BOOLEAN,
             InstallRuntime(answers, oar)
      PROVE  ClientInv'
  <2>1. /\ installed' \in [Slots -> BOOLEAN]
        /\ slot' \in [Slots -> Impls]
        /\ calls' \in [Slots -> [Impls -> Impls \cup {Nothing}]]
    BY <1>2, HooksTyped DEF InstallRuntime, ClientInv
  <2>2. attemptedLoad' \in BOOLEAN /\ interface' \in BOOLEAN
    BY <1>2 DEF InstallRuntime, OARInitialize, ClientInv, TypeOK
  <2>3. CASE IsAvailable
    BY <1>2, <2>1, <2>2, <2>3 DEF InstallRuntime, clientVars, ClientInv, TypeOK,
       RegisteredOnce, ResolverIsHeard
  <2>4. CASE ~IsAvailable
    BY <1>2, <2>1, <2>2, <2>4, ClientKept DEF InstallRuntime, ClientInv, TypeOK
  <2> QED BY <2>3, <2>4
<1>3. ASSUME NEW v \in Slots, NEW o \in Others, OtherHooks(v, o) PROVE ClientInv'
  BY <1>3 DEF OtherHooks, clientVars, oarVars, ClientInv, TypeOK, RegisteredOnce,
     ResolverIsHeard, Impls
<1> QED BY <1>1, <1>2, <1>3 DEF Next

\* Every variable has its type in every reachable state.
THEOREM TypeCorrect == Spec => []TypeOK
<1>1. Spec => []ClientInv BY ClientInit, ClientStep, PTL DEF Spec
<1> QED BY <1>1, PTL DEF ClientInv

\* However often the plugin is installed and whichever stages fail, STRPM holds
\* each callback as often as the client believes, at most once.
THEOREM NoDoubleRegistration == Spec => []RegisteredOnce
<1>1. Spec => []ClientInv BY ClientInit, ClientStep, PTL DEF Spec
<1> QED BY <1>1, PTL DEF ClientInv

\* A client that can resolve proxies hears of their mappings.
THEOREM ResolverAlwaysHeard == Spec => []ResolverIsHeard
<1>1. Spec => []ClientInv BY ClientInit, ClientStep, PTL DEF Spec
<1> QED BY <1>1, PTL DEF ClientInv

\* A load at which every service answers completes the client, whatever the
\* loads before it left, and it stays complete until the next one.
THEOREM LoadCompletes == Spec => []CompletesWhenPossible
<1>1. ASSUME Init PROVE CompletesWhenPossible
  BY <1>1 DEF Init, CompletesWhenPossible, Stages
<1>2. ASSUME CompletesWhenPossible, [Next]_vars PROVE CompletesWhenPossible'
  <2>1. CASE UNCHANGED vars
    BY <1>2, <2>1 DEF vars, clientVars, CompletesWhenPossible, IsAvailable
  <2>2. ASSUME NEW answers \in SUBSET Stages, NEW oar \in BOOLEAN,
               InstallRuntime(answers, oar)
        PROVE  CompletesWhenPossible'
    <3>1. CASE IsAvailable
      BY <2>2, <3>1 DEF InstallRuntime, IsAvailable, clientVars, CompletesWhenPossible
    <3>2. CASE ~IsAvailable /\ answers = Stages
      <4>1. Initialize(Stages) BY <2>2, <3>2 DEF InstallRuntime
      <4>2. messaging' /\ channelRegistered' /\ listenerRegistered' /\ resolver'
        BY <4>1, Zenon DEF Initialize, Stages
      <4> QED BY <4>2 DEF IsAvailable, CompletesWhenPossible
    <3>3. CASE answers # Stages
      BY <2>2, <3>3 DEF InstallRuntime, CompletesWhenPossible
    <3> QED BY <3>1, <3>2, <3>3
  <2>3. ASSUME NEW v \in Slots, NEW o \in Others, OtherHooks(v, o)
        PROVE  CompletesWhenPossible'
    BY <1>2, <2>3 DEF OtherHooks, clientVars, CompletesWhenPossible, IsAvailable
  <2> QED BY <1>2, <2>1, <2>2, <2>3 DEF Next
<1> QED BY <1>1, <1>2, PTL DEF Spec

(***************************************************************************)
(* The hook chains.  Whoever is not in a chain yet is called by nobody, so  *)
(* putting it in front closes no cycle.                                    *)
(***************************************************************************)
Outside(v, i) ==
  /\ calls[v][i] = Nothing
  /\ slot[v] # i
  /\ \A j \in Impls : calls[v][j] # i

ChainInv ==
  /\ TypeOK
  /\ \A v \in Slots : installed[v] \/ Outside(v, Ours)
  /\ \A v \in Slots : \A o \in Others : calls[v][o] = Nothing => Outside(v, o)
  /\ HooksReachEngine

\* A chain of which i was no part reaches the engine with i in front too.
LEMMA PutInFront ==
  ASSUME ChainInv, NEW v \in Slots, NEW i \in Impls \ {Engine}, Outside(v, i),
         NEW s \in SUBSET Impls, i \in s, slot[v] \in s,
         \A j \in s \ {Engine, i} : calls[v][j] \in s
  PROVE  Engine \in s /\ (installed[v] => Ours \in s)
<1>1. Closed(v, s \ {i})
  BY DEF Outside, Closed
<1>2. s \ {i} \in SUBSET Impls OBVIOUS
<1> QED BY <1>1, <1>2 DEF ChainInv, HooksReachEngine

LEMMA ChainInit == ASSUME Init PROVE ChainInv
<1>1. TypeOK BY ClientInit DEF ClientInv
<1>2. /\ \A v \in Slots : Outside(v, Ours)
      /\ \A v \in Slots : \A o \in Others : Outside(v, o)
  BY InstallAssumption DEF Init, Outside, Impls, Ours, Engine
<1>3. HooksReachEngine
  BY DEF Init, HooksReachEngine, Closed
<1> QED BY <1>1, <1>2, <1>3 DEF ChainInv

LEMMA InstallKeepsChains ==
  ASSUME ChainInv, TypeOK', InstallHooks
  PROVE  ChainInv'
<1>1. ASSUME NEW v \in Slots PROVE installed'[v]
  BY <1>1 DEF InstallHooks
<1>2. ASSUME NEW v \in Slots, installed[v]
      PROVE  slot'[v] = slot[v] /\ calls'[v] = calls[v]
  BY <1>2 DEF InstallHooks
<1>3. ASSUME NEW v \in Slots, ~installed[v]
      PROVE  /\ slot'[v] = Ours /\ Outside(v, Ours)
             /\ calls'[v][Ours] = slot[v]
             /\ \A j \in Impls \ {Ours} : calls'[v][j] = calls[v][j]
  BY <1>3 DEF InstallHooks, ChainInv, TypeOK, Impls
<1>4. ASSUME NEW v \in Slots, NEW o \in Others, calls'[v][o] = Nothing
      PROVE  Outside(v, o)'
  <2>0. o \in Impls /\ o # Ours BY InstallAssumption DEF Impls
  <2>1. calls[v][o] = Nothing BY <1>2, <1>3, <1>4, <2>0
  <2>2. Outside(v, o) BY <2>1 DEF ChainInv
  <2> QED BY <1>2, <1>3, <1>4, <2>0, <2>2 DEF Outside
<1>5. ASSUME NEW v \in Slots, NEW s \in SUBSET Impls, Closed(v, s)'
      PROVE  Engine \in s /\ Ours \in s
  <2>1. CASE installed[v]
    <3>1. Closed(v, s) BY <1>2, <1>5, <2>1 DEF Closed
    <3> QED BY <2>1, <3>1 DEF ChainInv, HooksReachEngine
  <2>2. CASE ~installed[v]
    <3>1. Ours \in Impls \ {Engine} BY DEF Impls, Ours, Engine
    <3>2. Ours \in s /\ slot[v] \in s
      BY <1>3, <1>5, <2>2, <3>1 DEF Closed
    <3>3. \A j \in s \ {Engine, Ours} : calls[v][j] \in s
      BY <1>3, <1>5, <2>2 DEF Closed
    <3> QED BY <1>3, <2>2, <3>1, <3>2, <3>3, PutInFront
  <2> QED BY <2>1, <2>2
<1> QED BY <1>1, <1>4, <1>5 DEF ChainInv, HooksReachEngine

LEMMA OthersKeepChains ==
  ASSUME ChainInv, TypeOK', NEW w \in Slots, NEW q \in Others, OtherHooks(w, q)
  PROVE  ChainInv'
<1>0. q \in Impls /\ q # Ours /\ q # Engine /\ Outside(w, q)
  BY InstallAssumption DEF Impls, OtherHooks, ChainInv
<1>1. ASSUME NEW v \in Slots, v # w
      PROVE  slot'[v] = slot[v] /\ calls'[v] = calls[v] /\ installed'[v] = installed[v]
  BY <1>1 DEF OtherHooks, ChainInv, TypeOK
<1>2. /\ slot'[w] = q /\ calls'[w][q] = slot[w] /\ installed'[w] = installed[w]
      /\ \A j \in Impls \ {q} : calls'[w][j] = calls[w][j]
  BY <1>0 DEF OtherHooks, ChainInv, TypeOK
<1>3. slot[w] # Nothing
  BY InstallAssumption DEF ChainInv, TypeOK
<1>4. ASSUME NEW v \in Slots, NEW i \in Impls, Outside(v, i), v # w \/ i # q
      PROVE  Outside(v, i)'
  BY <1>0, <1>1, <1>2, <1>4 DEF Outside
<1>5. ASSUME NEW v \in Slots PROVE installed'[v] \/ Outside(v, Ours)'
  <2>1. Ours \in Impls BY DEF Impls
  <2> QED BY <1>0, <1>1, <1>2, <1>4, <2>1 DEF ChainInv
<1>6. ASSUME NEW v \in Slots, NEW o \in Others, calls'[v][o] = Nothing
      PROVE  Outside(v, o)'
  <2>1. o \in Impls BY DEF Impls
  <2>2. v # w \/ o # q BY <1>2, <1>3, <1>6
  <2>3. calls[v][o] = Nothing BY <1>1, <1>2, <1>6, <2>1, <2>2
  <2>4. Outside(v, o) BY <2>3 DEF ChainInv
  <2> QED BY <1>4, <2>1, <2>2, <2>4
<1>7. ASSUME NEW v \in Slots, NEW s \in SUBSET Impls, Closed(v, s)'
      PROVE  Engine \in s /\ (installed'[v] => Ours \in s)
  <2>1. CASE v # w
    <3>1. Closed(v, s) BY <1>1, <1>7, <2>1 DEF Closed
    <3> QED BY <1>1, <2>1, <3>1 DEF ChainInv, HooksReachEngine
  <2>2. CASE v = w
    <3>1. q \in s /\ slot[w] \in s BY <1>0, <1>2, <1>7, <2>2 DEF Closed
    <3>2. \A j \in s \ {Engine, q} : calls[w][j] \in s
      BY <1>2, <1>7, <2>2 DEF Closed
    <3> QED BY <1>0, <1>2, <2>2, <3>1, <3>2, PutInFront
  <2> QED BY <2>1, <2>2
<1> QED BY <1>5, <1>6, <1>7 DEF ChainInv, HooksReachEngine

LEMMA ChainStep == ASSUME ClientInv, ChainInv, [Next]_vars PROVE ChainInv'
<1>0. TypeOK' BY ClientStep DEF ClientInv
<1>1. CASE UNCHANGED vars
  BY <1>0, <1>1 DEF vars, hookVars, ChainInv, Outside, HooksReachEngine, Closed
<1>2. ASSUME NEW answers \in SUBSET Stages, NEW oar \in BOOLEAN,
             InstallRuntime(answers, oar)
      PROVE  ChainInv'
  BY <1>0, <1>2, InstallKeepsChains DEF InstallRuntime
<1>3. ASSUME NEW v \in Slots, NEW o \in Others, OtherHooks(v, o) PROVE ChainInv'
  BY <1>0, <1>3, OthersKeepChains
<1> QED BY <1>1, <1>2, <1>3 DEF Next

\* Any number of loads and any plugins that hook before and after leave a call
\* that passes this plugin once it is installed and ends in the engine.
THEOREM ChainsEnd == Spec => []HooksReachEngine
<1>1. Spec => []ClientInv BY ClientInit, ClientStep, PTL DEF Spec
<1>2. ChainInv /\ ClientInv /\ [Next]_vars => ChainInv' BY ChainStep
<1>3. Spec => []ChainInv BY <1>1, <1>2, ChainInit, PTL DEF Spec
<1> QED BY <1>3, PTL DEF ChainInv
=============================================================================
