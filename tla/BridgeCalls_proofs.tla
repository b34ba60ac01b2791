-------------------------- MODULE BridgeCalls_proofs --------------------------
(***************************************************************************)
(* A plugin knows whether its bridge is there, however the registrations   *)
(* of the two sides interleave; a call is in one place on its way through  *)
(* the threads, a message gets its own response unless an earlier one was  *)
(* lost, and registrations stop only when the two locks have crossed: for  *)
(* every set of threads and plugins and any number of calls.               *)
(***************************************************************************)
EXTENDS BridgeCalls, TLAPS

(* What the rest of BridgeCalls may do to the registry: count a call.      *)
OtherCall    == Operates /\ UNCHANGED restOfRegistry
RegistryNext == Register \/ RegistrationStep \/ OtherCall
RegistrySpec == RegistryInit /\ [][RegistryNext]_registryVars

(* The inductive invariant.  A registration that holds bridgeMapLock_ is    *)
(* about the plugin in the map, which was never told anything; what it      *)
(* learned is still true unless the JS thread waits to tell otherwise.      *)
PluginInv ==
    /\ plugin \in created \cup {NoPlugin}
    /\ \A p \in Plugin \ created : ~isAvailable[p]
    /\ doing[JsThread][1] = "found" => doing[JsThread][2] \in created \cup {NoPlugin}
    /\ \A t \in Thread : doing[t][1] \in {"asks", "learned"} =>
           /\ plugin = doing[t][2] /\ ~isAvailable[plugin]
           /\ doing[JsThread][1] = "found" => doing[JsThread][2] # plugin
           /\ doing[t][1] = "learned" => doing[JsThread][1] # "found"

TellingInv ==
    /\ doing[JsThread][1] = "tells" => receiver = doing[JsThread][2]
    /\ doing[JsThread][1] = "found" => receiver = doing[JsThread][3]
    /\ \A t \in Thread \ {JsThread} : doing[t][1] \notin {"tells", "found"}

LearnedInv ==
    \A t \in Thread : doing[t][1] = "learned" =>
        /\ Free(bridgeLock) => (doing[t][3] <=> receiver = PluginType[plugin])
        /\ doing[JsThread][1] = "tells" /\ receiver # "none" => ~doing[t][3]

UntoldInv ==
    plugin # NoPlugin /\ Free(mapLock) =>
        /\ ~Free(bridgeLock) /\ receiver # "none" => ~isAvailable[plugin]
        /\ doing[JsThread][1] = "found" => doing[JsThread][2] = plugin

AgreeInv ==
    /\ RegistryTypeOK /\ RegistryHolds
    /\ PluginInv /\ TellingInv /\ LearnedInv /\ UntoldInv
    /\ AvailabilityAgrees

-----------------------------------------------------------------------------
LEMMA Asks ==
    ASSUME RegistryTypeOK, NEW t \in Thread, doing[t][1] = "asks"
    PROVE  \E p \in Plugin : doing[t] = <<"asks", p>>
BY DEF RegistryTypeOK, Step, Idle

LEMMA Learned ==
    ASSUME RegistryTypeOK, NEW t \in Thread, doing[t][1] = "learned"
    PROVE  \E p \in Plugin, b \in BOOLEAN : doing[t] = <<"learned", p, b>>
BY DEF RegistryTypeOK, Step, Idle

LEMMA Found ==
    ASSUME RegistryTypeOK, doing[JsThread][1] = "found"
    PROVE  \E p \in Plugin \cup {NoPlugin}, type \in Codec \cup {"none"} :
               doing[JsThread] = <<"found", p, type>>
BY BridgeAssumption DEF RegistryTypeOK, Step, Idle

LEMMA AskBridgeTypes ==
    ASSUME NEW t \in Thread, AgreeInv, AskBridge(t)
    PROVE  RegistryTypeOK'
<1>1. PICK p \in Plugin : doing[t] = <<"asks", p>>
    BY Asks DEF AgreeInv, AskBridge
<1>2. PICK b \in BOOLEAN : b = (receiver = PluginType[p])
    OBVIOUS
<1>3. doing' = [doing EXCEPT ![t] = <<"learned", p, b>>]
    BY <1>1, <1>2 DEF AskBridge
<1>4. <<"learned", p, b>> \in Step
    BY DEF Step
<1> QED
    BY <1>3, <1>4 DEF AgreeInv, RegistryTypeOK, AskBridge

LEMMA AskBridgeAgrees ==
    ASSUME NEW t \in Thread, AgreeInv, AskBridge(t)
    PROVE  PluginInv' /\ TellingInv' /\ LearnedInv' /\ UntoldInv' /\ AvailabilityAgrees'
<1>1. PICK p \in Plugin : doing[t] = <<"asks", p>>
    BY Asks DEF AgreeInv, AskBridge
<1>2. PICK b \in BOOLEAN : b = (receiver = PluginType[p])
    OBVIOUS
<1>3. doing' = [doing EXCEPT ![t] = <<"learned", p, b>>]
    BY <1>1, <1>2 DEF AskBridge
<1>4. doing'[t] = <<"learned", p, b>> /\ \A u \in Thread \ {t} : doing'[u] = doing[u]
    BY <1>3 DEF AgreeInv, RegistryTypeOK
<1>5. /\ UNCHANGED <<receiver, bridgeLock, plugin, created, isAvailable, mapLock>>
      /\ Free(bridgeLock) /\ mapLock = t /\ plugin = p /\ doing[JsThread][1] \notin {"tells", "found"}
    BY <1>1, BridgeAssumption DEF AskBridge, AgreeInv, RegistryHolds, PluginInv, Free
<1> USE BridgeAssumption, <1>1, <1>4, <1>5 DEF AgreeInv, Free
<1>6. PluginInv'
    BY DEF PluginInv
<1>7. TellingInv'
    BY <1>4 DEF TellingInv
<1>8. LearnedInv'
  <2>1. \A u \in Thread \ {t} : doing'[u][1] # "learned"
    BY DEF RegistryHolds
  <2>2. doing'[JsThread][1] # "tells"
    OBVIOUS
  <2>3. doing'[t][3] = b
    BY <1>4
  <2>4. doing'[t][3] <=> receiver = PluginType[p]
    BY <1>2, <2>3
  <2> QED
    BY <2>1, <2>2, <2>4 DEF LearnedInv
<1>9. UntoldInv' /\ AvailabilityAgrees'
    BY DEF UntoldInv, AvailabilityAgrees, RegistryTypeOK
<1> QED
    BY <1>6, <1>7, <1>8, <1>9

LEMMA LearnAnswerAgrees ==
    ASSUME NEW t \in Thread, AgreeInv, LearnAnswer(t)
    PROVE  PluginInv' /\ TellingInv' /\ LearnedInv' /\ UntoldInv' /\ AvailabilityAgrees'
<1>1. PICK p \in Plugin, b \in BOOLEAN : doing[t] = <<"learned", p, b>>
    BY Learned DEF AgreeInv, LearnAnswer
<1>2. doing'[t] = Idle /\ \A u \in Thread \ {t} : doing'[u] = doing[u]
    BY DEF AgreeInv, RegistryTypeOK, LearnAnswer
<1>3. /\ UNCHANGED <<receiver, bridgeLock, plugin, created>>
      /\ mapLock = t /\ mapLock' = Nobody /\ plugin = p /\ p \in created
      /\ doing[JsThread][1] # "found"
      /\ \A u \in Thread : doing'[u][1] \notin {"asks", "learned"}
    BY <1>1, <1>2, BridgeAssumption DEF LearnAnswer, AgreeInv, RegistryHolds, PluginInv, Idle
<1>4. isAvailable' = [isAvailable EXCEPT ![p] = isAvailable[p] \/ b]
    BY <1>1 DEF LearnAnswer
<1>5. (isAvailable'[p] <=> b) /\ \A q \in Plugin \ {p} : isAvailable'[q] = isAvailable[q]
    BY <1>1, <1>3, <1>4 DEF AgreeInv, RegistryTypeOK, PluginInv
<1>6. doing'[JsThread] \in {Idle, doing[JsThread]}
    BY <1>2, BridgeAssumption
<1> USE BridgeAssumption, <1>3, <1>5, <1>6 DEF AgreeInv, Free
<1>7. PluginInv'
    BY DEF PluginInv, Idle, RegistryTypeOK
<1>8. TellingInv'
    BY <1>2 DEF TellingInv, Idle
<1>9. LearnedInv'
    BY DEF LearnedInv
<1>10. UntoldInv'
  <2>1. ~Free(bridgeLock) => doing[JsThread][1] = "tells"
    BY DEF RegistryTypeOK, RegistryHolds, TellingInv
  <2> QED
    BY <1>1, <2>1 DEF UntoldInv, LearnedInv, Idle
<1>11. AvailabilityAgrees'
    BY <1>1 DEF AvailabilityAgrees, LearnedInv
<1> QED
    BY <1>7, <1>8, <1>9, <1>10, <1>11

LEMMA TellPluginAgrees ==
    ASSUME AgreeInv, TellPlugin
    PROVE  PluginInv' /\ TellingInv' /\ LearnedInv' /\ UntoldInv' /\ AvailabilityAgrees'
<1>1. PICK p \in Plugin \cup {NoPlugin}, type \in Codec \cup {"none"} :
          doing[JsThread] = <<"found", p, type>>
    BY Found DEF AgreeInv, TellPlugin
<1>2. /\ doing'[JsThread] = Idle /\ \A u \in Thread \ {JsThread} : doing'[u] = doing[u]
      /\ UNCHANGED <<receiver, plugin, created, mapLock>>
      /\ bridgeLock = JsThread /\ bridgeLock' = Nobody /\ receiver = type
      /\ p \in created \cup {NoPlugin}
      /\ \A u \in Thread : doing[u][1] # "learned" /\ (doing[u][1] = "asks" => p # plugin)
    BY <1>1, BridgeAssumption
       DEF AgreeInv, RegistryTypeOK, RegistryHolds, PluginInv, TellingInv, TellPlugin
<1>3. /\ isAvailable' \in [Plugin -> BOOLEAN]
      /\ \A q \in Plugin \ {p} : isAvailable'[q] = isAvailable[q]
      /\ p # NoPlugin => isAvailable'[p] = Told(p, type)
  <2>1. isAvailable \in [Plugin -> BOOLEAN]
    BY DEF AgreeInv, RegistryTypeOK
  <2>2. CASE p = NoPlugin
    BY <1>1, <2>1, <2>2, BridgeAssumption DEF TellPlugin
  <2>3. CASE p \in Plugin
    <3>1. isAvailable' = [isAvailable EXCEPT ![p] = Told(p, type)]
      BY <1>1, <2>3, BridgeAssumption DEF TellPlugin
    <3>2. Told(p, type) \in BOOLEAN
      BY <2>1, <2>3 DEF Told
    <3> QED
      BY <2>1, <2>3, <3>1, <3>2, BridgeAssumption
  <2> QED
    BY <2>2, <2>3
<1> USE BridgeAssumption, <1>1, <1>2, <1>3 DEF AgreeInv, Free
<1>4. PluginInv'
  <2>1. \A u \in Thread : doing[u][1] = "asks" => plugin \in Plugin
    BY Asks DEF PluginInv
  <2> QED
    BY <2>1 DEF PluginInv, Idle
<1>5. TellingInv'
    BY DEF TellingInv, Idle
<1>6. LearnedInv'
    BY DEF LearnedInv, Idle
<1>7. UntoldInv'
    BY DEF UntoldInv, Idle
<1>8. AvailabilityAgrees'
  <2> SUFFICES ASSUME plugin # NoPlugin, Free(mapLock)
               PROVE  isAvailable'[plugin] <=> receiver = PluginType[plugin]
    BY DEF AvailabilityAgrees
  <2>1. p = plugin /\ (receiver # "none" => ~isAvailable[plugin])
    BY DEF UntoldInv
  <2>2. PluginType[plugin] \in Codec /\ PluginType[plugin] # "none"
    BY DEF RegistryTypeOK, Codec
  <2> QED
    BY <2>1, <2>2 DEF Told
<1> QED
    BY <1>4, <1>5, <1>6, <1>7, <1>8

(* Every step of the registry keeps the invariant.                         *)
LEMMA AgreeIsInductive ==
    ASSUME AgreeInv, [RegistryNext]_registryVars
    PROVE  AgreeInv'
<1> DEFINE Agreement == PluginInv /\ TellingInv /\ LearnedInv /\ UntoldInv /\ AvailabilityAgrees
<1> USE BridgeAssumption
<1>1. ASSUME NEW type \in Codec, BuildBridge(type)
      PROVE  AgreeInv'
  <2>1. RegistryTypeOK'
    BY <1>1 DEF AgreeInv, BuildBridge, Operates, RegistryTypeOK, RegistryHolds, Step, Idle, Codec
  <2>2. RegistryHolds'
    BY <1>1 DEF AgreeInv, BuildBridge, Operates, RegistryTypeOK, RegistryHolds, Step, Idle, Codec, Free
  <2>3. Agreement'
    BY <1>1 DEF AgreeInv, BuildBridge, Operates, PluginInv, TellingInv, LearnedInv, UntoldInv,
          AvailabilityAgrees, RegistryTypeOK, RegistryHolds, Step, Idle, Codec, Free
  <2> QED
    BY <2>1, <2>2, <2>3 DEF AgreeInv
<1>2. ASSUME NEW type \in Codec, CopyBridge(type)
      PROVE  AgreeInv'
  <2>1. RegistryTypeOK'
    BY <1>2 DEF AgreeInv, CopyBridge, Operates, RegistryTypeOK, RegistryHolds, Step, Idle, Codec
  <2>2. RegistryHolds'
    BY <1>2 DEF AgreeInv, CopyBridge, Operates, RegistryTypeOK, RegistryHolds, Step, Idle, Codec, Free
  <2>3. Agreement'
    BY <1>2 DEF AgreeInv, CopyBridge, Operates, PluginInv, TellingInv, LearnedInv, UntoldInv,
          AvailabilityAgrees, RegistryTypeOK, RegistryHolds, Step, Idle, Codec, Free
  <2> QED
    BY <2>1, <2>2, <2>3 DEF AgreeInv
<1>3. ASSUME DropBridge PROVE AgreeInv'
  <2>1. RegistryTypeOK'
    BY <1>3 DEF AgreeInv, DropBridge, Operates, RegistryTypeOK, RegistryHolds, Step, Idle, Codec
  <2>2. RegistryHolds'
    BY <1>3 DEF AgreeInv, DropBridge, Operates, RegistryTypeOK, RegistryHolds, Step, Idle, Codec, Free
  <2>3. Agreement'
    BY <1>3 DEF AgreeInv, DropBridge, Operates, PluginInv, TellingInv, LearnedInv, UntoldInv,
          AvailabilityAgrees, RegistryTypeOK, RegistryHolds, Step, Idle, Codec, Free
  <2> QED
    BY <2>1, <2>2, <2>3 DEF AgreeInv
<1>4. ASSUME DeleteBridge PROVE AgreeInv'
  <2>1. RegistryTypeOK'
    BY <1>4 DEF AgreeInv, DeleteBridge, Operates, RegistryTypeOK, RegistryHolds, Step, Idle, Codec
  <2>2. RegistryHolds'
    BY <1>4 DEF AgreeInv, DeleteBridge, Operates, RegistryTypeOK, RegistryHolds, Step, Idle, Codec, Free
  <2>3. Agreement'
    BY <1>4 DEF AgreeInv, DeleteBridge, Operates, PluginInv, TellingInv, LearnedInv, UntoldInv,
          AvailabilityAgrees, RegistryTypeOK, RegistryHolds, Step, Idle, Codec, Free
  <2> QED
    BY <2>1, <2>2, <2>3 DEF AgreeInv
<1>5. ASSUME FindPlugin PROVE AgreeInv'
  <2>1. RegistryTypeOK'
    BY <1>5 DEF AgreeInv, FindPlugin, Operates, RegistryTypeOK, RegistryHolds, Step, Idle, Codec
  <2>2. RegistryHolds'
    BY <1>5 DEF AgreeInv, FindPlugin, Operates, RegistryTypeOK, RegistryHolds, Step, Idle, Codec, Free
  <2>3. Agreement'
    BY <1>5 DEF AgreeInv, FindPlugin, Operates, PluginInv, TellingInv, LearnedInv, UntoldInv,
          AvailabilityAgrees, RegistryTypeOK, RegistryHolds, Step, Idle, Codec, Free
  <2> QED
    BY <2>1, <2>2, <2>3 DEF AgreeInv
<1>6. ASSUME TellPlugin PROVE AgreeInv'
  <2>1. RegistryTypeOK'
    BY <1>6 DEF AgreeInv, TellPlugin, Told, Operates, RegistryTypeOK, RegistryHolds, Step, Idle, Codec
  <2>2. RegistryHolds'
    BY <1>6 DEF AgreeInv, TellPlugin, Operates, RegistryTypeOK, RegistryHolds, Step, Idle, Codec, Free
  <2>3. Agreement'
    BY <1>6, TellPluginAgrees
  <2> QED
    BY <2>1, <2>2, <2>3 DEF AgreeInv
<1>7. ASSUME NEW t \in Thread, NEW p \in Plugin, RegisterPlugin(t, p)
      PROVE  AgreeInv'
  <2>1. RegistryTypeOK'
    BY <1>7 DEF AgreeInv, RegisterPlugin, Operates, RegistryTypeOK, RegistryHolds, Step, Idle, Codec
  <2>2. RegistryHolds'
    BY <1>7 DEF AgreeInv, RegisterPlugin, Operates, RegistryTypeOK, RegistryHolds, Step, Idle, Codec, Free
  <2>3. Agreement'
    BY <1>7 DEF AgreeInv, RegisterPlugin, Operates, PluginInv, TellingInv, LearnedInv, UntoldInv,
          AvailabilityAgrees, RegistryTypeOK, RegistryHolds, Step, Idle, Codec, Free
  <2> QED
    BY <2>1, <2>2, <2>3 DEF AgreeInv
<1>8. ASSUME NEW t \in Thread, AskBridge(t)
      PROVE  AgreeInv'
  <2>1. RegistryTypeOK'
    BY <1>8, AskBridgeTypes
  <2>2. RegistryHolds'
    BY <1>8 DEF AgreeInv, AskBridge, Operates, RegistryTypeOK, RegistryHolds, Step, Idle, Codec, Free
  <2>3. Agreement'
    BY <1>8, AskBridgeAgrees
  <2> QED
    BY <2>1, <2>2, <2>3 DEF AgreeInv
<1>9. ASSUME NEW t \in Thread, LearnAnswer(t)
      PROVE  AgreeInv'
  <2>1. RegistryTypeOK'
    BY <1>9 DEF AgreeInv, LearnAnswer, Operates, RegistryTypeOK, RegistryHolds, Step, Idle, Codec
  <2>2. RegistryHolds'
    BY <1>9 DEF AgreeInv, LearnAnswer, Operates, RegistryTypeOK, RegistryHolds, Step, Idle, Codec, Free
  <2>3. Agreement'
    BY <1>9, LearnAnswerAgrees
  <2> QED
    BY <2>1, <2>2, <2>3 DEF AgreeInv
<1>10. ASSUME NEW t \in Thread, UnregisterPlugin(t)
      PROVE  AgreeInv'
  <2>1. RegistryTypeOK'
    BY <1>10 DEF AgreeInv, UnregisterPlugin, Operates, RegistryTypeOK, RegistryHolds, Step, Idle, Codec
  <2>2. RegistryHolds'
    BY <1>10 DEF AgreeInv, UnregisterPlugin, Operates, RegistryTypeOK, RegistryHolds, Step, Idle, Codec, Free
  <2>3. Agreement'
    BY <1>10 DEF AgreeInv, UnregisterPlugin, Operates, PluginInv, TellingInv, LearnedInv, UntoldInv,
          AvailabilityAgrees, RegistryTypeOK, RegistryHolds, Step, Idle, Codec, Free
  <2> QED
    BY <2>1, <2>2, <2>3 DEF AgreeInv
<1>11. ASSUME OtherCall PROVE AgreeInv'
  <2>1. RegistryTypeOK'
    BY <1>11 DEF AgreeInv, OtherCall, restOfRegistry, Operates, RegistryTypeOK
  <2> QED
    BY <1>11, <2>1 DEF AgreeInv, OtherCall, restOfRegistry, RegistryHolds, PluginInv, TellingInv,
       LearnedInv, UntoldInv, AvailabilityAgrees
<1>12. CASE UNCHANGED registryVars
    BY <1>12 DEF registryVars, AgreeInv, RegistryTypeOK, RegistryHolds, PluginInv, TellingInv,
       LearnedInv, UntoldInv, AvailabilityAgrees
<1> QED
    BY <1>1, <1>2, <1>3, <1>4, <1>5, <1>6, <1>7, <1>8, <1>9, <1>10, <1>11, <1>12
       DEF RegistryNext, Register, RegistrationStep

LEMMA AgreeInitially ==
    ASSUME RegistryInit
    PROVE  AgreeInv
BY BridgeAssumption DEF RegistryInit, AgreeInv, RegistryTypeOK, RegistryHolds, PluginInv, TellingInv,
   LearnedInv, UntoldInv, AvailabilityAgrees, Step, Idle, Codec, Free

-----------------------------------------------------------------------------
(* Calls and messages do nothing to the registry but count.                *)

LEMMA StepsOfTheRegistry ==
    ASSUME [Next]_vars
    PROVE  [RegistryNext]_registryVars
<1> USE DEF RegistryNext
<1>1. CASE CallMethod \/ SendMessage \/ PlatformCalls
    BY <1>1 DEF CallMethod, SendMessage, PlatformCalls, SetMessageListener, OtherCall
<1>2. CASE DeleteBridgeAndLists
    BY <1>2 DEF DeleteBridgeAndLists, Register
<1>3. CASE RegistryStep
    BY <1>3 DEF RegistryStep, Register
<1>4. CASE BridgeThread
    BY <1>4 DEF BridgeThread, RunBridgeTask, RunTask, Respond
<1>5. ASSUME NEW c \in Call, PoolThread(c) PROVE UNCHANGED registryVars
    BY <1>5 DEF PoolThread, ReturnResult, LoseResult
<1>6. CASE JsReceives
    BY <1>6 DEF JsReceives, RunMainTask, EraseJSMethodData, AsyncWorkCallback
<1>7. CASE UNCHANGED vars
    BY <1>7 DEF vars
<1> QED
    BY <1>1, <1>2, <1>3, <1>4, <1>5, <1>6, <1>7 DEF Next, JsCalls

(* BridgeCalls is BridgeRegistry with other calls in between.              *)
THEOREM CallsKeepTheRegistry == Spec => RegistrySpec
<1>1. Init => RegistryInit
    BY DEF Init
<1>2. [Next]_vars => [RegistryNext]_registryVars
    BY StepsOfTheRegistry
<1> QED
    BY <1>1, <1>2, PTL DEF Spec, RegistrySpec

LEMMA RegistryInvariant == Spec => []AgreeInv
<1>1. RegistryInit => AgreeInv
    BY AgreeInitially
<1>2. AgreeInv /\ [RegistryNext]_registryVars => AgreeInv'
    BY AgreeIsInductive
<1> QED
    BY <1>1, <1>2, CallsKeepTheRegistry, PTL DEF RegistrySpec

(* Once registrations are over, the plugin in the map takes the bridge for  *)
(* available exactly when a receiver of its type is there.                 *)
THEOREM BothSidesAgree == Spec => []AvailabilityAgrees
<1>1. AgreeInv => AvailabilityAgrees
    BY DEF AgreeInv
<1> QED
    BY <1>1, RegistryInvariant, PTL

-----------------------------------------------------------------------------
(* The two locks.                                                          *)

\* A thread inside a registration has its next step before it: the guards of FindPlugin,
\* TellPlugin, AskBridge and LearnAnswer.
RegistrationCanStep ==
    \/ doing[JsThread][1] = "tells" /\ Free(mapLock)
    \/ doing[JsThread][1] = "found"
    \/ \E t \in Thread : doing[t][1] = "asks" /\ Free(bridgeLock)
    \/ \E t \in Thread : doing[t][1] = "learned"

\* Registrations stop for no other reason than that JSRegisterBridge and
\* registerBridgePlugin each wait for the other's lock.
OnlyCrossingBlocks == (\E t \in Thread : doing[t] # Idle) => RegistrationCanStep \/ Crossed

\* Nothing undoes a crossing, and it stops more than the two threads: no registration, no
\* call, task, result or response on any thread goes on.  What is left is an entry that
\* is being erased, and setMessageListener.
CrossingStopsAll ==
    [][Crossed => UNCHANGED <<restOfRegistry, methodId, messages, jsSendMessageDataList,
           bridgeTasks, responding, executor, mainTasks, works, answer, lost>>]_vars

LEMMA CrossedLocks ==
    ASSUME RegistryTypeOK, RegistryHolds, Crossed
    PROVE  /\ ~Free(mapLock) /\ ~Free(bridgeLock)
           /\ doing[JsThread][1] = "tells" /\ doing[JsThread] # Idle
           /\ \A t \in Thread : doing[t][1] \notin {"found", "learned"}
<1>1. PICK t \in Thread : doing[t][1] = "asks"
    BY DEF Crossed
<1>2. doing[JsThread][1] = "tells" /\ bridgeLock = JsThread /\ mapLock = t
    BY <1>1, BridgeAssumption DEF Crossed, RegistryHolds
<1>3. \A u \in Thread : doing[u][1] = "found" => u = JsThread
    BY <1>2 DEF RegistryHolds
<1>4. \A u \in Thread : doing[u][1] = "learned" => u = t
    BY <1>2 DEF RegistryHolds
<1> QED
    BY <1>1, <1>2, <1>3, <1>4, BridgeAssumption DEF Free, Idle

(* Each lock is held by a thread that is between its steps, and only these   *)
(* two steps wait with a lock held.                                          *)
THEOREM RegistrationsBlockOnlyCrossed == Spec => []OnlyCrossingBlocks
<1>1. ASSUME AgreeInv PROVE OnlyCrossingBlocks
  <2> SUFFICES ASSUME NEW t \in Thread, doing[t] # Idle, ~RegistrationCanStep
               PROVE  Crossed
    BY DEF OnlyCrossingBlocks
  <2> USE <1>1, BridgeAssumption DEF AgreeInv
  <2>1. doing[t][1] \in {"tells", "found", "asks", "learned"}
    <3>1. doing[t] \in Step /\ doing[t] # Idle
      BY DEF RegistryTypeOK
    <3> QED
      BY <3>1 DEF Step
  <2>2. \A u \in Thread : doing[u][1] \in {"tells", "found"} => u = JsThread
    BY DEF TellingInv
  <2>3. doing[JsThread][1] # "found" /\ \A u \in Thread : doing[u][1] # "learned"
    BY DEF RegistrationCanStep
  <2>4. CASE doing[t][1] = "tells"
    <3>1. t = JsThread /\ ~Free(mapLock)
      BY <2>2, <2>4 DEF RegistrationCanStep
    <3>2. mapLock \in Thread /\ doing[mapLock][1] \in {"asks", "learned"}
      BY <3>1 DEF RegistryTypeOK, RegistryHolds, Free
    <3> QED
      BY <2>3, <2>4, <3>1, <3>2 DEF Crossed
  <2>5. CASE doing[t][1] = "asks"
    <3>1. ~Free(bridgeLock)
      BY <2>5 DEF RegistrationCanStep
    <3>2. bridgeLock \in Thread /\ doing[bridgeLock][1] \in {"tells", "found"}
      BY <3>1 DEF RegistryTypeOK, RegistryHolds, Free
    <3> QED
      BY <2>2, <2>3, <2>5, <3>2 DEF Crossed
  <2> QED
    BY <2>1, <2>2, <2>3, <2>4, <2>5
<1> QED
    BY <1>1, RegistryInvariant, PTL

(* The JS thread waits inside a finalizer or a constructor, and every other   *)
(* thread needs one of the two locks for its next step.                       *)
THEOREM CrossingsStopAll == Spec => CrossingStopsAll
<1> DEFINE All == <<restOfRegistry, methodId, messages, jsSendMessageDataList,
           bridgeTasks, responding, executor, mainTasks, works, answer, lost>>
<1>1. ASSUME AgreeInv, Crossed, [Next]_vars PROVE UNCHANGED All
  <2>1. /\ ~Free(mapLock) /\ ~Free(bridgeLock)
        /\ doing[JsThread][1] = "tells" /\ doing[JsThread] # Idle
        /\ \A t \in Thread : doing[t][1] \notin {"found", "learned"}
    BY <1>1, CrossedLocks DEF AgreeInv
  <2>2. ~JsIdle
    BY <2>1 DEF JsIdle
  <2>3. CASE JsCalls \/ PlatformCalls
    BY <2>1, <2>2, <2>3 DEF JsCalls, CallMethod, SendMessage, DeleteBridgeAndLists, DeleteBridge,
       PlatformCalls, SetMessageListener
  <2>4. ~RegistryStep
    BY <2>1, BridgeAssumption DEF RegistryStep, DropBridge, BuildBridge, CopyBridge, UnregisterPlugin, RegisterPlugin,
       RegistrationStep, FindPlugin, TellPlugin, AskBridge, LearnAnswer
  <2>5. ~BridgeThread /\ \A c \in Call : ~PoolThread(c)
    BY <2>1 DEF BridgeThread, RunBridgeTask, RunTask, Respond, PoolThread, ReturnResult, LoseResult
  <2>6. CASE JsReceives
    BY <2>2, <2>6 DEF JsReceives, RunMainTask, EraseJSMethodData, AsyncWorkCallback, restOfRegistry, registryVars
  <2>7. CASE UNCHANGED vars
    BY <2>7 DEF vars, registryVars, callVars, restOfRegistry
  <2> QED
    BY <1>1, <2>3, <2>4, <2>5, <2>6, <2>7 DEF Next
<1> QED
    BY <1>1, RegistryInvariant, PTL DEF Spec, CrossingStopsAll

-----------------------------------------------------------------------------
(* The types of calls and messages.                                        *)

LEMMA RemovedTasks ==
    ASSUME bridgeTasks \in Seq(Sender), NEW i \in DOMAIN bridgeTasks
    PROVE  RemoveAt(bridgeTasks, i) \in Seq(Sender)
<1>1. SubSeq(bridgeTasks, 1, i - 1) \in Seq(Sender)
    OBVIOUS
<1>2. SubSeq(bridgeTasks, i + 1, Len(bridgeTasks)) \in Seq(Sender)
    OBVIOUS
<1> QED
    BY <1>1, <1>2 DEF RemoveAt

LEMMA Appended ==
    ASSUME NEW S, NEW s \in Seq(S), NEW x \in S
    PROVE  Append(s, x) \in Seq(S)
OBVIOUS

LEMMA CallTypesAreInductive ==
    ASSUME CallTypeOK, [Next]_vars
    PROVE  CallTypeOK'
<1> USE CallsAssumption DEF CallTypeOK
<1>1. CASE CallMethod
  <2>1. methodId' \in 0 .. MaxCalls /\ <<"call", methodId'>> \in Call
    BY <1>1 DEF CallMethod, Call
  <2>2. bridgeTasks' \in Seq(Sender)
    BY <1>1, <2>1 DEF CallMethod, Sender
  <2> QED
    BY <1>1, <2>1, <2>2 DEF CallMethod
<1>2. CASE SendMessage
  <2>1. messages' \in 0 .. MaxMessages /\ <<"message", messages'>> \in Message
    BY <1>2 DEF SendMessage, Message
  <2>2. bridgeTasks' \in Seq(Sender) /\ jsSendMessageDataList' \in Seq(Message)
    BY <1>2, <2>1 DEF SendMessage, Sender
  <2> QED
    BY <1>2, <2>1, <2>2 DEF SendMessage
<1>3. CASE DeleteBridgeAndLists
    BY <1>3 DEF DeleteBridgeAndLists, Sender
<1>4. CASE PlatformCalls
    BY <1>4 DEF PlatformCalls, SetMessageListener
<1>5. CASE RegistryStep
    BY <1>5 DEF RegistryStep, callVars
<1>6. CASE RunBridgeTask
  <2>1. 1 \in DOMAIN bridgeTasks /\ bridgeTasks[1] \in Sender
    BY <1>6 DEF RunBridgeTask
  <2>2. bridgeTasks' \in Seq(Sender)
    BY <1>6, <2>1, RemovedTasks DEF RunBridgeTask, RunTask
  <2>3. responding' \in Message \cup {NoOne} /\ executor' \subseteq Call /\ lost' \subseteq Sender
    BY <1>6, <2>1 DEF RunBridgeTask, RunTask
  <2> QED
    BY <1>6, <2>2, <2>3 DEF RunBridgeTask, RunTask
<1>7. CASE Respond
  <2>1. responding \in Message
    BY <1>7 DEF Respond
  <2>2. jsSendMessageDataList # <<>> =>
            /\ Tail(jsSendMessageDataList) \in Seq(Message)
            /\ <<Head(jsSendMessageDataList), responding>> \in Sender \X Sender
    BY <2>1 DEF Sender
  <2>3. jsSendMessageDataList' \in Seq(Message) /\ mainTasks' \in Seq(Sender \X Sender)
    <3>1. jsSendMessageDataList # <<>> =>
              Append(mainTasks, <<Head(jsSendMessageDataList), responding>>) \in Seq(Sender \X Sender)
      BY <2>2, Appended
    <3>2. \/ UNCHANGED <<jsSendMessageDataList, mainTasks>>
          \/ /\ jsSendMessageDataList # <<>>
             /\ jsSendMessageDataList' = Tail(jsSendMessageDataList)
             /\ mainTasks' = Append(mainTasks, <<Head(jsSendMessageDataList), responding>>)
      BY <1>7 DEF Respond
    <3> QED
      BY <2>2, <3>1, <3>2
  <2>4. lost' \subseteq Sender
    BY <1>7, <2>1 DEF Respond, Sender
  <2> QED
    BY <1>7, <2>3, <2>4 DEF Respond
<1>8. ASSUME NEW c \in Call, PoolThread(c) PROVE CallTypeOK'
  <2>1. <<c, c>> \in Sender \X Sender
    BY DEF Sender
  <2>2. mainTasks' \in Seq(Sender \X Sender)
    <3>1. Append(mainTasks, <<c, c>>) \in Seq(Sender \X Sender)
      BY <2>1, Appended
    <3>2. mainTasks' \in {mainTasks, Append(mainTasks, <<c, c>>)}
      BY <1>8 DEF PoolThread, ReturnResult, LoseResult
    <3> QED
      BY <3>1, <3>2
  <2> QED
    BY <1>8, <2>2 DEF PoolThread, ReturnResult, LoseResult, Sender
<1>9. CASE RunMainTask
  <2>1. Head(mainTasks) \in Sender \X Sender /\ Tail(mainTasks) \in Seq(Sender \X Sender)
    BY <1>9 DEF RunMainTask
  <2> QED
    BY <1>9, <2>1 DEF RunMainTask
<1>10. CASE EraseJSMethodData
    BY <1>10 DEF EraseJSMethodData
<1>11. ASSUME NEW w \in works, AsyncWorkCallback(w) PROVE CallTypeOK'
  <2>1. w[1] \in Sender /\ w[2] \in Sender
    OBVIOUS
  <2> QED
    BY <1>11, <2>1 DEF AsyncWorkCallback
<1>12. CASE UNCHANGED vars
    BY <1>12 DEF vars, callVars
<1> QED
    BY <1>1, <1>2, <1>3, <1>4, <1>5, <1>6, <1>7, <1>8, <1>9, <1>10, <1>11, <1>12
       DEF Next, JsCalls, BridgeThread, JsReceives

(* The types; the Bridge, its receiver and the two locks belong together.   *)
THEOREM BridgeTypes == Spec => []BridgeTypeOK
<1>1. Spec => []CallTypeOK
  <2>1. Init => CallTypeOK
    BY CallsAssumption DEF Init, CallTypeOK
  <2>2. CallTypeOK /\ [Next]_vars => CallTypeOK'
    BY CallTypesAreInductive
  <2> QED
    BY <2>1, <2>2, PTL DEF Spec
<1>2. AgreeInv /\ CallTypeOK => BridgeTypeOK
    BY DEF AgreeInv, BridgeTypeOK
<1> QED
    BY <1>1, <1>2, RegistryInvariant, PTL

-----------------------------------------------------------------------------
(* A call is in one place.                                                 *)

OnBridge(c) == \E i \in DOMAIN bridgeTasks : bridgeTasks[i] = c
OnMain(c)   == \E i \in DOMAIN mainTasks : mainTasks[i][1] = c
AtWork(c)   == \E w \in works : w[1] = c

(* Exactly one of the seven places; a task for the call is in its list once, and carries *)
(* the call's own result.                                                  *)
OneOfSeven(c) ==
    /\ ~Sent(c) => ~OnBridge(c) /\ c \notin executor /\ ~OnMain(c) /\ ~AtWork(c)
                   /\ answer[c] = NoOne /\ c \notin lost
    /\ OnBridge(c) => c \notin executor /\ ~OnMain(c) /\ ~AtWork(c) /\ answer[c] = NoOne /\ c \notin lost
    /\ c \in executor => ~OnMain(c) /\ ~AtWork(c) /\ answer[c] = NoOne /\ c \notin lost
    /\ OnMain(c) => ~AtWork(c) /\ answer[c] = NoOne /\ c \notin lost
    /\ AtWork(c) => answer[c] = NoOne /\ c \notin lost
    /\ answer[c] # NoOne => c \notin lost
    /\ \/ ~Sent(c) \/ OnBridge(c) \/ c \in executor \/ OnMain(c) \/ AtWork(c)
       \/ answer[c] # NoOne \/ c \in lost

OnceInLists(c) ==
    /\ \A i, j \in DOMAIN bridgeTasks : bridgeTasks[i] = c /\ bridgeTasks[j] = c => i = j
    /\ \A i, j \in DOMAIN mainTasks : mainTasks[i][1] = c /\ mainTasks[j][1] = c => i = j
    /\ \A i \in DOMAIN mainTasks : mainTasks[i][1] = c => mainTasks[i] = <<c, c>>
    /\ \A w \in works : w[1] = c => w = <<c, c>>
    /\ answer[c] \in {c, NoOne}

PlaceInv(c) == OneOfSeven(c) /\ OnceInLists(c)

LEMMA CallsAreNoMessages ==
    ASSUME NEW c \in Call
    PROVE  /\ c \notin Message /\ c # NoOne /\ c[1] = "call" /\ c[2] \in 1 .. MaxCalls
           /\ c = <<"call", c[2]>>
<1>1. PICK n \in 1 .. MaxCalls : c = <<"call", n>>
    BY DEF Call
<1>2. c[1] = "call" /\ c[2] = n /\ c # NoOne
    BY <1>1 DEF NoOne
<1>3. \A m \in Message : m[1] = "message"
    BY DEF Message
<1> QED
    BY <1>1, <1>2, <1>3

(* What appending and taking the first do to who is in a list.             *)
LEMMA InAppended ==
    ASSUME NEW S, NEW s \in Seq(S), NEW x
    PROVE  /\ Len(Append(s, x)) = Len(s) + 1 /\ Len(s) \in Nat
           /\ DOMAIN s = 1 .. Len(s) /\ DOMAIN Append(s, x) = 1 .. (Len(s) + 1)
           /\ \A i \in 1 .. Len(s) : Append(s, x)[i] = s[i]
           /\ Append(s, x)[Len(s) + 1] = x
OBVIOUS

LEMMA InTail ==
    ASSUME NEW S, NEW s \in Seq(S), s # <<>>
    PROVE  /\ Len(s) \in Nat \ {0} /\ DOMAIN s = 1 .. Len(s)
           /\ DOMAIN Tail(s) = 1 .. (Len(s) - 1)
           /\ \A i \in 1 .. (Len(s) - 1) : Tail(s)[i] = s[i + 1]
           /\ Head(s) = s[1]
OBVIOUS

LEMMA FirstRemoved ==
    ASSUME NEW S, NEW s \in Seq(S), s # <<>>
    PROVE  /\ Len(s) \in Nat \ {0} /\ DOMAIN s = 1 .. Len(s)
           /\ DOMAIN RemoveAt(s, 1) = 1 .. (Len(s) - 1)
           /\ \A i \in 1 .. (Len(s) - 1) : RemoveAt(s, 1)[i] = s[i + 1]
<1>1. Len(s) \in Nat \ {0} /\ DOMAIN s = 1 .. Len(s)
    OBVIOUS
<1>2. SubSeq(s, 1, 1 - 1) = <<>>
    BY <1>1
<1>3. SubSeq(s, 1 + 1, Len(s)) \in Seq(S) /\ Len(SubSeq(s, 1 + 1, Len(s))) = Len(s) - 1
    BY <1>1
<1>4. \A i \in 1 .. (Len(s) - 1) : SubSeq(s, 1 + 1, Len(s))[i] = s[i + 1]
    BY <1>1
<1>5. RemoveAt(s, 1) = SubSeq(s, 1 + 1, Len(s))
    BY <1>2, <1>3 DEF RemoveAt
<1> QED
    BY <1>1, <1>3, <1>4, <1>5

(* Nothing happens to the places of c.                                     *)
LEMMA PlacesUntouched ==
    ASSUME NEW c, PlaceInv(c), UNCHANGED <<bridgeTasks, mainTasks, works>>, answer'[c] = answer[c],
           Sent(c)' = Sent(c), (c \in executor') = (c \in executor), (c \in lost') = (c \in lost)
    PROVE  PlaceInv(c)'
BY DEF PlaceInv, OneOfSeven, OnceInLists, OnBridge, OnMain, AtWork

LEMMA CallMethodKeepsPlaces ==
    ASSUME NEW c \in Call, CallTypeOK, PlaceInv(c), CallMethod
    PROVE  PlaceInv(c)'
<1> DEFINE x == <<"call", methodId + 1>>
<1>1. /\ methodId' = methodId + 1 /\ methodId \in Nat /\ bridgeTasks' = Append(bridgeTasks, x)
      /\ UNCHANGED <<executor, mainTasks, works, answer, lost>>
    BY CallsAssumption DEF CallMethod, CallTypeOK
<1>2. bridgeTasks \in Seq(Sender)
    BY DEF CallTypeOK
<1>3. (c = x <=> c[2] = methodId + 1) /\ c[2] \in Nat
    BY CallsAreNoMessages, CallsAssumption
<1>4. (Sent(c) <=> c[2] <= methodId) /\ (Sent(c)' <=> c[2] <= methodId + 1)
    BY <1>1, CallsAreNoMessages DEF Sent
<1>5. (Sent(c)' <=> Sent(c) \/ c = x) /\ (c = x => ~Sent(c))
    BY <1>1, <1>3, <1>4
<1> HIDE DEF x
<1>6. /\ Len(bridgeTasks) \in Nat /\ DOMAIN bridgeTasks = 1 .. Len(bridgeTasks)
      /\ DOMAIN bridgeTasks' = 1 .. (Len(bridgeTasks) + 1)
      /\ \A i \in 1 .. Len(bridgeTasks) : bridgeTasks'[i] = bridgeTasks[i]
      /\ bridgeTasks'[Len(bridgeTasks) + 1] = x
    BY <1>1, <1>2, InAppended
<1>7. OnBridge(c)' <=> OnBridge(c) \/ c = x
    BY <1>6 DEF OnBridge
<1>8. OnceInLists(c)'
  <2>1. \A i, j \in DOMAIN bridgeTasks' : bridgeTasks'[i] = c /\ bridgeTasks'[j] = c => i = j
    BY <1>5, <1>6 DEF PlaceInv, OneOfSeven, OnceInLists, OnBridge
  <2> QED
    BY <1>1, <2>1 DEF PlaceInv, OnceInLists
<1>9. OneOfSeven(c)'
    BY <1>1, <1>5, <1>7 DEF PlaceInv, OneOfSeven, OnMain, AtWork
<1> QED
    BY <1>8, <1>9 DEF PlaceInv

LEMMA SendMessageKeepsPlaces ==
    ASSUME NEW c \in Call, CallTypeOK, PlaceInv(c), SendMessage
    PROVE  PlaceInv(c)'
<1> DEFINE x == <<"message", messages + 1>>
<1>1. /\ bridgeTasks' = Append(bridgeTasks, x)
      /\ UNCHANGED <<methodId, executor, mainTasks, works, answer, lost>>
    BY DEF SendMessage
<1>2. bridgeTasks \in Seq(Sender)
    BY DEF CallTypeOK
<1>3. c # x
    BY CallsAreNoMessages
<1>4. Sent(c)' <=> Sent(c)
    BY <1>1, CallsAreNoMessages DEF Sent
<1> HIDE DEF x
<1>6. /\ Len(bridgeTasks) \in Nat /\ DOMAIN bridgeTasks = 1 .. Len(bridgeTasks)
      /\ DOMAIN bridgeTasks' = 1 .. (Len(bridgeTasks) + 1)
      /\ \A i \in 1 .. Len(bridgeTasks) : bridgeTasks'[i] = bridgeTasks[i]
      /\ bridgeTasks'[Len(bridgeTasks) + 1] = x
    BY <1>1, <1>2, InAppended
<1>7. OnBridge(c)' <=> OnBridge(c)
    BY <1>3, <1>6 DEF OnBridge
<1>8. OnceInLists(c)'
  <2>1. \A i, j \in DOMAIN bridgeTasks' : bridgeTasks'[i] = c /\ bridgeTasks'[j] = c => i = j
    BY <1>3, <1>6 DEF PlaceInv, OnceInLists
  <2> QED
    BY <1>1, <2>1 DEF PlaceInv, OnceInLists
<1>9. OneOfSeven(c)'
    BY <1>1, <1>4, <1>7 DEF PlaceInv, OneOfSeven, OnMain, AtWork
<1> QED
    BY <1>8, <1>9 DEF PlaceInv

LEMMA RunBridgeTaskKeepsPlaces ==
    ASSUME NEW c \in Call, CallTypeOK, PlaceInv(c), RunBridgeTask
    PROVE  PlaceInv(c)'
<1> DEFINE x == bridgeTasks[1]
<1>1. /\ bridgeTasks # <<>> /\ bridgeTasks' = RemoveAt(bridgeTasks, 1)
      /\ UNCHANGED <<methodId, messages, mainTasks, works, answer>>
      /\ \/ executor' = executor \cup {x} /\ lost' = lost
         \/ x \in Message /\ UNCHANGED <<executor, lost>>
         \/ executor' = executor /\ lost' = lost \cup {x}
    BY DEF RunBridgeTask, RunTask
<1>2. bridgeTasks \in Seq(Sender)
    BY DEF CallTypeOK
<1>3. Sent(c)' <=> Sent(c)
    BY <1>1 DEF Sent
<1> HIDE DEF x
<1>4. /\ Len(bridgeTasks) \in Nat \ {0} /\ DOMAIN bridgeTasks = 1 .. Len(bridgeTasks)
      /\ DOMAIN bridgeTasks' = 1 .. (Len(bridgeTasks) - 1)
      /\ \A i \in 1 .. (Len(bridgeTasks) - 1) : bridgeTasks'[i] = bridgeTasks[i + 1]
    BY <1>1, <1>2, FirstRemoved
<1>5. OnceInLists(c)'
  <2>1. \A i, j \in DOMAIN bridgeTasks' : bridgeTasks'[i] = c /\ bridgeTasks'[j] = c => i = j
    <3> SUFFICES ASSUME NEW i \in DOMAIN bridgeTasks', NEW j \in DOMAIN bridgeTasks',
                        bridgeTasks'[i] = c, bridgeTasks'[j] = c
                 PROVE  i = j
        OBVIOUS
    <3>1. /\ i + 1 \in DOMAIN bridgeTasks /\ j + 1 \in DOMAIN bridgeTasks
          /\ bridgeTasks[i + 1] = c /\ bridgeTasks[j + 1] = c
        BY <1>4
    <3>2. i + 1 = j + 1
        BY <3>1 DEF PlaceInv, OnceInLists
    <3> QED
        BY <1>4, <3>2
  <2> QED
    BY <1>1, <2>1 DEF PlaceInv, OnceInLists
<1>6. CASE x = c
  <2>1. OnBridge(c) /\ 1 \in DOMAIN bridgeTasks /\ bridgeTasks[1] = c
    BY <1>4, <1>6 DEF OnBridge, x
  <2>2. ~OnBridge(c)'
    <3> SUFFICES ASSUME NEW i \in DOMAIN bridgeTasks', bridgeTasks'[i] = c PROVE FALSE
        BY DEF OnBridge
    <3>1. i + 1 \in DOMAIN bridgeTasks /\ bridgeTasks[i + 1] = c
        BY <1>4
    <3>2. i + 1 = 1
        BY <2>1, <3>1 DEF PlaceInv, OnceInLists
    <3> QED
        BY <1>4, <3>2
  <2>3. \/ c \in executor' /\ lost' = lost
        \/ executor' = executor /\ c \in lost'
    BY <1>1, <1>6, CallsAreNoMessages
  <2>4. OneOfSeven(c)'
    BY <1>1, <1>3, <2>1, <2>2, <2>3 DEF PlaceInv, OneOfSeven, OnMain, AtWork
  <2> QED
    BY <1>5, <2>4 DEF PlaceInv
<1>7. CASE x # c
  <2>1. OnBridge(c)' <=> OnBridge(c)
    <3>1. ASSUME NEW i \in DOMAIN bridgeTasks', bridgeTasks'[i] = c PROVE OnBridge(c)
      <4>1. i + 1 \in DOMAIN bridgeTasks /\ bridgeTasks[i + 1] = c
        BY <1>4, <3>1
      <4> QED
        BY <4>1 DEF OnBridge
    <3>2. ASSUME NEW i \in DOMAIN bridgeTasks, bridgeTasks[i] = c PROVE OnBridge(c)'
      <4>1. i # 1
        BY <1>7, <3>2 DEF x
      <4>2. i - 1 \in DOMAIN bridgeTasks' /\ bridgeTasks'[i - 1] = bridgeTasks[(i - 1) + 1]
        BY <1>4, <4>1
      <4>3. (i - 1) + 1 = i
        BY <1>4
      <4> QED
        BY <3>2, <4>2, <4>3 DEF OnBridge
    <3> QED
        BY <3>1, <3>2 DEF OnBridge
  <2>2. (c \in executor' <=> c \in executor) /\ (c \in lost' <=> c \in lost)
    BY <1>1, <1>7
  <2>3. OneOfSeven(c)'
    BY <1>1, <1>3, <2>1, <2>2 DEF PlaceInv, OneOfSeven, OnMain, AtWork
  <2> QED
    BY <1>5, <2>3 DEF PlaceInv
<1> QED
    BY <1>6, <1>7

LEMMA RespondKeepsPlaces ==
    ASSUME NEW c \in Call, CallTypeOK, PlaceInv(c), Respond
    PROVE  PlaceInv(c)'
<1>1. /\ responding \in Message
      /\ UNCHANGED <<methodId, messages, bridgeTasks, executor, works, answer>>
      /\ lost' = lost \/ lost' = lost \cup {responding}
    BY DEF Respond, CallTypeOK
<1>2. Sent(c)' = Sent(c) /\ (c \in lost') = (c \in lost)
    BY <1>1, CallsAreNoMessages DEF Sent
<1>3. CASE mainTasks' = mainTasks
    BY <1>1, <1>2, <1>3, PlacesUntouched
<1>4. CASE mainTasks' # mainTasks
  <2> DEFINE x == <<Head(jsSendMessageDataList), responding>>
  <2>1. mainTasks' = Append(mainTasks, x) /\ jsSendMessageDataList # <<>>
    BY <1>4 DEF Respond
  <2>2. mainTasks \in Seq(Sender \X Sender) /\ jsSendMessageDataList \in Seq(Message)
    BY DEF CallTypeOK
  <2>3. x[1] # c
    BY <2>1, <2>2, CallsAreNoMessages
  <2> HIDE DEF x
  <2>4. /\ Len(mainTasks) \in Nat /\ DOMAIN mainTasks = 1 .. Len(mainTasks)
        /\ DOMAIN mainTasks' = 1 .. (Len(mainTasks) + 1)
        /\ \A i \in 1 .. Len(mainTasks) : mainTasks'[i] = mainTasks[i]
        /\ mainTasks'[Len(mainTasks) + 1] = x
    BY <2>1, <2>2, InAppended
  <2>5. OnMain(c)' <=> OnMain(c)
    BY <2>3, <2>4 DEF OnMain
  <2>6. /\ \A i, j \in DOMAIN mainTasks' : mainTasks'[i][1] = c /\ mainTasks'[j][1] = c => i = j
        /\ \A i \in DOMAIN mainTasks' : mainTasks'[i][1] = c => mainTasks'[i] = <<c, c>>
    BY <2>3, <2>4 DEF PlaceInv, OnceInLists
  <2>7. OnceInLists(c)'
    BY <1>1, <2>6 DEF PlaceInv, OnceInLists
  <2>8. OneOfSeven(c)'
    BY <1>1, <1>2, <2>5 DEF PlaceInv, OneOfSeven, OnBridge, AtWork
  <2> QED
    BY <2>7, <2>8 DEF PlaceInv
<1> QED
    BY <1>3, <1>4

LEMMA ReturnResultKeepsPlaces ==
    ASSUME NEW c \in Call, NEW d \in Call, CallTypeOK, PlaceInv(c), ReturnResult(d)
    PROVE  PlaceInv(c)'
<1> DEFINE x == <<d, d>>
<1>1. /\ d \in executor /\ executor' = executor \ {d} /\ mainTasks' = Append(mainTasks, x)
      /\ UNCHANGED <<methodId, messages, bridgeTasks, works, answer, lost>>
    BY DEF ReturnResult
<1>2. mainTasks \in Seq(Sender \X Sender)
    BY DEF CallTypeOK
<1>3. x[1] = d
    OBVIOUS
<1>4. d = c => x = <<c, c>>
    OBVIOUS
<1> HIDE DEF x
<1>5. /\ Len(mainTasks) \in Nat /\ DOMAIN mainTasks = 1 .. Len(mainTasks)
      /\ DOMAIN mainTasks' = 1 .. (Len(mainTasks) + 1)
      /\ \A i \in 1 .. Len(mainTasks) : mainTasks'[i] = mainTasks[i]
      /\ mainTasks'[Len(mainTasks) + 1] = x
    BY <1>1, <1>2, InAppended
<1>6. OnMain(c)' <=> OnMain(c) \/ c = d
    BY <1>3, <1>5 DEF OnMain
<1>7. \A i, j \in DOMAIN mainTasks' : mainTasks'[i][1] = c /\ mainTasks'[j][1] = c => i = j
  <2>1. d = c => ~OnMain(c)
    BY <1>1 DEF PlaceInv, OneOfSeven
  <2> QED
    BY <1>3, <1>5, <2>1 DEF PlaceInv, OnceInLists, OnMain
<1>8. \A i \in DOMAIN mainTasks' : mainTasks'[i][1] = c => mainTasks'[i] = <<c, c>>
    BY <1>3, <1>4, <1>5 DEF PlaceInv, OnceInLists
<1>9. OnceInLists(c)'
    BY <1>1, <1>7, <1>8 DEF PlaceInv, OnceInLists
<1>10. OneOfSeven(c)'
    BY <1>1, <1>6 DEF PlaceInv, OneOfSeven, OnBridge, AtWork, Sent
<1> QED
    BY <1>9, <1>10 DEF PlaceInv

LEMMA RunMainTaskKeepsPlaces ==
    ASSUME NEW c \in Call, CallTypeOK, PlaceInv(c), RunMainTask
    PROVE  PlaceInv(c)'
<1> DEFINE x == mainTasks[1]
<1>1. /\ mainTasks # <<>> /\ mainTasks' = Tail(mainTasks) /\ works' = works \cup {Head(mainTasks)}
      /\ UNCHANGED <<methodId, messages, bridgeTasks, executor, answer, lost>>
    BY DEF RunMainTask
<1>2. mainTasks \in Seq(Sender \X Sender)
    BY DEF CallTypeOK
<1>3. /\ Len(mainTasks) \in Nat \ {0} /\ DOMAIN mainTasks = 1 .. Len(mainTasks)
      /\ DOMAIN mainTasks' = 1 .. (Len(mainTasks) - 1)
      /\ \A i \in 1 .. (Len(mainTasks) - 1) : mainTasks'[i] = mainTasks[i + 1]
      /\ Head(mainTasks) = x
    BY <1>1, <1>2, InTail
<1>4. x[1] = c => x = <<c, c>> /\ OnMain(c)
    BY <1>3 DEF PlaceInv, OnceInLists, OnMain
<1>5. AtWork(c)' <=> AtWork(c) \/ x[1] = c
    BY <1>1, <1>3 DEF AtWork
<1>6. /\ \A i, j \in DOMAIN mainTasks' : mainTasks'[i][1] = c /\ mainTasks'[j][1] = c => i = j
      /\ \A i \in DOMAIN mainTasks' : mainTasks'[i][1] = c => mainTasks'[i] = <<c, c>>
  <2>1. \A i \in DOMAIN mainTasks' : i + 1 \in DOMAIN mainTasks /\ mainTasks'[i] = mainTasks[i + 1]
    BY <1>3
  <2>2. \A i, j \in DOMAIN mainTasks' : i + 1 = j + 1 => i = j
    BY <1>3
  <2> QED
    BY <2>1, <2>2 DEF PlaceInv, OnceInLists
<1>7. \A w \in works' : w[1] = c => w = <<c, c>>
    BY <1>1, <1>3, <1>4 DEF PlaceInv, OnceInLists
<1>8. OnceInLists(c)'
    BY <1>1, <1>6, <1>7 DEF PlaceInv, OnceInLists
<1>9. OnMain(c)' <=> OnMain(c) /\ x[1] # c
  <2>1. ASSUME NEW i \in DOMAIN mainTasks', mainTasks'[i][1] = c PROVE OnMain(c) /\ x[1] # c
    <3>1. i + 1 \in DOMAIN mainTasks /\ 1 \in DOMAIN mainTasks /\ i + 1 # 1 /\ mainTasks[i + 1][1] = c
      BY <1>3, <2>1
    <3> QED
      BY <3>1 DEF PlaceInv, OnceInLists, OnMain
  <2>2. ASSUME NEW i \in DOMAIN mainTasks, mainTasks[i][1] = c, x[1] # c PROVE OnMain(c)'
    <3>1. i # 1
      BY <2>2
    <3>2. i - 1 \in DOMAIN mainTasks' /\ mainTasks'[i - 1] = mainTasks[(i - 1) + 1]
      BY <1>3, <3>1
    <3>3. (i - 1) + 1 = i
      BY <1>3
    <3> QED
      BY <2>2, <3>2, <3>3 DEF OnMain
  <2> QED
    BY <2>1, <2>2 DEF OnMain
<1>10. OneOfSeven(c)'
  <2> HIDE DEF x
  <2> QED
    BY <1>1, <1>4, <1>5, <1>9 DEF PlaceInv, OneOfSeven, OnBridge, Sent
<1> QED
    BY <1>8, <1>10 DEF PlaceInv

LEMMA AsyncWorkCallbackKeepsPlaces ==
    ASSUME NEW c \in Call, CallTypeOK, PlaceInv(c), NEW w \in works, AsyncWorkCallback(w)
    PROVE  PlaceInv(c)'
<1>1. /\ works' = works \ {w} /\ answer' = [answer EXCEPT ![w[1]] = w[2]]
      /\ UNCHANGED <<methodId, messages, bridgeTasks, executor, mainTasks, lost>>
    BY DEF AsyncWorkCallback
<1>2. answer \in [Sender -> Sender \cup {NoOne}] /\ c \in Sender /\ c # NoOne
    BY CallsAreNoMessages DEF CallTypeOK, Sender
<1>3. CASE w[1] = c
  <2>1. w = <<c, c>> /\ AtWork(c)
    BY <1>3 DEF PlaceInv, OnceInLists, AtWork
  <2>2. ~AtWork(c)'
    BY <1>1, <2>1 DEF PlaceInv, OnceInLists, AtWork
  <2>3. answer'[c] = c
    BY <1>1, <1>2, <2>1
  <2>4. OnceInLists(c)'
    BY <1>1, <2>3 DEF PlaceInv, OnceInLists
  <2>5. OneOfSeven(c)'
    BY <1>1, <1>2, <2>1, <2>2, <2>3 DEF PlaceInv, OneOfSeven, OnBridge, OnMain, Sent
  <2> QED
    BY <2>4, <2>5 DEF PlaceInv
<1>4. CASE w[1] # c
  <2>1. answer'[c] = answer[c]
    BY <1>1, <1>2, <1>4
  <2>2. AtWork(c)' <=> AtWork(c)
    BY <1>1, <1>4 DEF AtWork
  <2>3. OnceInLists(c)'
    BY <1>1, <2>1 DEF PlaceInv, OnceInLists
  <2>4. OneOfSeven(c)'
    BY <1>1, <2>1, <2>2 DEF PlaceInv, OneOfSeven, OnBridge, OnMain, Sent
  <2> QED
    BY <2>3, <2>4 DEF PlaceInv
<1> QED
    BY <1>3, <1>4

LEMMA PlacesAreInductive ==
    ASSUME NEW c \in Call, CallTypeOK, PlaceInv(c), [Next]_vars
    PROVE  PlaceInv(c)'
<1>1. CASE DeleteBridgeAndLists
  <2>1. /\ UNCHANGED <<methodId, messages, bridgeTasks, executor, mainTasks, works, answer>>
        /\ lost' = lost \cup {jsSendMessageDataList[i] : i \in DOMAIN jsSendMessageDataList}
    BY <1>1 DEF DeleteBridgeAndLists
  <2>2. \A i \in DOMAIN jsSendMessageDataList : jsSendMessageDataList[i] # c
    BY CallsAreNoMessages DEF CallTypeOK
  <2>3. (c \in lost') = (c \in lost)
    BY <2>1, <2>2
  <2> QED
    BY <2>1, <2>3, PlacesUntouched DEF Sent
<1>2. CASE PlatformCalls \/ RegistryStep \/ EraseJSMethodData \/ UNCHANGED vars
  <2>1. UNCHANGED <<methodId, messages, bridgeTasks, executor, mainTasks, works, answer, lost>>
    BY <1>2 DEF PlatformCalls, SetMessageListener, RegistryStep, EraseJSMethodData, vars, callVars
  <2> QED
    BY <2>1, PlacesUntouched DEF Sent
<1>3. ASSUME NEW d \in Call, LoseResult(d) PROVE PlaceInv(c)'
  <2>1. /\ d \in executor /\ executor' = executor \ {d} /\ lost' = lost \cup {d}
        /\ UNCHANGED <<methodId, messages, bridgeTasks, mainTasks, works, answer>>
    BY <1>3 DEF LoseResult
  <2>2. OnceInLists(c)'
    BY <2>1 DEF PlaceInv, OnceInLists
  <2>3. OneOfSeven(c)'
    BY <2>1 DEF PlaceInv, OneOfSeven, OnBridge, OnMain, AtWork, Sent
  <2> QED
    BY <2>2, <2>3 DEF PlaceInv
<1> QED
    BY <1>1, <1>2, <1>3, CallMethodKeepsPlaces, SendMessageKeepsPlaces, RunBridgeTaskKeepsPlaces,
       RespondKeepsPlaces, ReturnResultKeepsPlaces, RunMainTaskKeepsPlaces,
       AsyncWorkCallbackKeepsPlaces
       DEF Next, JsCalls, BridgeThread, PoolThread, JsReceives

(* Exactly one of the seven, said with the record At.                       *)
LEMMA OneOfSevenIsOnePlace ==
    ASSUME NEW c \in Call, PlaceInv(c)
    PROVE  /\ \E here \in DOMAIN At(c) : \A place \in DOMAIN At(c) : At(c)[place] <=> place = here
           /\ answer[c] \in {c, NoOne}
<1>1. DOMAIN At(c) = {"unsent", "bridge", "executor", "main", "work", "settled", "lost"}
    BY DEF At
<1>2. /\ At(c)["unsent"] <=> ~Sent(c)
      /\ At(c)["bridge"] <=> OnBridge(c)
      /\ At(c)["executor"] <=> c \in executor
      /\ At(c)["main"] <=> OnMain(c)
      /\ At(c)["work"] <=> AtWork(c)
      /\ At(c)["settled"] <=> answer[c] # NoOne
      /\ At(c)["lost"] <=> c \in lost
    BY DEF At, OnBridge, OnMain, AtWork
<1>3. \E here \in DOMAIN At(c) : At(c)[here]
    BY <1>1, <1>2 DEF PlaceInv, OneOfSeven
<1>4. \A here, place \in DOMAIN At(c) : At(c)[here] /\ At(c)[place] => here = place
    BY <1>1, <1>2 DEF PlaceInv, OneOfSeven
<1> QED
    BY <1>3, <1>4 DEF PlaceInv, OnceInLists

(* A call that was sent is in one place at any time, on four threads and after any *)
(* deletion: its promise is settled once at most, and with its own result. *)
THEOREM CallsAreInOnePlace == Spec => []OnePlacePerCall
<1> DEFINE Places == \A c \in Call : PlaceInv(c)
<1>1. Init => CallTypeOK /\ Places
  <2> SUFFICES ASSUME Init PROVE CallTypeOK /\ Places
    OBVIOUS
  <2>1. CallTypeOK
    BY CallsAssumption DEF Init, CallTypeOK
  <2>2. \A c \in Call : ~Sent(c) /\ answer[c] = NoOne
    BY CallsAreNoMessages, CallsAssumption DEF Init, Sent, Sender
  <2> QED
    BY <2>1, <2>2 DEF Init, PlaceInv, OneOfSeven, OnceInLists, OnBridge, OnMain, AtWork
<1>2. CallTypeOK /\ Places /\ [Next]_vars => CallTypeOK' /\ Places'
    BY CallTypesAreInductive, PlacesAreInductive
<1>3. Places => OnePlacePerCall
    BY OneOfSevenIsOnePlace DEF OnePlacePerCall
<1> QED
    BY <1>1, <1>2, <1>3, PTL DEF Spec

-----------------------------------------------------------------------------
(* Responses shift only behind a message that got none.                    *)

HasTask(k) == \E i \in DOMAIN bridgeTasks : bridgeTasks[i] = <<"message", k>>
Answered   == messages - Len(jsSendMessageDataList)
NoneUpTo(k) == \E u \in lost \cap Message : u[2] <= k
Fits(w)    == w[1] \in Message /\ w[1] # w[2] => NoneUpTo(w[1][2])

TasksInOrder ==
    \A i, j \in DOMAIN bridgeTasks :
        i < j /\ bridgeTasks[i] \in Message /\ bridgeTasks[j] \in Message
            => bridgeTasks[i][2] < bridgeTasks[j][2]

SendersInOrder ==
    /\ Answered \in Nat
    /\ \A i \in DOMAIN jsSendMessageDataList : jsSendMessageDataList[i] = <<"message", Answered + i>>

(* The bridge thread is through with the first b messages.  When that is not the number *)
(* of senders that were answered or deleted, a message no later than the first sender *)
(* still waiting got no response.                                          *)
Through(b) ==
    /\ b \in Nat /\ b <= messages
    /\ responding = NoOne => \A k \in Nat : HasTask(k) <=> b < k /\ k <= messages
    /\ responding # NoOne => /\ responding = <<"message", b + 1>> /\ b + 1 <= messages
                             /\ \A k \in Nat : HasTask(k) <=> b + 1 < k /\ k <= messages
    /\ Answered # b => NoneUpTo(Answered + 1)

ResponsesFit ==
    /\ \A i \in DOMAIN mainTasks : Fits(mainTasks[i])
    /\ \A w \in works : Fits(w)
    /\ \A m \in Message : answer[m] \notin {m, NoOne} => NoneUpTo(m[2])

ResponseInv ==
    /\ CallTypeOK /\ TasksInOrder /\ SendersInOrder /\ ResponsesFit
    /\ \E b \in Nat : Through(b)

LEMMA MessagesHaveNumbers ==
    ASSUME NEW m \in Message
    PROVE  /\ m = <<"message", m[2]>> /\ m[2] \in Nat /\ m[2] \in 1 .. MaxMessages
           /\ m # NoOne /\ m \notin Call
<1>1. PICK n \in 1 .. MaxMessages : m = <<"message", n>>
    BY DEF Message
<1>2. m[1] = "message" /\ m[2] = n /\ m # NoOne
    BY <1>1 DEF NoOne
<1>3. \A c \in Call : c[1] = "call"
    BY DEF Call
<1> QED
    BY <1>1, <1>2, <1>3, CallsAssumption

LEMMA LossesRemain ==
    ASSUME lost \subseteq lost'
    PROVE  /\ \A k : NoneUpTo(k) => NoneUpTo(k)'
           /\ \A w : Fits(w) => Fits(w)'
BY DEF NoneUpTo, Fits

(* Nothing happens but losses, and calls on their way.                     *)
LEMMA ResponsesUntouched ==
    ASSUME ResponseInv, CallTypeOK', lost \subseteq lost',
           UNCHANGED <<messages, bridgeTasks, responding, jsSendMessageDataList>>,
           ResponsesFit'
    PROVE  ResponseInv'
<1>1. TasksInOrder' /\ SendersInOrder'
    BY DEF ResponseInv, TasksInOrder, SendersInOrder, Answered
<1>2. PICK b \in Nat : Through(b)
    BY DEF ResponseInv
<1>3. Answered' = Answered /\ \A k : HasTask(k)' <=> HasTask(k)
    BY DEF Answered, HasTask
<1>4. Through(b)'
    BY <1>2, <1>3, LossesRemain DEF Through
<1> QED
    BY <1>1, <1>4 DEF ResponseInv

LEMMA SendMessageKeepsResponses ==
    ASSUME ResponseInv, CallTypeOK', SendMessage
    PROVE  ResponseInv'
<1> DEFINE n == messages + 1
           x == <<"message", n>>
           J == jsSendMessageDataList
<1>1. /\ messages' = n /\ J' = Append(J, x) /\ bridgeTasks' = Append(bridgeTasks, x)
      /\ UNCHANGED <<responding, mainTasks, works, answer, lost>>
    BY DEF SendMessage
<1>2. messages \in Nat /\ n \in Nat /\ bridgeTasks \in Seq(Sender) /\ J \in Seq(Message)
    BY CallsAssumption DEF ResponseInv, CallTypeOK
<1>3. x \in Message /\ x[2] = n
    BY <1>1, <1>2 DEF SendMessage, Message, CallTypeOK, ResponseInv
<1>4. PICK b \in Nat : Through(b)
    BY DEF ResponseInv
<1>5. /\ Len(bridgeTasks) \in Nat /\ DOMAIN bridgeTasks = 1 .. Len(bridgeTasks)
      /\ DOMAIN bridgeTasks' = 1 .. (Len(bridgeTasks) + 1)
      /\ \A i \in 1 .. Len(bridgeTasks) : bridgeTasks'[i] = bridgeTasks[i]
      /\ bridgeTasks'[Len(bridgeTasks) + 1] = x
  <2> HIDE DEF x
  <2> QED
    BY <1>1, <1>2, InAppended
<1>6. /\ Len(J) \in Nat /\ DOMAIN J = 1 .. Len(J) /\ DOMAIN J' = 1 .. (Len(J) + 1)
      /\ \A i \in 1 .. Len(J) : J'[i] = J[i]
      /\ J'[Len(J) + 1] = x /\ Len(J') = Len(J) + 1
  <2> HIDE DEF x
  <2> QED
    BY <1>1, <1>2, InAppended
<1>7. \A k \in Nat : HasTask(k)' <=> HasTask(k) \/ k = n
  <2>1. \A k \in Nat : x = <<"message", k>> <=> k = n
    OBVIOUS
  <2> HIDE DEF x, n
  <2>2. \A y : (\E i \in DOMAIN bridgeTasks' : bridgeTasks'[i] = y)
                  <=> (\E i \in DOMAIN bridgeTasks : bridgeTasks[i] = y) \/ x = y
    BY <1>5
  <2>3. ASSUME NEW k \in Nat PROVE HasTask(k)' <=> HasTask(k) \/ x = <<"message", k>>
    BY <2>2 DEF HasTask
  <2> QED
    BY <2>1, <2>3
<1>8. ASSUME NEW i \in DOMAIN bridgeTasks, bridgeTasks[i] \in Message
      PROVE  bridgeTasks[i][2] \in Nat /\ bridgeTasks[i][2] < n
  <2>1. bridgeTasks[i][2] \in Nat /\ HasTask(bridgeTasks[i][2])
    BY <1>8, MessagesHaveNumbers DEF HasTask
  <2>2. bridgeTasks[i][2] <= messages
    BY <1>4, <2>1 DEF Through
  <2> QED
    BY <1>2, <2>1, <2>2
<1>9. TasksInOrder'
    BY <1>3, <1>5, <1>8 DEF TasksInOrder, ResponseInv
<1>10. Answered' = Answered /\ Answered \in Nat /\ n = Answered + (Len(J) + 1)
    BY <1>1, <1>2, <1>6 DEF Answered, ResponseInv, SendersInOrder
<1>11. SendersInOrder'
  <2>1. \A i \in DOMAIN J' : J'[i] = <<"message", Answered + i>>
    BY <1>6, <1>10 DEF ResponseInv, SendersInOrder
  <2> QED
    BY <1>10, <2>1 DEF SendersInOrder
<1>12. Through(b)'
  <2>1. b <= n /\ (b + 1 <= messages => b + 1 <= n)
    BY <1>2, <1>4 DEF Through
  <2>2. NoneUpTo(Answered + 1)' <=> NoneUpTo(Answered + 1)
    BY <1>1, <1>10 DEF NoneUpTo
  <2>3. responding = NoOne => \A k \in Nat : HasTask(k)' <=> b < k /\ k <= n
    BY <1>2, <1>4, <1>7, <2>1 DEF Through
  <2>4. responding # NoOne => \A k \in Nat : HasTask(k)' <=> b + 1 < k /\ k <= n
    BY <1>2, <1>4, <1>7, <2>1 DEF Through
  <2> QED
    BY <1>1, <1>4, <1>10, <2>1, <2>2, <2>3, <2>4 DEF Through
<1>13. ResponsesFit'
    BY <1>1 DEF ResponseInv, ResponsesFit, Fits, NoneUpTo
<1> QED
    BY <1>9, <1>11, <1>12, <1>13 DEF ResponseInv

LEMMA CallMethodKeepsResponses ==
    ASSUME ResponseInv, CallTypeOK', CallMethod
    PROVE  ResponseInv'
<1> DEFINE x == <<"call", methodId + 1>>
<1>1. /\ bridgeTasks' = Append(bridgeTasks, x)
      /\ UNCHANGED <<messages, jsSendMessageDataList, responding, mainTasks, works, answer, lost>>
    BY DEF CallMethod
<1>2. bridgeTasks \in Seq(Sender)
    BY DEF ResponseInv, CallTypeOK
<1>3. x \notin Message /\ \A k : x # <<"message", k>>
    BY MessagesHaveNumbers
<1> HIDE DEF x
<1>4. /\ Len(bridgeTasks) \in Nat /\ DOMAIN bridgeTasks = 1 .. Len(bridgeTasks)
      /\ DOMAIN bridgeTasks' = 1 .. (Len(bridgeTasks) + 1)
      /\ \A i \in 1 .. Len(bridgeTasks) : bridgeTasks'[i] = bridgeTasks[i]
      /\ bridgeTasks'[Len(bridgeTasks) + 1] = x
    BY <1>1, <1>2, InAppended
<1>5. ASSUME NEW k PROVE HasTask(k)' <=> HasTask(k)
  <2>1. \A y : (\E i \in DOMAIN bridgeTasks' : bridgeTasks'[i] = y)
                  <=> (\E i \in DOMAIN bridgeTasks : bridgeTasks[i] = y) \/ x = y
    BY <1>4
  <2> QED
    BY <1>3, <2>1 DEF HasTask
<1>6. TasksInOrder'
    BY <1>3, <1>4 DEF TasksInOrder, ResponseInv
<1>7. SendersInOrder' /\ ResponsesFit' /\ Answered' = Answered
    BY <1>1 DEF ResponseInv, SendersInOrder, Answered, ResponsesFit, Fits, NoneUpTo
<1>8. PICK b \in Nat : Through(b)
    BY DEF ResponseInv
<1>9. Through(b)'
    BY <1>1, <1>5, <1>7, <1>8 DEF Through, NoneUpTo
<1> QED
    BY <1>6, <1>7, <1>9 DEF ResponseInv

LEMMA RunBridgeTaskKeepsResponses ==
    ASSUME ResponseInv, CallTypeOK', RunBridgeTask
    PROVE  ResponseInv'
<1> DEFINE x == bridgeTasks[1]
<1>1. /\ bridgeTasks # <<>> /\ bridgeTasks' = RemoveAt(bridgeTasks, 1) /\ responding = NoOne
      /\ UNCHANGED <<messages, jsSendMessageDataList, mainTasks, works, answer>>
      /\ \/ x \in Call /\ responding' = responding /\ lost' = lost
         \/ x \in Message /\ responding' = x /\ lost' = lost
         \/ responding' = responding /\ lost' = lost \cup {x}
    BY DEF RunBridgeTask, RunTask
<1>2. bridgeTasks \in Seq(Sender) /\ messages \in Nat /\ Answered \in Nat
    BY CallsAssumption DEF ResponseInv, CallTypeOK, SendersInOrder
<1>3. /\ Len(bridgeTasks) \in Nat \ {0} /\ DOMAIN bridgeTasks = 1 .. Len(bridgeTasks)
      /\ DOMAIN bridgeTasks' = 1 .. (Len(bridgeTasks) - 1)
      /\ \A i \in 1 .. (Len(bridgeTasks) - 1) : bridgeTasks'[i] = bridgeTasks[i + 1]
    BY <1>1, <1>2, FirstRemoved
<1>4. PICK b \in Nat : Through(b)
    BY DEF ResponseInv
<1>5. \A k \in Nat : HasTask(k) <=> b < k /\ k <= messages
    BY <1>1, <1>4 DEF Through
<1> HIDE DEF x
<1>6. \A i \in DOMAIN bridgeTasks' : i + 1 \in DOMAIN bridgeTasks /\ bridgeTasks'[i] = bridgeTasks[i + 1]
    BY <1>3
<1>7. TasksInOrder'
  <2>1. \A i, j \in DOMAIN bridgeTasks' : i < j => i + 1 < j + 1
    BY <1>3
  <2> QED
    BY <1>6, <2>1 DEF TasksInOrder, ResponseInv
<1>8. \A y : (\E i \in DOMAIN bridgeTasks : bridgeTasks[i] = y)
                <=> (\E i \in DOMAIN bridgeTasks' : bridgeTasks'[i] = y) \/ x = y
  <2>1. ASSUME NEW i \in DOMAIN bridgeTasks, bridgeTasks[i] # x
        PROVE  i - 1 \in DOMAIN bridgeTasks' /\ bridgeTasks'[i - 1] = bridgeTasks[i]
    <3>1. i # 1
      BY <2>1 DEF x
    <3>2. i - 1 \in DOMAIN bridgeTasks' /\ bridgeTasks'[i - 1] = bridgeTasks[(i - 1) + 1]
      BY <1>3, <3>1
    <3>3. (i - 1) + 1 = i
      BY <1>3
    <3> QED
      BY <3>2, <3>3
  <2>2. 1 \in DOMAIN bridgeTasks /\ bridgeTasks[1] = x
    BY <1>3 DEF x
  <2> QED
    BY <1>6, <2>1, <2>2
<1>9. ASSUME NEW k PROVE HasTask(k) <=> HasTask(k)' \/ x = <<"message", k>>
    BY <1>8 DEF HasTask
<1>10. SendersInOrder' /\ Answered' = Answered
    BY <1>1 DEF ResponseInv, SendersInOrder, Answered
<1>11. lost \subseteq lost'
    BY <1>1
<1>12. ResponsesFit'
    BY <1>1, <1>11, LossesRemain DEF ResponseInv, ResponsesFit
<1>13. CASE x \notin Message
  <2>1. responding' = NoOne
    BY <1>1, <1>13
  <2>2. ASSUME NEW k \in Nat PROVE HasTask(k)' <=> b < k /\ k <= messages
    <3>1. HasTask(k) <=> b < k /\ k <= messages
      BY <1>5
    <3>2. k <= MaxMessages /\ k # 0 => <<"message", k>> \in Message
      BY CallsAssumption DEF Message
    <3>3. messages <= MaxMessages
      BY <1>2, CallsAssumption DEF ResponseInv, CallTypeOK
    <3>4. b < k /\ k <= messages => x # <<"message", k>>
      BY <1>2, <1>4, <1>13, <3>2, <3>3, CallsAssumption DEF Through
    <3> QED
      BY <1>9, <3>1, <3>4
  <2>3. Through(b)'
    BY <1>1, <1>4, <1>10, <1>11, <2>1, <2>2, LossesRemain DEF Through
  <2> QED
    BY <1>7, <1>10, <1>12, <2>3 DEF ResponseInv
<1>14. CASE x \in Message
  <2>1. x[2] \in Nat /\ x = <<"message", x[2]>> /\ x # NoOne /\ x \notin Call
    BY <1>14, MessagesHaveNumbers
  <2>2. b < x[2] /\ x[2] <= messages
    BY <1>5, <1>9, <2>1
  <2>3. \A j \in DOMAIN bridgeTasks : j # 1 /\ bridgeTasks[j] \in Message => x[2] < bridgeTasks[j][2]
    BY <1>3 , <1>14 DEF ResponseInv, TasksInOrder, x
  <2>4. x[2] = b + 1
    <3> SUFFICES ASSUME b + 1 < x[2] PROVE FALSE
      BY <1>4, <2>1, <2>2
    <3>1. HasTask(b + 1)
      BY <1>2, <1>4, <1>5, <2>1, <2>2
    <3>2. PICK j \in DOMAIN bridgeTasks : bridgeTasks[j] = <<"message", b + 1>>
      BY <3>1 DEF HasTask
    <3>3. <<"message", b + 1>> \in Message
      BY <1>2, <2>1, <2>2, CallsAssumption DEF Message, ResponseInv, CallTypeOK
    <3>4. j = 1
      BY <2>1, <2>3, <3>2, <3>3
    <3> QED
      BY <2>1, <3>2, <3>4 DEF x
  <2>5. \A k \in Nat : HasTask(k)' <=> b + 1 < k /\ k <= messages
    <3> SUFFICES ASSUME NEW k \in Nat PROVE HasTask(k)' <=> b + 1 < k /\ k <= messages
      OBVIOUS
    <3>1. HasTask(k) <=> b < k /\ k <= messages
      BY <1>5
    <3>2. x = <<"message", k>> <=> k = b + 1
      BY <2>1, <2>4
    <3>3. ~HasTask(b + 1)'
      <4>1. ASSUME NEW i \in DOMAIN bridgeTasks', bridgeTasks'[i] = <<"message", b + 1>> PROVE FALSE
        <5>1. i + 1 \in DOMAIN bridgeTasks /\ i + 1 # 1 /\ bridgeTasks'[i] = bridgeTasks[i + 1]
          BY <1>3
        <5>2. x = <<"message", b + 1>>
          BY <2>1, <2>4
        <5>3. bridgeTasks[i + 1] = x
          BY <4>1, <5>1, <5>2
        <5> QED
          BY <1>14, <2>1, <2>3, <5>1, <5>3
      <4> QED
        BY <4>1 DEF HasTask
    <3> QED
      BY <1>4, <1>9, <3>1, <3>2, <3>3
  <2>6. b + 1 \in Nat /\ b + 1 <= messages
    BY <2>1, <2>2, <2>4
  <2>7. CASE responding' = x /\ lost' = lost
    <3>1. Through(b)'
      BY <1>1, <1>4, <1>10, <1>11, <2>1, <2>4, <2>5, <2>6, <2>7, LossesRemain DEF Through
    <3> QED
      BY <1>7, <1>10, <1>12, <3>1 DEF ResponseInv
  <2>8. CASE responding' = NoOne /\ lost' = lost \cup {x}
    <3> PICK a \in Nat : a = Answered
      BY <1>2
    <3>1. a # b + 1 => NoneUpTo(a + 1)'
      <4>1. CASE a # b
        BY <1>4, <1>11, <4>1, LossesRemain DEF Through
      <4>2. CASE a = b
        BY <1>14, <2>4, <2>8, <4>2 DEF NoneUpTo
      <4> QED
        BY <4>1, <4>2
    <3>2. Answered' = a
      BY <1>10
    <3>3. Through(b + 1)'
      BY <1>1, <2>5, <2>6, <2>8, <3>1, <3>2 DEF Through
    <3> QED
      BY <1>7, <1>10, <1>12, <2>6, <3>3 DEF ResponseInv
  <2> QED
    BY <1>1, <2>1, <2>7, <2>8
<1> QED
    BY <1>13, <1>14

LEMMA RespondKeepsResponses ==
    ASSUME ResponseInv, CallTypeOK', Respond
    PROVE  ResponseInv'
<1> DEFINE J == jsSendMessageDataList
           x == <<Head(J), responding>>
<1>1. /\ responding # NoOne /\ responding' = NoOne
      /\ UNCHANGED <<messages, bridgeTasks, works, answer>>
      /\ \/ lost' = lost \cup {responding} /\ UNCHANGED <<J, mainTasks>>
         \/ J = <<>> /\ UNCHANGED <<lost, J, mainTasks>>
         \/ J # <<>> /\ J' = Tail(J) /\ mainTasks' = Append(mainTasks, x) /\ lost' = lost
    BY DEF Respond
<1>2. /\ messages \in Nat /\ Answered \in Nat /\ J \in Seq(Message) /\ responding \in Message
      /\ mainTasks \in Seq(Sender \X Sender)
    BY <1>1, CallsAssumption DEF ResponseInv, CallTypeOK, SendersInOrder
<1>3. PICK b \in Nat : Through(b)
    BY DEF ResponseInv
<1>4. /\ responding = <<"message", b + 1>> /\ b + 1 <= messages /\ b + 1 \in Nat
      /\ \A k \in Nat : HasTask(k) <=> b + 1 < k /\ k <= messages
    BY <1>1, <1>3 DEF Through
<1>5. TasksInOrder' /\ \A k : HasTask(k)' <=> HasTask(k)
    BY <1>1 DEF ResponseInv, TasksInOrder, HasTask
<1>6. lost \subseteq lost'
    BY <1>1
<1> PICK a \in Nat : a = Answered
    BY <1>2
<1>7. ASSUME NEW k \in Nat, Answered' = k, k >= a, k # b + 1 => NoneUpTo(a + 1)'
      PROVE  Through(b + 1)'
  <2>1. NoneUpTo(a + 1)' => NoneUpTo(k + 1)'
    <3>1. \A m \in Message : m[2] <= a + 1 => m[2] <= k + 1
      BY <1>7, MessagesHaveNumbers
    <3> QED
      BY <3>1 DEF NoneUpTo
  <2> QED
    BY <1>1, <1>4, <1>5, <1>7, <2>1 DEF Through
<1>8. CASE UNCHANGED <<J, mainTasks>>
  <2>1. Answered' = a /\ SendersInOrder'
    BY <1>1, <1>8 DEF Answered, SendersInOrder, ResponseInv
  <2>2. a # b + 1 => NoneUpTo(a + 1)'
    <3>1. CASE a # b
      BY <1>3, <1>6, <3>1, LossesRemain DEF Through
    <3>2. CASE a = b
      <4>1. J # <<>>
        BY <1>2, <1>4, <3>2 DEF Answered
      <4>2. lost' = lost \cup {responding}
        <5>1. CASE lost' = lost \cup {responding}
          BY <5>1
        <5>2. CASE J' = Tail(J)
          BY <1>2, <1>8, <4>1, <5>2, InTail
        <5> QED
          BY <1>1, <4>1, <5>1, <5>2
      <4>3. responding[2] = a + 1
        BY <1>4, <3>2
      <4> QED
        BY <1>2, <4>2, <4>3 DEF NoneUpTo
    <3> QED
      BY <3>1, <3>2
  <2>3. ResponsesFit'
    BY <1>1, <1>6, <1>8, LossesRemain DEF ResponseInv, ResponsesFit
  <2>4. Through(b + 1)'
    BY <1>2, <1>7, <2>1, <2>2
  <2> QED
    BY <1>4, <1>5, <2>1, <2>3, <2>4 DEF ResponseInv
<1>9. CASE J # <<>> /\ J' = Tail(J) /\ mainTasks' = Append(mainTasks, x) /\ lost' = lost
  <2>1. /\ Len(J) \in Nat \ {0} /\ DOMAIN J = 1 .. Len(J) /\ DOMAIN J' = 1 .. (Len(J) - 1)
        /\ \A i \in 1 .. (Len(J) - 1) : J'[i] = J[i + 1]
        /\ Head(J) = J[1] /\ Len(J') = Len(J) - 1
    BY <1>2, <1>9, InTail
  <2>2. Answered' = a + 1
    BY <1>1, <1>2, <2>1 DEF Answered
  <2>3. SendersInOrder'
    <3>1. ASSUME NEW i \in DOMAIN J' PROVE J'[i] = <<"message", Answered' + i>>
      <4>1. i + 1 \in DOMAIN J /\ J'[i] = J[i + 1] /\ i \in Nat
        BY <2>1
      <4>2. J[i + 1] = <<"message", a + (i + 1)>>
        BY <4>1 DEF ResponseInv, SendersInOrder
      <4>3. a + (i + 1) = Answered' + i
        BY <1>2, <2>2, <4>1
      <4> QED
        BY <4>1, <4>2, <4>3
    <3> QED
      BY <2>2, <3>1 DEF SendersInOrder
  <2>4. Head(J) = <<"message", a + 1>>
    BY <2>1 DEF ResponseInv, SendersInOrder
  <2>5. a # b => NoneUpTo(a + 1)'
    BY <1>3, <1>6, LossesRemain DEF Through
  <2>6. ASSUME NEW y, y = x PROVE Fits(y)'
    <3>1. y[1][2] = a + 1
      BY <2>4, <2>6
    <3>2. a = b => y[1] = y[2]
      BY <1>4, <2>4, <2>6
    <3> QED
      BY <2>5, <3>1, <3>2 DEF Fits
  <2>7. ResponsesFit'
    <3> PICK y : y = x
      OBVIOUS
    <3> HIDE DEF x
    <3>1. /\ Len(mainTasks) \in Nat /\ DOMAIN mainTasks = 1 .. Len(mainTasks)
          /\ DOMAIN mainTasks' = 1 .. (Len(mainTasks) + 1)
          /\ \A i \in 1 .. Len(mainTasks) : mainTasks'[i] = mainTasks[i]
          /\ mainTasks'[Len(mainTasks) + 1] = y
      BY <1>2, <1>9, InAppended
    <3>2. \A i \in DOMAIN mainTasks' :
              mainTasks'[i] = y \/ \E j \in DOMAIN mainTasks : mainTasks'[i] = mainTasks[j]
      BY <3>1
    <3>3. \A w : Fits(w) => Fits(w)'
      BY <1>6, LossesRemain
    <3>4. \A w : (w = y \/ \E j \in DOMAIN mainTasks : w = mainTasks[j]) => Fits(w)'
      BY <2>6, <3>3 DEF ResponseInv, ResponsesFit
    <3>5. ASSUME NEW i \in DOMAIN mainTasks', NEW w, w = mainTasks'[i] PROVE Fits(w)'
      BY <3>2, <3>4, <3>5
    <3>6. \A i \in DOMAIN mainTasks' : Fits(mainTasks[i])'
      BY <3>5 DEF Fits
    <3> QED
      BY <1>1, <1>6, <3>3, <3>6, LossesRemain DEF ResponseInv, ResponsesFit
  <2>8. Through(b + 1)'
    BY <1>7, <2>2, <2>5
  <2> QED
    BY <1>4, <1>5, <2>3, <2>7, <2>8 DEF ResponseInv
<1> QED
    BY <1>1, <1>8, <1>9

LEMMA DeleteKeepsResponses ==
    ASSUME ResponseInv, CallTypeOK', DeleteBridgeAndLists
    PROVE  ResponseInv'
<1> DEFINE J == jsSendMessageDataList
<1>1. /\ J' = <<>> /\ lost' = lost \cup {J[i] : i \in DOMAIN J}
      /\ UNCHANGED <<messages, bridgeTasks, responding, mainTasks, works, answer>>
    BY DEF DeleteBridgeAndLists
<1>2. messages \in Nat /\ Answered \in Nat /\ J \in Seq(Message) /\ Len(J) \in Nat
    BY CallsAssumption DEF ResponseInv, CallTypeOK, SendersInOrder
<1> PICK a \in Nat : a = Answered
    BY <1>2
<1>3. PICK b \in Nat : Through(b)
    BY DEF ResponseInv
<1>4. lost \subseteq lost'
    BY <1>1
<1>5. TasksInOrder' /\ \A k : HasTask(k)' <=> HasTask(k)
    BY <1>1 DEF ResponseInv, TasksInOrder, HasTask
<1>6. ResponsesFit'
    BY <1>1, <1>4, LossesRemain DEF ResponseInv, ResponsesFit
<1>7. Answered' = messages /\ SendersInOrder'
    BY <1>1, <1>2 DEF Answered, SendersInOrder
<1>8. a <= messages /\ (J = <<>> => a = messages)
    BY <1>2 DEF Answered
<1>9. a # b \/ J # <<>> => NoneUpTo(a + 1)'
  <2>1. CASE a # b
    BY <1>3, <1>4, <2>1, LossesRemain DEF Through
  <2>2. CASE J # <<>>
    <3>1. 1 \in DOMAIN J /\ J[1] \in Message /\ J[1] = <<"message", a + 1>>
      BY <1>2, <2>2 DEF ResponseInv, SendersInOrder
    <3>2. J[1] \in lost' /\ J[1][2] <= a + 1
      BY <1>1, <3>1
    <3> QED
      BY <3>1, <3>2 DEF NoneUpTo
  <2> QED
    BY <2>1, <2>2
<1>10. ASSUME NEW k \in Nat, k = messages, k # b PROVE NoneUpTo(k + 1)'
  <2>1. NoneUpTo(a + 1)'
    BY <1>8, <1>9, <1>10
  <2>2. \A m \in Message : m[2] <= a + 1 => m[2] <= k + 1
    BY <1>8, <1>10, MessagesHaveNumbers
  <2> QED
    BY <2>1, <2>2 DEF NoneUpTo
<1>11. Through(b)'
  <2> PICK k \in Nat : k = messages
    BY <1>2
  <2>1. Answered' = k /\ (k # b => NoneUpTo(k + 1)')
    BY <1>7, <1>10
  <2> QED
    BY <1>1, <1>3, <1>5, <2>1 DEF Through
<1> QED
    BY <1>5, <1>6, <1>7, <1>11 DEF ResponseInv

LEMMA ResponsesAreInductive ==
    ASSUME ResponseInv, [Next]_vars
    PROVE  ResponseInv'
<1>1. CallTypeOK /\ CallTypeOK'
    BY CallTypesAreInductive DEF ResponseInv
<1>2. CASE PlatformCalls \/ RegistryStep \/ EraseJSMethodData \/ UNCHANGED vars
  <2>1. UNCHANGED <<messages, bridgeTasks, responding, jsSendMessageDataList, mainTasks, works,
                    answer, lost>>
    BY <1>2 DEF PlatformCalls, SetMessageListener, RegistryStep, EraseJSMethodData, vars, callVars
  <2>2. ResponsesFit'
    BY <2>1 DEF ResponseInv, ResponsesFit, Fits, NoneUpTo
  <2> QED
    BY <1>1, <2>1, <2>2, ResponsesUntouched
<1>3. ASSUME NEW c \in Call, ReturnResult(c) PROVE ResponseInv'
  <2> DEFINE x == <<c, c>>
  <2>1. /\ mainTasks' = Append(mainTasks, x)
        /\ UNCHANGED <<messages, bridgeTasks, responding, jsSendMessageDataList, works, answer, lost>>
    BY <1>3 DEF ReturnResult
  <2>2. mainTasks \in Seq(Sender \X Sender) /\ x[1] = x[2]
    BY <1>1 DEF CallTypeOK
  <2> HIDE DEF x
  <2>3. /\ Len(mainTasks) \in Nat /\ DOMAIN mainTasks = 1 .. Len(mainTasks)
        /\ DOMAIN mainTasks' = 1 .. (Len(mainTasks) + 1)
        /\ \A i \in 1 .. Len(mainTasks) : mainTasks'[i] = mainTasks[i]
        /\ mainTasks'[Len(mainTasks) + 1] = x
    BY <2>1, <2>2, InAppended
  <2>4. \A i \in DOMAIN mainTasks' : Fits(mainTasks[i])'
    BY <2>1, <2>2, <2>3 DEF ResponseInv, ResponsesFit, Fits, NoneUpTo
  <2>5. ResponsesFit'
    BY <2>1, <2>4 DEF ResponseInv, ResponsesFit, Fits, NoneUpTo
  <2> QED
    BY <1>1, <2>1, <2>5, ResponsesUntouched
<1>4. ASSUME NEW c \in Call, LoseResult(c) PROVE ResponseInv'
  <2>1. /\ lost \subseteq lost'
        /\ UNCHANGED <<messages, bridgeTasks, responding, jsSendMessageDataList, mainTasks, works, answer>>
    BY <1>4 DEF LoseResult
  <2>2. ResponsesFit'
    BY <2>1, LossesRemain DEF ResponseInv, ResponsesFit
  <2> QED
    BY <1>1, <2>1, <2>2, ResponsesUntouched
<1>5. CASE RunMainTask
  <2>1. /\ mainTasks # <<>> /\ mainTasks' = Tail(mainTasks) /\ works' = works \cup {Head(mainTasks)}
        /\ UNCHANGED <<messages, bridgeTasks, responding, jsSendMessageDataList, answer, lost>>
    BY <1>5 DEF RunMainTask
  <2>2. /\ Len(mainTasks) \in Nat \ {0} /\ DOMAIN mainTasks = 1 .. Len(mainTasks)
        /\ DOMAIN mainTasks' = 1 .. (Len(mainTasks) - 1)
        /\ \A i \in 1 .. (Len(mainTasks) - 1) : mainTasks'[i] = mainTasks[i + 1]
        /\ Head(mainTasks) = mainTasks[1]
    BY <1>1, <2>1, InTail DEF CallTypeOK
  <2>3. \A i \in DOMAIN mainTasks' : Fits(mainTasks[i])'
    <3>1. \A i \in DOMAIN mainTasks' : i + 1 \in DOMAIN mainTasks /\ mainTasks'[i] = mainTasks[i + 1]
      BY <2>2
    <3> QED
      BY <2>1, <3>1 DEF ResponseInv, ResponsesFit, Fits, NoneUpTo
  <2>4. \A w \in works' : Fits(w)'
    BY <2>1, <2>2 DEF ResponseInv, ResponsesFit, Fits, NoneUpTo
  <2>5. ResponsesFit'
    BY <2>1, <2>3, <2>4 DEF ResponseInv, ResponsesFit, NoneUpTo
  <2> QED
    BY <1>1, <2>1, <2>5, ResponsesUntouched
<1>6. ASSUME NEW w \in works, AsyncWorkCallback(w) PROVE ResponseInv'
  <2>1. /\ works' = works \ {w} /\ answer' = [answer EXCEPT ![w[1]] = w[2]]
        /\ UNCHANGED <<messages, bridgeTasks, responding, jsSendMessageDataList, mainTasks, lost>>
    BY <1>6 DEF AsyncWorkCallback
  <2>2. answer \in [Sender -> Sender \cup {NoOne}] /\ Message \subseteq Sender
    BY <1>1 DEF CallTypeOK, Sender
  <2>3. ASSUME NEW m \in Message, answer'[m] \notin {m, NoOne} PROVE NoneUpTo(m[2])
    <3>1. CASE w[1] = m
      <4>1. answer'[m] = w[2]
        BY <2>1, <2>2, <3>1
      <4> QED
        BY <2>3, <3>1, <4>1 DEF ResponseInv, ResponsesFit, Fits
    <3>2. CASE w[1] # m
      <4>1. answer'[m] = answer[m]
        BY <2>1, <2>2, <3>2
      <4> QED
        BY <2>3, <4>1 DEF ResponseInv, ResponsesFit
    <3> QED
      BY <3>1, <3>2
  <2>4. ResponsesFit'
    BY <2>1, <2>3 DEF ResponseInv, ResponsesFit, Fits, NoneUpTo
  <2> QED
    BY <1>1, <2>1, <2>4, ResponsesUntouched
<1> QED
    BY <1>1, <1>2, <1>3, <1>4, <1>5, <1>6, SendMessageKeepsResponses, CallMethodKeepsResponses,
       RunBridgeTaskKeepsResponses, RespondKeepsResponses, DeleteKeepsResponses
       DEF Next, JsCalls, BridgeThread, PoolThread, JsReceives

(* A message gets the response to another one only when it or an earlier one got none.  *)
THEOREM ResponsesShiftOnlyBehindLosses == Spec => []OwnResponse
<1>1. Init => ResponseInv
  <2> SUFFICES ASSUME Init PROVE ResponseInv
    OBVIOUS
  <2>1. CallTypeOK
    BY CallsAssumption DEF Init, CallTypeOK
  <2>2. Answered = 0 /\ SendersInOrder
    <3>1. messages = 0 /\ jsSendMessageDataList = <<>>
      BY DEF Init
    <3>2. Len(jsSendMessageDataList) = 0
      BY <3>1
    <3>3. Answered = 0 - 0
      BY <3>1, <3>2 DEF Answered
    <3> QED
      BY <3>1, <3>3 DEF SendersInOrder
  <2>3. Through(0)
    <3>1. messages = 0 /\ responding = NoOne /\ \A k : ~HasTask(k)
      BY DEF Init, HasTask
    <3> QED
      BY <2>2, <3>1 DEF Through
  <2>4. ResponsesFit
    BY DEF Init, ResponsesFit, Sender
  <2> QED
    BY <2>1, <2>2, <2>3, <2>4 DEF Init, ResponseInv, TasksInOrder
<1>2. ResponseInv /\ [Next]_vars => ResponseInv'
    BY ResponsesAreInductive
<1>3. ResponseInv => OwnResponse
    BY DEF ResponseInv, ResponsesFit, OwnResponse, NoneUpTo, LostBefore
<1> QED
    BY <1>1, <1>2, <1>3, PTL DEF Spec
=============================================================================
