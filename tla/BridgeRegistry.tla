--------------------------- MODULE BridgeRegistry ---------------------------
(***************************************************************************)
(* How a bridge and its plugin find each other on Android, for one name.   *)
(* The JS thread creates a Bridge, shared by every JS object of the name   *)
(* (BridgeWrap), whose receiver is put in BridgeManager::bridgeList_ under *)
(* bridgeLock_.  Any platform thread constructs a BridgePlugin, which the  *)
(* Java BridgeManager puts in bridgeMap_ under bridgeMapLock_.  Whoever    *)
(* comes second tells the plugin that it is available, and asks or tells   *)
(* the other side while it holds its own lock.                             *)
(*                                                                         *)
(* A call that waits for its first lock has not begun here.  BridgeWrap's  *)
(* own lock is left out: one JS thread takes it.                           *)
(***************************************************************************)
EXTENDS Naturals

CONSTANTS
    Thread,         \* the threads that construct and unregister plugins
    JsThread,       \* the thread of the JS engine, which may do so too
    Plugin,         \* BridgePlugin objects
    PluginType,     \* BridgePlugin::bridgeType_ of each
    Nobody,         \* no thread
    NoPlugin,       \* no plugin
    MaxOperations   \* bound: the calls that the application makes

Codec == {"json", "binary"}

ASSUME BridgeAssumption ==
    /\ JsThread \in Thread /\ Nobody \notin Thread
    /\ NoPlugin \notin Plugin /\ PluginType \in [Plugin -> Codec]
    /\ MaxOperations \in Nat

VARIABLES
    refs,           \* BridgeWrap::Data::ref_, 0 when there is no Bridge
    codec,          \* Bridge::codecType_ of the Bridge, or of the last one
    receiver,       \* bridgeType_ of the receiver in bridgeList_, or "none"
    bridgeLock,     \* the holder of bridgeLock_ (C++)
    plugin,         \* the plugin in bridgeMap_
    created,        \* the plugins constructed so far
    isAvailable,    \* isAvailable_ of each plugin
    mapLock,        \* the holder of bridgeMapLock_ (Java)
    doing,          \* how far each thread is in a registration
    operations      \* calls made so far

registryVars == <<refs, codec, receiver, bridgeLock, plugin, created,
                  isAvailable, mapLock, doing, operations>>

Free(lock) == lock = Nobody
Idle       == <<"idle">>

\* Any call of the application: counted, for the bound.
Operates ==
    /\ operations < MaxOperations
    /\ operations' = operations + 1

-----------------------------------------------------------------------------
(* The JS thread: BridgeWrap and BridgeManager::JSRegisterBridge.          *)

\* The first JS object of the name: a new Bridge registers its receiver.
BuildBridge(type) ==
    /\ Operates /\ doing[JsThread] = Idle
    /\ refs = 0 /\ Free(bridgeLock)
    /\ refs' = 1 /\ codec' = type /\ receiver' = type
    /\ bridgeLock' = JsThread
    /\ doing' = [doing EXCEPT ![JsThread] = <<"tells", type>>]
    /\ UNCHANGED <<plugin, created, isAvailable, mapLock>>

\* A further one shares it, and may change its codec: the receiver keeps its type.
CopyBridge(type) ==
    /\ Operates /\ doing[JsThread] = Idle
    /\ refs > 0
    /\ refs' = refs + 1 /\ codec' = type
    /\ UNCHANGED <<receiver, bridgeLock, plugin, created, isAvailable, mapLock, doing>>

\* Faulty: the finalizer runs again for the same object.
DropBridge_Twice ==
    /\ Operates /\ doing[JsThread] = Idle
    /\ refs > 1
    /\ refs' = refs - 2
    /\ UNCHANGED <<codec, receiver, bridgeLock, plugin, created, isAvailable, mapLock, doing>>

\* The finalizer of a JS object that is not the last one.
DropBridge ==
    /\ Operates /\ doing[JsThread] = Idle
    /\ refs > 1
    /\ refs' = refs - 1
    /\ UNCHANGED <<codec, receiver, bridgeLock, plugin, created, isAvailable, mapLock, doing>>

\* The finalizer of the last one: the Bridge unregisters and is deleted.
DeleteBridge ==
    /\ Operates /\ doing[JsThread] = Idle
    /\ refs = 1 /\ Free(bridgeLock)
    /\ refs' = 0 /\ receiver' = "none"
    /\ bridgeLock' = JsThread
    /\ doing' = [doing EXCEPT ![JsThread] = <<"tells", "none">>]
    /\ UNCHANGED <<codec, plugin, created, isAvailable, mapLock>>

\* Faulty: the map is read while a plugin is being registered in it.
FindPlugin_Unlocked ==
    /\ doing[JsThread][1] = "tells"
    /\ doing' = [doing EXCEPT ![JsThread] = <<"found", plugin, doing[JsThread][2]>>]
    /\ UNCHANGED <<refs, codec, receiver, bridgeLock, plugin, created, isAvailable,
                   mapLock, operations>>

\* JSOnRegisterResult, with bridgeLock_ held: findBridgePlugin ...
FindPlugin ==
    /\ doing[JsThread][1] = "tells" /\ Free(mapLock)
    /\ doing' = [doing EXCEPT ![JsThread] = <<"found", plugin, doing[JsThread][2]>>]
    /\ UNCHANGED <<refs, codec, receiver, bridgeLock, plugin, created, isAvailable,
                   mapLock, operations>>

\* What jsOnRegisterResult makes of isAvailable_.
Told(p, type) ==
    IF type \in {"none", PluginType[p]} THEN type # "none" ELSE isAvailable[p]

\* ... and onRegisterResult on what was found.
TellPlugin ==
    /\ doing[JsThread][1] = "found"
    /\ LET p == doing[JsThread][2]
       IN  isAvailable' = IF p = NoPlugin THEN isAvailable
                          ELSE [isAvailable EXCEPT ![p] = Told(p, doing[JsThread][3])]
    /\ bridgeLock' = Nobody
    /\ doing' = [doing EXCEPT ![JsThread] = Idle]
    /\ UNCHANGED <<refs, codec, receiver, plugin, created, mapLock, operations>>

-----------------------------------------------------------------------------
(* A platform thread: the constructor of BridgePlugin, unRegister.         *)

RegisterPlugin(t, p) ==
    /\ Operates /\ doing[t] = Idle
    /\ p \notin created /\ Free(mapLock)
    /\ created' = created \cup {p} /\ plugin' = p
    /\ mapLock' = t
    /\ doing' = [doing EXCEPT ![t] = <<"asks", p>>]
    /\ UNCHANGED <<refs, codec, receiver, bridgeLock, isAvailable>>

\* nativeJSBridgeExists, with bridgeMapLock_ held.  It looks twice, for the receiver
\* and for its type: a receiver gone between the two has type -1.
AskBridge(t) ==
    /\ doing[t][1] = "asks" /\ Free(bridgeLock)
    /\ doing' = [doing EXCEPT
           ![t] = <<"learned", doing[t][2], receiver = PluginType[doing[t][2]]>>]
    /\ UNCHANGED <<refs, codec, receiver, bridgeLock, plugin, created, isAvailable,
                   mapLock, operations>>

\* Faulty: the lock stays taken when there is nothing to tell.
LearnAnswer_KeepsLock(t) ==
    /\ doing[t][1] = "learned"
    /\ LET p == doing[t][2]
       IN  isAvailable' = [isAvailable EXCEPT ![p] = @ \/ doing[t][3]]
    /\ mapLock' = IF doing[t][3] THEN Nobody ELSE mapLock
    /\ doing' = [doing EXCEPT ![t] = Idle]
    /\ UNCHANGED <<refs, codec, receiver, bridgeLock, plugin, created, operations>>

LearnAnswer(t) ==
    /\ doing[t][1] = "learned"
    /\ LET p == doing[t][2]
       IN  isAvailable' = [isAvailable EXCEPT ![p] = @ \/ doing[t][3]]
    /\ mapLock' = Nobody
    /\ doing' = [doing EXCEPT ![t] = Idle]
    /\ UNCHANGED <<refs, codec, receiver, bridgeLock, plugin, created, operations>>

UnregisterPlugin(t) ==
    /\ Operates /\ doing[t] = Idle
    /\ plugin # NoPlugin /\ Free(mapLock)
    /\ plugin' = NoPlugin
    /\ UNCHANGED <<refs, codec, receiver, bridgeLock, created, isAvailable, mapLock, doing>>

-----------------------------------------------------------------------------
RegistryInit ==
    /\ refs = 0 /\ codec = "json" /\ receiver = "none" /\ plugin = NoPlugin
    /\ bridgeLock = Nobody /\ mapLock = Nobody
    /\ created = {} /\ isAvailable = [p \in Plugin |-> FALSE]
    /\ doing = [t \in Thread |-> Idle]
    /\ operations = 0

\* The steps inside a registration, on either side.
RegistrationStep == FindPlugin \/ TellPlugin \/ \E t \in Thread : AskBridge(t) \/ LearnAnswer(t)

\* The calls of the application that concern the registration.
Register ==
    \/ \E type \in Codec : BuildBridge(type) \/ CopyBridge(type)
    \/ DropBridge \/ DeleteBridge
    \/ \E t \in Thread : UnregisterPlugin(t) \/ \E p \in Plugin : RegisterPlugin(t, p)

Step == {Idle} \cup {"tells"} \X (Codec \cup {"none"})
               \cup {"found"} \X (Plugin \cup {NoPlugin}) \X (Codec \cup {"none"})
               \cup {"asks"} \X Plugin \cup {"learned"} \X Plugin \X BOOLEAN

RegistryTypeOK ==
    /\ refs \in Nat /\ codec \in Codec /\ receiver \in Codec \cup {"none"}
    /\ plugin \in Plugin \cup {NoPlugin} /\ created \subseteq Plugin
    /\ isAvailable \in [Plugin -> BOOLEAN]
    /\ bridgeLock \in Thread \cup {Nobody} /\ mapLock \in Thread \cup {Nobody}
    /\ doing \in [Thread -> Step]
    /\ operations \in 0 .. MaxOperations

\* The receiver is there while there is a Bridge; a lock is held by the one thread that is
\* between its steps.
RegistryHolds ==
    /\ refs = 0 <=> receiver = "none"
    /\ \A t \in Thread :
           /\ doing[t][1] \in {"tells", "found"} <=> bridgeLock = t
           /\ doing[t][1] \in {"asks", "learned"} <=> mapLock = t

\* Whoever comes second, and however registrations, deletions and replacements of the two
\* sides interleave: once they are over, the plugin in the map takes the bridge for
\* available (onRegisterResult) exactly when a receiver of its type is in bridgeList_.
AvailabilityAgrees ==
    plugin # NoPlugin /\ Free(bridgeLock) /\ Free(mapLock)
        => (isAvailable[plugin] <=> receiver = PluginType[plugin])

\* JSRegisterBridge holds bridgeLock_ and waits for bridgeMapLock_, registerBridgePlugin
\* the other way round: neither goes on.
Crossed == doing[JsThread][1] = "tells" /\ \E t \in Thread : doing[t][1] = "asks"

\* A registration that was begun returns, unless the two locks have crossed.
RegistrationReturns == \A t \in Thread : doing[t] # Idle ~> doing[t] = Idle \/ Crossed
=============================================================================
