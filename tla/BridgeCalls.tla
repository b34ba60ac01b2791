----------------------------- MODULE BridgeCalls -----------------------------
(***************************************************************************)
(* What JS asks of the platform over a JSON bridge on Android: callMethod, *)
(* whose result comes back under the method's name and number, and         *)
(* sendMessage, whose response comes back under no name at all and is      *)
(* given to the first sender in jsSendMessageDataList_.  On their way a    *)
(* call and its result pass through the bridge thread, the pool of         *)
(* BridgeThreadExecutor, the JS thread's event queue and an async work of  *)
(* the JS engine; the plugin and the bridge may come and go meanwhile, as  *)
(* BridgeRegistry has it.                                                  *)
(*                                                                         *)
(* A call or a message is named by its kind and its number.  Both event    *)
(* queues are first in, first out: EventQueueTurns!NoOvertaking.           *)
(***************************************************************************)
EXTENDS BridgeRegistry, SequencesExt

CONSTANTS MaxCalls, MaxMessages     \* bounds: the calls and messages sent

ASSUME CallsAssumption == MaxCalls \in Nat /\ MaxMessages \in Nat

Call    == {"call"} \X (1 .. MaxCalls)
Message == {"message"} \X (1 .. MaxMessages)
Sender  == Call \cup Message
NoOne   == <<"no one", 0>>

VARIABLES
    methodId,               \* MethodID::id_: the calls made so far
    messages,               \* the messages sent so far
    listens,                \* whether each plugin has its iMessageListener_
    jsMethodDataList,       \* Bridge::jsMethodDataList_
    jsSendMessageDataList,  \* Bridge::jsSendMessageDataList_
    bridgeTasks,            \* the tasks of the bridge thread
    responding,             \* the message the bridge thread has a response to, or an error
    executor,               \* the calls handed to the BridgeThreadExecutor
    mainTasks,              \* the tasks of the JS thread: a sender, and whose answer
    erasing,                \* the call that the JS thread is about to erase
    works,                  \* async works that will settle a promise: as mainTasks
    answer,                 \* whose answer settled each promise, or NoOne
    lost                    \* senders whose answer went nowhere (history)

callVars == <<methodId, messages, listens, jsMethodDataList, jsSendMessageDataList,
              bridgeTasks, responding, executor, mainTasks, erasing, works, answer, lost>>
vars     == <<registryVars, callVars>>

Sent(x)  == x[2] <= IF x[1] = "call" THEN methodId ELSE messages
JsIdle   == doing[JsThread] = Idle /\ erasing = NoOne

\* The rest of the registry when an operation only counts itself.
restOfRegistry == <<refs, codec, receiver, bridgeLock, plugin, created, isAvailable,
                    mapLock, doing>>

-----------------------------------------------------------------------------
(* The JS thread sends.                                                    *)

\* Bridge::CallMethod, under a name that MethodID has made unique.
CallMethod ==
    /\ Operates /\ JsIdle
    /\ refs > 0 /\ codec = "json" /\ methodId < MaxCalls
    /\ methodId' = methodId + 1
    /\ jsMethodDataList' = jsMethodDataList \cup {<<"call", methodId'>>}
    /\ bridgeTasks' = Append(bridgeTasks, <<"call", methodId'>>)
    /\ UNCHANGED <<restOfRegistry, messages, listens, jsSendMessageDataList, responding,
                   executor, mainTasks, erasing, works, answer, lost>>

\* Bridge::SendMessage.
SendMessage ==
    /\ Operates /\ JsIdle
    /\ refs > 0 /\ codec = "json" /\ messages < MaxMessages
    /\ messages' = messages + 1
    /\ jsSendMessageDataList' = Append(jsSendMessageDataList, <<"message", messages'>>)
    /\ bridgeTasks' = Append(bridgeTasks, <<"message", messages'>>)
    /\ UNCHANGED <<restOfRegistry, methodId, listens, jsMethodDataList, responding,
                   executor, mainTasks, erasing, works, answer, lost>>

\* The deleted Bridge takes both lists along.  A task of OnPlatformMethodResult that is
\* queued still uses it: undefined, and taken here to do nothing.
DeleteBridgeAndLists ==
    /\ DeleteBridge
    /\ jsMethodDataList' = {} /\ jsSendMessageDataList' = <<>>
    /\ lost' = lost \cup {jsSendMessageDataList[i] : i \in DOMAIN jsSendMessageDataList}
    /\ UNCHANGED <<methodId, messages, listens, bridgeTasks, responding, executor,
                   mainTasks, erasing, works, answer>>

-----------------------------------------------------------------------------
(* The bridge thread, and the plugin on it.                                *)

\* BridgePlugin::setMessageListener, and setMessageListener(null), at any time.
SetMessageListener(p) ==
    /\ Operates /\ p \in created
    /\ listens' = [listens EXCEPT ![p] = ~@]
    /\ UNCHANGED <<restOfRegistry, methodId, messages, jsMethodDataList,
                   jsSendMessageDataList, bridgeTasks, responding, executor, mainTasks,
                   erasing, works, answer, lost>>

\* BridgeManager.jsCallMethod, jsSendMessage for the i-th task.  Without a plugin a call
\* ends there, and a message gets an error response, which looks for the plugin again: in
\* Respond, as another may register meanwhile.  Without a listener nobody answers.
RunTask(i) ==
    /\ responding = NoOne /\ Free(mapLock)
    /\ bridgeTasks' = RemoveAt(bridgeTasks, i)
    /\ LET x == bridgeTasks[i]
       IN  \/ /\ x \in Call /\ plugin # NoPlugin
              /\ executor' = executor \cup {x}
              /\ UNCHANGED <<responding, lost>>
           \/ /\ x \in Message /\ (plugin # NoPlugin => listens[plugin])
              /\ responding' = x
              /\ UNCHANGED <<executor, lost>>
           \/ /\ IF plugin = NoPlugin THEN x \in Call ELSE x \in Message /\ ~listens[plugin]
              /\ lost' = lost \cup {x}
              /\ UNCHANGED <<executor, responding>>
    /\ UNCHANGED <<registryVars, methodId, messages, listens, jsMethodDataList,
                   jsSendMessageDataList, mainTasks, erasing, works, answer>>

\* Faulty: the tasks are run by a pool.
RunBridgeTask_Pooled == \E i \in DOMAIN bridgeTasks : RunTask(i)

RunBridgeTask == bridgeTasks # <<>> /\ RunTask(1)

\* platformSendMessageResponse or platformSendMessageResponseErrorInfo, each with its own
\* look at the plugins, then Bridge::OnPlatformSendMessageResponse: the first sender gets
\* it, and nobody when there is none.
Respond ==
    /\ responding # NoOne /\ Free(mapLock) /\ Free(bridgeLock)
    /\ responding' = NoOne
    /\ \/ /\ plugin = NoPlugin \/ receiver = "none"
          /\ lost' = lost \cup {responding}
          /\ UNCHANGED <<jsSendMessageDataList, mainTasks>>
       \/ /\ plugin # NoPlugin /\ receiver # "none"
          /\ IF jsSendMessageDataList = <<>>
             THEN UNCHANGED <<jsSendMessageDataList, mainTasks>>
             ELSE /\ jsSendMessageDataList' = Tail(jsSendMessageDataList)
                  /\ mainTasks' = Append(mainTasks,
                                         <<Head(jsSendMessageDataList), responding>>)
          /\ UNCHANGED lost
    /\ UNCHANGED <<registryVars, methodId, messages, listens, jsMethodDataList,
                   bridgeTasks, executor, erasing, works, answer>>

-----------------------------------------------------------------------------
(* The pool: BridgeManager.jsCallMethodInner, platformSendMethodResult and *)
(* Bridge::OnPlatformMethodResult.                                         *)

\* Faulty: the plugin returns, and returns again.
ReturnResult_Again(c) ==
    /\ c \in executor /\ Free(mapLock) /\ Free(bridgeLock)
    /\ plugin # NoPlugin /\ receiver # "none" /\ c \in jsMethodDataList
    /\ mainTasks' = Append(mainTasks, <<c, c>>)
    /\ UNCHANGED <<registryVars, methodId, messages, listens, jsMethodDataList, executor,
                   jsSendMessageDataList, bridgeTasks, responding, erasing, works,
                   answer, lost>>

ReturnResult(c) ==
    /\ c \in executor /\ Free(mapLock) /\ Free(bridgeLock)
    /\ plugin # NoPlugin /\ receiver # "none" /\ c \in jsMethodDataList
    /\ executor' = executor \ {c}
    /\ mainTasks' = Append(mainTasks, <<c, c>>)
    /\ UNCHANGED <<registryVars, methodId, messages, listens, jsMethodDataList,
                   jsSendMessageDataList, bridgeTasks, responding, erasing, works,
                   answer, lost>>

\* The plugin, the receiver or the entry is gone.  And the JS thread erases without
\* jsMethodDataListLock_: a search in the map meanwhile may miss what is there.
LoseResult(c) ==
    /\ c \in executor /\ Free(mapLock) /\ Free(bridgeLock)
    /\ \/ plugin = NoPlugin \/ receiver = "none"
       \/ c \notin jsMethodDataList \/ erasing # NoOne
    /\ executor' = executor \ {c}
    /\ lost' = lost \cup {c}
    /\ UNCHANGED <<registryVars, methodId, messages, listens, jsMethodDataList,
                   jsSendMessageDataList, bridgeTasks, responding, mainTasks, erasing,
                   works, answer>>

-----------------------------------------------------------------------------
(* The JS thread receives.                                                 *)

\* Faulty: the task holds the call weakly, and finds nothing once the Bridge is deleted.
RunMainTask_Weak ==
    /\ JsIdle /\ mainTasks # <<>>
    /\ mainTasks' = Tail(mainTasks)
    /\ works' = IF refs = 0 THEN works ELSE works \cup {Head(mainTasks)}
    /\ erasing' = IF Head(mainTasks)[1] \in Call THEN Head(mainTasks)[1] ELSE NoOne
    /\ UNCHANGED <<registryVars, methodId, messages, listens, jsMethodDataList,
                   jsSendMessageDataList, bridgeTasks, responding, executor, answer, lost>>

\* A task: MethodData::SendMethodResult or SendMessageResponse creates the async work.
RunMainTask ==
    /\ JsIdle /\ mainTasks # <<>>
    /\ mainTasks' = Tail(mainTasks)
    /\ works' = works \cup {Head(mainTasks)}
    /\ erasing' = IF Head(mainTasks)[1] \in Call THEN Head(mainTasks)[1] ELSE NoOne
    /\ UNCHANGED <<registryVars, methodId, messages, listens, jsMethodDataList,
                   jsSendMessageDataList, bridgeTasks, responding, executor, answer, lost>>

\* ... and Bridge::EraseJSMethodData follows for a call.
EraseJSMethodData ==
    /\ erasing # NoOne
    /\ jsMethodDataList' = jsMethodDataList \ {erasing}
    /\ erasing' = NoOne
    /\ UNCHANGED <<registryVars, methodId, messages, listens, jsSendMessageDataList,
                   bridgeTasks, responding, executor, mainTasks, works, answer, lost>>

\* NAPIAsyncEvent::AsyncWorkCallback, which settles the promise; then the event is deleted.
AsyncWorkCallback(w) ==
    /\ JsIdle /\ w \in works
    /\ works' = works \ {w}
    /\ answer' = [answer EXCEPT ![w[1]] = w[2]]
    /\ UNCHANGED <<registryVars, methodId, messages, listens, jsMethodDataList,
                   jsSendMessageDataList, bridgeTasks, responding, executor, mainTasks,
                   erasing, lost>>

-----------------------------------------------------------------------------
Init ==
    /\ RegistryInit
    /\ methodId = 0 /\ messages = 0
    /\ listens = [p \in Plugin |-> FALSE]
    /\ jsMethodDataList = {} /\ jsSendMessageDataList = <<>>
    /\ bridgeTasks = <<>> /\ responding = NoOne /\ executor = {}
    /\ mainTasks = <<>> /\ erasing = NoOne /\ works = {}
    /\ answer = [x \in Sender |-> NoOne] /\ lost = {}

\* The application, on the JS thread and on any other.
JsCalls == CallMethod \/ SendMessage \/ DeleteBridgeAndLists
PlatformCalls == \E p \in Plugin : SetMessageListener(p)

RegistryStep ==
    /\ \/ /\ erasing = NoOne
          /\ DropBridge \/ \E type \in Codec : BuildBridge(type) \/ CopyBridge(type)
       \/ \E t \in Thread :
              /\ t = JsThread => erasing = NoOne
              /\ UnregisterPlugin(t) \/ \E p \in Plugin : RegisterPlugin(t, p)
       \/ RegistrationStep
    /\ UNCHANGED callVars

BridgeThread  == RunBridgeTask \/ Respond
PoolThread(c) == ReturnResult(c) \/ LoseResult(c)
JsReceives    == RunMainTask \/ EraseJSMethodData \/ \E w \in works : AsyncWorkCallback(w)

Next ==
    \/ JsCalls \/ PlatformCalls \/ RegistryStep
    \/ BridgeThread \/ (\E c \in Call : PoolThread(c)) \/ JsReceives

Spec == Init /\ [][Next]_vars

\* Every thread goes on with what it has begun or been given.
Fairness ==
    /\ WF_vars(RegistrationStep /\ UNCHANGED callVars)
    /\ WF_vars(BridgeThread) /\ WF_vars(JsReceives)
    /\ \A c \in Call : WF_vars(PoolThread(c))

FairSpec == Spec /\ Fairness

-----------------------------------------------------------------------------
CallTypeOK ==
    /\ methodId \in 0 .. MaxCalls /\ messages \in 0 .. MaxMessages
    /\ listens \in [Plugin -> BOOLEAN]
    /\ jsMethodDataList \subseteq Call /\ jsSendMessageDataList \in Seq(Message)
    /\ bridgeTasks \in Seq(Sender) /\ responding \in Message \cup {NoOne}
    /\ executor \subseteq Call /\ erasing \in Call \cup {NoOne}
    /\ mainTasks \in Seq(Sender \X Sender) /\ works \subseteq Sender \X Sender
    /\ answer \in [Sender -> Sender \cup {NoOne}] /\ lost \subseteq Sender

\* The types; the Bridge, its receiver and the two locks belong together.
BridgeTypeOK == RegistryTypeOK /\ RegistryHolds /\ CallTypeOK

\* The places where a call can be, and whether it is there.
At(c) == [unsent   |-> ~Sent(c),
          bridge   |-> \E i \in DOMAIN bridgeTasks : bridgeTasks[i] = c,
          executor |-> c \in executor,
          main     |-> \E i \in DOMAIN mainTasks : mainTasks[i][1] = c,
          work     |-> \E w \in works : w[1] = c,
          settled  |-> answer[c] # NoOne,
          lost     |-> c \in lost]

\* A call is in exactly one place at any time, on four threads and after any deletion:
\* its promise is never settled twice, and settled only by its own result.
OnePlacePerCall == \A c \in Call :
    /\ \E here \in DOMAIN At(c) : \A place \in DOMAIN At(c) : At(c)[place] <=> place = here
    /\ answer[c] \in {c, NoOne}

\* The messages sent no later than this one that got no response.
LostBefore(m) == {u \in lost \cap Message : u[2] <= m[2]}

\* Responses are matched to senders by position (OnPlatformSendMessageResponse).  A
\* message gets the response to another one only after one of those sent no later got
\* none: without such a loss every sender has its own.
OwnResponse == \A m \in Message :
    answer[m] \notin {m, NoOne} => LostBefore(m) # {}

Settled(x) == answer[x] # NoOne \/ x \in lost

\* Every call that was sent is settled, or lost with its plugin, receiver or entry
\* (OnPlatformMethodResult).  Every message is answered unless it or an earlier one got no
\* response: one message without a listener leaves the last sender waiting for ever.
\* Both end unless the two locks have crossed.
SendersSettle == \A x \in Sender :
    Sent(x) ~> Settled(x) \/ Crossed \/ (x \in Message /\ LostBefore(x) # {})
=============================================================================
