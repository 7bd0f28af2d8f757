------------------------------ MODULE AutoReply ------------------------------
(***************************************************************************)
(* One private chat of one account: the list of messages that              *)
(* core/dm_store.py keeps of it, the live updates, syncs and sends of      *)
(* services/dm_inbox_service.py that write it, and the automatic replies   *)
(* of core/ai_smart_reply.py, which decide on what it says.  Messages are  *)
(* numbered in Telegram's order; the list is in the order in which they    *)
(* reached the file.  A function of dm_store is one step, and so is        *)
(* maybe_schedule_ai_reply: its queue has room.  Gates that read something *)
(* else than the list are one choice: wherever one is asked, it may refuse *)
(* or not, until the last refusal.  Read and delivery marks, unread counts *)
(* and the notice that is sent outside work hours are left out.            *)
(***************************************************************************)
EXTENDS Integers, FiniteSets, SequencesExt

CONSTANTS MaxId,      \* bound: messages ever written in the chat
          MaxAnswers, \* bound: messages that the operators write
          Limit,      \* how many messages a sync of each kind asks for
          Keep,       \* _MAX_MESSAGES_PER_CHAT
          MaxUpsets,  \* bound: failures and operations out of the ordinary
          MaxEarly    \* bound: those of them before the last refusal

VARIABLES tg,         \* Telegram: who wrote each message, in answer to what
          gone,       \* Telegram: the deleted messages
          store,      \* conversations[user]["messages"]
          listening,  \* handlers are attached to a connected client
          events,     \* new messages whose handlers are under way
          fetched,    \* what the sync under way collected
          asks,       \* runs of maybe_schedule_ai_reply that are to come
          queue,      \* AI_AUTO_REPLY tasks of the chat in the account queue
          desk,       \* a DM_SEND task of an operator is in the account queue
          out,        \* the task in the hands of the queue processor
          lead,       \* get_lead_state: enabled, escalated, _disable_reason
          fresh,      \* our messages of the last 75 seconds
          barred,     \* gates that read something else go on refusing
          touched,    \* last_reply_at lies within human_pause_minutes
          upsets      \* history: how many upsets there were

chatVars == <<tg, gone, store, listening, events, fetched, asks, queue, desk, out, lead, fresh,
              barred, touched, upsets>>
chat == <<tg, gone, listening, events, fresh, barred, upsets>>
tasks == <<asks, queue, desk, lead>>

Id == 1..MaxId

(* No message has the number 0.                                            *)
NotRunning == {0}

(* What sent_by, ai and ai_stage of a record say: not ours; the Telegram   *)
(* app; an operator; an automatic reply without and with its stage.        *)
Label == {"none", "native", "manual", "ai", "tagged"}

(* thinking, of an automatic reply: in the model or in                     *)
(* _simulate_human_typing; sending; taken: Telegram has it; syncing: the   *)
(* list too, and the sync of the send collects; tagging: the reply gets    *)
(* its label.                                                              *)
Stage == {"idle", "thinking", "sending", "taken", "syncing", "tagging"}
Idle == [by |-> "nobody", to |-> 0, stage |-> "idle", id |-> 0, force |-> FALSE]

(* on; escalated by the model; disabled as human_owned; disabled for other *)
(* reasons: the toggle of the dashboard or the client's wish.              *)
Lead == {"on", "escalated", "owned", "off"}

ASSUME ChatAssumption ==
  /\ MaxId \in Nat /\ MaxAnswers \in Nat /\ MaxUpsets \in Nat /\ MaxEarly \in 0..MaxUpsets /\ Keep \in Nat \ {0}
  /\ Limit \in [{"light", "open", "page", "send"} -> Nat \ {0}]

ChatTypeOK ==
  /\ tg \in Seq([by : {"client", "phone", "manual", "ai"}, to : Id \union {0}]) /\ Len(tg) <= MaxId
  /\ gone \subseteq Id
  /\ store \in Seq([id : Id, label : Label]) /\ Len(store) <= Keep
  /\ listening \in BOOLEAN /\ events \subseteq Id
  /\ fetched \in (SUBSET Id) \union {NotRunning}
  /\ asks \subseteq Id
  /\ queue \in Seq([id : Id, force : BOOLEAN]) /\ Len(queue) <= 1
  /\ desk \in BOOLEAN
  /\ out \in [by : {"nobody", "manual", "ai"}, to : Id \union {0}, stage : Stage,
              id : Id \union {0}, force : BOOLEAN]
  /\ lead \in Lead
  /\ fresh \subseteq Id /\ barred \in BOOLEAN /\ touched \in BOOLEAN /\ upsets \in 0..MaxUpsets

(* The AI state of a lead outlives a chat that was deleted.                *)
ChatInit ==
  /\ tg = <<>> /\ gone = {} /\ store = <<>> /\ listening = TRUE
  /\ events = {} /\ fetched = NotRunning
  /\ asks = {} /\ queue = <<>> /\ desk = FALSE /\ out = Idle /\ lead \in {"on", "owned"}
  /\ fresh = {} /\ barred = TRUE /\ touched = FALSE /\ upsets = 0

Upset == upsets < (IF barred THEN MaxEarly ELSE MaxUpsets) /\ upsets' = upsets + 1

Outgoing(i) == tg[i].by # "client"
StoredIds == {m.id : m \in ToSet(store)}
Ours == {k \in DOMAIN store : Outgoing(store[k].id)}
OnTelegram == DOMAIN tg \ gone
Latest(S, k) == {i \in S : Cardinality({j \in S : j > i}) < k}

---------------------------------------------------------------------------
(* core/dm_store.py.                                                       *)

(* A message that is stored keeps its place and gets the sender's label.   *)
(* Without a sender classify_outbound_sender_repair takes a reply without  *)
(* a stage for one from the Telegram app.                                  *)
Relabelled(old, label) ==
  CASE label = "native" /\ old = "ai" -> "native"
    [] label = "native" /\ old # "ai" -> old
    [] label = "ai" /\ old = "tagged" -> "tagged"
    [] OTHER -> label

(* append_message and _trim_messages.                                      *)
Appended(s, m) ==
  IF \E k \in DOMAIN s : s[k].id = m.id
    THEN [k \in DOMAIN s |-> IF s[k].id = m.id THEN [s[k] EXCEPT !.label = Relabelled(@, m.label)] ELSE s[k]]
    ELSE Append(IF Len(s) = Keep THEN Tail(s) ELSE s, m)

(* A record of a live message or a sync: no sender is given.               *)
Record(i) == [id |-> i, label |-> IF Outgoing(i) THEN "native" ELSE "none"]

ClientIsLast == store # <<>> /\ ~Outgoing(Last(store).id)

---------------------------------------------------------------------------
(* The chat on Telegram.  A message is an update to whoever listens.       *)

Writes(by, to) ==
  /\ Len(tg) < MaxId
  /\ tg' = Append(tg, [by |-> by, to |-> to])
  /\ events' = IF listening THEN events \union {Len(tg) + 1} ELSE events
  /\ fresh' = IF by = "client" THEN fresh ELSE fresh \union {Len(tg) + 1}

Answers == Cardinality({i \in DOMAIN tg : tg[i].by \in {"phone", "manual"}})

(* The client writes, or an operator answers in the Telegram app.          *)
Message ==
  /\ \/ Writes("client", 0)
     \/ Answers < MaxAnswers /\ Writes("phone", 0)
  /\ UNCHANGED <<gone, store, listening, fetched, asks, queue, desk, out, lead, barred, touched, upsets>>

Detach ==
  /\ listening /\ Upset /\ listening' = FALSE
  /\ UNCHANGED <<tg, gone, store, events, fetched, out, fresh, barred, touched, tasks>>

(* ensure_inbox_listener, which the periodic sync calls.                   *)
Attach ==
  /\ ~listening /\ listening' = TRUE
  /\ UNCHANGED <<tg, gone, store, events, fetched, out, fresh, barred, touched, upsets, tasks>>

(* _handle_dm_event: a client's message that is new to the list starts a   *)
(* task that schedules a reply; one of ours renews last_reply_at.          *)
HandleEvent(i) ==
  /\ i \in events /\ events' = events \ {i}
  /\ store' = Appended(store, Record(i))
  /\ IF i \in StoredIds THEN UNCHANGED <<asks, touched>>
     ELSE IF Outgoing(i) THEN touched' = TRUE /\ UNCHANGED asks
     ELSE asks' = asks \union {i} /\ UNCHANGED touched
  /\ UNCHANGED <<tg, gone, listening, fetched, queue, desk, out, lead, fresh, upsets, barred>>

(* 75 seconds, then the rest of the ten minutes.                           *)
TimePasses ==
  /\ fresh # {} \/ touched
  /\ fresh' = {} /\ touched' = (touched /\ fresh # {})
  /\ UNCHANGED <<tg, gone, store, listening, events, fetched, out, upsets, tasks, barred>>

---------------------------------------------------------------------------
(* _sync_conversation_with_client: messages are collected over awaits,     *)
(* then appended, oldest first, in one step.  Bound: one sync at a time.   *)

Synced(s, ids) ==
  LET upTo[i \in 0..MaxId] == IF i = 0 THEN s
                              ELSE IF i \in ids THEN Appended(upTo[i - 1], Record(i))
                              ELSE upTo[i - 1]
  IN upTo[MaxId]

Collect(S, kind) == fetched = NotRunning /\ fetched' = Latest(S, Limit[kind])

(* The periodic sync visits stored conversations only.  One that finds     *)
(* nothing new is left out.                                                *)
LightFetch ==
  /\ store # <<>> /\ Collect(OnTelegram, "light")
  /\ ~(fetched' \subseteq StoredIds)
  /\ UNCHANGED <<chat, store, out, touched, tasks>>

(* The chat is opened; older messages are loaded, from below the oldest    *)
(* that is shown.                                                          *)
OpenFetch ==
  /\ Upset
  /\ \/ Collect(OnTelegram, "open")
     \/ store # <<>> /\ Collect({i \in OnTelegram : \A j \in StoredIds : i < j}, "page")
  /\ UNCHANGED <<tg, gone, listening, events, fresh, store, out, barred, touched, tasks>>

Apply ==
  /\ fetched # NotRunning
  /\ store' = Synced(store, fetched) /\ fetched' = NotRunning

SyncApplies ==
  /\ Apply /\ out.stage # "syncing"
  /\ UNCHANGED <<chat, out, touched, tasks>>

---------------------------------------------------------------------------
(* run_dm_delete_message and delete_conversation, which also removes the   *)
(* lead and leaves the chat on Telegram alone.                             *)

DeleteMessage ==
  /\ Upset
  /\ \E k \in Ours : gone' = gone \union {store[k].id} /\ store' = RemoveAt(store, k)
  /\ UNCHANGED <<tg, listening, events, fetched, out, fresh, barred, touched, tasks>>

DeleteConversation ==
  /\ store # <<>> /\ Upset
  /\ store' = <<>> /\ touched' = FALSE
  /\ UNCHANGED <<tg, gone, listening, events, fetched, out, fresh, tasks, barred>>

---------------------------------------------------------------------------
(* What the gates read from the list.                                      *)

StillUnanswered_NoNewerInbound(i) ==
  i \in StoredIds /\ \A k \in DOMAIN store : store[k].id > i => Outgoing(store[k].id)

(* _inbound_still_unanswered.                                              *)
StillUnanswered(i) == ClientIsLast /\ Last(store).id = i

ByHuman(k) == store[k].label \notin {"ai", "tagged"}

(* _recent_outbound_within_sec: the last of our messages in the list.      *)
RecentOutbound == Ours # {} /\ store[Max(Ours)].id \in fresh

(* _is_last_outbound_human with last_reply_at.                             *)
HumanPause == touched /\ Ours # {} /\ ByHuman(Max(Ours))

(* _lead_has_human_owned_thread also reads the text: it may say so.        *)
MayBeHumanOwned == Cardinality({k \in Ours : ByHuman(k)}) >= 2

(* _karthik_resume_waiting_client.                                         *)
Resumed == IF lead = "owned" /\ ClientIsLast THEN "on" ELSE lead

(* The gates of the text, of the lead's status, of blocked and of closed   *)
(* chats, of an operator's deferral, caps, hours and the places of a sweep *)
(* come and go, or refuse for ever; there may be a last time.              *)
LastRefusal ==
  /\ barred /\ barred' = FALSE
  /\ UNCHANGED <<tg, gone, store, listening, events, fetched, out, fresh, touched, upsets, tasks>>

---------------------------------------------------------------------------
(* maybe_schedule_ai_reply(i).                                             *)

Busy == queue # <<>> \/ RecentOutbound
Skips == (Busy \/ barred) /\ UNCHANGED <<lead, queue>>

(* _human_only_lock_reason, whatever the lead was disabled for before.     *)
Locks ==
  /\ ~Busy /\ MayBeHumanOwned /\ ~ClientIsLast
  /\ lead' = "owned" /\ UNCHANGED queue

(* The gates of the lead and of the pause.  A message that was answered is *)
(* skipped if it is the one that the lead's state remembers.               *)
Decides(i) ==
  /\ ~Busy
  /\ lead' = IF Resumed = "escalated" /\ StillUnanswered(i) THEN "on" ELSE Resumed
  /\ \/ (lead' # "on" \/ HumanPause \/ ~StillUnanswered(i) \/ barred) /\ UNCHANGED queue
     \/ lead' = "on" /\ ~HumanPause /\ queue' = <<[id |-> i, force |-> FALSE]>>

Schedule(i) == Skips \/ Locks \/ Decides(i)

(* The task that a live message started.                                   *)
EventAsks ==
  /\ \E i \in asks : asks' = asks \ {i} /\ Schedule(i)
  /\ UNCHANGED <<chat, store, fetched, out, touched, desk>>


(* list_pending_inbound_targets for this chat.                             *)
Pending == ClientIsLast /\ Resumed \in {"on", "escalated"}

(* sweep_pending_inbox: this chat comes first in its list, whose making    *)
(* has enabled a lead that resumes.                                        *)
Sweep ==
  /\ Pending
  /\ \/ (Busy \/ barred) /\ lead' = Resumed /\ UNCHANGED queue
     \/ Decides(Last(store).id)
  /\ UNCHANGED <<chat, store, fetched, out, touched, asks, desk>>

(* catch_up_pending_replies of the dashboard: past the gates.              *)
CatchUp ==
  /\ Pending /\ ~Busy /\ Upset
  /\ queue' = <<[id |-> Last(store).id, force |-> TRUE]>> /\ lead' = Resumed
  /\ UNCHANGED <<tg, gone, store, listening, events, fetched, out, fresh, barred, touched, asks, desk>>

(* The toggle of a lead; a client who wants no automatic replies.          *)
Toggle ==
  /\ Upset
  /\ lead' \in {"on", "off"} \ {lead}
  /\ UNCHANGED <<tg, gone, store, listening, events, fetched, out, fresh, barred, touched, asks, queue, desk>>

(* enqueue_dm_send cancels the automatic reply that waits in the queue.    *)
DeskAsks ==
  /\ ~desk /\ out.by # "manual" /\ Answers < MaxAnswers
  /\ desk' = TRUE /\ queue' = <<>>
  /\ UNCHANGED <<chat, store, fetched, out, touched, asks, lead>>

---------------------------------------------------------------------------
(* The queue processor: one task at a time behind _execution_gate, sends   *)
(* of operators first.                                                     *)

TakeDesk ==
  /\ out = Idle /\ desk /\ desk' = FALSE
  /\ out' = [Idle EXCEPT !.by = "manual", !.stage = "sending"]
  /\ UNCHANGED <<chat, store, fetched, touched, asks, queue, lead>>

Goes(t) == t.force \/ (lead = "on" /\ StillUnanswered(t.id) /\ ~HumanPause)

(* generate_and_send up to the model: the gates again.                     *)
TakeReply ==
  /\ out = Idle /\ ~desk /\ queue # <<>> /\ queue' = <<>>
  /\ LET t == Head(queue)
     IN \/ /\ Goes(t)
           /\ lead' = IF t.force /\ lead = "escalated" THEN "on" ELSE lead
           /\ out' = [Idle EXCEPT !.by = "ai", !.to = t.id, !.stage = "thinking", !.force = t.force]
        \/ (~Goes(t) \/ barred) /\ out' = Idle /\ UNCHANGED lead
  /\ UNCHANGED <<chat, store, fetched, touched, asks, desk>>

(* An error, or the gates of the reply's text and of the model's own       *)
(* verdict: no reply, too unsure, too like the last ones, for a human.     *)
Declines ==
  /\ out.stage = "thinking" /\ out' = Idle
  /\ Upset \/ (barred /\ UNCHANGED upsets)
  /\ lead' \in {lead, IF lead = "on" THEN "escalated" ELSE lead}
  /\ UNCHANGED <<tg, gone, store, listening, events, fetched, fresh, barred, touched, asks, queue, desk>>

(* After _simulate_human_typing the list is looked at again.               *)
Types ==
  /\ out.stage = "thinking"
  /\ out' = IF out.force \/ StillUnanswered(out.to) THEN [out EXCEPT !.stage = "sending"] ELSE Idle
  /\ UNCHANGED <<chat, store, fetched, touched, tasks>>

(* run_dm_send.                                                            *)
Takes ==
  /\ out.stage = "sending" /\ Writes(out.by, out.to)
  /\ out' = [out EXCEPT !.stage = "taken", !.id = Len(tg) + 1]
  /\ UNCHANGED <<gone, store, listening, fetched, barred, touched, upsets, tasks>>

(* The send is repeated within the task, without another look at the list: *)
(* run_dm_operation tries four times when the session failed it, and       *)
(* generate_and_send six times when the database was locked, be it in the  *)
(* send, in append_message or, of a reply, in the sync.                    *)
SendsAgain ==
  /\ out.stage = "taken" \/ (out.by = "ai" /\ out.stage = "syncing")
  /\ Upset
  /\ out' = [out EXCEPT !.stage = "sending", !.id = 0]
  /\ fetched' = IF out.stage = "syncing" THEN NotRunning ELSE fetched
  /\ UNCHANGED <<tg, gone, store, listening, events, fresh, barred, touched, tasks>>

(* The task gives up, before Telegram or before the list has the message,  *)
(* or in the sync.                                                         *)
SendFails ==
  /\ out.stage \in {"sending", "taken", "syncing"} /\ Upset /\ out' = Idle
  /\ fetched' = IF out.stage = "syncing" THEN NotRunning ELSE fetched
  /\ UNCHANGED <<tg, gone, store, listening, events, fresh, barred, touched, tasks>>

(* append_message; the sync follows at once.                               *)
Saves ==
  /\ out.stage = "taken" /\ out' = [out EXCEPT !.stage = "syncing"]
  /\ store' = Appended(store, [id |-> out.id, label |-> out.by])
  /\ Collect(OnTelegram, "send")
  /\ UNCHANGED <<chat, touched, tasks>>

(* The sync, then touch_from_message.                                      *)
SendSyncs ==
  /\ out.stage = "syncing" /\ Apply /\ touched' = TRUE
  /\ out' = IF out.by = "ai" THEN [out EXCEPT !.stage = "tagging"] ELSE Idle
  /\ UNCHANGED <<chat, tasks>>

(* _tag_message_as_ai.                                                     *)
Tags ==
  /\ out.stage = "tagging" /\ out' = Idle
  /\ store' = [k \in DOMAIN store |-> IF store[k].id = out.id THEN [store[k] EXCEPT !.label = "tagged"] ELSE store[k]]
  /\ UNCHANGED <<chat, fetched, touched, tasks>>

Process ==
  \/ TakeDesk \/ TakeReply \/ Types \/ Takes
  \/ Saves \/ SendSyncs \/ Tags

ChatNext ==
  \/ Message \/ Attach \/ Detach \/ TimePasses
  \/ \E i \in events : HandleEvent(i)
  \/ LightFetch \/ OpenFetch \/ SyncApplies
  \/ DeleteMessage \/ DeleteConversation
  \/ EventAsks \/ Sweep \/ CatchUp \/ Toggle \/ DeskAsks
  \/ Process \/ Declines \/ SendsAgain \/ SendFails
  \/ LastRefusal

(* What is under way goes on; the loops of the periodic sync and of the    *)
(* sweep come round.                                                       *)
Underway == (\E i \in events : HandleEvent(i)) \/ EventAsks \/ SyncApplies \/ Process

ChatFairness ==
  /\ WF_chatVars(Underway) /\ WF_chatVars(Attach \/ LightFetch)
  /\ WF_chatVars(Sweep) /\ WF_chatVars(TimePasses)

ChatSpec == ChatInit /\ [][ChatNext]_chatVars
FairChatSpec == ChatSpec /\ ChatFairness

---------------------------------------------------------------------------
(* The automatic replies to a message.                                     *)
RepliesTo(i) == {j \in DOMAIN tg : tg[j].by = "ai" /\ tg[j].to = i}

(* A client's message is answered once, however live updates, sweeps and   *)
(* the queue race: each automatic reply more takes a lost answer of        *)
(* Telegram, a lost or deleted message, a forced reply, or a list that a   *)
(* sync has put out of order.                                              *)
RepliesNeedUpsets == \A i \in DOMAIN tg : Cardinality(RepliesTo(i)) <= 1 + upsets

(* The list of the file is in Telegram's order.                            *)
Ordered == \A j, k \in DOMAIN store : j < k => store[j].id < store[k].id

=============================================================================
