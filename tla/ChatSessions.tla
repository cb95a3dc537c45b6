----------------------------- MODULE ChatSessions -----------------------------
(***************************************************************************)
(* The chat side of a scan: modules/chat-sessions.  Everything lives in the *)
(* cache, under keys with a TTL:                                            *)
(*                                                                          *)
(*   chat_session:{sessionId}       the table of a table session            *)
(*   scan_token:{token}             single-use pointer to a sessionId       *)
(*   chat_binding:{channel}:{chat}  the sessionId a chat talks in           *)
(*   table_binding:telegram:{chat}  the table of a chat, for 30 days        *)
(*                                                                          *)
(* A scan that redirects (handleScanRedirect) opens the chat session of the *)
(* table session it got and mints a token, named here by the scan; a bot or *)
(* web page exchanges the token (resolveAndBind):                           *)
(*                                                                          *)
(*   scan    none -> [OpenChat] -> token -> minted                          *)
(*   bind    new -> [ReadToken] -> session -> bind -> drop -> bound         *)
(*                      |             |                                     *)
(*                      +--- refused -+                                     *)
(***************************************************************************)
EXTENDS TableSessions

CONSTANTS Binds,   \* requests to POST /chat-sessions/resolve
          Chats    \* telegram chat ids, and the ids minted for web pages

VARIABLES chatSession,   \* [session id -> its table, None when the key is absent]
          tokenSid,      \* [token -> session id, None when the key is absent]
          binding,       \* [chat -> session id, None when absent]
          tableBinding,  \* [chat -> table, None when absent]
          chatPc,        \* the redirect half of a scan
          bindPc, bindToken, bindSid, bindChat,
          spent,         \* history: tokens a finished bind deleted
          lateReads      \* history: binds that read a token after it was spent

chatKeys == <<chatSession, tokenSid, binding, tableBinding>>
bindVars == <<bindPc, bindToken, bindSid, bindChat>>
chatVars == <<chatKeys, chatPc, bindVars, spent, lateReads>>

ChatPc == {"none", "token", "minted", "lost"}
BindPc == {"new", "session", "bind", "drop", "bound", "refused", "lost"}

ChatInit ==
    /\ chatSession  = [s \in Scans |-> None]
    /\ tokenSid     = [s \in Scans |-> None]
    /\ binding      = [c \in Chats |-> None]
    /\ tableBinding = [c \in Chats |-> None]
    /\ chatPc       = [s \in Scans |-> "none"]
    /\ bindPc       = [k \in Binds |-> "new"]
    /\ bindToken    = [k \in Binds |-> None]
    /\ bindSid      = [k \in Binds |-> None]
    /\ bindChat     = [k \in Binds |-> None]
    /\ spent = {} /\ lateReads = {}

-----------------------------------------------------------------------------
(* createFromQrResolution, at the end of a scan that redirects.            *)

\* The table session may be an older one: its chat session is written again.
OpenChat(s) ==
    /\ scanPc[s] = "done" /\ chatPc[s] = "none"
    /\ chatSession' = [chatSession EXCEPT ![scanSid[s]] = scanTable[s]]
    /\ chatPc'      = [chatPc EXCEPT ![s] = "token"]
    /\ UNCHANGED <<tokenSid, binding, tableBinding, bindVars, spent, lateReads>>

\* The token points at the scan, not at the session the scan was given.
MintToken_OwnId(s) ==
    /\ chatPc[s] = "token"
    /\ tokenSid' = [tokenSid EXCEPT ![s] = s]
    /\ chatPc'   = [chatPc EXCEPT ![s] = "minted"]
    /\ UNCHANGED <<chatSession, binding, tableBinding, bindVars, spent, lateReads>>

MintToken(s) ==
    /\ chatPc[s] = "token"
    /\ tokenSid' = [tokenSid EXCEPT ![s] = scanSid[s]]
    /\ chatPc'   = [chatPc EXCEPT ![s] = "minted"]
    /\ UNCHANGED <<chatSession, binding, tableBinding, bindVars, spent, lateReads>>

-----------------------------------------------------------------------------
(* resolveAndBind.                                                         *)

\* Any token handed out may be presented, by any caller and for any chat.
ReadToken(k, s, c) ==
    /\ bindPc[k] = "new" /\ chatPc[s] = "minted"
    /\ bindToken' = [bindToken EXCEPT ![k] = s]
    /\ bindSid'   = [bindSid EXCEPT ![k] = tokenSid[s]]
    /\ bindChat'  = [bindChat EXCEPT ![k] = c]
    /\ bindPc'    = [bindPc EXCEPT ![k] = IF tokenSid[s] = None THEN "refused" ELSE "session"]
    /\ lateReads' = IF s \in spent /\ tokenSid[s] # None THEN lateReads \cup {k} ELSE lateReads
    /\ UNCHANGED <<chatKeys, chatPc, spent>>

ReadChatSession(k) ==
    /\ bindPc[k] = "session"
    /\ bindPc' = [bindPc EXCEPT
                    ![k] = IF chatSession[bindSid[k]] = None THEN "refused" ELSE "bind"]
    /\ UNCHANGED <<chatKeys, chatPc, bindToken, bindSid, bindChat, spent, lateReads>>

SetBinding(k) ==
    /\ bindPc[k] = "bind"
    /\ binding' = [binding EXCEPT ![bindChat[k]] = bindSid[k]]
    /\ bindPc'  = [bindPc EXCEPT ![k] = "drop"]
    /\ UNCHANGED <<chatSession, tokenSid, tableBinding, chatPc, bindToken, bindSid, bindChat,
                   spent, lateReads>>

\* A bound token stays until its TTL runs out.
DropToken_Keeps(k) ==
    /\ bindPc[k] = "drop"
    /\ bindPc' = [bindPc EXCEPT ![k] = "bound"]
    /\ spent'  = spent \cup {bindToken[k]}
    /\ UNCHANGED <<chatKeys, chatPc, bindToken, bindSid, bindChat, lateReads>>

DropToken(k) ==
    /\ bindPc[k] = "drop"
    /\ tokenSid' = [tokenSid EXCEPT ![bindToken[k]] = None]
    /\ bindPc'   = [bindPc EXCEPT ![k] = "bound"]
    /\ spent'    = spent \cup {bindToken[k]}
    /\ UNCHANGED <<chatSession, binding, tableBinding, chatPc, bindToken, bindSid, bindChat,
                   lateReads>>

-----------------------------------------------------------------------------
(* One-await operations, TTLs, and the death of an instance.               *)

\* closeSession deletes the chat session; bindings to it are left to their TTL.
CloseChat(sid) ==
    /\ chatSession[sid] # None
    /\ chatSession' = [chatSession EXCEPT ![sid] = None]
    /\ UNCHANGED <<tokenSid, binding, tableBinding, chatPc, bindVars, spent, lateReads>>

SaveTableBinding(c, t) ==
    /\ tableBinding' = [tableBinding EXCEPT ![c] = t]
    /\ UNCHANGED <<chatSession, tokenSid, binding, chatPc, bindVars, spent, lateReads>>

ExpireToken(s) ==
    /\ tokenSid[s] # None
    /\ tokenSid' = [tokenSid EXCEPT ![s] = None]
    /\ UNCHANGED <<chatSession, binding, tableBinding, chatPc, bindVars, spent, lateReads>>

ExpireBinding(c) ==
    /\ binding[c] # None
    /\ binding' = [binding EXCEPT ![c] = None]
    /\ UNCHANGED <<chatSession, tokenSid, tableBinding, chatPc, bindVars, spent, lateReads>>

LoseChat(s) ==
    /\ chatPc[s] = "token"
    /\ chatPc' = [chatPc EXCEPT ![s] = "lost"]
    /\ UNCHANGED <<chatKeys, bindVars, spent, lateReads>>

LoseBind(k) ==
    /\ bindPc[k] \in {"session", "bind", "drop"}
    /\ bindPc' = [bindPc EXCEPT ![k] = "lost"]
    /\ UNCHANGED <<chatKeys, chatPc, bindToken, bindSid, bindChat, spent, lateReads>>

-----------------------------------------------------------------------------
BindStep(k) == ReadChatSession(k) \/ SetBinding(k) \/ DropToken(k)

\* getByChannel: the table a chat is served for, None when its session is gone.
ServedTable(c) == IF binding[c] = None THEN None ELSE chatSession[binding[c]]

ChatTypeOK ==
    /\ chatSession  \in [Scans -> Tables \cup {None}]
    /\ tokenSid     \in [Scans -> Scans \cup {None}]
    /\ binding      \in [Chats -> Scans \cup {None}]
    /\ tableBinding \in [Chats -> Tables \cup {None}]
    /\ chatPc       \in [Scans -> ChatPc]
    /\ bindPc       \in [Binds -> BindPc]
    /\ bindToken \in [Binds -> Scans \cup {None}]
    /\ bindSid   \in [Binds -> Scans \cup {None}]
    /\ bindChat  \in [Binds -> Chats \cup {None}]
    /\ spent \subseteq Scans /\ lateReads \subseteq Binds
    /\ \A k \in Binds : bindPc[k] \in {"session", "bind", "drop"} => bindToken[k] \in Scans

\* A scan token that a bind has used up never serves another one: two chats are bound
\* by one token only when both calls read it before either deleted it
\* (chat-sessions/service.ts:63, 83-84).
SpentTokenStaysSpent == lateReads = {}
=============================================================================
