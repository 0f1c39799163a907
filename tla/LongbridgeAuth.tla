---------------------------- MODULE LongbridgeAuth ----------------------------
(***************************************************************************)
(* The Longbridge token (services/longbridge_openapi_oauth.py) and the     *)
(* client of the MCP server that uses it (services/mcp/                    *)
(* longbridge_mcp_client.py).  The token is in a file, with a second copy  *)
(* for the SDK.  Administrators authorize, refresh and disconnect in       *)
(* requests, and every tool call of an agent asks for the token, which     *)
(* refreshes one that is about to expire.  Each operation reads the file,  *)
(* talks to the server, and replaces the file by what it has read and      *)
(* changed: nothing is locked but the handshake with the MCP server.       *)
(*                                                                         *)
(* The authorization server is external.  It knows the refresh tokens it   *)
(* accepts; its answer may carry a new one, which replaces the old.        *)
(***************************************************************************)
EXTENDS Integers

CONSTANTS
    Threads,      \* each makes one call of an operation at a time
    Configured,   \* whether the settings give a client_id
    Lifetimes,    \* values of expires_in, 0 for none
    Skew,         \* TOKEN_REFRESH_SKEW_SECONDS
    PendingTtl,   \* PENDING_STATE_TTL_SECONDS
    MaxRetries,   \* max_retries of the MCP client
    MaxTime,      \* bound on the clock,
    MaxStarts,    \*   on the authorizations that are started,
    MaxTokens     \*   and on the tokens the server issues

VARIABLES
    time,
    file,         \* the stored state
    sdk,          \* the access token in the SDK's cache, 0 if there is none
    op, at,       \* per thread: its operation, and where it is
    frame,        \*   and its local variables
    lock,         \* who holds _init_lock
    ready,        \* _initialized
    issued,       \* the server: its last token,
    good,         \*   the refresh tokens it accepts,
    starts,       \*   the authorizations started so far,
    used,         \*   and those it has exchanged
    trouble       \* whether the disk failed, an answer was lost, or a write
                  \* has put back what another call had replaced

stored == <<file, sdk>>
client == <<lock, ready>>
server == <<issued, good, used>>
vars == <<time, stored, op, at, frame, client, server, starts, trouble>>

Never == MaxTime + Skew + 1
NoToken == [access |-> 0, refresh |-> 0, expires |-> 0]
NoState == [client |-> FALSE, token |-> NoToken, pending |-> {}, error |-> FALSE]
HasClient(s) == Configured \/ s.client

(* The state a call works on, the state that get_access_token has read,    *)
(* which of the two lack a write of another call, and its posts of a tool. *)
NoFrame == [mine |-> NoState, old |-> NoState, missed |-> {}, tries |-> 0]

Nobody == "nobody"
Ended == {"idle", "done", "failed"}

Init ==
    /\ time = 0
    /\ file = NoState /\ sdk = 0
    /\ op = [c \in Threads |-> "none"] /\ at = [c \in Threads |-> "idle"]
    /\ frame = [c \in Threads |-> NoFrame]
    /\ lock = Nobody /\ ready = FALSE
    /\ issued = 0 /\ good = {} /\ starts = 0 /\ used = {}
    /\ trouble = FALSE

Tick ==
    /\ time < MaxTime /\ time' = time + 1
    /\ UNCHANGED <<stored, op, at, frame, client, server, starts, trouble>>

(* A call goes on at a place with locals f, or ends there.                 *)
At(c, place) == at' = [at EXCEPT ![c] = place]
Local(c, place, f) == IF place \in Ended THEN NoFrame ELSE f
Go(c, place, f) == At(c, place) /\ frame' = [frame EXCEPT ![c] = Local(c, place, f)]

(* Call c replaces the file by s, of which copy is the origin: no other    *)
(* call's copies have that write in them.                                  *)
Write(c, copy, s, place) ==
    /\ file' = s
    /\ At(c, place)
    /\ frame' = [q \in Threads |-> IF q = c THEN Local(c, place, frame[c])
                                   ELSE IF at[q] \in Ended THEN frame[q]
                                   ELSE [frame[q] EXCEPT !.missed = {"mine", "old"}]]
    /\ trouble' = (trouble \/ copy \in frame[c].missed)

(* get_access_token catches what refresh_token raises.                     *)
Raises(c, badly) ==
    /\ Go(c, IF op[c] = "tool" THEN "recover" ELSE "failed", frame[c])
    /\ trouble' = (trouble \/ badly)

Pruned(s) == [s EXCEPT !.pending = {p \in @ : p.expires > time}]
Reading(s) == [NoFrame EXCEPT !.mine = s]

-----------------------------------------------------------------------------
(* start_authorization reads the state and registers a client if there is  *)
(* none; complete_authorization looks for the authorization it is given;   *)
(* disconnect is clear_token; a tool call asks for its header.             *)
Begin(c) ==
    /\ at[c] \in Ended
    /\ \/ /\ op' = [op EXCEPT ![c] = "start"]
          /\ Go(c, IF HasClient(file) THEN "pend" ELSE "register", Reading(Pruned(file)))
       \/ /\ op' = [op EXCEPT ![c] = "complete"]
          /\ Go(c, IF HasClient(file) /\ Pruned(file).pending # {} THEN "exchange" ELSE "failed",
                Reading(Pruned(file)))
       \/ /\ op' = [op EXCEPT ![c] = "disconnect"]
          /\ Go(c, "clear", Reading(file))
       \/ /\ op' = [op EXCEPT ![c] = "refresh"]
          /\ Go(c, "read", NoFrame)
       \/ /\ op' = [op EXCEPT ![c] = "tool"]
          /\ Go(c, "header", NoFrame)
    /\ UNCHANGED <<time, stored, client, server, starts, trouble>>

(* register_oauth_client, and the first of the two saves.                  *)
Register(c) ==
    /\ at[c] = "register"
    /\ \/ /\ Go(c, "keep", [frame[c] EXCEPT !.mine = [@ EXCEPT !.client = TRUE]]) /\ UNCHANGED trouble
       \/ Raises(c, FALSE)
    /\ UNCHANGED <<time, stored, op, client, server, starts>>

KeepRegistration(c) ==
    /\ at[c] = "keep"
    /\ \/ Write(c, "mine", frame[c].mine, "pend")
       \/ Raises(c, TRUE) /\ UNCHANGED file
    /\ UNCHANGED <<time, sdk, op, client, server, starts>>

(* pending_states[oauth_state] = pending, saved.                           *)
Pend(c) ==
    /\ at[c] = "pend"
    /\ starts < MaxStarts /\ starts' = starts + 1
    /\ \/ Write(c, "mine",
                [frame[c].mine EXCEPT !.client = TRUE, !.error = FALSE,
                     !.pending = @ \union {[id |-> starts', expires |-> time + PendingTtl]}], "done")
       \/ Raises(c, TRUE) /\ UNCHANGED file
    /\ UNCHANGED <<time, sdk, op, client, server>>

(* clear_token, and then the SDK's copy goes.                              *)
Clear(c) ==
    /\ at[c] = "clear"
    /\ LET s == frame[c].mine
       IN  \/ Write(c, "mine", [s EXCEPT !.token = NoToken, !.pending = {}, !.error = FALSE],
                    IF HasClient(s) THEN "unlink" ELSE "done")
           \/ Raises(c, TRUE) /\ UNCHANGED file
    /\ UNCHANGED <<time, sdk, op, client, server, starts>>

Unlink(c) ==
    /\ at[c] = "unlink"
    /\ \/ sdk' = 0 /\ trouble' = (trouble \/ "mine" \in frame[c].missed)
       \/ UNCHANGED sdk /\ trouble' = TRUE
    /\ Go(c, "done", frame[c])
    /\ UNCHANGED <<time, file, op, client, server, starts>>

-----------------------------------------------------------------------------
(* A plausible bug, used as a mutant only: the old refresh token first.    *)
RefreshToken_OldFirst(new, previous) == IF previous # 0 THEN previous ELSE new

(* payload.get("refresh_token") or fallback_refresh_token                  *)
RefreshToken(new, previous) == IF new # 0 THEN new ELSE previous

(* _token_from_response, of an answer with a refresh token new or (0)      *)
(* without.                                                                *)
Token(new, previous, life) ==
    [access  |-> issued + 1,
     refresh |-> RefreshToken(new, previous),
     expires |-> IF life = 0 THEN Never ELSE time + life]

(* The server accepts a grant: a refresh token it sends replaces the one   *)
(* that was spent.                                                         *)
Accept(new, spent) ==
    /\ issued < MaxTokens /\ issued' = issued + 1
    /\ good' = IF new = 0 THEN good ELSE (good \ {spent}) \union {new}

(* The state with the token in it, or the answer is lost.                  *)
Receive(c, s, token) ==
    \/ /\ Go(c, "store", [frame[c] EXCEPT !.mine = [s EXCEPT !.client = TRUE, !.token = token, !.error = FALSE]])
       /\ UNCHANGED trouble
    \/ Raises(c, TRUE)

(* The code of authorization p is exchanged, once.                         *)
Exchange(c) ==
    /\ at[c] = "exchange"
    /\ LET s == frame[c].mine
       IN  \/ \E p \in s.pending, new \in {0, issued + 1}, life \in Lifetimes :
                 /\ p.id \notin used /\ used' = used \union {p.id}
                 /\ Accept(new, 0)
                 /\ Receive(c, [s EXCEPT !.pending = @ \ {p}], Token(new, 0, life))
           \/ Raises(c, FALSE) /\ UNCHANGED server
    /\ UNCHANGED <<time, stored, op, client, starts>>

(* refresh_token reads the state itself.                                   *)
ReadToRefresh(c) ==
    /\ at[c] = "read"
    /\ IF HasClient(file) /\ file.token.refresh # 0
       THEN /\ Go(c, "renew", [frame[c] EXCEPT !.mine = file, !.missed = @ \ {"mine"}])
            /\ UNCHANGED trouble
       ELSE Raises(c, FALSE)
    /\ UNCHANGED <<time, stored, op, client, server, starts>>

(* The refresh token is sent, and the server may accept it.                *)
Renew(c) ==
    /\ at[c] = "renew"
    /\ LET s == frame[c].mine
           previous == s.token.refresh
       IN  \/ \E new \in {0, issued + 1}, life \in Lifetimes :
                 /\ previous \in good
                 /\ Accept(new, previous)
                 /\ Receive(c, s, Token(new, previous, life))
           \/ Raises(c, FALSE) /\ UNCHANGED <<issued, good>>
    /\ UNCHANGED <<time, stored, op, client, starts, used>>

Store(c) ==
    /\ at[c] = "store"
    /\ \/ Write(c, "mine", frame[c].mine, "sync")
       \/ Raises(c, TRUE) /\ UNCHANGED file
    /\ UNCHANGED <<time, sdk, op, client, server, starts>>

(* A header is made of the token, if there is one: the call that holds the *)
(* lock goes on with the handshake, another looks whether that is done.    *)
WithToken(c, there) ==
    IF there THEN /\ Go(c, IF lock = c THEN "handshake" ELSE "enter", NoFrame)
                  /\ UNCHANGED lock
    ELSE /\ Go(c, "failed", NoFrame)
         /\ lock' = IF lock = c THEN Nobody ELSE lock

(* sync_sdk_token_cache                                                    *)
Sync(c, copy, s) ==
    /\ sdk' = s.token.access
    /\ trouble' = (trouble \/ copy \in frame[c].missed)

SyncNew(c) ==
    /\ at[c] = "sync"
    /\ \/ /\ Sync(c, "mine", frame[c].mine)
          /\ IF op[c] = "tool" THEN WithToken(c, TRUE) ELSE Go(c, "done", NoFrame) /\ UNCHANGED lock
       \/ Raises(c, TRUE) /\ UNCHANGED <<sdk, lock>>
    /\ UNCHANGED <<time, file, op, ready, server, starts>>

-----------------------------------------------------------------------------
(* get_access_token: the token of the file as it is, or refreshed.         *)
GetToken(c) ==
    /\ at[c] = "header"
    /\ LET s == Pruned(file)
           token == s.token
           f == [NoFrame EXCEPT !.old = s]
       IN  IF ~HasClient(s) \/ token.access = 0 THEN WithToken(c, FALSE)
           ELSE IF token.expires - time > Skew THEN Go(c, "share", f) /\ UNCHANGED lock
           ELSE IF token.refresh = 0 THEN WithToken(c, token.expires > time)
           ELSE Go(c, "read", f) /\ UNCHANGED lock
    /\ UNCHANGED <<time, stored, op, ready, server, starts, trouble>>

(* The SDK's copy is written for every call; what that raises is not       *)
(* caught.                                                                 *)
Share(c) ==
    /\ at[c] = "share"
    /\ \/ Sync(c, "old", frame[c].old) /\ WithToken(c, TRUE)
       \/ UNCHANGED sdk /\ trouble' = TRUE /\ WithToken(c, FALSE)
    /\ UNCHANGED <<time, file, op, ready, server, starts>>

(* The except clause saves the state that was read before the refresh ...  *)
Recover(c) ==
    /\ at[c] = "recover"
    /\ \/ Write(c, "old", [frame[c].old EXCEPT !.error = TRUE], "use") /\ UNCHANGED lock
       \/ trouble' = TRUE /\ UNCHANGED file /\ WithToken(c, FALSE)
    /\ UNCHANGED <<time, sdk, op, ready, server, starts>>

(* ... and its token is used as long as it has not expired.                *)
UseOld(c) ==
    /\ at[c] = "use"
    /\ WithToken(c, frame[c].old.token.expires > time)
    /\ UNCHANGED <<time, stored, op, ready, server, starts, trouble>>

-----------------------------------------------------------------------------
(* _ensure_initialized: the flag is read again under the lock, and the     *)
(* header is made anew.                                                    *)
Enter(c) ==
    /\ at[c] = "enter"
    /\ \/ ready /\ Go(c, "post", NoFrame) /\ UNCHANGED lock
       \/ ~ready /\ lock = Nobody /\ lock' = c /\ Go(c, "locked", NoFrame)
    /\ UNCHANGED <<time, stored, op, ready, server, starts, trouble>>

CheckAgain(c) ==
    /\ at[c] = "locked"
    /\ IF ready THEN Go(c, "post", NoFrame) /\ lock' = Nobody
                ELSE Go(c, "header", NoFrame) /\ UNCHANGED lock
    /\ UNCHANGED <<time, stored, op, ready, server, starts, trouble>>

Handshake(c) ==
    /\ at[c] = "handshake"
    /\ \/ ready' = TRUE /\ Go(c, "post", NoFrame)
       \/ UNCHANGED ready /\ Go(c, "failed", NoFrame)
    /\ lock' = Nobody
    /\ UNCHANGED <<time, stored, op, server, starts, trouble>>

(* The tool is called: an answer or an HTTP error ends the call, a timeout *)
(* or another exception is tried again.                                    *)
Post(c) ==
    /\ at[c] = "post"
    /\ LET tries == frame[c].tries
       IN  \/ Go(c, "done", NoFrame)
           \/ Go(c, IF tries < MaxRetries THEN "post" ELSE "failed", [NoFrame EXCEPT !.tries = tries + 1])
    /\ UNCHANGED <<time, stored, op, client, server, starts, trouble>>

Step(c) ==
    \/ Register(c) \/ KeepRegistration(c) \/ Pend(c) \/ Clear(c) \/ Unlink(c)
    \/ Exchange(c) \/ ReadToRefresh(c) \/ Renew(c) \/ Store(c) \/ SyncNew(c)
    \/ GetToken(c) \/ Share(c) \/ Recover(c) \/ UseOld(c)
    \/ Enter(c) \/ CheckAgain(c) \/ Handshake(c) \/ Post(c)

Next == Tick \/ \E c \in Threads : Begin(c) \/ Step(c)

Spec == Init /\ [][Next]_vars

-----------------------------------------------------------------------------
Between == {"store", "sync", "share", "unlink"}

(* Unless the disk fails, an answer of the server gets lost or a call puts *)
(* back what another had replaced, the stored refresh token is one that    *)
(* the server accepts and the SDK's copy is of the stored token, however   *)
(* the calls are interleaved (longbridge_openapi_oauth.py:297-406).        *)
TokenIsKept ==
    ~trouble /\ (\A c \in Threads : at[c] \notin Between)
    => /\ file.token.refresh \in good \union {0}
       /\ sdk = file.token.access
=============================================================================
