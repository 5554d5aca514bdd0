------------------------------- MODULE WsRelay -------------------------------
(***************************************************************************)
(* A WebSocket session of a client with LXD through the gateway: exec_ws   *)
(* and console_ws, which share _proxy_exec_ws (routes/instances.py), and   *)
(* operations_ws (routes/operations.py).  The handler authorises, triggers *)
(* the action at LXD, connects to LXD, and then runs two tasks with        *)
(* asyncio.gather: client_to_lxd ("up") and lxd_to_client ("down").  Each  *)
(* action is what the handler or a task does between two awaits.           *)
(*                                                                         *)
(* Sessions share nothing, so one is modelled.                             *)
(***************************************************************************)
EXTENDS Naturals, Sequences, Functions

CONSTANTS
    MaxFrames,   \* bound on the frames each side sends
    Empty,       \* a frame without content
    NoFrame      \* a task that holds no frame

ASSUME WsRelayAssumption ==
    /\ MaxFrames \in Nat
    /\ Empty \notin Nat /\ NoFrame \notin Nat /\ Empty # NoFrame

VARIABLES
    kind,        \* "proxy" (exec, console) or "events"
    user,        \* what the token says: nobody, a viewer, an operator
    pc,          \* where the handler is
    client,      \* the client's socket: "connecting", "open" or "left"
    code,        \* the code the gateway closed it with; 0 while it has not
    inbox,       \* frames of the client not yet received by the gateway
    sent,        \* how many frames the client has sent
    up,          \* the task client_to_lxd and the frame it holds
    lxdGot,      \* the frames LXD got
    lxd,         \* the gateway's socket to LXD
    outbox,      \* frames of LXD not yet read by the gateway
    shown,       \* how many frames LXD has sent
    down,        \* the task lxd_to_client and the frame it holds
    clientGot    \* the frames the client got

session == <<kind, user>>
upward  == <<inbox, sent, up, lxdGot>>
downward == <<outbox, shown, down, clientGot>>
vars == <<session, pc, client, code, upward, lxd, downward>>

Frames == 1..MaxFrames
Task(at, frame) == [at |-> at, frame |-> frame]

(* Types, and that a task holds a frame exactly while it sends one. *)
TypeOK ==
    /\ kind \in {"proxy", "events"}
    /\ user \in {"nobody", "viewer", "operator"}
    /\ pc \in {"handshake", "triggering", "connecting", "relaying", "leaving",
               "telling", "failing", "closing", "done"}
    /\ client \in {"connecting", "open", "left"}
    /\ code \in {0, 1011, 4401, 4403}
    /\ inbox \in Seq(Frames \cup {Empty})
    /\ sent \in 0..MaxFrames
    /\ up \in [at : {"none", "receiving", "sending", "ended", "raised"},
               frame : Frames \cup {NoFrame}]
    /\ lxdGot \in Seq(Frames)
    /\ lxd \in {"none", "open", "ended", "closed"}
    /\ outbox \in Seq(Frames)
    /\ shown \in 0..MaxFrames
    /\ down \in [at : {"none", "reading", "sending", "ended"},
                 frame : Frames \cup {NoFrame}]
    /\ clientGot \in Seq(Frames)
    /\ up.at = "sending" <=> up.frame # NoFrame
    /\ down.at = "sending" <=> down.frame # NoFrame

Init ==
    /\ kind \in {"proxy", "events"}
    /\ user \in {"nobody", "viewer", "operator"}
    /\ pc = "handshake"
    /\ client = "connecting"
    /\ code = 0
    /\ inbox = <<>> /\ sent = 0 /\ up = Task("none", NoFrame) /\ lxdGot = <<>>
    /\ lxd = "none"
    /\ outbox = <<>> /\ shown = 0 /\ down = Task("none", NoFrame)
    /\ clientGot = <<>>

(* What the gateway sends reaches the client: it is there, and the gateway *)
(* has not closed the socket; otherwise the send raises.                   *)
Connected == client = "open" /\ code = 0

-----------------------------------------------------------------------------
(* The handler *)

(* A missing, invalid or refresh token, or a user who is gone or inactive. *)
RefusesToken ==
    /\ pc = "handshake"
    /\ user = "nobody"
    /\ code' = 4401
    /\ pc' = "done"
    /\ UNCHANGED <<session, client, upward, lxd, downward>>

(* at_least(Role.OPERATOR); the events are for viewers too. *)
Authorised == user = "operator" \/ (kind = "events" /\ user = "viewer")

RefusesRole ==
    /\ pc = "handshake"
    /\ user # "nobody" /\ ~ Authorised
    /\ code' = 4403
    /\ pc' = "done"
    /\ UNCHANGED <<session, client, upward, lxd, downward>>

(* websocket.accept(); if the client has left it may raise, or only the    *)
(* next use of the socket does.                                            *)
Accept ==
    /\ pc = "handshake"
    /\ Authorised
    /\ client' = IF client = "connecting" THEN "open" ELSE client
    /\ \/ pc' = IF kind = "proxy" THEN "triggering" ELSE "connecting"
       \/ client = "left" /\ pc' = "done"
    /\ UNCHANGED <<session, code, upward, lxd, downward>>

(* The POST fails (LXDError), or the operation has no secret; or it has.   *)
Trigger ==
    /\ pc = "triggering"
    /\ pc' \in {"telling", "connecting"}
    /\ UNCHANGED <<session, client, code, upward, lxd, downward>>

ConnectFails ==
    /\ pc = "connecting"
    /\ pc' = "failing"
    /\ UNCHANGED <<session, client, code, upward, lxd, downward>>

(* `async with ws_connect(...)`, and the start of the two tasks. *)
Connect ==
    /\ pc = "connecting"
    /\ lxd'  = "open"
    /\ up'   = Task("receiving", NoFrame)
    /\ down' = Task("reading", NoFrame)
    /\ pc'   = "relaying"
    /\ UNCHANGED <<session, client, code, inbox, sent, lxdGot,
                   outbox, shown, clientGot>>

(* A bug: the session waits for the task that reads the client only. *)
GatherUpOnly ==
    /\ pc = "relaying"
    /\ up.at \in {"ended", "raised"}
    /\ pc' = IF up.at = "raised" THEN "leaving" ELSE "done"
    /\ UNCHANGED <<session, client, code, upward, lxd, downward>>

(* gather returns when both tasks have ended, or raises at once what       *)
(* client_to_lxd raises; lxd_to_client catches everything.                 *)
Gather ==
    /\ pc = "relaying"
    /\ up.at = "raised" \/ (up.at = "ended" /\ down.at = "ended")
    /\ pc' = "leaving"
    /\ UNCHANGED <<session, client, code, upward, lxd, downward>>

(* The end of `async with`: the socket to LXD is closed, then the          *)
(* exception, if there is one, reaches `except Exception`.                 *)
Leave ==
    /\ pc = "leaving"
    /\ lxd' = "closed"
    /\ pc' = IF up.at = "raised" THEN "failing" ELSE "done"
    /\ UNCHANGED <<session, client, code, upward, downward>>

(* A bug: `return` right after the text. *)
TellWithoutClose ==
    /\ pc = "telling"
    /\ pc' = "done"
    /\ UNCHANGED <<session, client, code, upward, lxd, downward>>

(* send_text("exec failed: ...") outside of any try. *)
Tell ==
    /\ pc = "telling"
    /\ pc' = IF Connected THEN "closing" ELSE "done"
    /\ UNCHANGED <<session, client, code, upward, lxd, downward>>

(* try: send_text("proxy error: ...") finally: close. *)
Fail ==
    /\ pc = "failing"
    /\ pc' = "closing"
    /\ UNCHANGED <<session, client, code, upward, lxd, downward>>

(* websocket.close(code=1011), which raises if the client has left. *)
Close ==
    /\ pc = "closing"
    /\ code' = IF Connected THEN 1011 ELSE code
    /\ pc' = "done"
    /\ UNCHANGED <<session, client, upward, lxd, downward>>

Handler ==
    \/ RefusesToken \/ RefusesRole \/ Accept \/ Trigger
    \/ Connect \/ ConnectFails \/ Gather \/ Leave
    \/ Tell \/ Fail \/ Close

-----------------------------------------------------------------------------
(* client_to_lxd *)

(* A bug: the test for frames without content is missing. *)
UpReceivesAll ==
    /\ up.at = "receiving"
    /\ inbox # <<>>
    /\ inbox' = Tail(inbox)
    /\ up' = IF kind = "events" THEN up ELSE Task("sending", Head(inbox))
    /\ UNCHANGED <<session, pc, client, code, sent, lxdGot, lxd, downward>>

(* websocket.receive() gives a frame.  operations_ws ignores it, and       *)
(* _proxy_exec_ws ignores one without content.                             *)
UpReceives ==
    /\ up.at = "receiving"
    /\ inbox # <<>>
    /\ inbox' = Tail(inbox)
    /\ up' = IF kind = "events" \/ Head(inbox) = Empty THEN up
             ELSE Task("sending", Head(inbox))
    /\ UNCHANGED <<session, pc, client, code, sent, lxdGot, lxd, downward>>

(* A bug: the task looks for the end of the client before its frames. *)
UpEndsAtOnce ==
    /\ up.at = "receiving"
    /\ ~ Connected
    /\ up' = Task("ended", NoFrame)
    /\ UNCHANGED <<session, pc, client, code, inbox, sent, lxdGot, lxd, downward>>

(* websocket.receive() gives websocket.disconnect, or raises. *)
UpEnds ==
    /\ up.at = "receiving"
    /\ inbox = <<>>
    /\ ~ Connected
    /\ up' = Task("ended", NoFrame)
    /\ UNCHANGED <<session, pc, client, code, inbox, sent, lxdGot, lxd, downward>>

UpSends ==
    /\ up.at = "sending"
    /\ lxd = "open"
    /\ lxdGot' = Append(lxdGot, up.frame)
    /\ up' = Task("receiving", NoFrame)
    /\ UNCHANGED <<session, pc, client, code, inbox, sent, lxd, downward>>

(* LXD has closed: lxd_ws.send raises ConnectionClosed, which only the     *)
(* handler catches, or the close is still on its way and the frame lost.   *)
UpSendFails ==
    /\ up.at = "sending"
    /\ lxd # "open"
    /\ \E at \in {"receiving", "raised"} : up' = Task(at, NoFrame)
    /\ UNCHANGED <<session, pc, client, code, inbox, sent, lxdGot, lxd, downward>>

Up == UpReceives \/ UpEnds \/ UpSends \/ UpSendFails

-----------------------------------------------------------------------------
(* lxd_to_client; it goes on without the handler when gather has raised. *)

(* A bug: the newest frame that has been read is taken first. *)
DownReadsNewest ==
    /\ down.at = "reading"
    /\ outbox # <<>>
    /\ down' = Task("sending", outbox[Len(outbox)])
    /\ outbox' = SubSeq(outbox, 1, Len(outbox) - 1)
    /\ UNCHANGED <<session, pc, client, code, upward, lxd, shown, clientGot>>

DownReads ==
    /\ down.at = "reading"
    /\ outbox # <<>>
    /\ down' = Task("sending", Head(outbox))
    /\ outbox' = Tail(outbox)
    /\ UNCHANGED <<session, pc, client, code, upward, lxd, shown, clientGot>>

(* A bug: a closed connection is taken for a pause and read again. *)
DownRetries ==
    /\ down.at = "reading"
    /\ lxd = "closed"
    /\ down' = Task("ended", NoFrame)
    /\ UNCHANGED <<session, pc, client, code, upward, lxd, outbox, shown, clientGot>>

(* `async for` ends when LXD has closed and what it sent has been read; if *)
(* the gateway has closed, it may end before.                              *)
DownEnds ==
    /\ down.at = "reading"
    /\ (lxd = "ended" /\ outbox = <<>>) \/ lxd = "closed"
    /\ down' = Task("ended", NoFrame)
    /\ UNCHANGED <<session, pc, client, code, upward, lxd, outbox, shown, clientGot>>

DownSends ==
    /\ down.at = "sending"
    /\ Connected
    /\ clientGot' = Append(clientGot, down.frame)
    /\ down' = Task("reading", NoFrame)
    /\ UNCHANGED <<session, pc, client, code, upward, lxd, outbox, shown>>

(* send_bytes raises, and the `except Exception` around the loop ends it. *)
DownSendFails ==
    /\ down.at = "sending"
    /\ ~ Connected
    /\ down' = Task("ended", NoFrame)
    /\ UNCHANGED <<session, pc, client, code, upward, lxd, outbox, shown, clientGot>>

Down == DownReads \/ DownEnds \/ DownSends \/ DownSendFails

-----------------------------------------------------------------------------
(* Client and LXD (external) *)

ClientSends ==
    /\ Connected
    /\ \/ /\ sent < MaxFrames
          /\ sent'  = sent + 1
          /\ inbox' = Append(inbox, sent + 1)
       \/ /\ Len(inbox) < MaxFrames
          /\ inbox' = Append(inbox, Empty)
          /\ UNCHANGED sent
    /\ UNCHANGED <<session, pc, client, code, up, lxdGot, lxd, downward>>

ClientLeaves ==
    /\ client # "left"
    /\ client' = "left"
    /\ UNCHANGED <<session, pc, code, upward, lxd, downward>>

LxdSends ==
    /\ lxd = "open"
    /\ shown < MaxFrames
    /\ shown' = shown + 1
    /\ outbox' = Append(outbox, shown + 1)
    /\ UNCHANGED <<session, pc, client, code, upward, lxd, down, clientGot>>

(* The command has ended, or the connection to LXD breaks. *)
LxdEnds ==
    /\ lxd = "open"
    /\ lxd' = "ended"
    /\ UNCHANGED <<session, pc, client, code, upward, downward>>

Peers == ClientSends \/ ClientLeaves \/ LxdSends \/ LxdEnds

(* The handler and its tasks are over. *)
Over ==
    /\ pc = "done"
    /\ down.at \in {"none", "ended"}
    /\ UNCHANGED vars

Next == Handler \/ Up \/ Down \/ Peers \/ Over

Spec == Init /\ [][Next]_vars

(* The event loop runs each coroutine whose await is over; the call to LXD *)
(* and the opening and closing of sockets are bounded by timeouts, and the *)
(* servers' pings make a send to a dead peer fail.  A task that waits for  *)
(* a frame is not enabled: nothing is assumed of client and LXD.           *)
FairSpec ==
    Spec /\ WF_vars(Handler) /\ WF_vars(Up) /\ WF_vars(Down)

-----------------------------------------------------------------------------
(* Properties *)

FirstFrames(n) == [i \in 1..n |-> i]

(* Each side gets the frames of the other in the order they were sent, and *)
(* what it does not get is the end of them; LXD gets none on its events.   *)
FramesKeepTheirOrder ==
    /\ lxdGot = FirstFrames(IF kind = "events" THEN 0 ELSE Len(lxdGot))
    /\ clientGot = FirstFrames(Len(clientGot))

(* No frame is lost while its receiver is there: it has arrived or a task  *)
(* holds it or will still take it, also if it was sent before the relay    *)
(* was set up or its sender has left.                                      *)
NothingIsLostWhileOpen ==
    /\ kind = "proxy" /\ lxd = "open" =>
          \A frame \in 1..sent :
              \/ frame \in Range(lxdGot)
              \/ frame = up.frame
              \/ frame \in Range(inbox) /\ up.at # "ended"
    /\ Connected /\ lxd \in {"open", "ended"} =>
          \A frame \in 1..shown :
              \/ frame \in Range(clientGot)
              \/ frame = down.frame
              \/ frame \in Range(outbox) /\ down.at # "ended"

(* However the handler ends, whether it returns or dies of an exception,   *)
(* LXD's socket is not open any more, and no client is left behind with a  *)
(* socket that nobody closes.                                              *)
SocketsAreReleased ==
    pc = "done" => lxd # "open" /\ (client = "left" \/ code # 0)

(* A session ends when both sides have closed, whichever was first and     *)
(* wherever the tasks were.                                                *)
SessionEndsWhenBothClose ==
    (client = "left" /\ lxd \in {"ended", "closed"}) ~> (pc = "done")

(* When gather raises, lxd_to_client goes on without the handler; it ends. *)
NoTaskIsLeftBehind == (pc = "done") ~> (down.at \in {"none", "ended"})

-----------------------------------------------------------------------------
(* What a comment of the repository says and the code does not do *)

(* instances.py:409-410: bytes are proxied "until either side closes". *)
EitherSideEndsSession ==
    kind = "proxy" /\ pc = "relaying" /\ (client = "left" \/ lxd = "ended")
    ~> pc = "done"
=============================================================================
