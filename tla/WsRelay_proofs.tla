---------------------------- MODULE WsRelay_proofs ----------------------------
(***************************************************************************)
(* What WsRelay promises of a session, for every number of frames: they    *)
(* keep their order, none is lost while its receiver is there, and sockets *)
(* are released.  The inductive invariant says where the handler is when   *)
(* its sockets are open and its tasks run, and that what each receiver     *)
(* has, what the task holds and what still waits are the numbers from 1 on *)
(* without a gap.                                                          *)
(***************************************************************************)
EXTENDS WsRelay, TLAPS

(* Which sockets the handler has opened, from where it is. *)
HandlerAgrees ==
    /\ pc # "done" => code = 0
    /\ client = "connecting" => lxd = "none" /\ (pc = "handshake" \/ code # 0)
    /\ pc \in {"handshake", "triggering", "connecting"} => lxd = "none"
    /\ pc \in {"relaying", "leaving"} => lxd \in {"open", "ended"}
    /\ lxd = "open" => pc \in {"relaying", "leaving"}
    /\ pc = "leaving" => up.at \in {"ended", "raised"}

(* The tasks exist from the connection to LXD on; client_to_lxd ends only  *)
(* after the client, and raises only after LXD.                            *)
TasksAgree ==
    /\ lxd = "none" <=> up.at = "none"
    /\ lxd = "none" <=> down.at = "none"
    /\ up.at = "ended" => ~ Connected /\ client # "connecting"
    /\ up.at = "raised" => lxd # "open"

(* How many frames have been taken for a receiver that has got some. *)
Taken(got, task) == IF task.at = "sending" THEN Len(got) + 1 ELSE Len(got)

(* The frames with content that wait for a task that has taken n are those *)
(* after n, in order.                                                      *)
WaitAfter(n) ==
    /\ n <= sent
    /\ \A i \in 1..Len(inbox) : inbox[i] # Empty => inbox[i] \in (n + 1)..sent
    /\ \A frame \in (n + 1)..sent : \E i \in 1..Len(inbox) : inbox[i] = frame
    /\ \A i, j \in 1..Len(inbox) :
          i < j /\ inbox[i] # Empty /\ inbox[j] # Empty => inbox[i] < inbox[j]

(* A frame is only lost once LXD has closed, after which it gets no more.  *)
UpwardAgrees ==
    /\ \A i \in 1..Len(lxdGot) : lxdGot[i] = i
    /\ kind = "events" => lxdGot = <<>> /\ up.at # "sending"
    /\ lxd = "none" => lxdGot = <<>>
    /\ kind = "proxy" /\ lxd \in {"none", "open"} =>
          /\ up.at = "sending" => up.frame = Len(lxdGot) + 1
          /\ up.at = "ended" => inbox = <<>>
          /\ WaitAfter(Taken(lxdGot, up))

(* lxd_to_client takes every frame in its turn until it ends, for which it *)
(* has a reason: the client is gone, the handler has closed, or LXD has    *)
(* and everything has been sent on.                                        *)
DownwardAgrees ==
    /\ \A i \in 1..Len(clientGot) : clientGot[i] = i
    /\ lxd = "none" => clientGot = <<>> /\ outbox = <<>> /\ shown = 0
    /\ down.at # "ended" =>
          /\ down.at = "sending" => down.frame = Len(clientGot) + 1
          /\ shown = Taken(clientGot, down) + Len(outbox)
          /\ \A i \in 1..Len(outbox) : outbox[i] = Taken(clientGot, down) + i
    /\ down.at = "ended" /\ Connected /\ lxd # "closed" =>
          lxd = "ended" /\ shown = Len(clientGot)

Invariant ==
    /\ TypeOK
    /\ HandlerAgrees
    /\ TasksAgree
    /\ UpwardAgrees
    /\ DownwardAgrees
    /\ SocketsAreReleased

-----------------------------------------------------------------------------
(* What the invariant says *)

(* A sequence of frames that has every frame at its number is in order, and *)
(* just the numbers up to its length are in it.                             *)
LEMMA InOrder ==
    ASSUME NEW s \in Seq(Frames), \A i \in 1..Len(s) : s[i] = i
    PROVE  /\ s = FirstFrames(Len(s))
           /\ \A frame \in 1..Len(s) : frame \in Range(s)
BY DEF FirstFrames, Range

LEMMA OrderIsKept == Invariant => FramesKeepTheirOrder
<1> SUFFICES ASSUME Invariant PROVE FramesKeepTheirOrder
    OBVIOUS
<1>1. lxdGot \in Seq(Frames) /\ clientGot \in Seq(Frames)
    BY DEF Invariant, TypeOK
<1>2. lxdGot = FirstFrames(Len(lxdGot)) /\ clientGot = FirstFrames(Len(clientGot))
    BY <1>1, InOrder DEF Invariant, UpwardAgrees, DownwardAgrees
<1>3. kind = "events" => Len(lxdGot) = 0
    BY DEF Invariant, UpwardAgrees
<1> QED
    BY <1>2, <1>3 DEF FramesKeepTheirOrder

LEMMA NothingIsLost == Invariant => NothingIsLostWhileOpen
<1> SUFFICES ASSUME Invariant PROVE NothingIsLostWhileOpen
    OBVIOUS
<1>1. ASSUME kind = "proxy", lxd = "open", NEW frame \in 1..sent
      PROVE  \/ frame \in Range(lxdGot)
             \/ frame = up.frame
             \/ frame \in Range(inbox) /\ up.at # "ended"
    <2>1. CASE frame <= Len(lxdGot)
        BY <2>1, InOrder DEF Invariant, TypeOK, UpwardAgrees
    <2>2. CASE frame = Len(lxdGot) + 1 /\ up.at = "sending"
        BY <1>1, <2>2 DEF Invariant, UpwardAgrees
    <2>3. CASE frame > Taken(lxdGot, up)
        <3>1. Len(lxdGot) \in Nat /\ sent \in Nat
            BY DEF Invariant, TypeOK
        <3>2. frame \in (Taken(lxdGot, up) + 1)..sent
            BY <2>3, <3>1 DEF Taken
        <3>3. PICK i \in 1..Len(inbox) : inbox[i] = frame
            BY <1>1, <3>2 DEF Invariant, UpwardAgrees, WaitAfter
        <3>4. inbox \in Seq(Frames \cup {Empty})
            BY DEF Invariant, TypeOK
        <3>5. frame \in Range(inbox)
            BY <3>3, <3>4 DEF Range
        <3>6. up.at # "ended"
            BY <1>1, <3>3 DEF Invariant, UpwardAgrees
        <3> QED
            BY <3>5, <3>6
    <2>4. Len(lxdGot) \in Nat
        BY DEF Invariant, TypeOK
    <2> QED
        BY <2>1, <2>2, <2>3, <2>4 DEF Taken
<1>2. ASSUME Connected, lxd \in {"open", "ended"}, NEW frame \in 1..shown
      PROVE  \/ frame \in Range(clientGot)
             \/ frame = down.frame
             \/ frame \in Range(outbox) /\ down.at # "ended"
    <2>0. /\ Len(clientGot) \in Nat /\ Len(outbox) \in Nat /\ shown \in Nat
          /\ outbox \in Seq(Frames)
        BY DEF Invariant, TypeOK
    <2>1. CASE frame <= Len(clientGot)
        BY <2>1, InOrder DEF Invariant, TypeOK, DownwardAgrees
    <2>2. CASE frame = Len(clientGot) + 1 /\ down.at = "sending"
        BY <2>2 DEF Invariant, DownwardAgrees
    <2>3. CASE frame > Taken(clientGot, down)
        <3>1. down.at # "ended"
            BY <1>2, <2>0, <2>3 DEF Invariant, DownwardAgrees, Taken
        <3>2. /\ shown = Taken(clientGot, down) + Len(outbox)
              /\ \A i \in 1..Len(outbox) : outbox[i] = Taken(clientGot, down) + i
            BY <3>1 DEF Invariant, DownwardAgrees
        <3> DEFINE i == frame - Taken(clientGot, down)
        <3>3. i \in 1..Len(outbox) /\ frame = Taken(clientGot, down) + i
            BY <2>0, <2>3, <3>2 DEF Taken
        <3>4. outbox[i] = frame
            BY <3>2, <3>3
        <3>5. frame \in Range(outbox)
            BY <2>0, <3>3, <3>4 DEF Range
        <3> QED
            BY <3>1, <3>5
    <2> QED
        BY <2>0, <2>1, <2>2, <2>3 DEF Taken
<1> QED
    BY <1>1, <1>2 DEF NothingIsLostWhileOpen

-----------------------------------------------------------------------------
(* The steps *)

LEMMA InitSafety == Init => Invariant
BY WsRelayAssumption
   DEF WsRelayAssumption, Init, Invariant, TypeOK, Task, HandlerAgrees, TasksAgree,
       UpwardAgrees, WaitAfter, Taken, DownwardAgrees, SocketsAreReleased

(* What one direction needs is left alone by the other, and by the handler *)
(* when it closes the socket to LXD or is no longer connected.             *)
LEMMA UpwardKept ==
    ASSUME UpwardAgrees, UNCHANGED <<kind, upward>>,
           UNCHANGED lxd \/ lxd' \in {"ended", "closed"}
    PROVE  UpwardAgrees'
BY DEF UpwardAgrees, WaitAfter, Taken, upward

LEMMA DownwardKept ==
    ASSUME DownwardAgrees, UNCHANGED downward,
           UNCHANGED lxd \/ lxd' = "closed" \/ (lxd = "open" /\ lxd' = "ended"),
           Connected' => Connected \/ lxd = "none",
           lxd = "none" <=> down.at = "none"
    PROVE  DownwardAgrees'
BY DEF DownwardAgrees, Taken, downward

(* The handler, but for Connect, leaves both directions alone.             *)
LEMMA HandlerSafety ==
    ASSUME Invariant,
           RefusesToken \/ RefusesRole \/ Accept \/ Trigger \/ ConnectFails
           \/ Gather \/ Leave \/ Tell \/ Fail \/ Close
    PROVE  Invariant'
<1> USE DEF Invariant
<1>1. /\ UNCHANGED <<session, upward, downward>>
      /\ UNCHANGED lxd \/ lxd' = "closed"
  BY DEF RefusesToken, RefusesRole, Accept, Trigger, ConnectFails, Gather, Leave,
         Tell, Fail, Close
<1>2. TypeOK'
  BY <1>1 DEF TypeOK, session, upward, downward, RefusesToken, RefusesRole, Accept,
              Trigger, ConnectFails, Gather, Leave, Tell, Fail, Close
<1>3. Connected' => Connected \/ lxd = "none"
  BY DEF HandlerAgrees, Connected, RefusesToken, RefusesRole, Accept, Trigger,
         ConnectFails, Gather, Leave, Tell, Fail, Close
<1>4. HandlerAgrees' /\ TasksAgree' /\ SocketsAreReleased'
  <2>0. up' = up /\ down' = down
    BY <1>1 DEF upward, downward
  <2>1. CASE RefusesToken \/ RefusesRole
    BY <2>0, <2>1 DEF TypeOK, HandlerAgrees, TasksAgree, SocketsAreReleased, Connected,
                RefusesToken, RefusesRole
  <2>2. CASE Accept
    BY <2>0, <2>2 DEF TypeOK, HandlerAgrees, TasksAgree, SocketsAreReleased, Connected, Accept
  <2>3. CASE Trigger \/ ConnectFails \/ Fail
    BY <2>0, <2>3 DEF TypeOK, HandlerAgrees, TasksAgree, SocketsAreReleased, Connected,
                Trigger, ConnectFails, Fail
  <2>4. CASE Gather
    BY <2>0, <2>4 DEF TypeOK, HandlerAgrees, TasksAgree, SocketsAreReleased, Connected, Gather
  <2>5. CASE Leave
    BY <2>0, <2>5 DEF TypeOK, HandlerAgrees, TasksAgree, SocketsAreReleased, Connected, Leave
  <2>6. CASE Tell \/ Close
    BY <2>0, <2>6 DEF TypeOK, HandlerAgrees, TasksAgree, SocketsAreReleased, Connected, Tell, Close
  <2> QED
    BY <2>1, <2>2, <2>3, <2>4, <2>5, <2>6
<1>5. UpwardAgrees'
  BY <1>1, UpwardKept DEF session
<1>6. DownwardAgrees'
  BY <1>1, <1>3, DownwardKept DEF TasksAgree
<1> QED
  BY <1>2, <1>4, <1>5, <1>6

LEMMA ConnectSafety == ASSUME Invariant, Connect PROVE Invariant'
<1> USE DEF Invariant, Connect, Task
<1>1. TypeOK'
  BY WsRelayAssumption DEF WsRelayAssumption, TypeOK, session
<1>2. HandlerAgrees' /\ TasksAgree' /\ SocketsAreReleased'
  BY DEF HandlerAgrees, TasksAgree, SocketsAreReleased, session
<1>3. up.at = "none" /\ lxd = "none" /\ down.at = "none"
  BY DEF HandlerAgrees, TasksAgree
<1>4. UpwardAgrees'
  BY <1>3 DEF UpwardAgrees, WaitAfter, Taken, session
<1>5. DownwardAgrees'
  BY <1>3 DEF DownwardAgrees, Taken
<1> QED
  BY <1>1, <1>2, <1>4, <1>5

LEMMA UpSafety == ASSUME Invariant, Up PROVE Invariant'
<1> USE DEF Invariant
<1>1. UNCHANGED <<session, pc, client, code, lxd, downward, sent>>
  BY DEF Up, UpReceives, UpEnds, UpSends, UpSendFails
<1>2. lxd # "none" /\ up.at \in {"receiving", "sending"}
  BY DEF Up, UpReceives, UpEnds, UpSends, UpSendFails, TasksAgree
<1>3. Len(inbox) \in Nat /\ Len(lxdGot) \in Nat /\ sent \in Nat
  BY DEF TypeOK
<1>4. CASE UpReceives
  <2>1. inbox \in Seq(Frames \cup {Empty}) /\ Head(inbox) \in Frames \cup {Empty}
    BY <1>4 DEF UpReceives, TypeOK
  <2>2. /\ Len(inbox') = Len(inbox) - 1 /\ Len(inbox) # 0
        /\ \A i \in 1..Len(inbox') : inbox'[i] = inbox[i + 1]
    BY <2>1, <1>4 DEF UpReceives
  <2>3. CASE kind = "events" \/ Head(inbox) = Empty
    <3>0. up' = up /\ lxdGot' = lxdGot /\ inbox' = Tail(inbox)
      BY <1>4, <2>3 DEF UpReceives
    <3>1. TypeOK'
      BY <1>1, <2>1, <3>0, <1>4 DEF TypeOK, session, downward, UpReceives
    <3>2. HandlerAgrees' /\ TasksAgree' /\ SocketsAreReleased'
      BY <1>1, <3>0 DEF HandlerAgrees, TasksAgree, SocketsAreReleased, Connected, downward
    <3>3. UpwardAgrees'
      <4>1. up.at # "ended" /\ up.at # "sending"
        BY <1>4 DEF UpReceives
      <4>2. CASE kind = "events"
        BY <1>1, <3>0, <4>2 DEF UpwardAgrees, session
      <4>3. CASE kind # "events"
        <5>1. inbox[1] = Empty
          BY <2>1, <2>2, <2>3, <4>3
        <5>2. ASSUME NEW n \in Nat, WaitAfter(n) PROVE WaitAfter(n)'
          <6>1. ASSUME NEW frame \in (n + 1)..sent
                PROVE  \E i \in 1..Len(inbox') : inbox'[i] = frame
            <7>1. PICK j \in 1..Len(inbox) : inbox[j] = frame
              BY <5>2 DEF WaitAfter
            <7>2. frame # Empty
              BY <1>3, WsRelayAssumption DEF WsRelayAssumption
            <7>3. j - 1 \in 1..Len(inbox') /\ inbox'[j - 1] = frame
              BY <1>3, <2>2, <5>1, <7>1, <7>2
            <7> QED
              BY <7>3
          <6>2. \A i \in 1..Len(inbox') : i + 1 \in 1..Len(inbox) /\ inbox'[i] = inbox[i + 1]
            BY <1>3, <2>2
          <6>3. ASSUME NEW i \in 1..Len(inbox'), inbox'[i] # Empty
                PROVE  inbox'[i] \in (n + 1)..sent
            BY <5>2, <6>2, <6>3 DEF WaitAfter
          <6>4. ASSUME NEW i \in 1..Len(inbox'), NEW j \in 1..Len(inbox'),
                       i < j, inbox'[i] # Empty, inbox'[j] # Empty
                PROVE  inbox'[i] < inbox'[j]
            <7>1. i + 1 < j + 1
              BY <2>2, <6>4, <1>3
            <7> QED
              BY <5>2, <6>2, <6>4, <7>1 DEF WaitAfter
          <6> QED
            BY <1>1, <5>2, <6>1, <6>3, <6>4 DEF WaitAfter
        <5>3. Taken(lxdGot, up) \in Nat /\ Taken(lxdGot, up)' = Taken(lxdGot, up)
          BY <1>3, <3>0 DEF Taken
        <5> QED
          BY <1>1, <3>0, <4>1, <4>3, <5>2, <5>3 DEF UpwardAgrees, session
      <4> QED
        BY <4>2, <4>3
    <3> QED
      BY <1>1, <3>1, <3>2, <3>3, DownwardKept DEF TasksAgree, Connected
  <2>4. CASE kind # "events" /\ Head(inbox) # Empty
    <3>0. up' = Task("sending", Head(inbox)) /\ lxdGot' = lxdGot /\ inbox' = Tail(inbox)
      BY <1>4, <2>4 DEF UpReceives
    <3>1. TypeOK'
      BY <1>1, <2>1, <2>4, <3>0, <1>4, WsRelayAssumption
         DEF WsRelayAssumption, TypeOK, session, downward, UpReceives, Task, Frames
    <3>2. HandlerAgrees' /\ TasksAgree' /\ SocketsAreReleased'
      BY <1>1, <1>2, <1>4, <3>0
         DEF HandlerAgrees, TasksAgree, SocketsAreReleased, Connected, downward, UpReceives, Task
    <3>3. UpwardAgrees'
      <4>1. up.at # "ended" /\ up.at # "sending" /\ up'.at = "sending"
        BY <1>4, <3>0 DEF UpReceives, Task
      <4>2. CASE lxd = "open"
        <5>1. inbox[1] = Head(inbox) /\ 1 \in 1..Len(inbox)
          BY <1>3, <2>1, <2>2
        <5>2. kind = "proxy" /\ WaitAfter(Len(lxdGot))
          BY <2>4, <4>1, <4>2 DEF TypeOK, UpwardAgrees, Taken
        <5>3. Head(inbox) = Len(lxdGot) + 1
          <6>1. Head(inbox) \in (Len(lxdGot) + 1)..sent
            BY <2>4, <5>1, <5>2 DEF WaitAfter
          <6>2. Len(lxdGot) + 1 \in (Len(lxdGot) + 1)..sent
            BY <1>3, <6>1
          <6>3. PICK i \in 1..Len(inbox) : inbox[i] = Len(lxdGot) + 1
            BY <5>2, <6>2 DEF WaitAfter
          <6>4. CASE i = 1
            BY <5>1, <6>3, <6>4
          <6>5. CASE i # 1
            <7>1. 1 < i /\ inbox[i] # Empty
              BY <1>3, <6>3, <6>5, WsRelayAssumption DEF WsRelayAssumption
            <7>2. inbox[1] < inbox[i]
              BY <2>4, <5>1, <5>2, <7>1 DEF WaitAfter
            <7> QED
              BY <1>3, <5>1, <6>1, <6>3, <7>2
          <6> QED
            BY <6>4, <6>5
        <5>4. WaitAfter(Len(lxdGot) + 1)'
          <6>1. ASSUME NEW i \in 1..Len(inbox'), inbox'[i] # Empty
                PROVE  inbox'[i] \in (Len(lxdGot) + 2)..sent
            <7>1. inbox'[i] = inbox[i + 1] /\ i + 1 \in 1..Len(inbox) /\ 1 < i + 1
              BY <1>3, <2>2
            <7>2. inbox[1] < inbox[i + 1] /\ inbox[i + 1] \in (Len(lxdGot) + 1)..sent
              BY <2>4, <5>1, <5>2, <6>1, <7>1 DEF WaitAfter
            <7> QED
              BY <1>3, <5>1, <5>3, <7>1, <7>2
          <6>2. ASSUME NEW frame \in (Len(lxdGot) + 2)..sent
                PROVE  \E i \in 1..Len(inbox') : inbox'[i] = frame
            <7>1. frame \in (Len(lxdGot) + 1)..sent
              BY <1>3
            <7>2. PICK j \in 1..Len(inbox) : inbox[j] = frame
              BY <5>2, <7>1 DEF WaitAfter
            <7>3. j # 1
              BY <1>3, <5>1, <5>3, <7>2
            <7>4. j - 1 \in 1..Len(inbox') /\ inbox'[j - 1] = frame
              BY <1>3, <2>2, <7>2, <7>3
            <7> QED
              BY <7>4
          <6>3. ASSUME NEW i \in 1..Len(inbox'), NEW j \in 1..Len(inbox'),
                       i < j, inbox'[i] # Empty, inbox'[j] # Empty
                PROVE  inbox'[i] < inbox'[j]
            <7>1. /\ inbox'[i] = inbox[i + 1] /\ inbox'[j] = inbox[j + 1]
                  /\ i + 1 \in 1..Len(inbox) /\ j + 1 \in 1..Len(inbox) /\ i + 1 < j + 1
              BY <1>3, <2>2, <6>3
            <7> QED
              BY <5>2, <6>3, <7>1 DEF WaitAfter
          <6>4. Len(lxdGot) + 1 <= sent
            BY <1>3, <2>4, <5>1, <5>2, <5>3 DEF WaitAfter
          <6> QED
            BY <1>1, <1>3, <3>0, <6>1, <6>2, <6>3, <6>4 DEF WaitAfter
        <5>5. WaitAfter(Taken(lxdGot, up))'
          BY <4>1, <5>4 DEF Taken
        <5> QED
          BY <1>1, <3>0, <4>1, <5>2, <5>3, <5>5 DEF UpwardAgrees, session, Task
      <4>3. CASE lxd # "open"
        BY <1>1, <1>2, <2>4, <3>0, <4>3 DEF UpwardAgrees, session
      <4> QED
        BY <4>2, <4>3
    <3> QED
      BY <1>1, <3>1, <3>2, <3>3, DownwardKept DEF TasksAgree, Connected
  <2> QED
    BY <2>3, <2>4
<1>5. CASE UpEnds
  <2>1. TypeOK'
    BY <1>1, <1>5, WsRelayAssumption
       DEF WsRelayAssumption, TypeOK, session, downward, UpEnds, Task
  <2>2. HandlerAgrees' /\ TasksAgree' /\ SocketsAreReleased'
    BY <1>1, <1>2, <1>5 DEF HandlerAgrees, TasksAgree, SocketsAreReleased, Connected,
       downward, UpEnds, Task
  <2>3. UpwardAgrees'
    BY <1>1, <1>5 DEF UpwardAgrees, WaitAfter, Taken, session, UpEnds, Task
  <2> QED
    BY <1>1, <2>1, <2>2, <2>3, DownwardKept DEF TasksAgree, Connected
<1>6. CASE UpSends
  <2>0. up.frame \in Frames /\ kind = "proxy" /\ up.frame = Len(lxdGot) + 1
    BY <1>6 DEF TypeOK, UpwardAgrees, UpSends
  <2>1. TypeOK'
    BY <1>1, <1>6, <2>0, WsRelayAssumption
       DEF WsRelayAssumption, TypeOK, session, downward, UpSends, Task
  <2>2. HandlerAgrees' /\ TasksAgree' /\ SocketsAreReleased'
    BY <1>1, <1>2, <1>6 DEF HandlerAgrees, TasksAgree, SocketsAreReleased, Connected,
       downward, UpSends, Task
  <2>3. UpwardAgrees'
    <3>1. /\ Len(lxdGot') = Len(lxdGot) + 1
          /\ \A i \in 1..Len(lxdGot') : lxdGot'[i] = i
      BY <1>3, <1>6, <2>0 DEF UpSends, UpwardAgrees, TypeOK
    <3>2. Taken(lxdGot, up)' = Taken(lxdGot, up) /\ inbox' = inbox /\ up'.at = "receiving"
      BY <1>6, <3>1 DEF UpSends, Taken, Task
    <3> QED
      BY <1>1, <1>6, <2>0, <3>1, <3>2 DEF UpwardAgrees, WaitAfter, session, UpSends
  <2> QED
    BY <1>1, <2>1, <2>2, <2>3, DownwardKept DEF TasksAgree, Connected
<1>7. CASE UpSendFails
  <2>1. TypeOK'
    BY <1>1, <1>7, WsRelayAssumption
       DEF WsRelayAssumption, TypeOK, session, downward, UpSendFails, Task
  <2>2. HandlerAgrees' /\ TasksAgree' /\ SocketsAreReleased'
    BY <1>1, <1>2, <1>7 DEF HandlerAgrees, TasksAgree, SocketsAreReleased, Connected,
       downward, UpSendFails, Task
  <2>3. UpwardAgrees'
    BY <1>1, <1>2, <1>7 DEF UpwardAgrees, session, UpSendFails, Task
  <2> QED
    BY <1>1, <2>1, <2>2, <2>3, DownwardKept DEF TasksAgree, Connected
<1> QED
  BY <1>4, <1>5, <1>6, <1>7 DEF Up

LEMMA DownSafety == ASSUME Invariant, Down PROVE Invariant'
<1> USE DEF Invariant
<1>1. UNCHANGED <<session, pc, client, code, upward, lxd, shown>>
  BY DEF Down, DownReads, DownEnds, DownSends, DownSendFails
<1>2. lxd # "none" /\ down.at \in {"reading", "sending"}
  BY DEF Down, DownReads, DownEnds, DownSends, DownSendFails, TasksAgree
<1>3. /\ Len(outbox) \in Nat /\ Len(clientGot) \in Nat /\ shown \in Nat
      /\ outbox \in Seq(Frames) /\ clientGot \in Seq(Frames) /\ up' = up
  BY <1>1 DEF TypeOK, upward
<1>4. down'.at # "none" => HandlerAgrees' /\ TasksAgree' /\ SocketsAreReleased'
  BY <1>1, <1>2, <1>3 DEF HandlerAgrees, TasksAgree, SocketsAreReleased, Connected
<1>5. UpwardAgrees'
  BY <1>1, UpwardKept DEF session
<1>6. CASE DownReads
  <2>1. Head(outbox) \in Frames /\ Tail(outbox) \in Seq(Frames)
    BY <1>3, <1>6 DEF DownReads
  <2>2. TypeOK'
    BY <1>1, <1>6, <2>1, WsRelayAssumption
       DEF WsRelayAssumption, TypeOK, session, upward, DownReads, Task, Frames
  <2>3. DownwardAgrees'
    <3>1. /\ Len(outbox') = Len(outbox) - 1 /\ Len(outbox) # 0
          /\ Head(outbox) = outbox[1]
          /\ \A i \in 1..Len(outbox') : outbox'[i] = outbox[i + 1]
      BY <1>3, <1>6 DEF DownReads
    <3>2. /\ Taken(clientGot, down) = Len(clientGot)
          /\ Taken(clientGot, down)' = Len(clientGot) + 1
          /\ clientGot' = clientGot /\ down.at # "ended"
          /\ down'.at = "sending" /\ down'.frame = Head(outbox)
      BY <1>6 DEF DownReads, Taken, Task
    <3>3. /\ shown = Len(clientGot) + Len(outbox)
          /\ \A i \in 1..Len(outbox) : outbox[i] = Len(clientGot) + i
      BY <3>2 DEF DownwardAgrees
    <3>4. down'.frame = Len(clientGot) + 1
      BY <1>3, <3>1, <3>2, <3>3
    <3>5. \A i \in 1..Len(outbox') : outbox'[i] = (Len(clientGot) + 1) + i
      BY <1>3, <3>1, <3>3
    <3>6. shown = (Len(clientGot) + 1) + Len(outbox')
      BY <1>3, <3>1, <3>3
    <3> QED
      BY <1>1, <1>2, <3>2, <3>4, <3>5, <3>6 DEF DownwardAgrees
  <2> QED
    BY <1>4, <1>5, <1>6, <2>2, <2>3 DEF DownReads, Task
<1>7. CASE DownEnds
  <2>1. TypeOK'
    BY <1>1, <1>7, WsRelayAssumption
       DEF WsRelayAssumption, TypeOK, session, upward, DownEnds, Task
  <2>2. DownwardAgrees'
    BY <1>1, <1>2, <1>3, <1>7 DEF DownwardAgrees, Taken, Connected, DownEnds, Task
  <2> QED
    BY <1>4, <1>5, <1>7, <2>1, <2>2 DEF DownEnds, Task
<1>8. CASE DownSends
  <2>0. down.frame \in Frames /\ down.frame = Len(clientGot) + 1
    BY <1>8 DEF TypeOK, DownwardAgrees, DownSends
  <2>1. TypeOK'
    BY <1>1, <1>8, <2>0, WsRelayAssumption
       DEF WsRelayAssumption, TypeOK, session, upward, DownSends, Task
  <2>2. DownwardAgrees'
    <3>1. /\ Len(clientGot') = Len(clientGot) + 1
          /\ \A i \in 1..Len(clientGot') : clientGot'[i] = i
      BY <1>3, <1>8, <2>0 DEF DownSends, DownwardAgrees
    <3>2. /\ Taken(clientGot, down)' = Taken(clientGot, down)
          /\ outbox' = outbox /\ down'.at = "reading" /\ down.at # "ended"
      BY <1>8, <3>1 DEF DownSends, Taken, Task
    <3> QED
      BY <1>1, <1>2, <3>1, <3>2 DEF DownwardAgrees
  <2> QED
    BY <1>4, <1>5, <1>8, <2>1, <2>2 DEF DownSends, Task
<1>9. CASE DownSendFails
  <2>1. TypeOK'
    BY <1>1, <1>9, WsRelayAssumption
       DEF WsRelayAssumption, TypeOK, session, upward, DownSendFails, Task
  <2>2. DownwardAgrees'
    BY <1>1, <1>2, <1>9 DEF DownwardAgrees, Connected, DownSendFails, Task
  <2> QED
    BY <1>4, <1>5, <1>9, <2>1, <2>2 DEF DownSendFails, Task
<1> QED
  BY <1>6, <1>7, <1>8, <1>9 DEF Down

LEMMA ClientSendsSafety == ASSUME Invariant, ClientSends PROVE Invariant'
<1> USE DEF Invariant
<1>1. /\ UNCHANGED <<session, pc, client, code, up, lxdGot, lxd, downward>>
      /\ Connected
  BY DEF ClientSends
<1>2. /\ inbox \in Seq(Frames \cup {Empty}) /\ Len(inbox) \in Nat /\ sent \in Nat
      /\ Len(lxdGot) \in Nat
  BY DEF TypeOK
<1>3. PICK e : /\ inbox' = Append(inbox, e)
               /\ \/ e = sent + 1 /\ sent' = sent + 1 /\ sent < MaxFrames
                  \/ e = Empty /\ sent' = sent
  BY DEF ClientSends
<1>4. e \in Frames \cup {Empty} /\ sent' \in 0..MaxFrames /\ sent' \in Nat
  BY <1>2, <1>3, WsRelayAssumption DEF WsRelayAssumption, TypeOK, Frames
<1>5. TypeOK'
  BY <1>1, <1>2, <1>3, <1>4 DEF TypeOK, session, downward
<1>6. HandlerAgrees' /\ TasksAgree' /\ SocketsAreReleased'
  BY <1>1 DEF HandlerAgrees, TasksAgree, SocketsAreReleased, Connected, downward
<1>7. UpwardAgrees'
  <2>1. /\ Len(inbox') = Len(inbox) + 1 /\ inbox'[Len(inbox) + 1] = e
        /\ \A i \in 1..Len(inbox) : inbox'[i] = inbox[i]
    BY <1>2, <1>3, <1>4
  <2>2. up.at # "ended"
    BY <1>1 DEF TasksAgree
  <2>3. ASSUME NEW n \in Nat, WaitAfter(n) PROVE WaitAfter(n)'
    <3>1. ASSUME NEW i \in 1..Len(inbox'), inbox'[i] # Empty
          PROVE  inbox'[i] \in (n + 1)..sent'
      <4>1. CASE i \in 1..Len(inbox)
        BY <1>2, <1>3, <1>4, <2>1, <2>3, <3>1, <4>1 DEF WaitAfter
      <4>2. CASE i = Len(inbox) + 1
        BY <1>2, <1>3, <2>1, <2>3, <3>1, <4>2 DEF WaitAfter
      <4> QED
        BY <1>2, <2>1, <4>1, <4>2
    <3>2. ASSUME NEW frame \in (n + 1)..sent'
          PROVE  \E i \in 1..Len(inbox') : inbox'[i] = frame
      <4>1. CASE frame \in (n + 1)..sent
        <5>1. PICK i \in 1..Len(inbox) : inbox[i] = frame
          BY <2>3, <4>1 DEF WaitAfter
        <5> QED
          BY <1>2, <2>1, <5>1
      <4>2. CASE frame = sent + 1 /\ sent' = sent + 1 /\ e = sent + 1
        BY <1>2, <2>1, <4>2
      <4>3. frame \in (n + 1)..sent \/ (frame = sent + 1 /\ sent' = sent + 1)
        BY <1>2, <1>3
      <4>4. sent' = sent + 1 => e = sent + 1
        BY <1>2, <1>3
      <4> QED
        BY <4>1, <4>2, <4>3, <4>4
    <3>3. ASSUME NEW i \in 1..Len(inbox'), NEW j \in 1..Len(inbox'),
                 i < j, inbox'[i] # Empty, inbox'[j] # Empty
          PROVE  inbox'[i] < inbox'[j]
      <4>1. i \in 1..Len(inbox) /\ inbox'[i] = inbox[i]
        BY <1>2, <2>1, <3>3
      <4>2. CASE j \in 1..Len(inbox)
        BY <2>1, <2>3, <3>3, <4>1, <4>2 DEF WaitAfter
      <4>3. CASE j = Len(inbox) + 1
        <5>1. inbox'[j] = sent + 1
          BY <1>3, <2>1, <3>3, <4>3
        <5>2. inbox[i] \in (n + 1)..sent
          BY <2>3, <3>3, <4>1 DEF WaitAfter
        <5> QED
          BY <1>2, <4>1, <5>1, <5>2
      <4> QED
        BY <1>2, <2>1, <4>2, <4>3
    <3> QED
      BY <1>2, <1>3, <2>3, <3>1, <3>2, <3>3 DEF WaitAfter
  <2> QED
    BY <1>1, <1>2, <2>2, <2>3 DEF UpwardAgrees, Taken, session
<1>8. DownwardAgrees'
  BY <1>1, DownwardKept DEF TasksAgree, Connected
<1> QED
  BY <1>5, <1>6, <1>7, <1>8

LEMMA PeersSafety ==
    ASSUME Invariant, ClientLeaves \/ LxdSends \/ LxdEnds
    PROVE  Invariant'
<1> USE DEF Invariant
<1>1. CASE ClientLeaves
  <2>1. TypeOK'
    BY <1>1 DEF TypeOK, ClientLeaves, session, upward, downward
  <2>2. HandlerAgrees' /\ TasksAgree' /\ SocketsAreReleased'
    BY <1>1 DEF HandlerAgrees, TasksAgree, SocketsAreReleased, Connected, ClientLeaves,
                upward, downward
  <2>3. UpwardAgrees'
    BY <1>1, UpwardKept DEF ClientLeaves, session
  <2>4. DownwardAgrees'
    BY <1>1, DownwardKept DEF ClientLeaves, TasksAgree, Connected
  <2> QED
    BY <2>1, <2>2, <2>3, <2>4
<1>2. CASE LxdSends
  <2>0. /\ outbox \in Seq(Frames) /\ Len(outbox) \in Nat /\ Len(clientGot) \in Nat
        /\ shown \in Nat /\ shown + 1 \in Frames /\ shown' \in 0..MaxFrames
    BY <1>2, WsRelayAssumption DEF WsRelayAssumption, TypeOK, LxdSends, Frames
  <2>1. TypeOK'
    BY <1>2, <2>0 DEF TypeOK, LxdSends, session, upward
  <2>2. HandlerAgrees' /\ TasksAgree' /\ SocketsAreReleased'
    BY <1>2 DEF HandlerAgrees, TasksAgree, SocketsAreReleased, Connected, LxdSends, upward
  <2>3. UpwardAgrees'
    BY <1>2, UpwardKept DEF LxdSends, session
  <2>4. DownwardAgrees'
    <3>1. /\ Len(outbox') = Len(outbox) + 1 /\ outbox'[Len(outbox) + 1] = shown + 1
          /\ \A i \in 1..Len(outbox) : outbox'[i] = outbox[i]
      BY <1>2, <2>0 DEF LxdSends
    <3>2. Taken(clientGot, down)' = Taken(clientGot, down) /\ Taken(clientGot, down) \in Nat
      BY <1>2, <2>0 DEF LxdSends, Taken
    <3>3. ASSUME down.at # "ended"
          PROVE  /\ shown' = Taken(clientGot, down) + Len(outbox')
                 /\ \A i \in 1..Len(outbox') : outbox'[i] = Taken(clientGot, down) + i
      <4>1. /\ shown = Taken(clientGot, down) + Len(outbox)
            /\ \A i \in 1..Len(outbox) : outbox[i] = Taken(clientGot, down) + i
        BY <3>3 DEF DownwardAgrees
      <4>2. shown' = shown + 1
        BY <1>2 DEF LxdSends
      <4>3. \A i \in 1..Len(outbox') : i \in 1..Len(outbox) \/ i = Len(outbox) + 1
        BY <2>0, <3>1
      <4>4. outbox'[Len(outbox) + 1] = Taken(clientGot, down) + (Len(outbox) + 1)
        BY <2>0, <3>1, <3>2, <4>1
      <4> QED
        BY <2>0, <3>1, <3>2, <4>1, <4>2, <4>3, <4>4
    <3>4. lxd = "open" /\ lxd' = lxd /\ clientGot' = clientGot /\ down' = down
          /\ (Connected' <=> Connected)
      BY <1>2 DEF LxdSends, Connected
    <3> QED
      BY <3>2, <3>3, <3>4 DEF DownwardAgrees
  <2> QED
    BY <2>1, <2>2, <2>3, <2>4
<1>3. CASE LxdEnds
  <2>1. TypeOK'
    BY <1>3 DEF TypeOK, LxdEnds, session, upward, downward
  <2>2. HandlerAgrees' /\ TasksAgree' /\ SocketsAreReleased'
    BY <1>3 DEF HandlerAgrees, TasksAgree, SocketsAreReleased, Connected, LxdEnds,
                upward, downward
  <2>3. UpwardAgrees'
    BY <1>3, UpwardKept DEF LxdEnds, session
  <2>4. DownwardAgrees'
    BY <1>3, DownwardKept DEF LxdEnds, TasksAgree, Connected
  <2> QED
    BY <2>1, <2>2, <2>3, <2>4
<1> QED
  BY <1>1, <1>2, <1>3

LEMMA StutterSafety == ASSUME Invariant, UNCHANGED vars PROVE Invariant'
BY DEF vars, session, upward, downward, Invariant, TypeOK, HandlerAgrees, TasksAgree,
       UpwardAgrees, WaitAfter, Taken, DownwardAgrees, Connected, SocketsAreReleased

LEMMA NextSafety == ASSUME Invariant, [Next]_vars PROVE Invariant'
<1>1. CASE Handler
  BY <1>1, HandlerSafety, ConnectSafety DEF Handler
<1>2. CASE Up
  BY <1>2, UpSafety
<1>3. CASE Down
  BY <1>3, DownSafety
<1>4. CASE Peers
  BY <1>4, ClientSendsSafety, PeersSafety DEF Peers
<1>5. CASE UNCHANGED vars
  BY <1>5, StutterSafety
<1> QED
  BY <1>1, <1>2, <1>3, <1>4, <1>5 DEF Next, Over

-----------------------------------------------------------------------------
(* What holds of every session *)

(* The inductive invariant: which sockets and tasks there are, and which   *)
(* frames have arrived, are held and wait.                                 *)
THEOREM Safety == Spec => []Invariant
<1>1. Init => Invariant
  BY InitSafety
<1>2. Invariant /\ [Next]_vars => Invariant'
  BY NextSafety
<1> QED
  BY <1>1, <1>2, PTL DEF Spec

(* Every variable keeps its type, and a task holds a frame exactly while   *)
(* it sends one.                                                           *)
THEOREM TypeCorrect == Spec => []TypeOK
<1>1. Invariant => TypeOK
  BY DEF Invariant
<1> QED
  BY <1>1, Safety, PTL

(* The two relay tasks of _proxy_exec_ws and operations_ws pass on frames  *)
(* in the order they were sent, without a gap.                             *)
THEOREM OrderOfFrames == Spec => []FramesKeepTheirOrder
BY OrderIsKept, Safety, PTL

(* While the receiver's socket is open, every frame sent has arrived, is   *)
(* held by a task or is still to be taken by one.                          *)
THEOREM NoFrameIsLost == Spec => []NothingIsLostWhileOpen
BY NothingIsLost, Safety, PTL

(* When the handler is over, the socket to LXD is closed, and so is the    *)
(* client's unless she has left.                                           *)
THEOREM HandlerReleasesSockets == Spec => []SocketsAreReleased
<1>1. Invariant => SocketsAreReleased
  BY DEF Invariant
<1> QED
  BY <1>1, Safety, PTL

=============================================================================
