---------------------------- MODULE BoardReplay ----------------------------
(***************************************************************************)
(* How a browser follows a board.  The server keeps the latest edits of    *)
(* the board in a replay log (board/mutation_log.mjs), serves its saved    *)
(* SVG as a baseline over HTTP and pins the sequence number it served.     *)
(* The browser connects with the sequence number of its baseline, receives *)
(* the edits accepted since as one batch, then each new edit as it is      *)
(* accepted (board_replay_module.js).                                      *)
(*                                                                         *)
(* An edit is its sequence number: edits are accepted one at a time and    *)
(* are durable before anyone hears of them (BoardStore).  A tab draws its  *)
(* own edits when it sends them and learns their numbers later (refusals   *)
(* are in ClientWrites, their rollback in BoardEdits).  JavaScript runs    *)
(* a callback to completion: an event reaches a client only while none of  *)
(* its drain loops can run.  A loop is suspended while the tool of a       *)
(* message is being fetched.  Unsequenced messages (cursors) are left out. *)
(***************************************************************************)
EXTENDS Naturals, SequencesExt

CONSTANTS
  Client,     \* browser tabs
  Banned,     \* the tabs of users whose ban ends while they are connected
  MaxSeq,     \* bound on the edits accepted
  Slow,       \* the edits whose tool a client loads on their arrival
  Clearing,   \* the edits after which no live item is left on the board
  MaxConn,    \* bound on the connections a client has at a time
  MaxFaults   \* bound on lost connections, failed fetches and restarts

ASSUME ReplayAssumption ==
  /\ MaxSeq \in Nat /\ MaxFaults \in Nat /\ MaxConn \in Nat \ {0}
  /\ Banned \subseteq Client
  /\ Slow \subseteq 1..MaxSeq /\ Clearing \subseteq 1..MaxSeq

VARIABLES
  \* --- server ---
  latestSeq,         \* board.getSeq()
  persistedSeq,      \* mutationLog.persistedSeq()
  minReplayableSeq,  \* mutationLog.minReplayableSeq(): the log holds the rest
  old,               \* edits up to here are past SEQ_REPLAY_RETENTION_MS
  storedSeq,         \* sequence number of <board>.svg, 0 when there is none
  saveTarget,        \* the save that has written its file, or None
  pins,              \* replayPinsByBoard: the pins that have not expired
  \* --- network and browsers ---
  conn,              \* the connections of each client
  client,            \* the state of each tab
  faults

server == <<latestSeq, persistedSeq, minReplayableSeq, old, storedSeq, saveTarget, pins>>
vars   == <<server, conn, client, faults>>

None == 0
Conn == 1..MaxConn

-----------------------------------------------------------------------------
(* Data *)

\* What a tab has drawn: an edit it has received, or one of its own, which has
\* no number until its broadcast comes back.
Drawn(n) == [edit |-> n, own |-> FALSE]
Sent     == [edit |-> None, own |-> TRUE]
Baseline(n) == [i \in 1..n |-> Drawn(i)]

\* promoteMutation: the tab's own edit at place p has got its number.
Promoted(view, p, n) ==
  [q \in DOMAIN view |->
     IF q = p /\ view[q] = Sent THEN [view[q] EXCEPT !.edit = n] ELSE view[q]]

\* A replay batch carries the edits from+1 .. to, a live broadcast one edit, the
\* connection that sent it and its clientMutationId: the place in the view
\* where the sender has drawn it.
Batch(s, t) ==
  [kind |-> "batch", from |-> s, to |-> t, source |-> None, mutation |-> None]
Live(n, src, id) ==
  [kind |-> "live", from |-> n - 1, to |-> n, source |-> src, mutation |-> id]

\* A connection, with the messages on their way to the tab and the edits, by
\* clientMutationId, that the tab has sent and the server not yet accepted.
Unused == [state |-> "closed", base |-> 0, wire |-> << >>, up |-> << >>]

\* A drain loop takes the next message, or works at edit "at" of one.
NextMessage == [phase |-> "next", kind |-> "live", at |-> 0, to |-> 0]

\* The tab as the page request leaves the server: start() comes with it.
NewTab ==
  [ view       |-> << >>,    \* what has been drawn on the board, in order
    seq        |-> 0,        \* authoritativeSeq
    awaiting   |-> TRUE,     \* awaitingSnapshot
    refresh    |-> FALSE,    \* refreshBaselineBeforeConnect
    queue      |-> << >>,    \* incomingBroadcastQueue
    processing |-> FALSE,    \* processingIncomingBroadcast
    loops      |-> << >>,    \* the drain loops that have not returned
    pending    |-> << >>,    \* pendingMessages of the tool being loaded
    mounted    |-> FALSE,    \* that tool is mounted
    socket     |-> None,     \* connection.socket
    opened     |-> FALSE,    \* the page has been loaded
    starts     |-> <<[stage |-> "ask", base |-> 0, reuse |-> None]>>,
    timers     |-> 0,        \* scheduled reconnects
    access     |-> "none",   \* accessRefreshTimerId: not yet, armed, or past
    overtaken  |-> FALSE ]   \* history: a loop was suspended at a resynchronisation

Init ==
  /\ latestSeq = 0 /\ persistedSeq = 0 /\ minReplayableSeq = 0 /\ old = 0
  /\ storedSeq = 0 /\ saveTarget = None /\ pins = {}
  /\ conn = [c \in Client |-> [k \in Conn |-> Unused]]
  /\ client = [c \in Client |-> NewTab]
  /\ faults = 0

-----------------------------------------------------------------------------
(* Server: edits, saves, unloading, restarts *)

IsOpen(c, k) == conn[c][k].state = "open"

\* An edit is accepted and broadcast to the users of the board.  It comes from
\* elsewhere, or from a connection that is gone, ...
Accept ==
  /\ latestSeq < MaxSeq
  /\ latestSeq' = latestSeq + 1
  /\ conn' = [d \in Client |-> [j \in Conn |->
       IF ~IsOpen(d, j) THEN conn[d][j]
       ELSE [conn[d][j] EXCEPT !.wire = Append(@, Live(latestSeq + 1, None, None))]]]
  /\ UNCHANGED <<persistedSeq, minReplayableSeq, old, storedSeq, saveTarget, pins,
                 client, faults>>

\* ... or it is the next one that client c has sent by its connection k.
AcceptFrom(c, k) ==
  /\ latestSeq < MaxSeq
  /\ IsOpen(c, k) /\ conn[c][k].up # << >>
  /\ latestSeq' = latestSeq + 1
  /\ conn' = [d \in Client |-> [j \in Conn |->
       IF ~IsOpen(d, j) THEN conn[d][j]
       ELSE IF d # c
       THEN [conn[d][j] EXCEPT !.wire = Append(@, Live(latestSeq + 1, None, None))]
       ELSE [conn[d][j] EXCEPT
              !.wire = Append(@, Live(latestSeq + 1, k, Head(conn[c][k].up))),
              !.up   = IF j = k THEN Tail(@) ELSE @]]]
  /\ UNCHANGED <<persistedSeq, minReplayableSeq, old, storedSeq, saveTarget, pins,
                 client, faults>>

\* An edit leaves the retention window.
Age ==
  /\ old < latestSeq
  /\ old' = old + 1
  /\ UNCHANGED <<latestSeq, persistedSeq, minReplayableSeq, storedSeq, saveTarget,
                 pins, conn, client, faults>>

HasItems(n) == n # 0 /\ n \notin Clearing

\* A save writes its file: a board without items, saved or live, has none.
SaveWrite ==
  /\ saveTarget = None
  /\ persistedSeq # latestSeq
  /\ saveTarget' = latestSeq
  /\ storedSeq' = IF HasItems(persistedSeq) \/ HasItems(latestSeq) THEN latestSeq ELSE 0
  /\ UNCHANGED <<latestSeq, persistedSeq, minReplayableSeq, old, pins, conn, client, faults>>

\* Mutant: the pins are not looked at.
TrimFloorWithoutPins(persisted) == Min({persisted, old})

\* The last edit that trimPersistedOlderThan may drop.
TrimFloor(persisted) == Min({persisted, old} \union pins)

\* The save finishes: markPersisted, then the log is trimmed.
SaveDone ==
  /\ saveTarget # None
  /\ persistedSeq' = Max({persistedSeq, saveTarget})
  /\ minReplayableSeq' = Max({minReplayableSeq, TrimFloor(persistedSeq')})
  /\ saveTarget' = None
  /\ UNCHANGED <<latestSeq, old, storedSeq, pins, conn, client, faults>>

\* pinReplayBaseline's expiry passes.
ExpirePin(p) ==
  /\ p \in pins
  /\ pins' = pins \ {p}
  /\ UNCHANGED <<latestSeq, persistedSeq, minReplayableSeq, old, storedSeq, saveTarget,
                 conn, client, faults>>

\* A new instance starts from the saved file and the journal.
LoadFromDisk == persistedSeq' = storedSeq /\ minReplayableSeq' = storedSeq

\* The board is unloaded, unless a pin is behind the saved file, and loaded again.
Reload ==
  /\ \A c \in Client, k \in Conn : ~IsOpen(c, k)
  /\ saveTarget = None
  /\ persistedSeq = latestSeq
  /\ \A p \in pins : p >= persistedSeq
  /\ LoadFromDisk
  /\ UNCHANGED <<latestSeq, old, storedSeq, saveTarget, pins, conn, client, faults>>

\* What is left of a connection the network or the server has lost.
Lost(x) == CASE x.state = "open"       -> [x EXCEPT !.state = "lost", !.wire = << >>]
             [] x.state = "connecting" -> [x EXCEPT !.state = "failed"]
             [] OTHER                  -> x

\* The process ends and starts again: the pins are forgotten.
Restart ==
  /\ faults < MaxFaults
  /\ faults' = faults + 1
  /\ LoadFromDisk
  /\ saveTarget' = None
  /\ pins' = {}
  /\ conn' = [c \in Client |-> [k \in Conn |-> Lost(conn[c][k])]]
  /\ UNCHANGED <<latestSeq, old, storedSeq, client>>

Replayable(base) == minReplayableSeq <= base /\ base <= latestSeq

\* Mutant: the batch ends with the edits that have been saved.
AdmitToPersisted(c, k) ==
  LET x == conn[c][k] IN
  /\ x.state = "connecting"
  /\ conn' = [conn EXCEPT ![c][k] =
       IF Replayable(x.base)
       THEN [x EXCEPT !.state = "open",
                      !.wire = <<Batch(x.base, Max({x.base, persistedSeq}))>>]
       ELSE [x EXCEPT !.state = "refused"]]
  /\ UNCHANGED <<server, client, faults>>

\* The handshake: the replay is prepared and sent, or the baseline refused.
\* One step: the socket joins in the tick after its replay was read from the
\* session, while the next edit has still to be written to the journal.
Admit(c, k) ==
  LET x == conn[c][k] IN
  /\ x.state = "connecting"
  /\ conn' = [conn EXCEPT ![c][k] =
       IF Replayable(x.base)
       THEN [x EXCEPT !.state = "open", !.wire = <<Batch(x.base, latestSeq)>>]
       ELSE [x EXCEPT !.state = "refused"]]
  /\ UNCHANGED <<server, client, faults>>

Drop(c, k) ==
  /\ faults < MaxFaults
  /\ conn[c][k].state \in {"open", "connecting"}
  /\ faults' = faults + 1
  /\ conn' = [conn EXCEPT ![c][k] = Lost(@)]
  /\ UNCHANGED <<server, client>>

-----------------------------------------------------------------------------
(* Client: connecting *)

\* No callback of the tab is on the stack.
Idle(c) == \A i \in DOMAIN client[c].loops : client[c].loops[i].phase = "waiting"

BeginResync(t) ==
  [t EXCEPT !.awaiting = TRUE, !.refresh = TRUE, !.queue = << >>, !.processing = FALSE,
            !.overtaken = @ \/ \E i \in DOMAIN t.loops : t.loops[i].phase = "waiting"]

IsConnected(c, k) == k # None /\ conn[c][k].state \in {"open", "lost"}

\* connection.start(), up to its first await.
Start(c, t) ==
  LET reusable == IF IsConnected(c, t.socket) THEN None ELSE t.socket IN
  [t EXCEPT !.socket = reusable,
            !.awaiting = TRUE,
            !.starts = Append(@, [stage |-> IF t.refresh THEN "ask" ELSE "auth",
                                  base  |-> t.seq,
                                  reuse |-> reusable])]

\* ... which closes the socket it does not reuse.
CloseCurrent(c) ==
  conn' = IF IsConnected(c, client[c].socket)
          THEN [conn EXCEPT ![c][client[c].socket] = Unused]
          ELSE conn

\* A scheduled reconnect is due.
Reconnect(c) ==
  /\ Idle(c)
  /\ client[c].timers > 0
  /\ client' = [client EXCEPT ![c] = Start(c, [client[c] EXCEPT !.timers = @ - 1])]
  /\ CloseCurrent(c)
  /\ UNCHANGED <<server, faults>>

\* A ban ends: start() is called whatever the connection does.
AccessRefresh(c) ==
  /\ Idle(c)
  /\ client[c].access = "armed"
  /\ client' = [client EXCEPT ![c] = Start(c, [client[c] EXCEPT !.access = "past"])]
  /\ CloseCurrent(c)
  /\ UNCHANGED <<server, faults>>

\* The server reads the sequence number of the saved file and pins it ...
ServeBaseline(c, i) ==
  /\ client[c].starts[i].stage = "ask"
  /\ pins' = pins \union {storedSeq}
  /\ client' = [client EXCEPT ![c].starts[i].stage = "stream"]
  /\ UNCHANGED <<latestSeq, persistedSeq, minReplayableSeq, old, storedSeq, saveTarget,
                 conn, faults>>

\* ... and sends the file as it is later; the client draws it.
ApplyBaseline(c, i) ==
  /\ Idle(c)
  /\ client[c].starts[i].stage = "stream"
  /\ client' = [client EXCEPT ![c] =
       [client[c] EXCEPT !.view = Baseline(storedSeq), !.seq = storedSeq, !.refresh = FALSE,
                 !.opened = TRUE,
                 !.starts[i] = [client[c].starts[i] EXCEPT !.stage = "auth",
                                                           !.base = storedSeq]]]
  /\ UNCHANGED <<server, conn, faults>>

\* Mutant: a fetch that failed is not tried again.
FetchFailsForGood(c, i) ==
  /\ Idle(c)
  /\ client[c].opened
  /\ faults < MaxFaults
  /\ client[c].starts[i].stage \in {"ask", "stream"}
  /\ faults' = faults + 1
  /\ client' = [client EXCEPT ![c].starts = RemoveAt(@, i)]
  /\ UNCHANGED <<server, conn>>

\* A baseline that is fetched again does not arrive.
FetchFails(c, i) ==
  /\ Idle(c)
  /\ client[c].opened
  /\ faults < MaxFaults
  /\ client[c].starts[i].stage \in {"ask", "stream"}
  /\ faults' = faults + 1
  /\ client' = [client EXCEPT ![c] =
       [client[c] EXCEPT !.starts = RemoveAt(@, i), !.timers = @ + 1]]
  /\ UNCHANGED <<server, conn>>

\* Nothing refers to connection k any more: its number can be used again.
IsFree(c, k) ==
  /\ conn[c][k].state = "closed"
  /\ client[c].socket # k
  /\ \A i \in DOMAIN client[c].starts : client[c].starts[i].reuse # k
  /\ \A i \in DOMAIN client[c].queue : client[c].queue[i].source # k

\* The handshake is sent, on a new socket or by the one that is reused.
OpenSocket(c, i, k) ==
  LET s == client[c].starts[i]
      t == [client[c] EXCEPT !.starts = RemoveAt(@, i)] IN
  /\ Idle(c)
  /\ s.stage = "auth"
  /\ IF s.reuse # None /\ conn[c][s.reuse].state # "closed"
     THEN client' = [client EXCEPT ![c] = t] /\ UNCHANGED conn
     ELSE /\ IF s.reuse = None THEN IsFree(c, k) ELSE k = s.reuse
          /\ conn' = [conn EXCEPT ![c][k] =
                        [Unused EXCEPT !.state = "connecting", !.base = s.base]]
          /\ client' = [client EXCEPT ![c] =
               [t EXCEPT !.socket = IF s.reuse = None THEN k ELSE @]]
  /\ UNCHANGED <<server, faults>>

\* Mutant: a refused client tries again with the baseline it has.
RetryOnConnectError(c, k) ==
  LET t == client[c] IN
  /\ Idle(c)
  /\ conn[c][k].state \in {"refused", "failed"}
  /\ conn' = [conn EXCEPT ![c][k] = Unused]
  /\ client' = IF t.socket # k THEN client
               ELSE [client EXCEPT ![c].timers = @ + 1]
  /\ UNCHANGED <<server, faults>>

\* CONNECT_ERROR: the server refused the baseline, or was not reached.
OnConnectError(c, k) ==
  LET t == client[c]
      refused == conn[c][k].state = "refused"
      u == IF refused THEN [BeginResync(t) EXCEPT !.socket = None] ELSE t IN
  /\ Idle(c)
  /\ conn[c][k].state \in {"refused", "failed"}
  /\ conn' = [conn EXCEPT ![c][k] = Unused]
  /\ client' = IF t.socket # k THEN client
               ELSE [client EXCEPT ![c] = [u EXCEPT !.timers = @ + 1]]
  /\ UNCHANGED <<server, faults>>

\* DISCONNECT: an open connection has been lost.
OnDisconnect(c, k) ==
  /\ Idle(c)
  /\ conn[c][k].state = "lost"
  /\ conn' = [conn EXCEPT ![c][k] = Unused]
  /\ client' = IF client[c].socket # k THEN client
               ELSE [client EXCEPT ![c] = [BeginResync(client[c]) EXCEPT !.timers = @ + 1]]
  /\ UNCHANGED <<server, faults>>

-----------------------------------------------------------------------------
(* Client: messages *)

\* The user draws: drawAndSend, on a connection that is up as far as the tab
\* knows (canBufferWrites).  Bound: no more is sent than can be accepted.
Send(c) ==
  LET t == client[c] IN
  /\ Idle(c)
  /\ IsConnected(c, t.socket) /\ ~t.awaiting
  /\ latestSeq + Len(conn[c][t.socket].up) < MaxSeq
  /\ client' = [client EXCEPT ![c].view = Append(@, Sent)]
  /\ conn' = [conn EXCEPT ![c][t.socket].up = Append(@, Len(t.view) + 1)]
  /\ UNCHANGED <<server, faults>>

\* enqueueIncomingBroadcast, for the next message of connection k.  The board
\* state that comes before the batch says when a ban ends.
OnBroadcast(c, k) ==
  LET x == conn[c][k] IN
  /\ Idle(c)
  /\ x.wire # << >>
  /\ conn' = [conn EXCEPT ![c][k].wire = Tail(@)]
  /\ client' = [client EXCEPT ![c] =
       [client[c] EXCEPT !.queue = Append(@, Head(x.wire)),
                 !.processing = TRUE,
                 !.access = IF @ = "none" /\ c \in Banned /\ Head(x.wire).kind = "batch"
                            THEN "armed" ELSE @,
                 !.loops = IF client[c].processing THEN @ ELSE Append(@, NextMessage)]]
  /\ UNCHANGED <<server, faults>>

\* The queue is empty: drain loop i returns.
EndLoop(c, i) ==
  /\ client[c].loops[i].phase = "next"
  /\ client[c].queue = << >>
  /\ client' = [client EXCEPT ![c] =
       [client[c] EXCEPT !.loops = RemoveAt(@, i), !.processing = FALSE]]
  /\ UNCHANGED <<server, conn, faults>>

\* A drain loop takes the head of the queue; Shifted(c) is the tab without it.
Received(c) == Head(client[c].queue)
Shifted(c)  == [client[c] EXCEPT !.queue = Tail(@)]
CanShift(c, i) == client[c].loops[i].phase = "next" /\ client[c].queue # << >>

\* classifySequencedMutationSeq, and the check of a batch.
IsStale(t, m) == m.kind = "live" /\ m.to <= t.seq
IsGap(t, m)   == IF m.kind = "batch" THEN m.from # t.seq ELSE m.to > t.seq + 1
IsOwn(t, m)   == m.kind = "live" /\ m.source # None /\ m.source = t.socket

SkipStale(c, i) ==
  /\ CanShift(c, i)
  /\ IsStale(client[c], Received(c))
  /\ client' = [client EXCEPT ![c] = Shifted(c)]
  /\ UNCHANGED <<server, conn, faults>>

\* A gap: the client resynchronises at once.
Gap(c, i) ==
  /\ CanShift(c, i)
  /\ ~IsStale(client[c], Received(c))
  /\ IsGap(client[c], Received(c))
  /\ client' = [client EXCEPT ![c] = Start(c, BeginResync(Shifted(c)))]
  /\ CloseCurrent(c)
  /\ UNCHANGED <<server, faults>>

IsNext(t, m) == ~IsStale(t, m) /\ ~IsGap(t, m)

\* Mutant: the client's own edit is drawn as everybody's.
OwnDrawnAgain(c, i) ==
  LET m == Received(c) IN
  /\ CanShift(c, i)
  /\ IsNext(client[c], m) /\ IsOwn(client[c], m)
  /\ client' = [client EXCEPT ![c] =
       [Shifted(c) EXCEPT !.view = Append(Promoted(@, m.mutation, m.to), Drawn(m.to)),
                          !.seq = m.to]]
  /\ UNCHANGED <<server, conn, faults>>

\* The client's own edit comes back: it is on the board already.
Own(c, i) ==
  LET m == Received(c) IN
  /\ CanShift(c, i)
  /\ IsNext(client[c], m) /\ IsOwn(client[c], m)
  /\ client' = [client EXCEPT ![c] =
       [Shifted(c) EXCEPT !.view = Promoted(@, m.mutation, m.to), !.seq = m.to]]
  /\ UNCHANGED <<server, conn, faults>>

\* Somebody else's edit, or the batch, is next.
Take(c, i) ==
  LET m == Received(c) IN
  /\ CanShift(c, i)
  /\ IsNext(client[c], m) /\ ~IsOwn(client[c], m)
  /\ client' = [client EXCEPT ![c] =
       [Shifted(c) EXCEPT !.loops[i] = [phase |-> "draw", kind |-> m.kind,
                                        at |-> m.from + 1, to |-> m.to]]]
  /\ UNCHANGED <<server, conn, faults>>

\* Loop i after its edit: authoritativeSeq is set, whatever it has become.
Advance(t, i) ==
  LET l == t.loops[i] IN
  [t EXCEPT !.seq = l.at,
            !.loops[i] = IF l.kind = "live" THEN NextMessage
                         ELSE [l EXCEPT !.phase = "draw", !.at = l.at + 1]]

\* The edit is drawn, or waits for its tool.
Draw(c, i) ==
  LET l == client[c].loops[i] IN
  /\ l.phase = "draw" /\ l.at <= l.to
  /\ client' = [client EXCEPT ![c] =
       IF l.at \in Slow /\ ~client[c].mounted
       THEN [client[c] EXCEPT !.pending = Append(@, l.at), !.loops[i].phase = "waiting"]
       ELSE Advance([client[c] EXCEPT !.view = Append(@, Drawn(l.at))], i)]
  /\ UNCHANGED <<server, conn, faults>>

\* bootTool: the tool is mounted and draws the messages that waited for it.
Mount(c) ==
  /\ Idle(c)
  /\ client[c].pending # << >>
  /\ client' = [client EXCEPT ![c] =
       [client[c] EXCEPT !.mounted = TRUE,
                 !.view = @ \o [j \in DOMAIN client[c].pending |-> Drawn(client[c].pending[j])],
                 !.pending = << >>,
                 !.loops = [i \in DOMAIN @ |->
                              [client[c].loops[i] EXCEPT !.phase = "drawn"]]]]
  /\ UNCHANGED <<server, conn, faults>>

Resume(c, i) ==
  /\ client[c].loops[i].phase = "drawn"
  /\ client' = [client EXCEPT ![c] = Advance(@, i)]
  /\ UNCHANGED <<server, conn, faults>>

\* completeAuthoritativeReplay
CompleteReplay(c, i) ==
  LET l == client[c].loops[i] IN
  /\ l.phase = "draw" /\ l.at > l.to
  /\ client' = [client EXCEPT ![c] =
       [client[c] EXCEPT !.seq = l.to, !.awaiting = FALSE, !.refresh = FALSE,
                 !.loops[i] = NextMessage]]
  /\ UNCHANGED <<server, conn, faults>>

-----------------------------------------------------------------------------
ServerStep ==
  \/ Accept
  \/ \E c \in Client, k \in Conn : AcceptFrom(c, k)
  \/ Age \/ SaveWrite \/ SaveDone \/ Reload \/ Restart
  \/ \E p \in pins : ExpirePin(p)

ConnectionStep(c) ==
  \/ \E k \in Conn : \/ Admit(c, k) \/ Drop(c, k)
                     \/ OnConnectError(c, k) \/ OnDisconnect(c, k) \/ OnBroadcast(c, k)
  \/ \E i \in DOMAIN client[c].starts :
       \/ ServeBaseline(c, i) \/ ApplyBaseline(c, i) \/ FetchFails(c, i)
       \/ \E k \in Conn : OpenSocket(c, i, k)
  \/ Reconnect(c) \/ AccessRefresh(c)

LoopStep(c) ==
  \E i \in DOMAIN client[c].loops :
    \/ EndLoop(c, i) \/ SkipStale(c, i) \/ Gap(c, i) \/ Own(c, i) \/ Take(c, i)
    \/ Draw(c, i) \/ Resume(c, i) \/ CompleteReplay(c, i)

Next == \/ ServerStep
        \/ \E c \in Client : ConnectionStep(c) \/ LoopStep(c) \/ Mount(c) \/ Send(c)

Spec == Init /\ [][Next]_vars

\* What the browser and the server do by themselves as long as the network
\* carries it: everything but edits, saves, expiries and faults.
Progress(c) ==
  \/ \E k \in Conn : \/ Admit(c, k)
                     \/ OnConnectError(c, k) \/ OnDisconnect(c, k) \/ OnBroadcast(c, k)
  \/ \E i \in DOMAIN client[c].starts :
       \/ ServeBaseline(c, i) \/ ApplyBaseline(c, i)
       \/ \E k \in Conn : OpenSocket(c, i, k)
  \/ Reconnect(c) \/ LoopStep(c) \/ Mount(c)

FairSpec == Spec /\ \A c \in Client : WF_vars(Progress(c))

-----------------------------------------------------------------------------
(* Properties *)

Seqs == 0..MaxSeq

MessageOK(m) == /\ m.kind \in {"batch", "live"}
                /\ m.from \in Seqs /\ m.to \in m.from..MaxSeq
                /\ m.source \in Conn \union {None} /\ m.mutation \in Nat

\* Every variable has its type; what is in the log, in the file and in flight
\* never exceeds the edits accepted.
TypeOK ==
  /\ latestSeq \in Seqs
  /\ {persistedSeq, minReplayableSeq, old, storedSeq, saveTarget} \subseteq 0..latestSeq
  /\ pins \subseteq 0..latestSeq
  /\ faults \in 0..MaxFaults
  /\ \A c \in Client, k \in Conn : LET x == conn[c][k] IN
       /\ x.state \in {"closed", "connecting", "refused", "failed", "open", "lost"}
       /\ x.base \in 0..latestSeq
       /\ \A i \in DOMAIN x.wire : MessageOK(x.wire[i])
       /\ x.up \in Seq(Nat \ {0})
  /\ \A c \in Client : LET t == client[c] IN
       /\ t.seq \in 0..latestSeq /\ t.view \in Seq([edit : 0..latestSeq, own : BOOLEAN])
       /\ {t.awaiting, t.refresh, t.processing, t.mounted, t.opened, t.overtaken} \subseteq BOOLEAN
       /\ t.access \in {"none", "armed", "past"}
       /\ \A i \in DOMAIN t.queue : MessageOK(t.queue[i])
       /\ \A i \in DOMAIN t.loops :
            /\ t.loops[i].phase \in {"next", "draw", "waiting", "drawn"}
            /\ t.loops[i].kind \in {"batch", "live"}
            /\ t.loops[i].at \in 0..(MaxSeq + 1) /\ t.loops[i].to \in Seqs
       /\ t.pending \in Seq(1..latestSeq)
       /\ t.socket \in Conn \union {None} /\ t.timers \in Nat
       /\ \A i \in DOMAIN t.starts :
            /\ t.starts[i].stage \in {"ask", "stream", "auth"}
            /\ t.starts[i].base \in Seqs
            /\ t.starts[i].reuse \in Conn \union {None}

\* A baseline that has been served and whose pin has not expired can be
\* replayed from: however many saves, expiries of other pins, unloads and
\* restarts have happened since (pinServedBoardBaseline, trimPersistedOlderThan,
\* unloadBoard).
ServedBaselineIsReplayable == \A p \in pins : Replayable(p)

\* The replay log begins no later than the last edit saved, the saved file is
\* where the last save has left it, and every pin lies within the log: the
\* inductive invariant behind ServedBaselineIsReplayable, on a board that is
\* never cleared (mutation_log.mjs, saveWithLock).
LogInv ==
  /\ {latestSeq, persistedSeq, minReplayableSeq, old, storedSeq, saveTarget} \subseteq Nat
  /\ pins \subseteq Nat
  /\ minReplayableSeq <= persistedSeq /\ persistedSeq <= storedSeq /\ storedSeq <= latestSeq
  /\ storedSeq = IF saveTarget = None THEN persistedSeq ELSE saveTarget
  /\ ServedBaselineIsReplayable

\* No ban of the tab's user has ended (H12), and no drain loop was suspended when
\* it resynchronised (H11).
Undisturbed(t) == t.access # "past" /\ ~t.overtaken

\* What a tab shows is the board as it was after some edit, with edits of its own
\* drawn ahead of their turn: each edit is drawn once and none before it is
\* left out; what the tab has received is in order, and what it has sent is in
\* order, whatever the others' edits that came between; through reconnections,
\* refused baselines and resynchronisations.  When the tab is at rest,
\* authoritativeSeq says which edit that is (ReplayModule).
ShowsAPrefix ==
  \A c \in Client : Undisturbed(client[c]) =>
    LET t     == client[c]
        shown == {t.view[p].edit : p \in DOMAIN t.view} \ {None} IN
    /\ \A n \in shown : 1..n \subseteq shown
    /\ \A p, q \in DOMAIN t.view :
         (p < q /\ None \notin {t.view[p].edit, t.view[q].edit}) =>
           \/ t.view[p].edit < t.view[q].edit
           \/ t.view[p].edit > t.view[q].edit /\ t.view[p].own /\ ~t.view[q].own
    /\ t.loops = << >> => shown = 1..t.seq

\* A tab that is connected misses nothing: what it has drawn, what is queued
\* and what is on its way lead from edit to edit up to the board's latest, so
\* that the gap branches of ReplayModule are never taken; and an edit of its own
\* that it has drawn and that has no number is on its way to the server or back,
\* so that nothing stays on its board that is not on the others'.
StreamIsComplete ==
  \A c \in Client : LET t == client[c] IN
    (Undisturbed(t) /\ t.socket # None /\ IsOpen(c, t.socket) /\ t.loops = << >>) =>
      LET x    == conn[c][t.socket]
          rest == t.queue \o x.wire
          ends == <<t.seq>> \o [i \in DOMAIN rest |-> rest[i].to] IN
      /\ \A i \in DOMAIN rest : rest[i].from = ends[i]
      /\ ends[Len(ends)] = latestSeq
      /\ \A p \in DOMAIN t.view : t.view[p].edit = None =>
           \/ \E i \in DOMAIN rest : IsOwn(t, rest[i]) /\ rest[i].mutation = p
           \/ \E i \in DOMAIN x.up : x.up[i] = p

\* When edits and faults end, every tab comes to show the board, and can write
\* again: no tab is refused for ever, and none stays at an old edit.
CaughtUp(c) == LET t == client[c] IN
  /\ ~t.awaiting /\ t.queue = << >> /\ t.loops = << >>
  /\ t.seq = latestSeq
EveryoneCatchesUp == <>[](\A c \in Client : Undisturbed(client[c]) => CaughtUp(c))

\* Whatever loops of an earlier connection are still suspended when a tab
\* resynchronises, the tab is connected and can write again in the end.
EveryoneReconnects ==
  <>[](\A c \in Client : ~client[c].awaiting /\ client[c].socket # None
                          /\ IsOpen(c, client[c].socket))
=============================================================================
