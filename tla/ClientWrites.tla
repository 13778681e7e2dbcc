---------------------------- MODULE ClientWrites ----------------------------
(***************************************************************************)
(* The edits of one browser tab, from the stroke drawn at once on its      *)
(* screen to the answer of the server.  The tab keeps every edit it has    *)
(* sent, or still has to send, in a buffer, and a journal of how to undo   *)
(* what it drew before it knew; the server puts the edits it does not      *)
(* refuse at once in the queue of the board's session, where the edits of  *)
(* other users and undos wait too.  The connection may be lost, or be cut  *)
(* by the server's rate limits, and then the tab fetches the board again.  *)
(* What is fetched, and how the replay that follows it is found, is        *)
(* BoardReplay; how the server journals an edit, BoardStore.               *)
(***************************************************************************)
EXTENDS Integers, SequencesExt, SequenceParts

CONSTANTS
  Item,        \* the identifiers of items
  MaxWrites,   \* bound: edits this tab draws
  MaxOthers,   \* bound: edits of others, and results of undo
  MaxCuts,     \* bound: lost connections
  MaxUndos,    \* bound: Ctrl+Z pressed
  MaxTokens,   \* bound: times the Turnstile validation runs out
  Allowed      \* the situations, of those named below, that do occur

\* Situations that break a property of this module (README, section 12): an edit
\* of another user on an item with an unanswered edit of this tab; an edit
\* refused and a later one on the same item accepted; a clear that is refused,
\* or drawn over an edit that is refused; an edit answered after a cut, and not
\* by the replay that follows; an undo cut off by a rate limit; a Turnstile
\* answer while an undo waits; an edit the server drops without an answer; a
\* rate limit that is over before the tab notices that it was cut off; an edit
\* drawn while edits kept over a cut have not been drawn again.
Situations == {"crossing", "dependent_accepted", "clear_refused", "resent", "undo_cut",
               "flush_in_undo", "silent_drop", "short_pause", "late_redraw"}
ASSUME WritesAssumption ==
  /\ MaxWrites \in Nat /\ MaxOthers \in Nat /\ MaxCuts \in Nat /\ MaxUndos \in Nat
  /\ MaxTokens \in Nat /\ Allowed \subseteq Situations

VARIABLES
  guarded,    \* whether the board asks this tab for a Turnstile token
  link,       \* "down", "waiting" for the replay, or "joined"
  conn,       \* which connection of the tab this is
  paused,     \* Date.now() < serverRateLimitedUntil
  validated,  \* the tab's Turnstile validation still holds
  asking,     \* a Turnstile challenge runs
  screen,     \* what the tab shows of each item: 0, or the edit that drew it
  buffer,     \* bufferedWrites
  journal,    \* the optimistic journal
  challenged, \* turnstile.pendingWrites
  undo,       \* pendingUndo: "none", "waiting" or "sent"
  again,      \* queuedUndo: how many more undos were asked for
  confirmed,  \* authoritativeSeq
  up, down,   \* messages on their way to the server and to the tab
  closed,     \* the server has closed this connection
  valid,      \* the server's Turnstile validation of this connection
  session,    \* writes and undos in the session queue
  log,        \* accepted edits
  drawn, others, presses, expiries,  \* counters for the bounds
  refused,    \* the edits the server refused (their names), and ...
  abandoned   \* ... those the tab gave up, with a lost connection or because
              \* another user removed what they change

connection == <<link, conn, paused>>
turnstile == <<validated, asking, valid, expiries>>
tab == <<screen, buffer, journal, challenged, undo, again, confirmed, drawn, presses, abandoned>>
server == <<session, log, refused, others>>
vars == <<guarded, connection, turnstile, tab, up, down, closed, server>>

----------------------------------------------------------------------------
(* Edits: [n, type, item, value, rests].  This tab's are numbered from 1, others' *)
(* from -1 down; `value' is what a restoration puts back, `rests' the      *)
(* edits of the item that were not answered when this one was drawn.       *)

Edit(n, type, item, value, rests) ==
  [n |-> n, type |-> type, item |-> item, value |-> value, rests |-> rests]
IsMine(e) == e.n > 0
Blank == [i \in Item |-> 0]

Applies(s, e) == e.type = "update" => s[e.item] # 0
Draw(s, e) ==
  [i \in Item |->
     IF ~Applies(s, e) \/ (e.type # "clear" /\ i # e.item) THEN s[i]
     ELSE CASE e.type \in {"create", "update"} -> e.n
            [] e.type = "restore" -> e.value
            [] e.type \in {"delete", "clear"} -> 0]
DrawAll(s, edits) == FoldLeft(Draw, s, edits)

\* collectOptimisticAffectedIds, collectOptimisticDependencyIds.
Affected(e) == IF e.type = "clear" THEN {} ELSE {e.item}
Dependencies(e) == IF e.type \in {"update", "delete"} THEN {e.item} ELSE {}
Concerns(e, ids) == (Affected(e) \cup Dependencies(e)) \cap ids # {}

----------------------------------------------------------------------------
(* The optimistic journal. *)

NamesIn(entries) == {entries[k].edit.n : k \in DOMAIN entries}
CaptureRollback(s, e) == [i \in IF e.type = "clear" THEN Item ELSE Affected(e) |-> s[i]]
\* The latest entry of the journal on each item the edit needs.
DependsOn(j, e) ==
  {j[k].edit.n : k \in {k \in DOMAIN j :
     \E i \in Dependencies(e) \cap Affected(j[k].edit) :
       \A l \in k+1..Len(j) : i \notin Affected(j[l].edit)}}
Track(j, e, rollback) ==
  Append(SelectSeq(j, LAMBDA x : x.edit.n # e.n),
         [edit |-> e, rollback |-> rollback, dependsOn |-> DependsOn(j, e)])

\* Mutant: the edits drawn upon a refused one stay.
OnlyNamed(j, names) == names

\* expandRejectedIds: an entry only depends on entries before it.
WithDependents(j, names) ==
  FoldLeft(LAMBDA S, x : IF x.dependsOn \cap S # {} THEN S \cup {x.edit.n} ELSE S, names, j)
Promote(j, n) == SelectSeq(j, LAMBDA x : x.edit.n # n)
Kept(j, names) == SelectSeq(j, LAMBDA x : x.edit.n \notin names)
\* applyRejectedEntries: the latest first.
RollBack(s, j, names) ==
  FoldRight(LAMBDA x, t : x.rollback @@ t, SelectSeq(j, LAMBDA x : x.edit.n \in names), s)

\* optimisticPrunePlanForAuthoritativeMessage.
Invalidated(e) == IF e.type \in {"delete", "restore"} THEN {e.item} ELSE {}
RejectedBy(j, e) ==
  IF e.type = "clear" THEN NamesIn(j)
  ELSE WithDependents(j, {j[k].edit.n : k \in {k \in DOMAIN j : Concerns(j[k].edit, Invalidated(e))}})

----------------------------------------------------------------------------
(* The tab's buffer.  These operators take and give the part of the tab's  *)
(* state they change.                                                      *)

Now == [buffer |-> buffer, screen |-> screen, journal |-> journal, undo |-> undo,
        again |-> again, up |-> up]
Becomes(t) ==
  /\ buffer' = t.buffer /\ screen' = t.screen /\ journal' = t.journal
  /\ undo' = t.undo /\ again' = t.again /\ up' = t.up

Message(kind, e) == [kind |-> kind, edit |-> e]
UndoRequest == [kind |-> "undo"]
Queued(t) == {k \in DOMAIN t.buffer : t.buffer[k].state = "queued"}

WritesBut(b, names) == Only(b, {w \in Range(b) : w.edit.n \notin names})
QueuedWrite(e) == [edit |-> e, state |-> "queued", redraw |-> FALSE]
Buffered(t, e) == Append(t.buffer, QueuedWrite(e))
CanBufferWrites == link = "joined" /\ ~paused

\* redrawBufferedWriteIfNeeded.
Redraw(t, w) ==
  IF ~w.redraw THEN t
  ELSE [t EXCEPT !.screen = Draw(@, w.edit),
                 !.journal = Track(@, w.edit, CaptureRollback(t.screen, w.edit))]
Emitted(w) == [w EXCEPT !.state = "inflight", !.redraw = FALSE]

\* The tab's own rate limits let it send the first writes and defer the others:
\* those that wait are sent up to position `last' of the buffer.
PumpBufferedWrites(t, last) ==
  LET first == SubSeq(t.buffer, 1, last)
      sent == Only(first, {w \in Range(first) : w.state = "queued"})
      redrawn == FoldLeft(Redraw, t, sent)
  IN  [t EXCEPT !.buffer = [k \in DOMAIN t.buffer |->
                              IF k <= last THEN Emitted(t.buffer[k]) ELSE t.buffer[k]],
                !.up = t.up \o [k \in DOMAIN sent |-> Message("write", sent[k].edit)],
                !.screen = redrawn.screen, !.journal = redrawn.journal]

FlushPendingUndo(t) ==
  IF t.undo = "waiting" /\ t.buffer = <<>>
  THEN [t EXCEPT !.undo = "sent", !.up = Append(@, UndoRequest)] ELSE t

\* Mutant: the last answer does not send the undo.
ResolveWithoutUndo(t, n) == [t EXCEPT !.buffer = WritesBut(t.buffer, {n})]

ResolveBufferedWrite(t, n) ==
  IF n \notin NamesIn(t.buffer) THEN t
  ELSE FlushPendingUndo([t EXCEPT !.buffer = WritesBut(t.buffer, {n})])
PruneBufferedWrites(t, e) ==
  IF t.buffer = <<>> THEN t
  ELSE IF e.type = "clear" THEN [t EXCEPT !.buffer = <<>>, !.undo = "none", !.again = 0]
  ELSE [t EXCEPT !.buffer = Only(t.buffer, {w \in Range(t.buffer) : ~Concerns(w.edit, Invalidated(e))})]

\* handleMessage, for an edit that is not an answer to this connection.
HandleMessage(t, e) ==
  LET resolved == IF IsMine(e) THEN ResolveBufferedWrite(t, e.n) ELSE t
      pruned == PruneBufferedWrites(resolved, e)
  IN  [pruned EXCEPT !.screen = Draw(@, e)]
HandleAll(t, edits) ==
  LET handled[k \in 0..Len(edits)] ==
        IF k = 0 THEN t ELSE HandleMessage(handled[k - 1], edits[k])
  IN  handled[Len(edits)]
\* pruneForAuthoritativeMessage.
PruneJournal(t, e) ==
  LET names == RejectedBy(t.journal, e)
  IN  [t EXCEPT !.journal = Kept(@, names), !.screen = RollBack(@, t.journal, names)]

----------------------------------------------------------------------------
(* Which edits may meet. *)

EditsIn(messages) == {messages[k].edit : k \in {k \in DOMAIN messages : messages[k].kind = "write"}}
EditsOf(entries) == {entries[k].edit : k \in DOMAIN entries}
OnTheWay == EditsIn(up) \cup EditsIn(session)
Unanswered == EditsOf(buffer) \cup EditsOf(journal) \cup Range(challenged) \cup OnTheWay
TheirsComing ==
  {down[k].edit : k \in {k \in DOMAIN down : down[k].kind = "theirs"}}
    \cup {session[k].edit : k \in {k \in DOMAIN session :
                                   session[k].kind = "write" /\ session[k].conn # conn}}
Meet(d, e) == d.type = "clear" \/ e.type = "clear" \/ d.item = e.item
RejectionComing ==
  \/ \E k \in DOMAIN down : down[k].kind = "rejected"
  \/ \E e \in EditsOf(buffer) : e.rests \cap refused # {}
Apart(e, edits) == "crossing" \in Allowed \/ \A d \in edits : ~Meet(d, e)

board == DrawAll(Blank, log)
\* Tools name new items afresh.
Unused(i) ==
  /\ screen[i] = 0
  /\ \A e \in Range(log) \cup Unanswered : e.item # i
Sensible(s, type, i) ==
  CASE type = "create" -> Unused(i)
    [] type \in {"update", "delete"} -> s[i] # 0
    [] type = "clear" -> i = CHOOSE j \in Item : TRUE
Types == {"create", "update", "delete", "clear"}

----------------------------------------------------------------------------
(* The tab. *)

\* drawAndSend: not while an undo waits, and not before the replay.
DrawAndSend ==
  /\ drawn < MaxWrites /\ undo = "none" /\ CanBufferWrites
  /\ \E type \in Types, i \in Item :
       LET on == {d \in EditsOf(buffer) \cup Range(challenged) : d.item = i}
           rests == {d.n : d \in on} \cup UNION {d.rests : d \in on}
           e == Edit(drawn + 1, type, i, 0, rests)
           shown == [Now EXCEPT !.screen = Draw(@, e)]
           rollback == CaptureRollback(screen, e)
       IN  /\ Sensible(screen, type, i)
           /\ Apart(e, TheirsComing)
           /\ "late_redraw" \in Allowed \/ ~ \E w \in Range(buffer) : w.redraw
           /\ type = "clear" => "clear_refused" \in Allowed \/ ~RejectionComing
           /\ IF guarded /\ ~validated
              THEN /\ challenged' = Append(challenged, e)
                   /\ Becomes([shown EXCEPT !.journal = Track(@, e, rollback)])
              ELSE LET queued == [shown EXCEPT !.buffer = Buffered(shown, e)]
                   IN  \E last \in {0} \cup Queued(queued) :
                         LET sent == PumpBufferedWrites(queued, last)
                         IN  /\ Becomes([sent EXCEPT !.journal = Track(@, e, rollback)])
                             /\ UNCHANGED challenged
  /\ drawn' = drawn + 1
  /\ UNCHANGED <<guarded, connection, turnstile, confirmed, presses, abandoned, down, closed,
                 server>>

\* The timer of scheduleBufferedWriteFlush.
Pump ==
  /\ CanBufferWrites
  /\ \E last \in Queued(Now) : Becomes(PumpBufferedWrites(Now, last))
  /\ UNCHANGED <<guarded, connection, turnstile, challenged, confirmed, drawn, presses,
                 abandoned, down, closed, server>>

PauseEnds ==
  /\ paused /\ paused' = FALSE
  /\ "short_pause" \in Allowed \/ ~closed
  /\ UNCHANGED <<guarded, link, conn, turnstile, tab, up, down, closed, server>>

\* Ctrl+Z.  It waits for the answers to all edits.
PressUndo ==
  /\ presses < MaxUndos /\ CanBufferWrites
  /\ "flush_in_undo" \in Allowed \/ challenged = <<>>
  /\ presses' = presses + 1
  /\ Becomes(IF undo = "none" THEN FlushPendingUndo([Now EXCEPT !.undo = "waiting"])
             ELSE [Now EXCEPT !.again = @ + 1])
  /\ UNCHANGED <<guarded, connection, turnstile, challenged, confirmed, drawn, abandoned, down,
                 closed, server>>

\* refresh, for the writes that wait: the challenge gives a token.
AskToken ==
  /\ guarded /\ challenged # <<>> /\ ~asking /\ link # "down"
  /\ asking' = TRUE
  /\ up' = Append(up, [kind |-> "token"])
  /\ UNCHANGED <<guarded, connection, validated, valid, expiries, tab, down, closed, server>>

\* The tab's validation ends five seconds before the server's.
ValidationEnds ==
  /\ validated /\ expiries < MaxTokens
  /\ validated' = FALSE /\ expiries' = expiries + 1
  /\ UNCHANGED <<guarded, connection, asking, valid, tab, up, down, closed, server>>
ServerValidationEnds ==
  /\ valid /\ ~validated /\ ~asking
  /\ "silent_drop" \in Allowed \/ (buffer = <<>> /\ EditsIn(up) = {})
  /\ valid' = FALSE
  /\ UNCHANGED <<guarded, connection, validated, asking, expiries, tab, up, down, closed, server>>

----------------------------------------------------------------------------
(* The tab receives. *)

Received == link # "down" /\ down # <<>> /\ down' = Tail(down)
GaveUp(t) == abandoned' = abandoned \cup (NamesIn(buffer) \ NamesIn(t.buffer))

OwnBroadcast ==
  /\ Received /\ Head(down).kind = "mine"
  /\ LET n == Head(down).edit.n
     IN  Becomes(ResolveBufferedWrite([Now EXCEPT !.journal = Promote(@, n)], n))
  /\ confirmed' = confirmed + 1
  /\ UNCHANGED <<guarded, connection, turnstile, challenged, drawn, presses, abandoned,
                 closed, server>>

OtherBroadcast ==
  /\ Received /\ Head(down).kind = "theirs"
  /\ \E t \in {HandleMessage(PruneJournal(Now, Head(down).edit), Head(down).edit)} :
       Becomes(t) /\ GaveUp(t)
  /\ confirmed' = confirmed + 1
  /\ UNCHANGED <<guarded, connection, turnstile, challenged, drawn, presses, closed, server>>

\* processAuthoritativeReplayBatch, completeAuthoritativeReplay.
Replay ==
  /\ Received /\ Head(down).kind = "batch"
  /\ link' = "joined"
  /\ \E t \in {HandleAll(Now, Head(down).edits)} :
     \E last \in {0} \cup (IF paused THEN {} ELSE Queued(t)) :
       Becomes(PumpBufferedWrites(t, last)) /\ GaveUp(t)
  /\ confirmed' = confirmed + Len(Head(down).edits)
  /\ UNCHANGED <<guarded, conn, paused, turnstile, challenged, drawn, presses, closed, server>>

MutationRejected ==
  /\ Received /\ Head(down).kind = "rejected"
  /\ LET n == Head(down).n
         t == ResolveBufferedWrite(Now, n)
         names == IF n \in NamesIn(journal) THEN WithDependents(journal, {n}) ELSE {}
     IN  Becomes([t EXCEPT !.journal = Kept(@, names), !.screen = RollBack(@, journal, names)])
  /\ UNCHANGED <<guarded, connection, turnstile, challenged, confirmed, drawn, presses,
                 abandoned, closed, server>>

RateLimited ==
  /\ Received /\ Head(down).kind = "limited"
  /\ paused' = TRUE
  /\ buffer' = [k \in DOMAIN buffer |-> [buffer[k] EXCEPT !.state = "queued", !.redraw = TRUE]]
  /\ UNCHANGED <<guarded, link, conn, turnstile, screen, journal, challenged, undo, again,
                 confirmed, drawn, presses, abandoned, up, closed, server>>

\* Mutant: only one write waits for a token.
SendLatest(t, edits) == IF edits = <<>> THEN t ELSE [t EXCEPT !.buffer = Buffered(t, Last(edits))]

\* submitTurnstileToken: the writes that waited are sent, whatever becomes of them.
SendAll(t, edits) ==
  IF ~CanBufferWrites \/ t.undo # "none" THEN t
  ELSE [t EXCEPT !.buffer = t.buffer \o [k \in DOMAIN edits |-> QueuedWrite(edits[k])]]
TurnstileAnswer ==
  /\ Received /\ Head(down).kind = "validation"
  /\ asking' = FALSE /\ validated' = Head(down).ok
  /\ IF Head(down).ok
     THEN \E t \in {SendAll(Now, challenged)} :
          \E last \in {0} \cup (IF CanBufferWrites THEN Queued(t) ELSE {}) :
            Becomes(PumpBufferedWrites(t, last)) /\ challenged' = <<>>
     ELSE Becomes(Now) /\ UNCHANGED challenged
  /\ UNCHANGED <<guarded, connection, valid, expiries, confirmed, drawn, presses, abandoned,
                 closed, server>>

UndoAnswer ==
  /\ Received /\ Head(down).kind = "undone"
  /\ Becomes(IF again = 0 THEN [Now EXCEPT !.undo = "none"]
             ELSE FlushPendingUndo([Now EXCEPT !.undo = "waiting", !.again = @ - 1]))
  /\ UNCHANGED <<guarded, connection, turnstile, challenged, confirmed, drawn, presses, abandoned,
                 closed, server>>

\* The DISCONNECT event: beginAuthoritativeResync keeps the buffer, and the
\* undo, of a tab that was cut off by a rate limit.
Disconnected ==
  /\ link # "down"
  /\ IF closed THEN down = <<>> ELSE conn < MaxCuts
  /\ link' = "down" /\ closed' = FALSE
  /\ up' = <<>> /\ down' = <<>>
  /\ journal' = <<>> /\ challenged' = <<>>
  /\ asking' = FALSE /\ valid' = FALSE
  /\ IF paused THEN UNCHANGED <<buffer, undo, again>>
     ELSE buffer' = <<>> /\ undo' = "none" /\ again' = 0
  /\ abandoned' = abandoned \cup {e.n : e \in Range(challenged)}
                    \cup (IF paused THEN {} ELSE NamesIn(buffer))
  /\ UNCHANGED <<guarded, conn, paused, validated, expiries, screen, confirmed, drawn, presses, server>>

BatchAfter(seq) == [kind |-> "batch", edits |-> SubSeq(log, seq + 1, Len(log))]
\* refreshAuthoritativeBaseline and the handshake: any baseline will do.
Reconnect ==
  /\ link = "down" /\ link' = "waiting"
  /\ conn' = conn + 1
  /\ \E seq \in 0..Len(log) :
       /\ \/ "resent" \in Allowed
          \/ NamesIn(buffer) \cap
               {e.n : e \in Range(SubSeq(log, 1, seq)) \cup EditsIn(session)} = {}
       /\ confirmed' = seq
       /\ screen' = DrawAll(Blank, SubSeq(log, 1, seq))
       /\ down' = <<BatchAfter(seq)>>
  /\ validated' = FALSE
  /\ UNCHANGED <<guarded, paused, asking, valid, expiries, buffer, journal, challenged, undo, again,
                 drawn, presses, abandoned, up, closed, server>>

----------------------------------------------------------------------------
(* The server. *)

Sends(messages) == down' = IF link = "down" \/ closed THEN down ELSE down \o messages
Rejection(e) == [kind |-> "rejected", n |-> e.n]
\* Why: a field too large, a blocked tool, a ban, a read-only board.
MayRefuse(e) ==
  "clear_refused" \in Allowed \/ \A d \in Unanswered : d.type = "clear" => d.n < e.n
Refuse(e) == refused' = refused \cup {e.n}

Takes == link # "down" /\ ~closed /\ up # <<>> /\ up' = Tail(up)
ServerGetsWrite ==
  /\ Takes /\ Head(up).kind = "write"
  /\ LET e == Head(up).edit IN
     IF guarded /\ ~valid
     THEN UNCHANGED <<down, session, refused>>
     ELSE \/ /\ session' = Append(session, [kind |-> "write", edit |-> e, conn |-> conn])
             /\ UNCHANGED <<down, refused>>
          \/ /\ MayRefuse(e) /\ Refuse(e)
             /\ Sends(<<Rejection(e)>>)
             /\ UNCHANGED session
  /\ UNCHANGED <<guarded, connection, turnstile, tab, closed, log, others>>
ServerGetsUndo ==
  /\ Takes /\ Head(up).kind = "undo"
  /\ session' = Append(session, [kind |-> "undo", conn |-> conn])
  /\ UNCHANGED <<guarded, connection, turnstile, tab, down, closed, log, refused, others>>
VerifyToken(ok) ==
  /\ Takes /\ Head(up).kind = "token"
  /\ valid' = (valid \/ ok)
  /\ Sends(<<[kind |-> "validation", ok |-> ok]>>)
  /\ UNCHANGED <<guarded, connection, validated, asking, expiries, tab, closed, server>>

\* enforceIpRateLimit: the message that exceeds a limit closes the socket.
Limit ==
  /\ Takes /\ conn < MaxCuts
  /\ Head(up).kind \in {"write", "token"}
  /\ guarded => "silent_drop" \in Allowed
  /\ "undo_cut" \in Allowed \/ (undo # "sent" /\ again = 0)
  /\ "resent" \in Allowed \/ \A e \in EditsIn(session) : e.rests \cap refused = {}
  /\ closed' = TRUE
  /\ Sends(<<[kind |-> "limited"]>>)
  /\ UNCHANGED <<guarded, connection, turnstile, tab, server>>

Accept(e) == log' = Append(log, e)
\* acceptPersistentMutation: the answer goes to the socket the write came from;
\* a newer socket of the tab gets it like one of another user.
CommitWrite ==
  /\ session # <<>> /\ Head(session).kind = "write"
  /\ session' = Tail(session)
  /\ LET e == Head(session).edit
         live == Head(session).conn = conn
         accept == Applies(board, e) /\ ("dependent_accepted" \in Allowed \/ e.rests \cap refused = {})
     IN  \/ /\ accept /\ Accept(e)
            /\ Sends(<<Message(IF live THEN "mine" ELSE "theirs", e)>>)
            /\ UNCHANGED refused
         \/ /\ accept => e.type = "update" /\ MayRefuse(e)
            /\ "resent" \in Allowed \/ (live /\ link # "down" /\ ~closed) \/ e.n \notin NamesIn(buffer)
            /\ Refuse(e)
            /\ IF live THEN Sends(<<Rejection(e)>>) ELSE UNCHANGED down
            /\ UNCHANGED log
  /\ UNCHANGED <<guarded, connection, turnstile, tab, up, closed, others>>

\* reverseEdit: it may find nothing to undo, or put back one item.
CommitUndo ==
  /\ session # <<>> /\ Head(session).kind = "undo"
  /\ session' = Tail(session)
  /\ LET live == Head(session).conn = conn /\ link # "down" /\ ~closed
     IN  \/ /\ Sends(IF live THEN <<[kind |-> "undone"]>> ELSE <<>>)
            /\ UNCHANGED <<log, others>>
         \/ /\ live /\ others < MaxOthers
            /\ others' = others + 1
            /\ \E i \in {e.item : e \in Range(log)}, gone \in BOOLEAN :
                 LET e == Edit(-others', "restore", i, IF gone THEN 0 ELSE -others', {})
                 IN  /\ Apart(e, Unanswered)
                     /\ Accept(e)
                     /\ Sends(<<Message("theirs", e), [kind |-> "undone"]>>)
  /\ UNCHANGED <<guarded, connection, turnstile, tab, up, closed, refused>>

OthersEdit ==
  /\ others < MaxOthers /\ others' = others + 1
  /\ \E type \in Types, i \in Item :
       LET e == Edit(-others', type, i, 0, {})
       IN  /\ Sensible(board, type, i)
           /\ Apart(e, Unanswered)
           /\ Accept(e)
           /\ Sends(<<Message("theirs", e)>>)
  /\ UNCHANGED <<guarded, connection, turnstile, tab, up, closed, session, refused>>

----------------------------------------------------------------------------
Init ==
  /\ guarded \in BOOLEAN
  /\ link = "joined" /\ conn = 0 /\ paused = FALSE
  /\ validated = FALSE /\ asking = FALSE /\ valid = FALSE /\ expiries = 0
  /\ screen = Blank /\ buffer = <<>> /\ journal = <<>> /\ challenged = <<>>
  /\ undo = "none" /\ again = 0 /\ confirmed = 0
  /\ drawn = 0 /\ presses = 0 /\ abandoned = {}
  /\ up = <<>> /\ down = <<>> /\ closed = FALSE
  /\ session = <<>> /\ log = <<>> /\ refused = {} /\ others = 0

TabReceives ==
  \/ OwnBroadcast \/ OtherBroadcast \/ Replay \/ MutationRejected
  \/ RateLimited \/ TurnstileAnswer \/ UndoAnswer
ServerReceives == ServerGetsWrite \/ ServerGetsUndo \/ (\E ok \in BOOLEAN : VerifyToken(ok)) \/ Limit
Commit == CommitWrite \/ CommitUndo

Next ==
  \/ DrawAndSend \/ Pump \/ PauseEnds \/ PressUndo \/ AskToken
  \/ ValidationEnds \/ ServerValidationEnds
  \/ TabReceives \/ Disconnected \/ Reconnect
  \/ ServerReceives \/ Commit \/ OthersEdit

\* Messages arrive, timers fire, the session queue moves on, a closed socket is
\* noticed, and a token is accepted if asked for again and again.
Fairness ==
  /\ WF_vars(TabReceives) /\ WF_vars(ServerReceives) /\ WF_vars(Commit)
  /\ WF_vars(Pump) /\ WF_vars(PauseEnds) /\ WF_vars(AskToken)
  /\ WF_vars(closed /\ Disconnected) /\ WF_vars(Reconnect)
  /\ SF_vars(VerifyToken(TRUE))

Spec == Init /\ [][Next]_vars /\ Fairness

----------------------------------------------------------------------------
(* Properties. *)

Names == 1..MaxWrites
Edits == [n : -MaxOthers..MaxWrites, type : Types \cup {"restore"}, item : Item,
          value : -MaxOthers..0, rests : SUBSET Names]
\* Every variable keeps its shape, and an edit has one place in the buffer and one in the journal.
TypeOK ==
  /\ guarded \in BOOLEAN /\ link \in {"down", "waiting", "joined"} /\ conn \in 0..MaxCuts
  /\ {paused, validated, asking, valid, closed} \subseteq BOOLEAN
  /\ screen \in [Item -> -MaxOthers..MaxWrites]
  /\ EditsOf(buffer) \cup EditsOf(journal) \cup Range(challenged) \cup Range(log) \subseteq Edits
  /\ Cardinality(NamesIn(buffer)) = Len(buffer) /\ Cardinality(NamesIn(journal)) = Len(journal)
  /\ undo \in {"none", "waiting", "sent"} /\ again \in 0..MaxUndos
  /\ confirmed \in 0..Len(log) /\ refused \cup abandoned \subseteq Names

\* What the tab shows is the board as far as the server told it, and on top of
\* that its own edits that are not answered.
ScreenIsBoardPlusPending ==
  link = "joined" =>
    screen = DrawAll(DrawAll(Blank, SubSeq(log, 1, confirmed)), [k \in DOMAIN journal |-> journal[k].edit])

\* The server accepts the tab's edits in the order they were drawn, and each
\* once, although a tab that was cut off sends them again; an edit that was
\* drawn is accepted, refused or still on its way, unless the connection was lost.
EditsArriveOnceInOrder ==
  /\ \A k, l \in DOMAIN log : k < l /\ IsMine(log[k]) /\ IsMine(log[l]) => log[k].n < log[l].n
  /\ 1..drawn \subseteq {e.n : e \in Range(log) \cup OnTheWay} \cup NamesIn(buffer)
                          \cup {e.n : e \in Range(challenged)} \cup refused \cup abandoned

\* Every edit and every undo is answered in the end, and the tab shows the board.
Settled ==
  /\ link = "joined" /\ buffer = <<>> /\ journal = <<>> /\ challenged = <<>>
  /\ undo = "none" /\ confirmed = Len(log)
EverythingIsAnswered == []<>Settled
=============================================================================
