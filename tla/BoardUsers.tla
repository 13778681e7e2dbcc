----------------------------- MODULE BoardUsers -----------------------------
(***************************************************************************)
(* Who is on a board and what they may do: presence and display names      *)
(* (socket/presence.mjs, user_names.mjs), reports and bans (reports.mjs,   *)
(* bans.mjs), temporary moderators, the access that follows from them      *)
(* (auth/board_capabilities.mjs), and what each browser tab is told of it  *)
(* over its own connection (board_presence_module.js, board_user_name.js,  *)
(* board_access_module.js, board_connection_module.js).                    *)
(*                                                                         *)
(* One board, open to everyone (no AUTH_SECRET_KEY, not read-only); every  *)
(* tab has a user secret.  Time is counted in units that no step depends   *)
(* on; a timer fires at its time or later.  A request of a tab is modelled *)
(* where the server handles it.  The rows that stay visible for 3.5 s      *)
(* after a user has left, colours, sizes and positions are left out.       *)
(***************************************************************************)
EXTENDS Naturals, SequencesExt

CONSTANTS
  Tab,         \* browser tabs
  Secret, Ip,  \* user secrets (identities; also browsers) and addresses
  SecretOf,    \* the secret of each tab
  IpOf,        \* the address of each tab
  Permanent,   \* the tabs of configured moderators
  Others,      \* configured moderators act whose own tabs are not among Tab
  Name,        \* display names a user chooses
  UrlName,     \* the ?name= each tab was opened with, or None
  BanTime,     \* durations of bans, 0 for a warning
  GrantTime,   \* durations of temporary grants, 0 to revoke
  None,
  MaxConn,     \* bound on the sockets of each tab that are still known anywhere
  MaxTime,     \* bound on the ends of bans and grants
  MaxEvents    \* bound on reports, grants, renames, lost connections and
               \* dropped boards

ASSUME UsersAssumption ==
  /\ IsFiniteSet(Tab)
  /\ SecretOf \in [Tab -> Secret] /\ IpOf \in [Tab -> Ip] /\ Permanent \subseteq Tab
  /\ Others \in BOOLEAN
  /\ None \notin Name \union Nat /\ UrlName \in [Tab -> Name \union {None}]
  /\ BanTime \subseteq Nat /\ GrantTime \subseteq Nat
  /\ MaxConn \in [Tab -> Nat \ {0}]
  /\ MaxTime \in Nat /\ MaxEvents \in Nat

VARIABLES
  \* --- server ---
  now,
  bans,     \* expiry of the ban of each secret and each address
  grants,   \* expiry of the temporary grant of each secret
  users,    \* boardUsers: the presence record of each socket on the board
  closing,  \* the sockets notifyModerationDisconnectThenClose will close
  \* --- network and browsers ---
  wire,     \* what is on its way to each socket
  tab,      \* the state of each tab
  cookie,   \* the name cookie of each browser
  events

server == <<now, bans, grants, users, closing>>
vars   == <<server, wire, tab, cookie, events>>

Socket == UNION {{t} \X (1..MaxConn[t]) : t \in Tab}
Owner(s) == s[1]
Identity(s) == SecretOf[s[1]]

IsOn(s) == users[s] # None
Attached(t) == <<t, tab[t].conn>>

NewTab ==
  [ conn    |-> 0,         \* connection.socket, 0 when there is none
    state   |-> "connecting",  \* "due" (a start() is scheduled), "connecting",
                               \* "connected", "held" (waits for its user)
    retry   |-> FALSE,     \* a start() is scheduled although one has happened
    view    |-> [s \in Socket |-> None],           \* presence.users
    told    |-> [edit |-> TRUE, moderate |-> FALSE],  \* access.boardState
    timer   |-> None,      \* accessRefreshTimerId: when it fires
    notice  |-> None,      \* pendingModerationDisconnect
    urlName |-> None,      \* names.urlName
    wanted  |-> None ]     \* the rename that names.receive has asked for

Init ==
  /\ now = 0
  /\ bans = [secrets |-> [x \in Secret |-> 0], ips |-> [x \in Ip |-> 0]]
  /\ grants = [x \in Secret |-> 0]
  /\ users = [s \in Socket |-> None]
  /\ closing = {}
  /\ wire = [s \in Socket |-> << >>]
  /\ tab = [t \in Tab |-> [NewTab EXCEPT !.urlName = UrlName[t]]]
  /\ cookie = [x \in Secret |-> None]
  /\ events = 0

\* Time that nobody waits for is not counted.
Awaited == \/ \E x \in Secret : bans.secrets[x] > now \/ grants[x] > now
           \/ \E x \in Ip : bans.ips[x] > now
           \/ \E t \in Tab : tab[t].timer # None /\ tab[t].timer > now

Tick ==
  /\ Awaited
  /\ now' = now + 1
  /\ UNCHANGED <<bans, grants, users, closing, wire, tab, cookie, events>>

-----------------------------------------------------------------------------
(* Access (readAccessState): permanent moderators first, then temporary     *)
(* ones, who are not subject to bans, then bans by secret or address.       *)

BanEnd(t) == Max({bans.secrets[SecretOf[t]], bans.ips[IpOf[t]]})

GrantEnd(g, t) == IF t \in Permanent THEN 0 ELSE g[SecretOf[t]]

Moderates(g, t) == t \in Permanent \/ GrantEnd(g, t) > now
Banned(g, t)    == ~Moderates(g, t) /\ BanEnd(t) > now

\* boardState: "left" is accessRefreshAfterMs.
Access(g, t) ==
  [ edit     |-> ~Banned(g, t),
    moderate |-> Moderates(g, t),
    left     |-> CASE GrantEnd(g, t) > now -> GrantEnd(g, t) - now
                   [] Banned(g, t)         -> BanEnd(t) - now
                   [] OTHER                -> None ]

User(t, name) == LET a == Access(grants, t) IN
  [name |-> name, edit |-> a.edit, moderate |-> a.moderate]

-----------------------------------------------------------------------------
(* Messages.  A record without a chosen name has the generated one, here    *)
(* None.  What a joining socket is sent in one go (the users, BOARDSTATE)   *)
(* is one message.                                                          *)

Joined(s, u)  == [kind |-> "joined", socket |-> s, user |-> u]
Left(s)       == [kind |-> "left", socket |-> s]
BoardState(a) == [kind |-> "state", access |-> a]
Notice        == [kind |-> "notice"]
Bootstrap(us, a) == [kind |-> "bootstrap", users |-> us, access |-> a]

\* Only an attached tab will read what is sent to its socket.
Hears(s) == IsOn(s) /\ tab[Owner(s)].conn = s[2]

\* The wires after each socket on the board has been sent some messages.
Sent(messages) ==
  [s \in Socket |-> IF Hears(s) THEN wire[s] \o messages[s] ELSE wire[s]]

-----------------------------------------------------------------------------
(* Joining and leaving *)

\* One of the bounded events.
Event == events < MaxEvents /\ events' = events + 1

\* Nothing refers to socket s any more: its number stands for a new socket.
IsFresh(s) ==
  /\ ~IsOn(s) /\ tab[Owner(s)].conn # s[2] /\ wire[s] = << >>
  /\ \A t \in Tab : tab[t].conn # 0 => tab[t].view[s] = None
  /\ \A x \in Socket : \A i \in DOMAIN wire[x] :
       /\ wire[x][i].kind \in {"joined", "left"} => wire[x][i].socket # s
       /\ wire[x][i].kind = "bootstrap" => wire[x][i].users[s] = None

\* Mutant: a tab keeps the name its own cookie has.
JoinNameOwn(t) ==
  IF tab[t].urlName # None THEN tab[t].urlName ELSE cookie[SecretOf[t]]

\* The name a tab connects with, unless its identity has one on the board.
JoinName(t) ==
  LET peers == {s \in Socket : IsOn(s) /\ Identity(s) = SecretOf[t]
                               /\ users[s].name # None} IN
  IF peers # {} THEN users[CHOOSE s \in peers : TRUE].name
  ELSE IF tab[t].urlName # None THEN tab[t].urlName ELSE cookie[SecretOf[t]]

\* The handshake of a tab and bootstrapSocketBoard.
Join(t, k) ==
  LET s == <<t, k>>
      u == User(t, JoinName(t)) IN
  /\ tab[t].state = "connecting"
  /\ IsFresh(s) /\ \A j \in 1..(k - 1) : ~IsFresh(<<t, j>>)
  /\ users' = [users EXCEPT ![s] = u]
  /\ wire' = [Sent([x \in Socket |-> <<Joined(s, u)>>])
                EXCEPT ![s] = <<Bootstrap(users', Access(grants, t))>>]
  /\ tab' = [tab EXCEPT ![t].state = "connected", ![t].conn = k]
  /\ UNCHANGED <<now, bans, grants, closing, cookie, events>>

\* Mutant: nobody hears that the sockets are gone.
RemovedSilently(gone, ws) == ws

\* removeBoardUser for a set of sockets: the others are told.
Removed(gone, ws) ==
  [x \in Socket |-> IF Hears(x) /\ x \notin gone
                    THEN ws[x] \o SetToSeq({Left(s) : s \in gone}) ELSE ws[x]]

RemoveUsers(gone, ws) ==
  /\ users' = [s \in Socket |-> IF s \in gone THEN None ELSE users[s]]
  /\ closing' = closing \ gone
  /\ wire' = Removed({s \in gone : IsOn(s)}, ws)

\* The server notices that the tab has closed its socket, or loses it.
Leave(s) ==
  /\ IsOn(s)
  /\ IF tab[Owner(s)].conn = s[2] THEN Event ELSE UNCHANGED events
  /\ RemoveUsers({s}, wire)
  /\ UNCHANGED <<now, bans, grants, tab, cookie>>

\* The acknowledgement of the notice arrives, or 150 ms have passed.
CloseModerated(s) ==
  /\ s \in closing
  /\ RemoveUsers({s}, wire)
  /\ UNCHANGED <<now, bans, grants, tab, cookie, events>>

\* dropLoadedBoardInstance: every socket is detached, then closed.
DropBoard ==
  /\ \E s \in Socket : IsOn(s)
  /\ Event
  /\ users' = [s \in Socket |-> None]
  /\ closing' = {}
  /\ UNCHANGED <<now, bans, grants, wire, tab, cookie>>

-----------------------------------------------------------------------------
(* Reports and bans (handleReportUserMessage) *)

IsSelf(s, x) == s = x \/ Identity(s) = Identity(x)

CanAct(s, x) == IsOn(s) /\ IsOn(x)

\* One who may moderate, another user than x when "other" says so, is on the
\* board: a tab of the model or someone else's.
Moderator(tabs, x, other) ==
  \/ Others
  \/ \E s \in Socket : /\ IsOn(s) /\ Owner(s) \in tabs
                       /\ other => ~IsSelf(s, x)

\* A user reports a moderator: the reporter is disconnected, nothing else.
ReportModerator(s, x) ==
  /\ Event /\ CanAct(s, x)
  /\ ~Banned(grants, Owner(s))
  /\ ~IsSelf(s, x)
  /\ Moderates(grants, Owner(x))
  /\ RemoveUsers({s}, wire)
  /\ UNCHANGED <<now, bans, grants, tab, cookie>>

\* banBoardUser: a later ban replaces an earlier one, longer or not.
Ban(s, d) ==
  IF d = 0 THEN bans
  ELSE [bans EXCEPT !.secrets[Identity(s)] = now + d, !.ips[IpOf[Owner(s)]] = now + d]

\* A moderator bans or warns a user.
ReportByModerator(x, d) ==
  /\ Event /\ IsOn(x)
  /\ now + d <= MaxTime
  /\ Moderator({t \in Tab : Moderates(grants, t)}, x, TRUE)
  /\ ~Moderates(grants, Owner(x))
  /\ bans' = Ban(x, d)
  /\ closing' = closing \union {x}
  /\ wire' = Sent([y \in Socket |-> IF y = x THEN <<Notice>> ELSE << >>])
  /\ UNCHANGED <<now, grants, users, tab, cookie>>

\* A user reports another one: both are disconnected.
ReportByPeer(s, x) ==
  /\ Event /\ CanAct(s, x)
  /\ ~Moderates(grants, Owner(s)) /\ ~Banned(grants, Owner(s))
  /\ ~IsSelf(s, x)
  /\ ~Moderates(grants, Owner(x))
  /\ users' = [users EXCEPT ![s] = None]
  /\ closing' = (closing \ {s}) \union {x}
  /\ wire' = Removed({s}, Sent([y \in Socket |-> IF y = x THEN <<Notice>> ELSE << >>]))
  /\ UNCHANGED <<now, bans, grants, tab, cookie>>

-----------------------------------------------------------------------------
(* Grants and names *)

\* Mutant: the tabs of the identity are told with the next board state only.
RefreshNobody(g, secret) == UNCHANGED <<users, wire>>

\* refreshUserAccess: the records of every tab of an identity, and what the
\* tabs and the others are told, follow the new grants.
RefreshAccess(g, secret) ==
  LET mine == {s \in Socket : IsOn(s) /\ Identity(s) = secret}
      new  == [s \in mine |-> [users[s] EXCEPT
                 !.edit = Access(g, Owner(s)).edit,
                 !.moderate = Access(g, Owner(s)).moderate]]
      news == SetToSeq({Joined(s, new[s]) : s \in mine}) IN
  /\ users' = [s \in Socket |-> IF s \in mine THEN new[s] ELSE users[s]]
  /\ wire' = Sent([y \in Socket |-> (IF y \in mine THEN <<BoardState(Access(g, Owner(y)))>>
                                    ELSE << >>) \o news])

\* handleSetTemporaryModeratorMessage
SetTemporaryModerator(x, d) ==
  /\ Event /\ IsOn(x)
  /\ now + d <= MaxTime
  /\ Moderator(Permanent, x, TRUE) /\ Owner(x) \notin Permanent
  /\ grants' = [grants EXCEPT ![Identity(x)] = IF d = 0 THEN 0 ELSE now + d]
  /\ RefreshAccess(grants', Identity(x))
  /\ UNCHANGED <<now, bans, closing, tab, cookie>>

\* setUserName renames every tab of the identity.
Renamed(x, name) ==
  [s \in Socket |-> IF IsOn(s) /\ Identity(s) = Identity(x)
                    THEN [users[s] EXCEPT !.name = name] ELSE users[s]]

Rename(x, name) ==
  LET new == Renamed(x, name)
      changed == {y \in Socket : IsOn(y) /\ Identity(y) = Identity(x)} IN
  /\ IsOn(x)
  /\ users' = new
  /\ wire' = Sent([y \in Socket |-> SetToSeq({Joined(z, new[z]) : z \in changed})])

\* A user chooses a name for the tabs of the own identity, or a moderator for
\* anybody: x itself may always ask.
SetUserName(x, name) ==
  /\ Event
  /\ Rename(x, name)
  /\ UNCHANGED <<now, bans, grants, closing, tab, cookie>>

\* The rename that a tab has asked for because of its URL.
SetUrlName(t) ==
  /\ tab[t].wanted # None
  /\ Rename(Attached(t), tab[t].wanted)
  /\ tab' = [tab EXCEPT ![t].wanted = None]
  /\ UNCHANGED <<now, bans, grants, closing, cookie, events>>

-----------------------------------------------------------------------------
(* Tabs: what they receive *)

\* The next message for tab t is of some kind; Received(t) is that message and
\* Taken(t) the wires without it.
IsNextKind(t, kind) ==
  /\ tab[t].conn # 0
  /\ wire[Attached(t)] # << >>
  /\ Head(wire[Attached(t)]).kind = kind
Received(t) == Head(wire[Attached(t)])
Taken(t)    == [wire EXCEPT ![Attached(t)] = Tail(@)]

\* Mutant: the name in the cookie is not replaced.
NameReceivedOnce(t, u, r) ==
  LET asks == r.urlName # None /\ r.urlName # u.name IN
  /\ tab' = [tab EXCEPT ![t] =
       [r EXCEPT !.urlName = None, !.wanted = IF asks THEN r.urlName ELSE @]]
  /\ cookie' = [cookie EXCEPT ![SecretOf[t]] =
       IF asks \/ u.name = None \/ @ # None THEN @ ELSE u.name]

\* names.receive for the tab's own record u; r is the tab otherwise updated.
NameReceived(t, u, r) ==
  LET asks == r.urlName # None /\ r.urlName # u.name IN
  /\ tab' = [tab EXCEPT ![t] =
       [r EXCEPT !.urlName = None, !.wanted = IF asks THEN r.urlName ELSE @]]
  /\ cookie' = [cookie EXCEPT ![SecretOf[t]] =
       IF asks \/ u.name = None THEN @ ELSE u.name]

\* applyBoardState: every board state replaces the refresh timer.
Told(r, a) ==
  [r EXCEPT !.told = [edit |-> a.edit, moderate |-> a.moderate],
            !.timer = IF a.left = None THEN None ELSE now + a.left]

OnBootstrap(t) ==
  /\ IsNextKind(t, "bootstrap")
  /\ wire' = Taken(t)
  /\ LET m == Received(t) IN
       NameReceived(t, m.users[Attached(t)],
                    [Told(tab[t], m.access) EXCEPT !.view = m.users])
  /\ UNCHANGED <<server, events>>

\* upsertConnectedUser
OnUserJoined(t) ==
  /\ IsNextKind(t, "joined")
  /\ wire' = Taken(t)
  /\ LET m == Received(t)
         r == [tab[t] EXCEPT !.view[m.socket] = m.user] IN
       IF m.socket = Attached(t) THEN NameReceived(t, m.user, r)
       ELSE tab' = [tab EXCEPT ![t] = r] /\ UNCHANGED cookie
  /\ UNCHANGED <<server, events>>

\* removeConnectedUser
OnUserLeft(t) ==
  /\ IsNextKind(t, "left")
  /\ wire' = Taken(t)
  /\ tab' = [tab EXCEPT ![t].view[Received(t).socket] = None]
  /\ UNCHANGED <<server, cookie, events>>

OnBoardState(t) ==
  /\ IsNextKind(t, "state")
  /\ wire' = Taken(t)
  /\ tab' = [tab EXCEPT ![t] = Told(@, Received(t).access)]
  /\ UNCHANGED <<server, cookie, events>>

OnModerationDisconnect(t) ==
  /\ IsNextKind(t, "notice")
  /\ wire' = Taken(t)
  /\ tab' = [tab EXCEPT ![t].notice = [acknowledged |-> FALSE, disconnected |-> FALSE]]
  /\ UNCHANGED <<server, cookie, events>>

-----------------------------------------------------------------------------
(* Tabs: losing and making connections *)

\* Mutant: the notice is not told of the disconnection.
DisconnectedUnnoticed(r) ==
  IF r.notice = None THEN [r EXCEPT !.state = "due"] ELSE [r EXCEPT !.state = "held"]

\* A tab that has been shown a notice waits for its user.
Disconnected(r) ==
  IF r.notice = None THEN [r EXCEPT !.state = "due"]
  ELSE IF r.notice.acknowledged THEN [r EXCEPT !.state = "due", !.notice = None]
  ELSE [r EXCEPT !.state = "held", !.notice.disconnected = TRUE]

\* DISCONNECT: the server has closed the socket, or the network has failed.
Disconnect(t) ==
  /\ tab[t].conn # 0
  /\ IF IsOn(Attached(t)) THEN Event ELSE UNCHANGED events
  /\ tab' = [tab EXCEPT ![t] = [Disconnected(@) EXCEPT !.conn = 0, !.wanted = None]]
  /\ wire' = [wire EXCEPT ![Attached(t)] = << >>]
  /\ UNCHANGED <<server, cookie>>

\* The user closes the notice: resumeAfterModerationDisconnect.
Acknowledge(t) ==
  LET r == tab[t] IN
  /\ r.notice # None
  /\ ~r.notice.acknowledged
  /\ tab' = [tab EXCEPT ![t] =
       IF ~r.notice.disconnected THEN [r EXCEPT !.notice.acknowledged = TRUE]
       ELSE IF r.state = "held" THEN [r EXCEPT !.notice = None, !.state = "due"]
       ELSE [r EXCEPT !.notice = None, !.retry = TRUE]]
  /\ UNCHANGED <<server, wire, cookie, events>>

\* start(): a connection that is open is closed.
Start(t, r) ==
  /\ tab' = [tab EXCEPT ![t] =
       [r EXCEPT !.state = "connecting", !.conn = 0, !.wanted = None,
                 !.view = [s \in Socket |-> None]]]
  /\ wire' = IF r.conn = 0 THEN wire ELSE [wire EXCEPT ![Attached(t)] = << >>]
  /\ UNCHANGED <<server, cookie, events>>

Reconnect(t) ==
  \/ tab[t].state = "due" /\ Start(t, tab[t])
  \/ tab[t].retry /\ Start(t, [tab[t] EXCEPT !.retry = FALSE])

\* The refresh timer calls start() whatever the connection does; a start()
\* that was already scheduled still follows.
AccessRefresh(t) ==
  /\ tab[t].timer # None
  /\ tab[t].timer <= now
  /\ Start(t, [tab[t] EXCEPT !.timer = None, !.retry = @ \/ tab[t].state = "due"])

-----------------------------------------------------------------------------
Moderation ==
  \E x \in Socket :
    \/ \E s \in Socket : ReportModerator(s, x) \/ ReportByPeer(s, x)
    \/ \E d \in BanTime : ReportByModerator(x, d)
    \/ \E d \in GrantTime : SetTemporaryModerator(x, d)
    \/ \E n \in Name : SetUserName(x, n)

Receive(t) == \/ OnBootstrap(t) \/ OnUserJoined(t) \/ OnUserLeft(t)
              \/ OnBoardState(t) \/ OnModerationDisconnect(t)

Connecting(t) == \/ \E k \in 1..MaxConn[t] : Join(t, k)
                 \/ Reconnect(t) \/ AccessRefresh(t)

Next == \/ Tick \/ DropBoard \/ Moderation
        \/ \E s \in Socket : Leave(s) \/ CloseModerated(s)
        \/ \E t \in Tab : Receive(t) \/ Connecting(t) \/ Disconnect(t)
                          \/ Acknowledge(t) \/ SetUrlName(t)

Spec == Init /\ [][Next]_vars

\* Time passes, timers fire, and the network carries messages and the news of
\* closed sockets.  Nothing is assumed of users: a notice may stay open.
FairSpec ==
  /\ Spec
  /\ WF_vars(Tick)
  /\ \A s \in Socket : /\ WF_vars(Leave(s) /\ UNCHANGED events)
                       /\ WF_vars(CloseModerated(s))
  /\ \A t \in Tab : /\ WF_vars(Receive(t)) /\ WF_vars(Connecting(t))
                    /\ WF_vars(Disconnect(t) /\ UNCHANGED events)
                    /\ WF_vars(SetUrlName(t))

-----------------------------------------------------------------------------
(* Properties *)

\* User records, what the server says of access, messages and tabs.
UserRecord   == [name: Name \union {None}, edit: BOOLEAN, moderate: BOOLEAN]
Users        == [Socket -> UserRecord \union {None}]
AccessRecord == [edit: BOOLEAN, moderate: BOOLEAN, left: (1..MaxTime) \union {None}]
Message ==
  [kind: {"joined"}, socket: Socket, user: UserRecord]
    \union [kind: {"left"}, socket: Socket]
    \union [kind: {"state"}, access: AccessRecord]
    \union [kind: {"bootstrap"}, users: Users, access: AccessRecord]
    \union [kind: {"notice"}]
TabRecord ==
  [ conn: Nat, state: {"due", "connecting", "connected", "held"}, retry: BOOLEAN,
    view: Users, told: [edit: BOOLEAN, moderate: BOOLEAN],
    timer: Nat \union {None},
    notice: [acknowledged: BOOLEAN, disconnected: BOOLEAN] \union {None},
    urlName: Name \union {None}, wanted: Name \union {None} ]

\* Every variable has its type; a tab is connected when it has a socket;
\* only such tabs wait for a rename, and only to such sockets something is on
\* its way.
TypeOK ==
  /\ now \in Nat /\ events \in 0..MaxEvents
  /\ bans \in [secrets: [Secret -> 0..MaxTime], ips: [Ip -> 0..MaxTime]]
  /\ grants \in [Secret -> 0..MaxTime]
  /\ users \in Users /\ closing \subseteq Socket
  /\ wire \in [Socket -> Seq(Message)]
  /\ \A s \in Socket : wire[s] # << >> => tab[Owner(s)].conn = s[2]
  /\ tab \in [Tab -> TabRecord]
  /\ \A t \in Tab : /\ tab[t].conn \in 0..MaxConn[t]
                    /\ tab[t].state = "connected" <=> tab[t].conn # 0
                    /\ tab[t].wanted # None => tab[t].conn # 0
  /\ cookie \in [Secret -> Name \union {None}]

OnBoard(t) == tab[t].conn # 0 /\ IsOn(Attached(t))

\* The messages that change what a tab shows of socket x, and what it shows then.
About(x) ==
  {m \in Message : \/ m.kind = "bootstrap"
                   \/ m.kind \in {"joined", "left"} /\ m.socket = x}
Says(m, x) == CASE m.kind = "bootstrap" -> m.users[x]
                [] m.kind = "joined"    -> m.user
                [] OTHER                -> None

\* w[i] is the last message of w in K; no message of w is.
IsLast(w, K, i) == /\ i \in DOMAIN w /\ w[i] \in K
                   /\ \A j \in DOMAIN w : j > i => w[j] \notin K
HasNone(w, K)   == \A i \in DOMAIN w : w[i] \notin K

\* The users a connected tab shows, with their names and capabilities, become
\* those of the board with the messages on their way: whoever joins, leaves,
\* is renamed, promoted or thrown out meanwhile, nobody is missed and nobody
\* stays behind (emitBoardUsersToSocket, emitUserJoinedToBoard, removeBoardUser).
\* The last message on its way about a socket decides, or else the view.
ViewFollows(t) ==
  LET w == wire[Attached(t)] IN
  \A x \in Socket :
    /\ \A i \in DOMAIN w : IsLast(w, About(x), i) => Says(w[i], x) = users[x]
    /\ HasNone(w, About(x)) => tab[t].view[x] = users[x]
ViewsFollowTheBoard == \A t \in Tab : OnBoard(t) => ViewFollows(t)

\* All tabs of an identity that have a chosen name have the same one, in
\* whatever order they join with names of their own and are renamed
\* (ensureBoardUser, setUserName).
OneNamePerIdentity ==
  \A s, x \in Socket :
    (IsOn(s) /\ IsOn(x) /\ Identity(s) = Identity(x)
     /\ users[s].name # None /\ users[x].name # None) => users[s].name = users[x].name

\* "Renames update every connected tab sharing that authenticated identity on
\* the same board, including their saved cookies" (README.md): when the tabs of
\* a browser are connected and have received everything, its cookie holds the
\* name they have on the board.
Settled(t) == OnBoard(t) /\ wire[Attached(t)] = << >> /\ tab[t].wanted = None
NamesAreSaved ==
  \A x \in Secret : LET mine == {t \in Tab : SecretOf[t] = x} IN
    (\A t \in mine : Settled(t)) =>
      \A t \in mine : users[Attached(t)].name \in {None, cookie[x]}

\* A connected tab that has been told of moderator rights it no longer has, or
\* of a restriction that has ended, has a refresh coming; nobody is left
\* without a right that was granted (scheduleAccessRefresh, refreshUserAccess).
\* The converse does not hold: the other tabs of a banned user, and others at
\* the address, are not told of the ban.
NoStaleRestriction ==
  \A t \in Tab : Settled(t) =>
    LET a == Access(grants, t) IN
    /\ a.moderate => tab[t].told.moderate
    /\ (tab[t].told.moderate /\ ~a.moderate) \/ (~tab[t].told.edit /\ a.edit)
         => tab[t].timer # None

\* Once users and faults are still and bans and grants have run out, every tab
\* is connected, or shows a notice nobody has closed; it may do what the server
\* lets it do, and the board lists exactly the tabs that are connected.
UpToDate(t) ==
  /\ Settled(t)
  /\ LET a == Access(grants, t)
         u == users[Attached(t)] IN
     /\ tab[t].told = [edit |-> a.edit, moderate |-> a.moderate]
     /\ <<u.edit, u.moderate>> = <<a.edit, a.moderate>>
EveryoneIsUpToDate ==
  <>[](/\ \A t \in Tab :
            UpToDate(t) \/ (tab[t].state = "held" /\ ~tab[t].notice.acknowledged)
       /\ \A s \in Socket : IsOn(s) => tab[Owner(s)].conn = s[2])
=============================================================================
