-------------------------------- MODULE Bridge --------------------------------
(***************************************************************************)
(* The browser bridge (internal/browserbridge/bridge.go) between           *)
(*   - the extension's WebSocket connections, each with a goroutine that   *)
(*     handles its messages one by one and one that pushes task snapshots, *)
(*   - the settings dialog, which restarts the bridge (Options.SaveSettings *)
(*     in internal/app/app.go) on the UI thread,                           *)
(*   - the question the UI thread asks the user before a pairing           *)
(*     (internal/ui/browser_pairing.go), and                               *)
(*   - the end of ui.Run.                                                  *)
(*                                                                         *)
(* A snapshot of the tasks is the number of the change it was taken after. *)
(***************************************************************************)
EXTENDS Integers

CONSTANTS
  Conn,          \* connections there may be at a time
  Configs,       \* the settings: [enabled, token]
  None,          \* no token
  MaxChanges,    \* bound: changes of the tasks
  MaxSaves,      \* bound: how often the settings are saved
  MaxFailures    \* bound: a port in use, a store that refuses

ASSUME BridgeAssumption ==
  /\ \A s \in Configs : s = [enabled |-> s.enabled, token |-> s.token] /\ s.enabled \in BOOLEAN
  /\ \A s \in Configs : s.token # None
  /\ {MaxChanges, MaxSaves, MaxFailures} \subseteq Nat

Tokens == {s.token : s \in Configs}

VARIABLES
  \* settings
  current,    \* currentSettings of app.Run
  stored,     \* the row in the config table
  applied,    \* Bridge.settings
  server,     \* Bridge.server # nil
  save,       \* the SaveSettings under way: [pc, next, target, undo]
  broken,     \* history: the last Apply failed and was not made up for
  window,     \* "open", "cleared" after mainWindow.Run, "gone" after ui.Run
  \* connections
  conn,       \* "none", "shaking", "hijacked", "open", or "closed"
  sessions,   \* Bridge.sessions
  auth,       \* the token the session has shown, or None
  handler,    \* what its handler does
  asked,      \* the token handlePairRequest has read
  told,       \* the token the extension has been given
  stranded,   \* history: the connections that were half open at a Stop
  \* snapshots
  version,    \* the number of the last change of the tasks
  subscribed,
  last,       \* lastSnapshot, -1 when it is nil
  sender,     \* sender[c][who]: where sendTaskSnapshot is
  taken,      \* taken[c][who]: the snapshot it has taken
  shown,      \* what the extension shows, -1 for nothing
  overlapped, \* history: both goroutines have been in sendTaskSnapshot
  saves, failures

settingsVars == <<current, stored, applied, server, save, broken, window, saves, failures>>
connVars == <<conn, sessions, auth, handler, asked, told, stranded>>
pushVars == <<subscribed, last, sender, taken, shown, overlapped>>
vars == <<settingsVars, connVars, version, pushVars>>

Who == {"handler", "pusher"}
NoSave(s) == [pc |-> "idle", next |-> s, target |-> s, undo |-> FALSE]

Init ==
  /\ current \in Configs
  /\ stored = current
  /\ \/ applied = current /\ server = current.enabled /\ broken = FALSE
     \/ /\ current.enabled                      \* the first Apply failed
        /\ applied = [enabled |-> FALSE, token |-> None] /\ server = FALSE /\ broken = TRUE
  /\ save = NoSave(current)
  /\ window = "open"
  /\ conn = [c \in Conn |-> "none"]
  /\ sessions = {}
  /\ auth = [c \in Conn |-> None]
  /\ handler = [c \in Conn |-> "read"]
  /\ asked = [c \in Conn |-> None]
  /\ told = [c \in Conn |-> None]
  /\ stranded = {}
  /\ version = 0
  /\ subscribed = [c \in Conn |-> FALSE]
  /\ last = [c \in Conn |-> -1]
  /\ sender = [c \in Conn |-> [w \in Who |-> "idle"]]
  /\ taken = [c \in Conn |-> [w \in Who |-> -1]]
  /\ shown = [c \in Conn |-> -1]
  /\ overlapped = [c \in Conn |-> FALSE]
  /\ saves = 0 /\ failures = 0

-----------------------------------------------------------------------------
(* Connections *)

Connect(c) ==
  /\ conn[c] = "none" /\ server
  /\ conn' = [conn EXCEPT ![c] = "shaking"]
  /\ UNCHANGED <<settingsVars, sessions, auth, handler, asked, told, stranded, version, pushVars>>

\* The handshake ends; from now on http.Server knows nothing of it.
Hijack(c) ==
  /\ conn[c] = "shaking"
  /\ \/ conn' = [conn EXCEPT ![c] = "hijacked"] /\ UNCHANGED stranded
     \/ conn' = [conn EXCEPT ![c] = "none"] /\ stranded' = stranded \ {c}
  /\ UNCHANGED <<settingsVars, sessions, auth, handler, asked, told, version, pushVars>>

\* The first lines of handleWebSocket, whether or not the bridge still runs
Register(c) ==
  /\ conn[c] = "hijacked"
  /\ conn' = [conn EXCEPT ![c] = "open"]
  /\ sessions' = sessions \cup {c}
  /\ UNCHANGED <<settingsVars, auth, handler, asked, told, stranded, version, pushVars>>

Close(S) == conn' = [c \in Conn |-> IF c \in S THEN "closed" ELSE conn[c]]

Disconnect(c) ==
  /\ conn[c] = "open"
  /\ Close({c})
  /\ UNCHANGED <<settingsVars, sessions, auth, handler, asked, told, stranded, version, pushVars>>

\* Receive fails: handleWebSocket returns, and the pusher with it.
HandlerEnds(c) ==
  /\ conn[c] = "closed" /\ handler[c] = "read"
  /\ sender[c] = [w \in Who |-> "idle"]
  /\ conn' = [conn EXCEPT ![c] = "none"]
  /\ sessions' = sessions \ {c}
  /\ stranded' = stranded \ {c}
  /\ auth' = [auth EXCEPT ![c] = None]
  /\ told' = [told EXCEPT ![c] = None]
  /\ subscribed' = [subscribed EXCEPT ![c] = FALSE]
  /\ last' = [last EXCEPT ![c] = -1]
  /\ shown' = [shown EXCEPT ![c] = -1]
  /\ overlapped' = [overlapped EXCEPT ![c] = FALSE]
  /\ UNCHANGED <<settingsVars, handler, asked, version, sender, taken>>

-----------------------------------------------------------------------------
(* Messages *)

Reads(c) == conn[c] = "open" /\ handler[c] = "read"

\* handleHello
Hello(c, token) ==
  /\ Reads(c)
  /\ IF token = applied.token
     THEN auth' = [auth EXCEPT ![c] = token] /\ UNCHANGED conn
     ELSE Close({c}) /\ UNCHANGED auth
  /\ UNCHANGED <<settingsVars, sessions, handler, asked, told, stranded, version, pushVars>>

\* handlePairRequest, up to the question; without a window it is refused.  A
\* question posted just before app.Clear is never answered: its handler waits.
PairRequest(c) ==
  /\ Reads(c) /\ window = "open"
  /\ asked' = [asked EXCEPT ![c] = applied.token]
  /\ handler' = [handler EXCEPT ![c] = "asking"]
  /\ UNCHANGED <<settingsVars, conn, sessions, auth, told, stranded, version, pushVars>>

\* The user answers, in the message loop of the UI thread.
Answer(c) ==
  /\ handler[c] = "asking" /\ window = "open" /\ save.pc = "idle"
  /\ \/ handler' = [handler EXCEPT ![c] = "approved"] /\ UNCHANGED asked
     \/ handler' = [handler EXCEPT ![c] = "read"] /\ asked' = [asked EXCEPT ![c] = None]
  /\ UNCHANGED <<settingsVars, conn, sessions, auth, told, stranded, version, pushVars>>

\* sendPairResult; what is sent on a closed connection is lost.
PairResult(c) ==
  /\ handler[c] = "approved"
  /\ handler' = [handler EXCEPT ![c] = "read"]
  /\ told' = IF conn[c] = "open" THEN [told EXCEPT ![c] = asked[c]] ELSE told
  /\ asked' = [asked EXCEPT ![c] = None]
  /\ UNCHANGED <<settingsVars, conn, sessions, auth, stranded, version, pushVars>>

\* sendTaskSnapshot begins.
Take(c, who) ==
  /\ sender' = [sender EXCEPT ![c][who] = "taken"]
  /\ taken' = [taken EXCEPT ![c][who] = version']
  /\ overlapped' = [overlapped EXCEPT ![c] = @ \/ \E w \in Who \ {who} : sender[c][w] # "idle"]

\* subscribe_tasks
Subscribe(c) ==
  /\ Reads(c) /\ auth[c] # None /\ ~subscribed[c]
  /\ subscribed' = [subscribed EXCEPT ![c] = TRUE]
  /\ last' = [last EXCEPT ![c] = -1]
  /\ handler' = [handler EXCEPT ![c] = "sending"]
  /\ version' = version
  /\ Take(c, "handler")
  /\ UNCHANGED <<settingsVars, conn, sessions, auth, asked, told, stranded, shown>>

\* handleCreateTask ends with a snapshot, subscribed or not.
CreateTask(c) ==
  /\ Reads(c) /\ auth[c] # None
  /\ version < MaxChanges /\ version' = version + 1
  /\ handler' = [handler EXCEPT ![c] = "sending"]
  /\ Take(c, "handler")
  /\ UNCHANGED <<settingsVars, conn, sessions, auth, asked, told, stranded, subscribed, last, shown>>

\* handleTaskAction
TaskAction(c) ==
  /\ Reads(c) /\ auth[c] # None
  /\ version < MaxChanges /\ version' = version + 1
  /\ UNCHANGED <<settingsVars, connVars, pushVars>>

\* requireAuthenticated: any other message of a session that has not shown the
\* token ends it.
Refuse(c) ==
  /\ Reads(c) /\ auth[c] = None
  /\ Close({c})
  /\ UNCHANGED <<settingsVars, sessions, auth, handler, asked, told, stranded, version, pushVars>>

\* A click in the window, or progress
TasksChange ==
  /\ version < MaxChanges /\ version' = version + 1
  /\ UNCHANGED <<settingsVars, connVars, pushVars>>

-----------------------------------------------------------------------------
(* Snapshots *)

\* A tick of pushSnapshots
Tick(c) ==
  /\ conn[c] = "open" /\ auth[c] # None /\ subscribed[c]
  /\ sender[c]["pusher"] = "idle"
  /\ last[c] # version          \* a tick that would send nothing
  /\ version' = version
  /\ Take(c, "pusher")
  /\ UNCHANGED <<settingsVars, connVars, subscribed, last, shown>>

Idle(c, who) ==
  /\ sender' = [sender EXCEPT ![c][who] = "idle"]
  /\ taken' = [taken EXCEPT ![c][who] = -1]
  /\ handler' = IF who = "handler" THEN [handler EXCEPT ![c] = "read"] ELSE handler

\* Faulty variant of Remember: the tasks are marshalled once more.
RememberNewer(c, who) == last' = [last EXCEPT ![c] = version]

Remember(c, who) == last' = [last EXCEPT ![c] = taken[c][who]]

\* Under the session's mu: a snapshot that was sent already is not sent again.
Compare(c, who) ==
  /\ sender[c][who] = "taken"
  /\ \/ taken[c][who] = last[c] /\ Idle(c, who) /\ UNCHANGED last
     \/ /\ taken[c][who] # last[c]
        /\ Remember(c, who)
        /\ sender' = [sender EXCEPT ![c][who] = "write"]
        /\ UNCHANGED <<handler, taken>>
  /\ UNCHANGED <<settingsVars, conn, sessions, auth, asked, told, stranded, version, subscribed,
                 shown, overlapped>>

\* Under writeMu
Write(c, who) ==
  /\ sender[c][who] = "write"
  /\ shown' = IF conn[c] = "open" THEN [shown EXCEPT ![c] = taken[c][who]] ELSE shown
  /\ Idle(c, who)
  /\ UNCHANGED <<settingsVars, conn, sessions, auth, asked, told, stranded, version, subscribed, last,
                 overlapped>>

-----------------------------------------------------------------------------
(* SaveSettings, on the UI thread *)

SaveAt(pc) == save.pc = pc
Goto(pc) == save' = [save EXCEPT !.pc = pc]
Fail == failures < MaxFailures /\ failures' = failures + 1

SaveBegin(next) ==
  /\ SaveAt("idle") /\ window = "open" /\ saves < MaxSaves
  /\ saves' = saves + 1
  /\ save' = [pc |-> "apply", next |-> next, target |-> next, undo |-> FALSE]
  /\ UNCHANGED <<current, stored, applied, server, broken, window, failures,
                 connVars, version, pushVars>>

\* Faulty variant of GoBack: the error is returned as it is.
GoBackNever == save' = NoSave(current) /\ UNCHANGED broken

\* An error of next: apply the settings before it.  An error of those is the
\* last word.
GoBack ==
  IF save.undo THEN save' = NoSave(current) /\ broken' = TRUE
  ELSE save' = [save EXCEPT !.pc = "apply", !.target = current, !.undo = TRUE] /\ UNCHANGED broken

\* Apply succeeded.
GoOn ==
  IF save.undo THEN save' = NoSave(current) /\ broken' = FALSE ELSE Goto("store") /\ UNCHANGED broken

\* Faulty variant of Stop: only the listener is closed.
StopListening == server' = FALSE /\ UNCHANGED <<conn, sessions, stranded>>

\* Stop, up to Shutdown: the sessions it finds are closed.  A connection that is
\* half way through its handshake is not among them and registers later.
Stop ==
  /\ server' = FALSE
  /\ Close(sessions)
  /\ sessions' = {}
  /\ stranded' = stranded \cup {c \in Conn : conn[c] \in {"shaking", "hijacked"}}

ApplySame ==
  /\ SaveAt("apply") /\ server /\ applied = save.target
  /\ GoOn
  /\ UNCHANGED <<current, stored, applied, server, window, saves, failures,
                 connVars, version, pushVars>>

ApplyStop ==
  /\ SaveAt("apply") /\ ~(server /\ applied = save.target)
  /\ Stop
  /\ Goto("shutdown")
  /\ UNCHANGED <<current, stored, applied, broken, window, saves, failures,
                 auth, handler, asked, told, version, pushVars>>

\* Faulty variant of ShutdownReturns: every handler is waited for.
AllEnded == \A c \in Conn : conn[c] = "none"

\* Shutdown waits for the connections http.Server knows of.
ShutdownReturns == \A c \in Conn : conn[c] # "shaking"

ApplyStart ==
  /\ SaveAt("shutdown") /\ ShutdownReturns
  /\ \/ /\ applied' = save.target /\ server' = save.target.enabled
        /\ GoOn
        /\ UNCHANGED failures
     \/ /\ save.target.enabled /\ Fail              \* net.Listen
        /\ GoBack
        /\ UNCHANGED <<applied, server>>
  /\ UNCHANGED <<current, stored, window, saves, connVars, version, pushVars>>

\* configStore.SaveSettings
StoreSettings ==
  /\ SaveAt("store")
  /\ \/ stored' = save.next /\ Goto("commit") /\ UNCHANGED <<broken, failures>>
     \/ Fail /\ GoBack /\ UNCHANGED stored
  /\ UNCHANGED <<current, applied, server, window, saves, connVars, version, pushVars>>

CommitSettings ==
  /\ SaveAt("commit")
  /\ current' = save.next
  /\ save' = NoSave(save.next)
  /\ broken' = FALSE
  /\ UNCHANGED <<stored, applied, server, window, saves, failures, connVars, version, pushVars>>

-----------------------------------------------------------------------------
(* The end of ui.Run *)

ClearWindow ==
  /\ window = "open" /\ SaveAt("idle")
  /\ window' = "cleared"
  /\ UNCHANGED <<current, stored, applied, server, save, broken, saves, failures,
                 connVars, version, pushVars>>

ExitStop ==
  /\ window = "cleared" /\ server
  /\ Stop
  /\ UNCHANGED <<current, stored, applied, save, broken, window, saves, failures,
                 auth, handler, asked, told, version, pushVars>>

Exit ==
  /\ window = "cleared" /\ ~server /\ ShutdownReturns
  /\ window' = "gone"
  /\ UNCHANGED <<current, stored, applied, server, save, broken, saves, failures,
                 connVars, version, pushVars>>

-----------------------------------------------------------------------------
SaveStep == ApplySame \/ ApplyStop \/ ApplyStart \/ StoreSettings \/ CommitSettings

Session(c) ==
  \/ Hijack(c) \/ Register(c) \/ HandlerEnds(c) \/ PairResult(c)
  \/ Tick(c) \/ \E who \in Who : Compare(c, who) \/ Write(c, who)

Next ==
  \/ \E c \in Conn :
       \/ Session(c)
       \/ Connect(c) \/ Disconnect(c)
       \/ \E token \in Tokens : Hello(c, token)
       \/ PairRequest(c) \/ Answer(c)
       \/ Subscribe(c) \/ CreateTask(c) \/ TaskAction(c) \/ Refuse(c)
  \/ TasksChange
  \/ \E next \in Configs : SaveBegin(next)
  \/ SaveStep
  \/ ClearWindow \/ ExitStop \/ Exit

Spec == Init /\ [][Next]_vars

\* Goroutines that can run do, and a handshake ends; an extension that stays
\* connected reads what it is sent.  Otherwise it and the user do what they like.
FairSpec ==
  /\ Spec
  /\ WF_vars(SaveStep) /\ WF_vars(ExitStop) /\ WF_vars(Exit)
  /\ \A c \in Conn :
       /\ WF_vars(Hijack(c)) /\ WF_vars(Register(c))
       /\ WF_vars(Tick(c))
       /\ \A who \in Who : WF_vars(Compare(c, who)) /\ WF_vars(Write(c, who))

-----------------------------------------------------------------------------
\* An open session belongs to the running bridge, and the token it has shown, or
\* has been given after a pairing, is the one in force: other settings end the
\* sessions of the old ones, and a pairing approved meanwhile hands out nothing
\* (Stop, handleHello, handlePairRequest, which reads the token before it asks).
\* Not so a connection that was in its handshake at a Stop: handleWebSocket
\* registers it, with whatever settings, after Stop has taken the sessions.
SessionsAreCurrent ==
  \A c \in Conn \ stranded :
    conn[c] = "open" => server /\ {auth[c], told[c]} \subseteq {None, applied.token}

\* Unless the first Apply or going back failed, the running bridge, the stored settings
\* and those of app.Run are the same whenever SaveSettings is over, whatever
\* step of it failed.
SettingsAgree ==
  save.pc = "idle" /\ window = "open" /\ ~broken =>
    stored = current /\ applied = current /\ server = current.enabled

\* SaveSettings and the exit come to an end although a handler may wait for
\* the user, whom the UI thread cannot ask meanwhile.
StopReturns ==
  /\ save.pc # "idle" ~> save.pc = "idle"
  /\ window = "cleared" ~> window = "gone"

\* A subscribed extension is brought up to date, unless both goroutines of
\* its session have sent at a time.
ExtensionCatchesUp ==
  \A c \in Conn :
    []( conn[c] = "open" /\ subscribed[c] =>
          <>(shown[c] = version \/ conn[c] # "open" \/ overlapped[c]) )
=============================================================================
