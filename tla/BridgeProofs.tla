----------------------------- MODULE BridgeProofs -----------------------------
(***************************************************************************)
(* Theorems about Bridge, for any number of connections, any settings and  *)
(* any number of saves and failures.                                       *)
(***************************************************************************)
EXTENDS Bridge, TLAPS

-----------------------------------------------------------------------------
(* The inductive invariants *)

SaveCall ==
  [pc : {"idle", "apply", "shutdown", "store", "commit"}, next : Configs, target : Configs,
   undo : BOOLEAN]

\* The shape of the connections, of the settings, and of both.
ConnTypes ==
  /\ conn \in [Conn -> {"none", "shaking", "hijacked", "open", "closed"}]
  /\ sessions \subseteq Conn
  /\ handler \in [Conn -> {"read", "asking", "approved", "sending"}]
  /\ DOMAIN auth = Conn /\ auth = [c \in Conn |-> auth[c]]
  /\ DOMAIN told = Conn /\ told = [c \in Conn |-> told[c]]
  /\ DOMAIN asked = Conn /\ asked = [c \in Conn |-> asked[c]]
SettingsTypes ==
  /\ current \in Configs /\ stored \in Configs
  /\ save \in SaveCall
  /\ server \in BOOLEAN /\ broken \in BOOLEAN
BridgeTypes == ConnTypes /\ SettingsTypes

\* Where SaveSettings is, and what has been applied and stored by then: the store
\* is ahead of app.Run only between SaveSettings of the store and the assignment,
\* and the way back always leads to the settings of app.Run.
SaveInv ==
  /\ save.pc # "idle" => window = "open"
  /\ save.pc # "commit" => stored = current
  /\ save.target = IF save.undo THEN current ELSE save.next
  /\ save.pc = "shutdown" => ~server
  /\ server => applied.enabled
  /\ save.pc \in {"idle", "apply"} /\ ~save.undo /\ ~broken /\ window = "open" =>
       applied = current /\ server = current.enabled
  /\ save.pc \in {"store", "commit"} =>
       ~save.undo /\ applied = save.next /\ server = save.next.enabled
  /\ save.pc = "commit" => stored = save.next
  /\ save.pc = "idle" => ~save.undo

\* Stop finds every open session in Bridge.sessions; a connection that is not
\* registered yet has shown nothing and asks nothing.
Registered ==
  \A c \in Conn :
    /\ conn[c] = "open" => c \in sessions
    /\ conn[c] \in {"none", "shaking", "hijacked"} =>
         auth[c] = None /\ told[c] = None /\ handler[c] = "read"

\* Connections that no Stop has found half open exist only while the bridge runs,
\* and what such a session has shown, was given or waits for is the token in force.
Current ==
  \A c \in Conn \ stranded :
    /\ conn[c] \in {"shaking", "hijacked", "open"} => server
    /\ conn[c] = "open" =>
         /\ auth[c] \in {None, applied.token}
         /\ told[c] \in {None, applied.token}
         /\ handler[c] \in {"asking", "approved"} => asked[c] = applied.token

BridgeInv == BridgeTypes /\ SaveInv /\ Registered

-----------------------------------------------------------------------------
(* The settings *)

\* The record of a SaveSettings call keeps its type from step to step.
LEMMA SaveTypes ==
  /\ \A s \in Configs : NoSave(s) \in SaveCall
  /\ \A s \in Configs : s.enabled \in BOOLEAN
  /\ \A v \in SaveCall, p \in {"idle", "apply", "shutdown", "store", "commit"} :
       [v EXCEPT !.pc = p] \in SaveCall
  /\ \A v \in SaveCall, s \in Configs :
       [v EXCEPT !.pc = "apply", !.target = s, !.undo = TRUE] \in SaveCall
BY BridgeAssumption DEF SaveCall, NoSave

\* Apply of the settings before: SaveSettings ends with everything as it was.
LEMMA Ended ==
  ASSUME SettingsTypes, SaveInv, UNCHANGED <<current, stored, window>>,
         save.pc # "commit", save.undo,
         applied' = save.target, server' = save.target.enabled,
         save' = NoSave(current), broken' = FALSE
  PROVE  SaveInv' /\ SettingsTypes'
<1>1. save.target = current /\ current.enabled \in BOOLEAN /\ stored = current
  BY SaveTypes DEF SettingsTypes, SaveInv
<1>2. save' \in SaveCall /\ save'.pc = "idle" /\ save'.undo = FALSE
      /\ save'.target = current /\ save'.next = current
  BY SaveTypes DEF SettingsTypes, NoSave
<1> QED
  BY <1>1, <1>2 DEF SettingsTypes, SaveInv

\* Apply of the new settings: they are in force, and the store is next.
LEMMA GoesOn ==
  ASSUME SettingsTypes, SaveInv, UNCHANGED <<current, stored, window>>,
         save.pc \in {"apply", "shutdown"}, ~save.undo,
         applied' = save.target, server' = save.target.enabled,
         save' = [save EXCEPT !.pc = "store"], broken' = broken
  PROVE  SaveInv' /\ SettingsTypes'
<1>1. save.target = save.next /\ save.next \in Configs /\ save.next.enabled \in BOOLEAN
      /\ stored = current /\ window = "open"
  BY SaveTypes DEF SettingsTypes, SaveInv, SaveCall
<1>2. save' \in SaveCall /\ save'.pc = "store" /\ save'.undo = save.undo
      /\ save'.target = save.target /\ save'.next = save.next
  BY SaveTypes DEF SettingsTypes, SaveCall
<1> QED
  BY <1>1, <1>2 DEF SettingsTypes, SaveInv

\* An error of Apply or of the store sends SaveSettings back, once.
LEMMA GoesBack ==
  ASSUME SettingsTypes, SaveInv, UNCHANGED <<current, stored, window>>,
         save.pc \in {"shutdown", "store"},
         applied' = applied, server' = server, GoBack
  PROVE  SaveInv' /\ SettingsTypes'
<1>1. CASE save.undo
  <2>1. save' = NoSave(current) /\ broken' = TRUE
    BY <1>1 DEF GoBack
  <2>2. save' \in SaveCall /\ save'.pc = "idle" /\ save'.undo = FALSE
        /\ save'.target = current /\ save'.next = current
    BY <2>1, SaveTypes DEF SettingsTypes, NoSave
  <2> QED
    BY <2>1, <2>2 DEF SettingsTypes, SaveInv
<1>2. CASE ~save.undo
  <2>1. save' = [save EXCEPT !.pc = "apply", !.target = current, !.undo = TRUE]
        /\ broken' = broken
    BY <1>2 DEF GoBack
  <2>2. save' \in SaveCall /\ save'.pc = "apply" /\ save'.undo = TRUE
        /\ save'.target = current
    BY ZenonT(40), <2>1, SaveTypes DEF SettingsTypes, SaveCall
  <2> QED
    BY <2>1, <2>2 DEF SettingsTypes, SaveInv
<1> QED
  BY <1>1, <1>2

\* A step of SaveSettings, with its outcomes: what Apply has done is either
\* what was asked for or nothing, and an error sends it back once.
LEMMA SettingsStep ==
  ASSUME SettingsTypes, SaveInv, [Next]_vars
  PROVE  SaveInv' /\ SettingsTypes'
<1> USE DEF SettingsTypes
<1>1. CASE UNCHANGED settingsVars
  BY <1>1 DEF settingsVars, SaveInv
<1>2. ASSUME NEW next \in Configs, SaveBegin(next)
      PROVE  SaveInv' /\ SettingsTypes'
  <2>1. save' \in SaveCall
    BY <1>2 DEF SaveBegin, SaveCall
  <2> QED
    BY <1>2, <2>1 DEF SaveBegin, SaveAt, SaveInv, SaveCall
<1>3. CASE ApplySame
  <2>1. applied = save.target /\ server = save.target.enabled
    <3>1. save.target.enabled \in BOOLEAN /\ server /\ applied = save.target
      BY <1>3, SaveTypes DEF ApplySame, SaveCall
    <3> QED
      BY <3>1 DEF SaveInv
  <2>2. /\ UNCHANGED <<current, stored, applied, server, window>>
        /\ IF save.undo THEN save' = NoSave(current) /\ broken' = FALSE
           ELSE save' = [save EXCEPT !.pc = "store"] /\ broken' = broken
        /\ save.pc = "apply"
    BY <1>3 DEF ApplySame, SaveAt, GoOn, Goto
  <2> QED
    BY <2>1, <2>2, Ended, GoesOn
<1>4. CASE ApplyStop
  BY ZenonT(40), <1>4, SaveTypes DEF ApplyStop, SaveAt, Stop, Goto, SaveInv, SaveCall
<1>5. CASE ApplyStart
  <2>1. /\ save.pc = "shutdown" /\ UNCHANGED <<current, stored, window>>
        /\ \/ /\ applied' = save.target /\ server' = save.target.enabled
              /\ IF save.undo THEN save' = NoSave(current) /\ broken' = FALSE
                 ELSE save' = [save EXCEPT !.pc = "store"] /\ broken' = broken
           \/ /\ applied' = applied /\ server' = server
              /\ GoBack
    BY <1>5 DEF ApplyStart, SaveAt, GoOn, Goto
  <2> QED
    BY <2>1, Ended, GoesOn, GoesBack
<1>6. CASE StoreSettings
  <2>1. /\ save.pc = "store" /\ UNCHANGED <<current, applied, server, window>>
        /\ \/ stored' = save.next /\ save' = [save EXCEPT !.pc = "commit"] /\ broken' = broken
           \/ GoBack /\ stored' = stored
    BY <1>6 DEF StoreSettings, SaveAt, Goto
  <2>2. CASE stored' = save.next /\ save' = [save EXCEPT !.pc = "commit"] /\ broken' = broken
    BY ZenonT(40), <2>1, <2>2, SaveTypes DEF SaveInv, SaveCall
  <2> QED
    BY <2>1, <2>2, GoesBack
<1>7. CASE CommitSettings
  BY <1>7, SaveTypes DEF CommitSettings, SaveAt, NoSave, SaveInv, SaveCall
<1>8. CASE ClearWindow
  BY <1>8 DEF ClearWindow, SaveAt, SaveInv
<1>9. CASE ExitStop
  BY <1>9 DEF ExitStop, Stop, SaveInv
<1>10. CASE Exit
  BY <1>10 DEF Exit, SaveInv
<1>11. ASSUME NEW c \in Conn,
              \/ Session(c) \/ Connect(c) \/ Disconnect(c)
              \/ \E token \in Tokens : Hello(c, token)
              \/ PairRequest(c) \/ Answer(c)
              \/ Subscribe(c) \/ CreateTask(c) \/ TaskAction(c) \/ Refuse(c)
       PROVE  UNCHANGED settingsVars
  BY <1>11 DEF Session, Hijack, Register, HandlerEnds, PairResult, Tick, Compare, Write,
               Connect, Disconnect, Hello, PairRequest, Answer, Subscribe, CreateTask,
               TaskAction, Refuse
<1>12. CASE TasksChange \/ UNCHANGED vars
  BY <1>1, <1>12 DEF TasksChange, vars
<1> QED
  BY <1>1, <1>2, <1>3, <1>4, <1>5, <1>6, <1>7, <1>8, <1>9, <1>10, <1>11, <1>12 DEF Next, SaveStep
-----------------------------------------------------------------------------
(* The sessions *)

\* The actions of one connection
OfConn(c) ==
  \/ Session(c) \/ Connect(c) \/ Disconnect(c)
  \/ \E token \in Tokens : Hello(c, token)
  \/ PairRequest(c) \/ Answer(c)
  \/ Subscribe(c) \/ CreateTask(c) \/ TaskAction(c) \/ Refuse(c)

\* A step of a connection keeps the types and Registered: only registered
\* sessions are open, and HandlerEnds forgets what the session has shown.
LEMMA ConnStep ==
  ASSUME ConnTypes, Registered, NEW c \in Conn, OfConn(c)
  PROVE  ConnTypes' /\ Registered'
<1> USE DEF ConnTypes, Registered
<1>1. CASE Connect(c) \/ Hijack(c)
  BY <1>1 DEF Connect, Hijack
<1>2. CASE Register(c)
  BY <1>2 DEF Register
<1>3. CASE Disconnect(c) \/ Refuse(c)
  BY <1>3 DEF Disconnect, Refuse, Close, Reads
<1>4. CASE HandlerEnds(c)
  BY <1>4 DEF HandlerEnds
<1>5. ASSUME NEW token \in Tokens, Hello(c, token)
      PROVE  ConnTypes' /\ Registered'
  BY <1>5 DEF Hello, Close, Reads
<1>6. CASE PairRequest(c) \/ Answer(c)
  BY <1>6 DEF PairRequest, Answer, Reads
<1>7. CASE PairResult(c)
  BY <1>7 DEF PairResult
<1>8. CASE Subscribe(c) \/ CreateTask(c)
  BY <1>8 DEF Subscribe, CreateTask, Reads
<1>9. CASE TaskAction(c) \/ Tick(c)
  BY <1>9 DEF TaskAction, Tick, connVars
<1>10. ASSUME NEW who \in Who, Compare(c, who) \/ Write(c, who)
       PROVE  ConnTypes' /\ Registered'
  BY <1>10 DEF Compare, Write, Idle
<1> QED
  BY <1>1, <1>2, <1>3, <1>4, <1>5, <1>6, <1>7, <1>8, <1>9, <1>10 DEF OfConn, Session

\* Every other step leaves the connections alone or is a Stop.
LEMMA OtherStep ==
  ASSUME [Next]_vars, \A c \in Conn : ~OfConn(c)
  PROVE  \/ UNCHANGED connVars /\ (UNCHANGED <<applied, server>> \/ ApplyStart)
         \/ Stop /\ UNCHANGED <<auth, handler, asked, told, applied>>
<1>1. CASE TasksChange \/ \E next \in Configs : SaveBegin(next)
  BY <1>1 DEF TasksChange, SaveBegin, settingsVars
<1>2. CASE ApplySame \/ ApplyStart \/ StoreSettings \/ CommitSettings
  BY <1>2 DEF ApplySame, ApplyStart, StoreSettings, CommitSettings
<1>3. CASE ApplyStop \/ ExitStop
  BY <1>3 DEF ApplyStop, ExitStop
<1>4. CASE ClearWindow \/ Exit \/ UNCHANGED vars
  BY <1>4 DEF ClearWindow, Exit, vars, settingsVars
<1> QED
  BY <1>1, <1>2, <1>3, <1>4 DEF Next, SaveStep, OfConn

\* Every open session is in Bridge.sessions, and a connection is registered
\* before it shows or asks anything.
LEMMA RegisteredStep ==
  ASSUME ConnTypes, Registered, [Next]_vars
  PROVE  ConnTypes' /\ Registered'
<1>1. CASE UNCHANGED connVars
  BY <1>1 DEF connVars, ConnTypes, Registered
<1>2. CASE Stop /\ UNCHANGED <<auth, handler, asked, told>>
  BY <1>2 DEF Stop, Close, ConnTypes, Registered
<1> QED
  BY <1>1, <1>2, ConnStep, OtherStep

\* But for the connections a Stop has stranded, sessions are current: other settings
\* are applied only when the bridge is down, and then none of them is open.
LEMMA CurrentStep ==
  ASSUME ConnTypes, Registered, Current, save.pc = "shutdown" => ~server,
         [Next]_vars
  PROVE  Current'
<1> USE DEF ConnTypes, Registered, Current
<1>1. ASSUME NEW c \in Conn, OfConn(c)
      PROVE  Current'
  <2>1. applied' = applied /\ server' = server
    BY <1>1 DEF OfConn, Session, Hijack, Register, HandlerEnds, PairResult, Tick, Compare, Write,
                Connect, Disconnect, Hello, PairRequest, Answer, Subscribe, CreateTask,
                TaskAction, Refuse, settingsVars
  <2>2. CASE Connect(c) \/ Hijack(c)
    BY <2>1, <2>2 DEF Connect, Hijack
  <2>3. CASE Register(c)
    BY <2>1, <2>3 DEF Register
  <2>4. CASE Disconnect(c) \/ Refuse(c)
    BY <2>1, <2>4 DEF Disconnect, Refuse, Close, Reads
  <2>5. CASE HandlerEnds(c)
    BY <2>1, <2>5 DEF HandlerEnds
  <2>6. ASSUME NEW token \in Tokens, Hello(c, token)
        PROVE  Current'
    BY <2>1, <2>6 DEF Hello, Close, Reads
  <2>7. CASE PairRequest(c) \/ Answer(c)
    BY <2>1, <2>7 DEF PairRequest, Answer, Reads
  <2>8. CASE PairResult(c)
    BY <2>1, <2>8 DEF PairResult
  <2>9. CASE Subscribe(c) \/ CreateTask(c)
    BY <2>1, <2>9 DEF Subscribe, CreateTask, Reads
  <2>10. CASE TaskAction(c) \/ Tick(c)
    BY <2>1, <2>10 DEF TaskAction, Tick, connVars
  <2>11. ASSUME NEW who \in Who, Compare(c, who) \/ Write(c, who)
         PROVE  Current'
    BY <2>1, <2>11 DEF Compare, Write, Idle
  <2> QED
    BY <1>1, <2>2, <2>3, <2>4, <2>5, <2>6, <2>7, <2>8, <2>9, <2>10, <2>11 DEF OfConn, Session
<1>2. CASE UNCHANGED connVars /\ UNCHANGED <<applied, server>>
  BY <1>2 DEF connVars
<1>3. CASE UNCHANGED connVars /\ ApplyStart
  <2>1. ~server
    BY <1>3 DEF ApplyStart, SaveAt
  <2> QED
    BY <1>3, <2>1 DEF connVars
<1>4. CASE Stop /\ UNCHANGED <<auth, handler, asked, told, applied>>
  BY <1>4 DEF Stop, Close
<1> QED
  BY <1>1, <1>2, <1>3, <1>4, OtherStep

\* The application starts with the settings it loaded and without connections.
LEMMA BridgeInit == Init => BridgeInv /\ Current
<1> SUFFICES ASSUME Init PROVE BridgeInv /\ Current
  OBVIOUS
<1>1. BridgeTypes
  BY SaveTypes DEF Init, BridgeTypes, ConnTypes, SettingsTypes
<1>2. SaveInv
  BY SaveTypes DEF Init, SaveInv, NoSave
<1>3. Registered /\ Current
  BY DEF Init, Registered, Current
<1> QED
  BY <1>1, <1>2, <1>3 DEF BridgeInv

\* The invariant of the bridge is inductive.
LEMMA BridgeStep == BridgeInv /\ [Next]_vars => BridgeInv'
<1> SUFFICES ASSUME BridgeInv, [Next]_vars PROVE BridgeInv'
  OBVIOUS
<1>1. SaveInv' /\ SettingsTypes'
  BY SettingsStep DEF BridgeInv, BridgeTypes
<1>2. ConnTypes' /\ Registered'
  BY RegisteredStep DEF BridgeInv, BridgeTypes
<1> QED
  BY <1>1, <1>2 DEF BridgeInv, BridgeTypes

-----------------------------------------------------------------------------
(* The theorems *)

\* Where SaveSettings is tells what is applied and stored, and every open session
\* is in Bridge.sessions, in every reachable state, stranded connections or not.
THEOREM BridgeSafety == Spec => []BridgeInv
BY BridgeInit, BridgeStep, PTL DEF Spec

\* Whatever step of SaveSettings failed, when it is over the bridge, the store and
\* app.Run have the same settings, unless the way back failed as well.
THEOREM SettingsAlwaysAgree == Spec => []SettingsAgree
<1>1. BridgeInv => SettingsAgree
  BY DEF BridgeInv, SaveInv, SettingsAgree
<1> QED
  BY <1>1, BridgeSafety, PTL

\* Stop leaves no session open that it could have found: none outlives the
\* bridge it was registered with (closing the sessions in Bridge.Stop).
THEOREM StopEndsSessions ==
  Spec => [][server /\ ~server' => \A c \in Conn : conn'[c] # "open"]_vars
<1>1. BridgeInv /\ [Next]_vars => [server /\ ~server' => \A c \in Conn : conn'[c] # "open"]_vars
  <2> SUFFICES ASSUME BridgeInv, [Next]_vars, server, ~server'
               PROVE  \A c \in Conn : conn'[c] # "open"
    OBVIOUS
  <2>1. \A c \in Conn : OfConn(c) => server' = server
    BY ZenonT(40) DEF OfConn, Session, Hijack, Register, HandlerEnds, PairResult, Tick, Compare, Write,
           Connect, Disconnect, Hello, PairRequest, Answer, Subscribe, CreateTask,
           TaskAction, Refuse, settingsVars
  <2>2. ~ApplyStart
    BY DEF ApplyStart, SaveAt, BridgeInv, SaveInv
  <2>3. Stop
    BY <2>1, <2>2, OtherStep
  <2> QED
    BY <2>3 DEF Stop, Close, BridgeInv, BridgeTypes, ConnTypes, Registered
<1> QED
  BY <1>1, BridgeSafety, PTL DEF Spec

\* Every open session that was not in its handshake at a Stop belongs to the running
\* bridge and has shown, or was given, the token in force, whatever was approved or
\* saved in between, and however many others a Stop has stranded.
THEOREM SessionsAlwaysCurrent == Spec => []SessionsAreCurrent
<1>1. BridgeInv /\ Current /\ [Next]_vars => Current'
  BY CurrentStep DEF BridgeInv, BridgeTypes, SaveInv
<1>2. Current => SessionsAreCurrent
  BY DEF Current, SessionsAreCurrent
<1> QED
  BY <1>1, <1>2, BridgeInit, BridgeStep, PTL DEF Spec
=============================================================================
