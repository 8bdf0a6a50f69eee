------------------------------- MODULE PlayerLogin -------------------------------
(***************************************************************************)
(* Sessions and characters: a client connects, logs a character in, loses   *)
(* its socket, comes back, and the server stops.                            *)
(*                                                                          *)
(* World keeps one session per account in m_sessions.  A session that loses *)
(* its socket with a character in the world goes to m_disconnectedSessions: *)
(* the character lingers there until its timer ends or the account logs it  *)
(* in again.  A login reads the character through a LoginQueryHolder, saves *)
(* are transactions; both carry the low guid of the character as serial id, *)
(* so the database executes them in order (SqlDelay, AsyncDatabase).  The   *)
(* holder comes back through the result queue and is matched to a session   *)
(* by account alone.                                                        *)
(*                                                                          *)
(* The world thread runs one phase of World::Update after the other; the    *)
(* network threads and the database work beside it.  What a character is    *)
(* made of is abstracted to a number that grows with all that happens to    *)
(* it.  The login queue is left out: every session is let in.               *)
(***************************************************************************)
EXTENDS Integers, Sequences, FiniteSets

CONSTANTS
    Accounts,      \* the accounts
    Chars,         \* the characters
    Owner,         \* the account of each character
    LingerTicks,   \* m_disconnectTimer, in ticks
    MaxSessions,   \* bound: sessions created
    MaxLogins,     \* bound: login requests
    MaxWork,       \* bound: changes to characters
    NoChar,        \* no Player
    NoSession,     \* no WorldSession
    Out            \* the character is not in the world

Ids == 1 .. MaxSessions
Versions == 0 .. MaxWork

ASSUME OwnerAssumption == Owner \in [Chars -> Accounts]
ASSUME BoundsAssumption ==
    LingerTicks \in Nat /\ MaxSessions \in Nat /\ MaxLogins \in Nat /\ MaxWork \in Nat
ASSUME NullAssumption == NoChar \notin Chars /\ NoSession \notin Nat /\ Out \notin Nat

VARIABLES
    sess,           \* the WorldSession objects created, in order
    addSessQueue,   \* World::addSessQueue
    sessions,       \* World::m_sessions
    disconnected,   \* World::m_disconnectedSessions
    mem,            \* the Player objects in the world, by their version
    owner,          \* Player::m_session
    far,            \* characters on their way to another map
    db,             \* the version of each character in the database
    pipe,           \* operations of each character handed to the database
    results,        \* the result queue: holders that were read
    wpc,            \* the phase of the world thread
    todo,           \* sessions the loops of UpdateSessions have to reach
    final,          \* this is the UpdateSessions(1) of World::Shutdown
    stopEvent,      \* World::m_stopEvent
    work,           \* bound: changes to characters so far; the last version
    logins          \* bound: login requests so far

charVars == <<mem, owner, far>>
dbVars == <<db, results>>
boundVars == <<work, logins>>
vars == <<sess, addSessQueue, sessions, disconnected, charVars, pipe, dbVars, wpc, todo, final,
          stopEvent, boundVars>>

Init ==
    /\ sess = <<>>
    /\ addSessQueue = <<>>
    /\ sessions = [a \in Accounts |-> NoSession]
    /\ disconnected = {}
    /\ mem = [c \in Chars |-> Out]
    /\ owner = [c \in Chars |-> NoSession]
    /\ far = {}
    /\ db = [c \in Chars |-> 0]
    /\ pipe = [c \in Chars |-> <<>>]
    /\ results = <<>>
    /\ wpc = "add"
    /\ todo = {}
    /\ final = FALSE
    /\ stopEvent = FALSE
    /\ work = 0
    /\ logins = 0

-----------------------------------------------------------------------------
(* What the database was asked for. *)

SaveOp(v) == [kind |-> "save", ver |-> v]

(* asked: the last state handed over when the login was requested. *)
LoadOp(a, v) == [kind |-> "load", acc |-> a, asked |-> v]

Saves(c) == {i \in DOMAIN pipe[c] : pipe[c][i].kind = "save"}

(* The last state of a character handed to the database. *)
LastSaved(c) ==
    IF Saves(c) = {}
    THEN db[c]
    ELSE pipe[c][CHOOSE i \in Saves(c) : \A j \in Saves(c) : j <= i].ver

(* Player::SaveToDB. *)
SaveToDB(c) == pipe' = [pipe EXCEPT ![c] = Append(@, SaveOp(mem[c]))]

(* Mutant: the transfer is left as it is. *)
LogoutPlayerStillFar(s) ==
    LET c == sess[s].player
    IN  IF c = NoChar
        THEN UNCHANGED <<charVars, pipe>>
        ELSE /\ SaveToDB(c)
             /\ mem' = [mem EXCEPT ![c] = Out]
             /\ owner' = [owner EXCEPT ![c] = NoSession]
             /\ UNCHANGED far

(* Mutant: SaveToDB gives up between two maps. *)
LogoutPlayerUnforced(s) ==
    LET c == sess[s].player
    IN  IF c = NoChar
        THEN UNCHANGED <<charVars, pipe>>
        ELSE /\ IF c \in far THEN UNCHANGED pipe ELSE SaveToDB(c)
             /\ mem' = [mem EXCEPT ![c] = Out]
             /\ owner' = [owner EXCEPT ![c] = NoSession]
             /\ far' = far \ {c}

(* WorldSession::LogoutPlayer(true) with the character of session s; a      *)
(* transfer to another map is finished first.                               *)
LogoutPlayer(s) ==
    LET c == sess[s].player
    IN  IF c = NoChar
        THEN UNCHANGED <<charVars, pipe>>
        ELSE /\ SaveToDB(c)
             /\ mem' = [mem EXCEPT ![c] = Out]
             /\ owner' = [owner EXCEPT ![c] = NoSession]
             /\ far' = far \ {c}

(* A deleted session; the destructor logs its character out. *)
Deleted(s) == [sess[s] EXCEPT !.live = FALSE, !.sock = "null", !.loading = FALSE,
                              !.player = NoChar]

(* WorldSession::KickPlayer closes the socket. *)
Kicked(s) == [sess[s] EXCEPT !.sock = IF @ = "open" THEN "closed" ELSE @]

-----------------------------------------------------------------------------
(* The network threads. *)

(* A client authenticates: World::AddSession. *)
Connect(a) ==
    /\ wpc \notin {"stopped", "ended"}
    /\ Len(sess) < MaxSessions
    /\ sess' = Append(sess, [acc |-> a, live |-> TRUE, sock |-> "open", loading |-> FALSE,
                             player |-> NoChar, timer |-> 0])
    /\ addSessQueue' = Append(addSessQueue, Len(sess) + 1)
    /\ UNCHANGED <<sessions, disconnected, charVars, pipe, dbVars, wpc, todo, final,
                   stopEvent, boundVars>>

(* A socket is closed from outside. *)
CloseSocket(s) ==
    /\ wpc \notin {"stopped", "ended"}
    /\ sess[s].sock = "open"
    /\ sess' = [sess EXCEPT ![s].sock = "closed"]
    /\ UNCHANGED <<addSessQueue, sessions, disconnected, charVars, pipe, dbVars, wpc, todo,
                   final, stopEvent, boundVars>>

-----------------------------------------------------------------------------
(* World::UpdateSessions, first part: AddSession_ for every new session. *)

InWorld(c) == mem[c] # Out /\ c \notin far

(* ForcePlayerLogoutDelay keeps the character in the world. *)
HasPlayerInWorld(s) == sess[s].player # NoChar /\ InWorld(sess[s].player)
Lingers(s) == ~stopEvent /\ HasPlayerInWorld(s)

NewSession(s, old) ==
    /\ wpc = "add"
    /\ addSessQueue # <<>>
    /\ s = Head(addSessQueue)
    /\ old = sessions[sess[s].acc]
    /\ addSessQueue' = Tail(addSessQueue)

AddFirstSession(s) ==
    /\ NewSession(s, NoSession)
    /\ sessions' = [sessions EXCEPT ![sess[s].acc] = s]
    /\ UNCHANGED <<sess, disconnected, charVars, pipe, dbVars, wpc, todo, final, stopEvent,
                   boundVars>>

(* RemoveSession returned false: the account is loading a character. *)
RejectSession(s, old) ==
    /\ NewSession(s, old)
    /\ sess[old].loading
    /\ sess' = [sess EXCEPT ![s] = Deleted(s)]
    /\ UNCHANGED <<sessions, disconnected, charVars, pipe, dbVars, wpc, todo, final,
                   stopEvent, boundVars>>

(* The old session is kicked; its character lingers ... *)
ReplaceLingering(s, old) ==
    /\ NewSession(s, old)
    /\ ~sess[old].loading
    /\ Lingers(old)
    /\ sess' = [sess EXCEPT ![old] = [Kicked(old) EXCEPT !.timer = LingerTicks]]
    /\ SaveToDB(sess[old].player)
    /\ sessions' = [sessions EXCEPT ![sess[s].acc] = s]
    /\ disconnected' = disconnected \cup {old}
    /\ UNCHANGED <<charVars, dbVars, wpc, todo, final, stopEvent, boundVars>>

(* ... or it is deleted. *)
ReplaceDeleted(s, old) ==
    /\ NewSession(s, old)
    /\ ~sess[old].loading
    /\ ~Lingers(old)
    /\ sess' = [sess EXCEPT ![old] = Deleted(old)]
    /\ LogoutPlayer(old)
    /\ sessions' = [sessions EXCEPT ![sess[s].acc] = s]
    /\ UNCHANGED <<disconnected, dbVars, wpc, todo, final, stopEvent, boundVars>>

InSessions == {sessions[a] : a \in Accounts} \ {NoSession}

AddDone ==
    /\ wpc = "add"
    /\ addSessQueue = <<>>
    /\ wpc' = "update"
    /\ todo' = InSessions
    /\ UNCHANGED <<sess, addSessQueue, sessions, disconnected, charVars, pipe, dbVars, final,
                   stopEvent, boundVars>>

-----------------------------------------------------------------------------
(* Second part: WorldSession::Update of every session in m_sessions. *)

Updating(s) == wpc = "update" /\ s \in todo

(* Nothing of interest happens. *)
UpdateSession(s) ==
    /\ Updating(s)
    /\ sess[s].sock = "open"
    /\ todo' = todo \ {s}
    /\ UNCHANGED <<sess, addSessQueue, sessions, disconnected, charVars, pipe, dbVars, wpc,
                   final, stopEvent, boundVars>>

(* The client asks for one of its characters. *)
HandlePlayerLoginOpcode(s, c) ==
    /\ Updating(s)
    /\ sess[s].sock = "open"
    /\ Owner[c] = sess[s].acc
    /\ ~sess[s].loading
    /\ sess[s].player = NoChar
    /\ logins < MaxLogins
    /\ logins' = logins + 1
    /\ sess' = [sess EXCEPT ![s].loading = TRUE]
    /\ pipe' = [pipe EXCEPT ![c] = Append(@, LoadOp(sess[s].acc, LastSaved(c)))]
    /\ todo' = todo \ {s}
    /\ UNCHANGED <<addSessQueue, sessions, disconnected, charVars, dbVars, wpc, final,
                   stopEvent, work>>

(* The client logged out, at once or 20 seconds ago. *)
HandleLogoutRequest(s) ==
    /\ Updating(s)
    /\ sess[s].sock = "open"
    /\ sess[s].player # NoChar
    /\ LogoutPlayer(s)
    /\ sess' = [sess EXCEPT ![s].player = NoChar]
    /\ todo' = todo \ {s}
    /\ UNCHANGED <<addSessQueue, sessions, disconnected, dbVars, wpc, final, stopEvent, boundVars>>

(* The client has loaded the other map. *)
HandleMoveWorldportAckOpcode(s) ==
    /\ Updating(s)
    /\ sess[s].sock = "open"
    /\ sess[s].player \in far
    /\ far' = far \ {sess[s].player}
    /\ todo' = todo \ {s}
    /\ UNCHANGED <<sess, addSessQueue, sessions, disconnected, mem, owner, pipe, dbVars, wpc, final,
                   stopEvent, boundVars>>

(* Update returned false: the session is erased and deleted. *)
EraseSession(s) ==
    /\ sessions' = [sessions EXCEPT ![sess[s].acc] = NoSession]
    /\ sess' = [sess EXCEPT ![s] = Deleted(s)]
    /\ LogoutPlayer(s)
    /\ todo' = todo \ {s}
    /\ UNCHANGED <<addSessQueue, disconnected, dbVars, wpc, final, stopEvent, boundVars>>

CharacterScreenIdleKick(s) ==
    /\ Updating(s)
    /\ sess[s].sock = "open"
    /\ sess[s].player = NoChar
    /\ ~sess[s].loading
    /\ EraseSession(s)

SocketClosed(s) ==
    /\ Updating(s)
    /\ sess[s].sock = "closed"
    /\ ~Lingers(s)
    /\ EraseSession(s)

(* Mutant: the session stays in m_sessions. *)
SetDisconnectedSessionKept(s) ==
    /\ Updating(s)
    /\ sess[s].sock = "closed"
    /\ Lingers(s)
    /\ disconnected' = disconnected \cup {s}
    /\ sess' = [sess EXCEPT ![s].sock = "null", ![s].timer = LingerTicks]
    /\ SaveToDB(sess[s].player)
    /\ \E skipped \in {{}} \cup {{t} : t \in todo} : todo' = todo \ (skipped \cup {s})
    /\ UNCHANGED <<addSessQueue, sessions, charVars, dbVars, wpc, final, stopEvent, boundVars>>

(* The session moves to m_disconnectedSessions while UpdateSessions         *)
(* iterates over m_sessions: the erased slot may be filled with the next    *)
(* session, which the iteration then skips.                                 *)
SetDisconnectedSession(s) ==
    /\ Updating(s)
    /\ sess[s].sock = "closed"
    /\ Lingers(s)
    /\ sessions' = [sessions EXCEPT ![sess[s].acc] = NoSession]
    /\ disconnected' = disconnected \cup {s}
    /\ sess' = [sess EXCEPT ![s].sock = "null", ![s].timer = LingerTicks]
    /\ SaveToDB(sess[s].player)
    /\ \E skipped \in {{}} \cup {{t} : t \in todo} : todo' = todo \ (skipped \cup {s})
    /\ UNCHANGED <<addSessQueue, charVars, dbVars, wpc, final, stopEvent, boundVars>>

UpdateDone ==
    /\ wpc = "update"
    /\ todo = {}
    /\ wpc' = "disconnected"
    /\ todo' = disconnected
    /\ UNCHANGED <<sess, addSessQueue, sessions, disconnected, charVars, pipe, dbVars, final,
                   stopEvent, boundVars>>

-----------------------------------------------------------------------------
(* Third part: WorldSession::UpdateDisconnected. *)

UpdatingDisconnected(s) ==
    /\ wpc = "disconnected"
    /\ s \in todo
    /\ todo' = todo \ {s}

(* The character changed its session, left its map, or its time is over. *)
DeleteDisconnected(s) ==
    /\ UpdatingDisconnected(s)
    /\ ~HasPlayerInWorld(s) \/ sess[s].timer = 0
    /\ sess' = [sess EXCEPT ![s] = Deleted(s)]
    /\ disconnected' = disconnected \ {s}
    /\ LogoutPlayer(s)
    /\ UNCHANGED <<addSessQueue, sessions, dbVars, wpc, final, stopEvent, boundVars>>

(* World::Shutdown takes one millisecond from the timer. *)
KeepDisconnected(s) ==
    /\ UpdatingDisconnected(s)
    /\ HasPlayerInWorld(s)
    /\ sess[s].timer > 0 \/ final
    /\ sess' = [sess EXCEPT ![s].timer = IF final THEN @ ELSE @ - 1]
    /\ UNCHANGED <<addSessQueue, sessions, disconnected, charVars, pipe, dbVars, wpc, final,
                   stopEvent, boundVars>>

DisconnectedDone ==
    /\ wpc = "disconnected"
    /\ todo = {}
    /\ wpc' = IF final THEN "stopped" ELSE "maps"
    /\ UNCHANGED <<sess, addSessQueue, sessions, disconnected, charVars, pipe, dbVars, todo,
                   final, stopEvent, boundVars>>

-----------------------------------------------------------------------------
(* sMapMgr.Update: something happens to a character; Player::Update saves   *)
(* it from time to time.                                                    *)

Change(c) ==
    /\ wpc = "maps"
    /\ InWorld(c)
    /\ work < MaxWork
    /\ work' = work + 1
    /\ mem' = [mem EXCEPT ![c] = work + 1]
    /\ UNCHANGED <<sess, addSessQueue, sessions, disconnected, owner, far, pipe, dbVars, wpc, todo,
                   final, stopEvent, logins>>

TeleportFar(c) ==
    /\ wpc = "maps"
    /\ InWorld(c)
    /\ far' = far \cup {c}
    /\ UNCHANGED <<sess, addSessQueue, sessions, disconnected, mem, owner, pipe, dbVars, wpc, todo,
                   final, stopEvent, boundVars>>

(* A character between two maps is not updated, and would not be saved. *)
AutoSave(c) ==
    /\ wpc = "maps"
    /\ InWorld(c)
    /\ mem[c] # LastSaved(c)        \* bound: a save that changes nothing
    /\ SaveToDB(c)
    /\ UNCHANGED <<sess, addSessQueue, sessions, disconnected, charVars, dbVars, wpc, todo,
                   final, stopEvent, boundVars>>

MapsDone ==
    /\ wpc = "maps"
    /\ wpc' = "results"
    /\ UNCHANGED <<sess, addSessQueue, sessions, disconnected, charVars, pipe, dbVars, todo,
                   final, stopEvent, boundVars>>

-----------------------------------------------------------------------------
(* UpdateResultQueue: HandlePlayerLoginCallback and HandlePlayerLogin. *)

NextResult(s) ==
    /\ wpc = "results"
    /\ results # <<>>
    /\ s = sessions[Head(results).acc]
    /\ results' = Tail(results)
    /\ UNCHANGED <<addSessQueue, sessions, disconnected, db, pipe, wpc, todo, final, stopEvent,
                   boundVars>>

Expects(s) == s # NoSession /\ sess[s].player = NoChar /\ sess[s].loading

(* The account has no session, or one that expects no character. *)
DropHolder(s) ==
    /\ NextResult(s)
    /\ ~Expects(s)
    /\ sess' = IF s = NoSession THEN sess ELSE [sess EXCEPT ![s].loading = FALSE]
    /\ UNCHANGED charVars

Login(s, c) ==
    /\ NextResult(s)
    /\ c = Head(results).char
    /\ Expects(s)

(* Mutant: no SetPlayer(nullptr). *)
TakeOverKeepsPlayer(s, c) ==
    /\ Login(s, c)
    /\ InWorld(c)
    /\ sess' = [sess EXCEPT ![s].player = c, ![s].loading = FALSE]
    /\ owner' = [owner EXCEPT ![c] = s]
    /\ UNCHANGED <<mem, far>>

(* Mutant: m_playerLoading stays. *)
TakeOverStillLoading(s, c) ==
    /\ Login(s, c)
    /\ InWorld(c)
    /\ sess' = [sess EXCEPT ![owner[c]].player = NoChar,
                            ![s].player = c]
    /\ owner' = [owner EXCEPT ![c] = s]
    /\ UNCHANGED <<mem, far>>

(* The character lingers: it changes its session. *)
TakeOver(s, c) ==
    /\ Login(s, c)
    /\ InWorld(c)
    /\ sess' = [sess EXCEPT ![owner[c]].player = NoChar,
                            ![s].player = c, ![s].loading = FALSE]
    /\ owner' = [owner EXCEPT ![c] = s]
    /\ UNCHANGED <<mem, far>>

(* Player::LoadFromDB from the holder. *)
LoadFromDB(s, c) ==
    /\ Login(s, c)
    /\ mem[c] = Out
    /\ sess' = [sess EXCEPT ![s].player = c, ![s].loading = FALSE]
    /\ owner' = [owner EXCEPT ![c] = s]
    /\ mem' = [mem EXCEPT ![c] = Head(results).ver]
    /\ UNCHANGED far

(* LoadFromDB refuses the character, or it is between two maps: the session *)
(* is kicked.                                                               *)
LoginFails(s, c) ==
    /\ Login(s, c)
    /\ ~InWorld(c)
    /\ sess' = [sess EXCEPT ![s] = [Kicked(s) EXCEPT !.loading = FALSE]]
    /\ UNCHANGED charVars

HandleResult ==
    \E s \in InSessions \cup {NoSession} :
        \/ DropHolder(s)
        \/ \E c \in Chars : TakeOver(s, c) \/ LoadFromDB(s, c) \/ LoginFails(s, c)

(* Mutant: no KickAll. *)
ResultsDoneUnkicked ==
    /\ wpc = "results"
    /\ wpc' = "add"
    /\ final' = stopEvent
    /\ UNCHANGED <<sess, addSessQueue, sessions, disconnected, charVars, pipe, dbVars, todo,
                   stopEvent, boundVars>>

(* The queue is empty, or the time for it is over.  When the server is to   *)
(* stop, this was the last tick: World::Shutdown, KickAll.                  *)
ResultsDone ==
    /\ wpc = "results"
    /\ wpc' = "add"
    /\ final' = stopEvent
    /\ sess' = IF stopEvent THEN [s \in DOMAIN sess |->
                                     IF s \in InSessions THEN Kicked(s) ELSE sess[s]]
                            ELSE sess
    /\ UNCHANGED <<addSessQueue, sessions, disconnected, charVars, pipe, dbVars, todo,
                   stopEvent, boundVars>>

-----------------------------------------------------------------------------
(* The delay threads of CharacterDatabase. *)

ExecuteOperation(c) ==
    /\ pipe[c] # <<>>
    /\ pipe' = [pipe EXCEPT ![c] = Tail(@)]
    /\ LET op == Head(pipe[c])
       IN  IF op.kind = "save"
           THEN db' = [db EXCEPT ![c] = op.ver] /\ UNCHANGED results
           ELSE /\ results' = Append(results, [char |-> c, acc |-> op.acc, ver |-> db[c],
                                               asked |-> op.asked])
                /\ UNCHANGED db
    /\ UNCHANGED <<sess, addSessQueue, sessions, disconnected, charVars, wpc, todo, final,
                   stopEvent, boundVars>>

(* CharacterDatabase.StopServer executes what is queued and cancels the     *)
(* callbacks; then the process ends.                                        *)
StopServer ==
    /\ wpc = "stopped"
    /\ \A c \in Chars : pipe[c] = <<>>
    /\ results' = <<>>
    /\ wpc' = "ended"
    /\ UNCHANGED <<sess, addSessQueue, sessions, disconnected, charVars, pipe, db, todo, final,
                   stopEvent, boundVars>>

StopNow ==
    /\ ~stopEvent
    /\ stopEvent' = TRUE
    /\ UNCHANGED <<sess, addSessQueue, sessions, disconnected, charVars, pipe, dbVars, wpc,
                   todo, final, boundVars>>

Terminated == wpc = "ended" /\ UNCHANGED vars

-----------------------------------------------------------------------------
WorldStep ==
    \/ \E s \in Ids : AddFirstSession(s) \/ \E old \in Ids : \/ RejectSession(s, old)
                                                           \/ ReplaceLingering(s, old)
                                                           \/ ReplaceDeleted(s, old)
    \/ AddDone
    \/ \E s \in todo : \/ UpdateSession(s)
                       \/ \E c \in Chars : HandlePlayerLoginOpcode(s, c)
                       \/ HandleLogoutRequest(s)
                       \/ HandleMoveWorldportAckOpcode(s)
                       \/ CharacterScreenIdleKick(s)
                       \/ SocketClosed(s)
                       \/ SetDisconnectedSession(s)
    \/ UpdateDone
    \/ \E s \in todo : DeleteDisconnected(s) \/ KeepDisconnected(s)
    \/ DisconnectedDone
    \/ \E c \in Chars : Change(c) \/ TeleportFar(c) \/ AutoSave(c)
    \/ MapsDone
    \/ HandleResult
    \/ ResultsDone
    \/ StopServer

Next ==
    \/ \E a \in Accounts : Connect(a)
    \/ \E s \in DOMAIN sess : CloseSocket(s)
    \/ WorldStep
    \/ \E c \in Chars : ExecuteOperation(c)
    \/ StopNow
    \/ Terminated

Spec == Init /\ [][Next]_vars

(* The world thread and the database threads keep working.  Every tick ends *)
(* its phase of maps, and ProcessResultQueue handles at least one result    *)
(* each time it is called.                                                  *)
Fairness ==
    /\ WF_vars(WorldStep)
    /\ WF_vars(MapsDone)
    /\ SF_vars(HandleResult)
    /\ \A c \in Chars : WF_vars(ExecuteOperation(c))

FairSpec == Spec /\ Fairness

-----------------------------------------------------------------------------
(* Safety. *)

OpOf(c) ==
    [kind : {"save"}, ver : Versions]
        \cup [kind : {"load"}, acc : {Owner[c]}, asked : Versions]

Session ==
    [acc : Accounts, live : BOOLEAN, sock : {"open", "closed", "null"}, loading : BOOLEAN,
     player : Chars \cup {NoChar}, timer : 0 .. LingerTicks]

(* The shape of the state: what AddSession_, HandlePlayerLogin and          *)
(* LogoutPlayer leave in the sessions, the maps of World and the Players.   *)
TypeOK ==
    /\ sess \in Seq(Session) /\ Len(sess) <= MaxSessions
    /\ addSessQueue \in Seq(Ids)
    /\ \A i \in DOMAIN addSessQueue : addSessQueue[i] \in DOMAIN sess
    /\ sessions \in [Accounts -> DOMAIN sess \cup {NoSession}]
    /\ disconnected \subseteq DOMAIN sess
    /\ mem \in [Chars -> Versions \cup {Out}]
    /\ owner \in [Chars -> DOMAIN sess \cup {NoSession}]
    /\ far \subseteq {c \in Chars : mem[c] # Out}
    /\ db \in [Chars -> Versions]
    /\ DOMAIN pipe = Chars /\ \A c \in Chars : pipe[c] \in Seq(OpOf(c))
    /\ results \in Seq([char : Chars, acc : Accounts, ver : Versions, asked : Versions])
    /\ wpc \in {"add", "update", "disconnected", "maps", "results", "stopped", "ended"}
    /\ todo \subseteq DOMAIN sess
    /\ final \in BOOLEAN /\ stopEvent \in BOOLEAN
    /\ work \in 0 .. MaxWork /\ logins \in 0 .. MaxLogins

(* A character in the world and its session point at each other, and the    *)
(* session is one World still knows and will delete: GetSession() of a      *)
(* Player never dangles, whatever sockets close and sessions replace each   *)
(* other while a login is under way (HandlePlayerLogin's SetPlayer(nullptr) *)
(* and SetSession(this), ~WorldSession).                                    *)
PlayerHasItsSession ==
    /\ \A c \in Chars : mem[c] # Out =>
        /\ owner[c] \in InSessions \cup disconnected
        /\ sess[owner[c]].live /\ sess[owner[c]].player = c
    /\ \A s \in DOMAIN sess : sess[s].player # NoChar =>
        mem[sess[s].player] # Out /\ owner[sess[s].player] = s

(* A session is in one place: m_sessions by its account,                    *)
(* m_disconnectedSessions, or the queue of new ones; and what World holds   *)
(* was not deleted (UpdateSessions deletes from two containers and from     *)
(* AddSession_).                                                            *)
EverySessionOnce ==
    LET queued == {addSessQueue[i] : i \in DOMAIN addSessQueue}
    IN  /\ InSessions \cap disconnected = {}
        /\ queued \cap (InSessions \cup disconnected) = {}
        /\ \A s \in DOMAIN sess : sess[s].live <=> s \in queued \cup InSessions \cup disconnected
        /\ \A a \in Accounts : sessions[a] # NoSession => sess[sessions[a]].acc = a

(* When World::Shutdown has run, a character that is still in the world is  *)
(* one that lingers: KickAll and UpdateSessions(1) logged the others out    *)
(* ("save and kick all players").                                           *)
ShutdownLogsOut ==
    wpc \in {"stopped", "ended"} =>
        \A c \in Chars : mem[c] # Out => owner[c] \in disconnected

(* The inductive invariant of the proofs: what the loops of UpdateSessions   *)
(* have still to reach is in the container they go over,                     *)
Reaching ==
    /\ wpc = "update" => todo \subseteq InSessions
    /\ wpc = "disconnected" => todo \subseteq disconnected

(* a new session is queued once,                                             *)
QueuedOnce ==
    \A i, j \in DOMAIN addSessQueue : addSessQueue[i] = addSessQueue[j] => i = j

(* and after KickAll a session has a character only until UpdateSessions(1)  *)
(* reaches it, with its socket closed.                                       *)
Kicking ==
    /\ final => stopEvent /\ wpc \in {"add", "update", "disconnected", "stopped", "ended"}
    /\ wpc \in {"stopped", "ended"} => final
    /\ \A s \in DOMAIN sess : sess[s].live /\ s \notin disconnected => sess[s].sock # "null"
    /\ final => \A s \in InSessions : sess[s].player # NoChar =>
                   sess[s].sock = "closed" /\ (wpc = "add" \/ (wpc = "update" /\ s \in todo))

(* LastSaved is a save.                                                      *)
LastSaveExists ==
    \A c \in Chars : Saves(c) # {} => \E i \in Saves(c) : \A j \in Saves(c) : j <= i

IInv ==
    /\ TypeOK /\ PlayerHasItsSession /\ EverySessionOnce /\ ShutdownLogsOut
    /\ Reaching /\ QueuedOnce /\ Kicking /\ LastSaveExists

-----------------------------------------------------------------------------
(* What a step may not do. *)

(* A character leaves the world only after its last state was handed over   *)
(* for saving, in every way a session can end (LogoutPlayer(true)).         *)
LogoutSaves ==
    [][\A c \in Chars : mem[c] # Out /\ mem'[c] = Out => LastSaved(c)' = mem[c]]_vars

(* The state of a character in the database never goes back to an earlier   *)
(* one: the comment on SaveInventoryAndGoldToDB says that saves are         *)
(* serialized with the guid so that relogging before a query completes      *)
(* duplicates nothing.                                                      *)
NoRollback == [][\A c \in Chars : db'[c] >= db[c]]_vars

(* When the server ends, every character that was in the world is saved as  *)
(* it is: the comment in World::Shutdown.                                   *)
ShutdownSavesAll == wpc = "ended" => \A c \in Chars : mem[c] # Out => db[c] = mem[c]

-----------------------------------------------------------------------------
(* Liveness. *)

Loading(s) == s \in DOMAIN sess /\ sess[s].loading

(* A login is answered: the session gets a character, is kicked or gives    *)
(* up, unless the server stops.  m_playerLoading never stays, which would   *)
(* keep the account out (RemoveSession) for ever.                           *)
LoginAnswered == \A s \in Ids : Loading(s) ~> (~Loading(s) \/ stopEvent)

=================================================================================
