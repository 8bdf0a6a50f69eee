--------------------------- MODULE PlayerLoginProofs --------------------------
(***************************************************************************)
(* Proofs about PlayerLogin, for any accounts, characters, sessions and     *)
(* logins and any length of lingering.  IInv, in PlayerLogin, is inductive: *)
(* the three properties of the state support each other, since a session    *)
(* that is replaced, erased or deleted must be in the container it is taken *)
(* from (Reaching, QueuedOnce), and only the session of a character may log *)
(* it out.  Kicking carries ShutdownLogsOut from KickAll to the end.        *)
(*                                                                          *)
(* There is a lemma for each action.  Those that move no session or leave   *)
(* the characters alone rest on SessionsKept and PlayersKept; those that    *)
(* log a character out on PlayersLogout; those that move sessions on        *)
(* SessionEntered, SessionLeft and PlacesHold.                              *)
(***************************************************************************)
EXTENDS PlayerLogin, SequenceTheorems, TLAPS

USE DEF charVars, dbVars, boundVars, vars

-----------------------------------------------------------------------------
(* The data. *)

(* One session changes. *)
LEMMA SessionChanged ==
    ASSUME TypeOK, NEW s \in DOMAIN sess, NEW x \in Session, sess' = [sess EXCEPT ![s] = x]
    PROVE  /\ sess' \in Seq(Session) /\ Len(sess') = Len(sess) /\ DOMAIN sess' = DOMAIN sess
           /\ \A t \in DOMAIN sess : sess'[t] = IF t = s THEN x ELSE sess[t]
BY ExceptSeq DEF TypeOK

(* The numbers of the sessions that were created. *)
LEMMA SessionNumbers ==
    ASSUME TypeOK
    PROVE  /\ DOMAIN sess = 1 .. Len(sess) /\ Len(sess) \in Nat
           /\ DOMAIN sess \subseteq Ids /\ NoSession \notin DOMAIN sess
           /\ \A s \in DOMAIN sess : sess[s] \in Session
BY BoundsAssumption, NullAssumption DEF TypeOK, Ids

(* m_sessions holds sessions that were created. *)
LEMMA InSessionsInDomain == TypeOK => InSessions \subseteq DOMAIN sess
BY DEF TypeOK, InSessions

(* m_sessions holds a session under its account. *)
LEMMA InSessionsByAccount ==
    ASSUME TypeOK, EverySessionOnce
    PROVE  /\ InSessions \subseteq DOMAIN sess
           /\ \A s \in DOMAIN sess : s \in InSessions <=> sessions[sess[s].acc] = s
           /\ \A a \in Accounts : sessions[a] # NoSession => sessions[a] \in InSessions
           /\ \A a, b \in Accounts : sessions[a] = sessions[b] /\ sessions[a] # NoSession => a = b
<1>1. \A a \in Accounts : sessions[a] \in DOMAIN sess \cup {NoSession}
  BY DEF TypeOK
<1>2. \A s \in DOMAIN sess : sess[s].acc \in Accounts /\ s # NoSession
  BY SessionNumbers DEF Session
<1>3. \A a \in Accounts : sessions[a] # NoSession => sess[sessions[a]].acc = a
  BY DEF EverySessionOnce
<1>4. QED BY <1>1, <1>2, <1>3 DEF InSessions

(* SaveToDB hands over a state. *)
LEMMA SaveIsAnOperation ==
    ASSUME NEW c \in Chars, NEW v \in Versions
    PROVE  SaveOp(v) \in OpOf(c) /\ SaveOp(v).kind = "save" /\ SaveOp(v).ver = v
BY DEF SaveOp, OpOf

(* The queue of a character with one operation more, *)
LEMMA OperationAppended ==
    ASSUME TypeOK, LastSaveExists, NEW c \in Chars, NEW op \in OpOf(c),
           pipe' = [pipe EXCEPT ![c] = Append(@, op)]
    PROVE  /\ DOMAIN pipe' = Chars /\ \A d \in Chars : pipe'[d] \in Seq(OpOf(d))
           /\ LastSaveExists'
           /\ op.kind = "save" => LastSaved(c)' = op.ver
<1> DEFINE n == Len(pipe[c])
<1>1. /\ DOMAIN pipe = Chars /\ \A d \in Chars : pipe[d] \in Seq(OpOf(d))
      /\ n \in Nat /\ DOMAIN pipe[c] = 1 .. n
  BY DEF TypeOK
<1>2. /\ pipe'[c] = Append(pipe[c], op) /\ DOMAIN pipe' = Chars
      /\ \A d \in Chars \ {c} : pipe'[d] = pipe[d]
  BY <1>1
<1>3. /\ DOMAIN pipe'[c] = 1 .. n + 1 /\ pipe'[c][n + 1] = op
      /\ \A i \in 1 .. n : pipe'[c][i] = pipe[c][i]
      /\ pipe'[c] \in Seq(OpOf(c))
  BY <1>1, <1>2
<1> HIDE DEF n
<1>4. \A d \in Chars \ {c} : Saves(d)' = Saves(d)
  BY <1>2 DEF Saves
<1>5. Saves(c)' = Saves(c) \cup (IF op.kind = "save" THEN {n + 1} ELSE {})
  BY <1>1, <1>3 DEF Saves
<1>6. \A i \in Saves(c) : i \in 1 .. n
  BY <1>1 DEF Saves
<1>7. LastSaveExists'
  BY <1>1, <1>4, <1>5, <1>6 DEF LastSaveExists
<1>8. ASSUME op.kind = "save" PROVE LastSaved(c)' = op.ver
  <2>1. /\ n + 1 \in Saves(c)'
        /\ \A i \in Saves(c)' : (\A j \in Saves(c)' : j <= i) <=> i = n + 1
    BY <1>1, <1>5, <1>6, <1>8
  <2>2. (CHOOSE i \in Saves(c)' : \A j \in Saves(c)' : j <= i) = n + 1
    BY <2>1
  <2>3. QED BY <1>3, <2>1, <2>2 DEF LastSaved
<1>9. QED BY <1>1, <1>2, <1>3, <1>7, <1>8

(* and with the first one taken. *)
LEMMA OperationTaken ==
    ASSUME TypeOK, LastSaveExists, NEW c \in Chars, pipe[c] # <<>>,
           pipe' = [pipe EXCEPT ![c] = Tail(@)]
    PROVE  /\ DOMAIN pipe' = Chars /\ \A d \in Chars : pipe'[d] \in Seq(OpOf(d))
           /\ LastSaveExists'
           /\ Head(pipe[c]) \in OpOf(c)
<1> DEFINE n == Len(pipe[c])
<1>1. /\ DOMAIN pipe = Chars /\ \A d \in Chars : pipe[d] \in Seq(OpOf(d))
      /\ n \in Nat /\ DOMAIN pipe[c] = 1 .. n /\ n > 0
  BY DEF TypeOK
<1>2. /\ pipe'[c] = Tail(pipe[c]) /\ DOMAIN pipe' = Chars
      /\ \A d \in Chars \ {c} : pipe'[d] = pipe[d]
  BY <1>1
<1>3. /\ DOMAIN pipe'[c] = 1 .. n - 1
      /\ \A i \in 1 .. n - 1 : pipe'[c][i] = pipe[c][i + 1]
      /\ pipe'[c] \in Seq(OpOf(c)) /\ Head(pipe[c]) \in OpOf(c)
  BY <1>1, <1>2
<1> HIDE DEF n
<1>4. \A d \in Chars \ {c} : Saves(d)' = Saves(d)
  BY <1>2 DEF Saves
<1>5. /\ \A i \in Saves(c)' : i \in Nat \ {0} /\ i + 1 \in Saves(c)
      /\ \A i \in Saves(c) : i \in Nat /\ (i = 1 \/ i - 1 \in Saves(c)')
  BY <1>1, <1>3 DEF Saves
<1>6. ASSUME Saves(c)' # {} PROVE \E i \in Saves(c)' : \A j \in Saves(c)' : j <= i
  <2>1. PICK m \in Saves(c) : \A j \in Saves(c) : j <= m
    BY <1>5, <1>6 DEF LastSaveExists
  <2>2. m # 1 /\ m - 1 \in Saves(c)'
    BY <1>5, <1>6, <2>1
  <2>3. \A j \in Saves(c)' : j <= m - 1
    BY <1>5, <2>1
  <2>4. QED BY <2>2, <2>3
<1>7. LastSaveExists'
  BY <1>4, <1>6 DEF LastSaveExists
<1>8. QED BY <1>1, <1>2, <1>3, <1>7

(* The last state handed over is a version. *)
LEMMA LastSavedType ==
    ASSUME TypeOK, LastSaveExists, NEW c \in Chars PROVE LastSaved(c) \in Versions
<1>1. CASE Saves(c) = {}
  BY <1>1 DEF LastSaved, TypeOK
<1>2. CASE Saves(c) # {}
  <2> DEFINE m == CHOOSE i \in Saves(c) : \A j \in Saves(c) : j <= i
  <2>1. m \in Saves(c)
    BY <1>2 DEF LastSaveExists
  <2> HIDE DEF m
  <2>2. m \in DOMAIN pipe[c] /\ pipe[c] \in Seq(OpOf(c)) /\ pipe[c][m].kind = "save"
    BY <2>1 DEF Saves, TypeOK
  <2>3. pipe[c][m] \in OpOf(c)
    BY <2>2
  <2>4. pipe[c][m].ver \in Versions
    BY <2>2, <2>3 DEF OpOf
  <2>5. QED BY <1>2, <2>4 DEF LastSaved, m
<1>3. QED BY <1>1, <1>2

(* Parts of TypeOK: the sessions, the characters, the database and the rest. *)
SessionTypes ==
    /\ sess \in Seq(Session) /\ Len(sess) <= MaxSessions
    /\ addSessQueue \in Seq(Ids)
    /\ \A i \in DOMAIN addSessQueue : addSessQueue[i] \in DOMAIN sess
    /\ sessions \in [Accounts -> DOMAIN sess \cup {NoSession}]
    /\ disconnected \subseteq DOMAIN sess
    /\ todo \subseteq DOMAIN sess

CharTypes ==
    /\ mem \in [Chars -> Versions \cup {Out}]
    /\ owner \in [Chars -> DOMAIN sess \cup {NoSession}]
    /\ far \subseteq {c \in Chars : mem[c] # Out}

PipeTypes == DOMAIN pipe = Chars /\ \A c \in Chars : pipe[c] \in Seq(OpOf(c))

DbTypes ==
    /\ db \in [Chars -> Versions]
    /\ results \in Seq([char : Chars, acc : Accounts, ver : Versions, asked : Versions])

ControlTypes ==
    /\ wpc \in {"add", "update", "disconnected", "maps", "results", "stopped", "ended"}
    /\ final \in BOOLEAN /\ stopEvent \in BOOLEAN
    /\ work \in 0 .. MaxWork /\ logins \in 0 .. MaxLogins

(* They make up TypeOK, in a state *)
LEMMA Types == TypeOK <=> SessionTypes /\ CharTypes /\ PipeTypes /\ DbTypes /\ ControlTypes
BY DEF TypeOK, SessionTypes, CharTypes, PipeTypes, DbTypes, ControlTypes

(* and in the next one. *)
LEMMA TypesNext ==
    TypeOK' <=> SessionTypes' /\ CharTypes' /\ PipeTypes' /\ DbTypes' /\ ControlTypes'
BY DEF TypeOK, SessionTypes, CharTypes, PipeTypes, DbTypes, ControlTypes

(* Nothing is handed to the database, *)
LEMMA PipeKept ==
    ASSUME TypeOK, LastSaveExists, pipe' = pipe
    PROVE  PipeTypes' /\ LastSaveExists'
<1>1. \A c \in Chars : Saves(c)' = Saves(c)
  BY DEF Saves
<1>2. QED BY <1>1 DEF PipeTypes, TypeOK, LastSaveExists

(* or the characters stay as they are. *)
LEMMA CharsKept ==
    ASSUME TypeOK, UNCHANGED <<mem, owner, far>>, DOMAIN sess \subseteq DOMAIN sess'
    PROVE  CharTypes'
BY DEF CharTypes, TypeOK

-----------------------------------------------------------------------------
(* What a step does to a session. *)

(* KickPlayer changes the socket only. *)
LEMMA KickedSession ==
    ASSUME NEW s, sess[s] \in Session
    PROVE  /\ Kicked(s) \in Session
           /\ Kicked(s).acc = sess[s].acc /\ Kicked(s).live = sess[s].live
           /\ Kicked(s).loading = sess[s].loading /\ Kicked(s).player = sess[s].player
           /\ sess[s].sock # "null" => Kicked(s).sock = "closed"
BY DEF Kicked, Session

(* A deleted session has no character. *)
LEMMA DeletedSession ==
    ASSUME NEW s, sess[s] \in Session
    PROVE  /\ Deleted(s) \in Session
           /\ Deleted(s).acc = sess[s].acc /\ Deleted(s).live = FALSE
           /\ Deleted(s).player = NoChar
BY DEF Deleted, Session

(* Where the sessions are does not change. *)
LEMMA SessionsKept ==
    ASSUME TypeOK, EverySessionOnce, QueuedOnce,
           UNCHANGED <<addSessQueue, sessions, disconnected>>,
           sess' \in Seq(Session), Len(sess') = Len(sess), DOMAIN sess' = DOMAIN sess,
           \A t \in DOMAIN sess : sess'[t].acc = sess[t].acc /\ sess'[t].live = sess[t].live,
           todo' \subseteq DOMAIN sess
    PROVE  /\ SessionTypes' /\ EverySessionOnce' /\ QueuedOnce'
           /\ InSessions' = InSessions
<1>1. InSessions' = InSessions
  BY DEF InSessions
<1>2. SessionTypes'
  BY DEF SessionTypes, TypeOK
<1>3. QueuedOnce'
  BY DEF QueuedOnce
<1>4. \A a \in Accounts : sessions[a] # NoSession => sessions[a] \in DOMAIN sess
  BY DEF TypeOK
<1>5. EverySessionOnce'
  BY <1>1, <1>4 DEF EverySessionOnce
<1>6. QED BY <1>1, <1>2, <1>3, <1>5

(* Neither do the characters in the world and their sessions. *)
LEMMA PlayersKept ==
    ASSUME TypeOK, PlayerHasItsSession,
           DOMAIN sess \subseteq DOMAIN sess', owner' = owner,
           \A c \in Chars : mem'[c] = Out <=> mem[c] = Out,
           \A t \in DOMAIN sess :
                /\ sess'[t].player = sess[t].player
                /\ t \in InSessions \cup disconnected =>
                      sess'[t].live = sess[t].live /\ t \in (InSessions \cup disconnected)',
           \A t \in DOMAIN sess' \ DOMAIN sess : sess'[t].player = NoChar
    PROVE  PlayerHasItsSession'
<1>1. \A t \in DOMAIN sess : sess[t].player \in Chars \cup {NoChar}
  BY SessionNumbers DEF Session
<1>2. \A c \in Chars : mem[c] # Out => owner[c] \in DOMAIN sess
  BY SessionNumbers, InSessionsInDomain DEF PlayerHasItsSession, TypeOK
<1>3. QED BY <1>1, <1>2 DEF PlayerHasItsSession

(* A session without a character, or whose character is logged out. *)
LEMMA PlayersLogout ==
    ASSUME TypeOK, PlayerHasItsSession, LastSaveExists,
           NEW s \in DOMAIN sess, LogoutPlayer(s),
           NEW x \in Session, x.player = NoChar, sess' = [sess EXCEPT ![s] = x],
           \A t \in InSessions \cup disconnected :
                t # s => t \in (InSessions \cup disconnected)'
    PROVE  PlayerHasItsSession' /\ CharTypes' /\ PipeTypes' /\ LastSaveExists'
<1> DEFINE c == sess[s].player
<1>1. /\ DOMAIN sess' = DOMAIN sess
      /\ \A t \in DOMAIN sess : sess'[t] = IF t = s THEN x ELSE sess[t]
      /\ \A t \in DOMAIN sess : sess[t].player \in Chars \cup {NoChar}
  BY SessionChanged, SessionNumbers DEF Session
<1>2. CASE c = NoChar
  <2>1. UNCHANGED <<mem, owner, far, pipe>>
    BY <1>2 DEF LogoutPlayer
  <2>2. PlayerHasItsSession'
    BY <1>1, <1>2, <2>1, NullAssumption DEF PlayerHasItsSession
  <2>3. CharTypes'
    BY <1>1, <2>1 DEF CharTypes, TypeOK
  <2>4. QED BY <2>1, <2>2, <2>3, PipeKept
<1>3. CASE c # NoChar
  <2>1. /\ c \in Chars /\ mem[c] # Out /\ owner[c] = s /\ mem[c] \in Versions
    BY <1>1, <1>3 DEF PlayerHasItsSession, TypeOK
  <2>2. /\ SaveToDB(c)
        /\ mem' = [mem EXCEPT ![c] = Out] /\ owner' = [owner EXCEPT ![c] = NoSession]
        /\ far' = far \ {c}
    BY <1>3 DEF LogoutPlayer
  <2> HIDE DEF c
  <2>3. CharTypes'
    BY <1>1, <2>1, <2>2 DEF CharTypes, TypeOK
  <2>4. PipeTypes' /\ LastSaveExists'
    BY <2>1, <2>2, SaveIsAnOperation, OperationAppended DEF SaveToDB, PipeTypes
  <2>5. /\ \A d \in Chars : mem'[d] = IF d = c THEN Out ELSE mem[d]
        /\ \A d \in Chars : owner'[d] = IF d = c THEN NoSession ELSE owner[d]
    BY <2>1, <2>2 DEF TypeOK
  <2>6. ASSUME NEW d \in Chars, mem'[d] # Out
        PROVE  /\ owner'[d] \in (InSessions \cup disconnected)'
               /\ sess'[owner'[d]].live /\ sess'[owner'[d]].player = d
    <3>1. d # c /\ owner'[d] = owner[d] /\ mem[d] # Out
      BY <2>5, <2>6
    <3>2. /\ owner[d] \in InSessions \cup disconnected
          /\ sess[owner[d]].live /\ sess[owner[d]].player = d
      BY <3>1 DEF PlayerHasItsSession
    <3>3. owner[d] # s /\ owner[d] \in DOMAIN sess
      BY <3>1, <3>2, <1>1, InSessionsInDomain DEF c, TypeOK
    <3>4. QED BY <1>1, <3>1, <3>2, <3>3
  <2>7. ASSUME NEW t \in DOMAIN sess', sess'[t].player # NoChar
        PROVE  mem'[sess'[t].player] # Out /\ owner'[sess'[t].player] = t
    <3>1. t \in DOMAIN sess /\ t # s /\ sess'[t] = sess[t]
      BY <1>1, <2>7
    <3>2. /\ sess[t].player \in Chars /\ mem[sess[t].player] # Out
          /\ owner[sess[t].player] = t
      BY <1>1, <2>7, <3>1 DEF PlayerHasItsSession
    <3>3. QED BY <2>1, <2>5, <3>1, <3>2
  <2>8. QED BY <2>3, <2>4, <2>6, <2>7 DEF PlayerHasItsSession
<1>4. QED BY <1>2, <1>3

-----------------------------------------------------------------------------
(* The network threads. *)

(* A new session is in the queue and nowhere else. *)
LEMMA ConnectInvariant ==
    ASSUME IInv, NEW a \in Accounts, Connect(a)
    PROVE  IInv'
<1> DEFINE n == Len(sess)
           x == [acc |-> a, live |-> TRUE, sock |-> "open", loading |-> FALSE,
                 player |-> NoChar, timer |-> 0]
<1> USE DEF IInv
<1>1. /\ sess' = Append(sess, x) /\ addSessQueue' = Append(addSessQueue, n + 1)
      /\ UNCHANGED <<sessions, disconnected, mem, owner, far, pipe, db, results, wpc, todo,
                     final, stopEvent, work, logins>>
      /\ n < MaxSessions /\ wpc \notin {"stopped", "ended"}
  BY DEF Connect
<1>2. x \in Session /\ x.acc = a /\ x.live = TRUE /\ x.player = NoChar
  BY BoundsAssumption DEF Session
<1> HIDE DEF x
<1>3. /\ n \in Nat /\ DOMAIN sess = 1 .. n /\ sess' \in Seq(Session) /\ Len(sess') = n + 1
      /\ DOMAIN sess' = DOMAIN sess \cup {n + 1} /\ n + 1 \notin DOMAIN sess
      /\ \A t \in DOMAIN sess : sess'[t] = sess[t]
      /\ sess'[n + 1] = x
  BY <1>1, <1>2 DEF TypeOK
<1>4. /\ addSessQueue \in Seq(Ids) /\ addSessQueue' \in Seq(Ids)
      /\ DOMAIN addSessQueue = 1 .. Len(addSessQueue) /\ Len(addSessQueue) \in Nat
      /\ DOMAIN addSessQueue' = DOMAIN addSessQueue \cup {Len(addSessQueue) + 1}
      /\ \A i \in DOMAIN addSessQueue : addSessQueue'[i] = addSessQueue[i]
      /\ addSessQueue'[Len(addSessQueue) + 1] = n + 1
      /\ \A i \in DOMAIN addSessQueue : addSessQueue[i] \in DOMAIN sess
  BY <1>1, <1>3, BoundsAssumption DEF TypeOK, Ids
<1> HIDE DEF n
<1>5. SessionTypes'
  BY <1>1, <1>3, <1>4, BoundsAssumption DEF SessionTypes, TypeOK
<1>6. InSessions' = InSessions /\ InSessions \subseteq DOMAIN sess
  BY <1>1, InSessionsInDomain DEF InSessions
<1>7. CharTypes' /\ PipeTypes' /\ LastSaveExists' /\ DbTypes' /\ ControlTypes'
  BY <1>1, <1>3, CharsKept, PipeKept DEF DbTypes, ControlTypes, TypeOK
<1>8. PlayerHasItsSession'
  BY <1>1, <1>2, <1>3, <1>6, PlayersKept
<1>9. QueuedOnce'
  BY <1>3, <1>4 DEF QueuedOnce
<1>10. EverySessionOnce'
  <2> DEFINE queued == {addSessQueue[i] : i \in DOMAIN addSessQueue}
  <2>1. queued' = queued \cup {n + 1} /\ queued \subseteq DOMAIN sess
    BY <1>4
  <2>2. disconnected \subseteq DOMAIN sess
    BY DEF TypeOK
  <2>3. /\ InSessions \cap disconnected = {}
        /\ queued \cap (InSessions \cup disconnected) = {}
        /\ \A s \in DOMAIN sess : sess[s].live <=> s \in queued \cup InSessions \cup disconnected
        /\ \A b \in Accounts : sessions[b] # NoSession => sess[sessions[b]].acc = b
    BY DEF EverySessionOnce
  <2>4. \A b \in Accounts : sessions[b] # NoSession => sessions[b] \in DOMAIN sess
    BY DEF TypeOK
  <2> HIDE DEF queued
  <2>5. \A s \in DOMAIN sess' : sess'[s].live <=> s \in queued' \cup InSessions \cup disconnected
    BY <1>2, <1>3, <2>1, <2>3
  <2>6. \A b \in Accounts : sessions[b] # NoSession => sess'[sessions[b]].acc = b
    BY <1>3, <2>3, <2>4
  <2>7. queued' \cap (InSessions \cup disconnected) = {}
    BY <1>3, <1>6, <2>1, <2>2, <2>3
  <2>8. QED BY <1>1, <1>6, <2>3, <2>5, <2>6, <2>7 DEF EverySessionOnce, queued
<1>11. Reaching' /\ Kicking' /\ ShutdownLogsOut'
  BY <1>1, <1>3, <1>6 DEF Reaching, Kicking, ShutdownLogsOut, x
<1>12. QED BY <1>5, <1>7, <1>8, <1>9, <1>10, <1>11, TypesNext

(* A socket is closed from outside. *)
LEMMA CloseSocketInvariant ==
    ASSUME IInv, NEW s \in DOMAIN sess, CloseSocket(s)
    PROVE  IInv'
<1> DEFINE x == [sess[s] EXCEPT !.sock = "closed"]
<1> USE DEF IInv
<1>1. /\ sess' = [sess EXCEPT ![s] = x]
      /\ UNCHANGED <<addSessQueue, sessions, disconnected, mem, owner, far, pipe, db, results,
                     wpc, todo, final, stopEvent, work, logins>>
      /\ wpc \notin {"stopped", "ended"}
  BY DEF CloseSocket
<1>2. x \in Session /\ x.acc = sess[s].acc /\ x.live = sess[s].live /\ x.player = sess[s].player
      /\ x.sock = "closed"
  BY SessionNumbers DEF Session
<1> HIDE DEF x
<1>3. /\ sess' \in Seq(Session) /\ Len(sess') = Len(sess) /\ DOMAIN sess' = DOMAIN sess
      /\ \A t \in DOMAIN sess : sess'[t] = IF t = s THEN x ELSE sess[t]
  BY <1>1, <1>2, SessionChanged
<1>4. SessionTypes' /\ EverySessionOnce' /\ QueuedOnce' /\ InSessions' = InSessions
  BY <1>1, <1>2, <1>3, SessionsKept DEF TypeOK
<1>5. PlayerHasItsSession'
  BY <1>1, <1>2, <1>3, <1>4, PlayersKept
<1>6. CharTypes' /\ PipeTypes' /\ LastSaveExists' /\ DbTypes' /\ ControlTypes'
  BY <1>1, <1>3, CharsKept, PipeKept DEF DbTypes, ControlTypes, TypeOK
<1>7. Reaching' /\ Kicking' /\ ShutdownLogsOut'
  BY <1>1, <1>2, <1>3, <1>4, InSessionsInDomain DEF Reaching, Kicking, ShutdownLogsOut
<1>8. QED BY <1>4, <1>5, <1>6, <1>7, TypesNext

-----------------------------------------------------------------------------
(* AddSession_. *)

(* The sessions World::AddSession_ has still to add. *)
Queued == {addSessQueue[i] : i \in DOMAIN addSessQueue}

(* The head of the queue is a session that is nowhere else. *)
LEMMA NewSessionTaken ==
    ASSUME IInv, NEW s \in Ids, NEW old, NewSession(s, old)
    PROVE  /\ s \in DOMAIN sess /\ sess[s].live /\ sess[s].player = NoChar
           /\ s \notin InSessions /\ s \notin disconnected
           /\ old = sessions[sess[s].acc] /\ wpc = "add" /\ s \in Queued
           /\ addSessQueue' \in Seq(Ids) /\ QueuedOnce'
           /\ \A i \in DOMAIN addSessQueue' : addSessQueue'[i] \in DOMAIN sess
           /\ Queued' = Queued \ {s}
<1> USE DEF IInv
<1> DEFINE q == addSessQueue
           n == Len(q)
<1>1. q \in Seq(Ids) /\ q # <<>> /\ s = Head(q) /\ addSessQueue' = Tail(q)
      /\ old = sessions[sess[s].acc] /\ wpc = "add"
  BY DEF NewSession, TypeOK
<1>2. /\ n \in Nat /\ n > 0 /\ DOMAIN q = 1 .. n /\ q[1] = s
      /\ addSessQueue' \in Seq(Ids) /\ DOMAIN addSessQueue' = 1 .. n - 1
      /\ \A i \in 1 .. n - 1 : addSessQueue'[i] = q[i + 1]
  BY <1>1
<1>3. \A i \in 1 .. n : q[i] \in DOMAIN sess
  BY <1>2 DEF TypeOK
<1>4. \A i, j \in 1 .. n : q[i] = q[j] => i = j
  BY <1>2 DEF QueuedOnce
<1>5. Queued = {q[i] : i \in 1 .. n} /\ Queued' = {q[i + 1] : i \in 1 .. n - 1}
  BY <1>2 DEF Queued
<1> HIDE DEF q, n
<1>6. Queued' = Queued \ {s}
  <2>1. ASSUME NEW t \in Queued' PROVE t \in Queued /\ t # s
    <3>1. PICK i \in 1 .. n - 1 : t = q[i + 1]
      BY <1>5
    <3>2. i + 1 \in 1 .. n /\ i + 1 # 1 /\ 1 \in 1 .. n
      BY <1>2
    <3>3. QED BY <1>2, <1>4, <1>5, <3>1, <3>2
  <2>2. ASSUME NEW t \in Queued, t # s PROVE t \in Queued'
    <3>1. PICK i \in 1 .. n : t = q[i]
      BY <1>5
    <3>2. i - 1 \in 1 .. n - 1 /\ (i - 1) + 1 = i
      BY <1>2, <2>2, <3>1
    <3>3. QED BY <1>5, <3>1, <3>2
  <2>3. QED BY <2>1, <2>2
<1>7. QueuedOnce'
  BY <1>2, <1>4 DEF QueuedOnce
<1>8. s \in DOMAIN sess /\ s \in Queued
  BY <1>2, <1>3, <1>5
<1>9. s \notin InSessions \cup disconnected /\ sess[s].live
  BY <1>8 DEF EverySessionOnce, Queued
<1>10. sess[s].player = NoChar
  <2>1. SUFFICES ASSUME sess[s].player # NoChar PROVE FALSE
    OBVIOUS
  <2>2. sess[s].player \in Chars
    BY <1>8, <2>1, SessionNumbers DEF Session
  <2>3. QED BY <1>8, <1>9, <2>1, <2>2 DEF PlayerHasItsSession
<1>11. QED BY <1>1, <1>2, <1>3, <1>6, <1>7, <1>8, <1>9, <1>10

(* It takes the place of the old one in m_sessions. *)
LEMMA SessionEntered ==
    ASSUME TypeOK, EverySessionOnce, NEW s \in DOMAIN sess, s \notin InSessions,
           sessions' = [sessions EXCEPT ![sess[s].acc] = s]
    PROVE  /\ InSessions' = (InSessions \ {sessions[sess[s].acc]}) \cup {s}
           /\ sessions' \in [Accounts -> DOMAIN sess \cup {NoSession}]
           /\ \A a \in Accounts : sessions'[a] # NoSession => sess[sessions'[a]].acc = a
<1> DEFINE b == sess[s].acc
<1>1. b \in Accounts /\ s # NoSession
  BY SessionNumbers DEF Session
<1>2. sessions \in [Accounts -> DOMAIN sess \cup {NoSession}]
  BY DEF TypeOK
<1>3. \A a \in Accounts : sessions'[a] = IF a = b THEN s ELSE sessions[a]
  BY <1>1, <1>2
<1>4. sessions' \in [Accounts -> DOMAIN sess \cup {NoSession}]
  BY <1>1, <1>2
<1>5. \A a \in Accounts : sessions'[a] # NoSession => sess[sessions'[a]].acc = a
  BY <1>3 DEF EverySessionOnce
<1>6. \A a \in Accounts : sessions[a] = sessions[b] /\ sessions[a] # NoSession => a = b
  BY <1>1, InSessionsByAccount
<1> HIDE DEF b
<1>7. InSessions' = (InSessions \ {sessions[b]}) \cup {s}
  <2>1. ASSUME NEW t \in InSessions' PROVE t \in (InSessions \ {sessions[b]}) \cup {s}
    BY <1>1, <1>3, <1>6 DEF InSessions
  <2>2. ASSUME NEW t \in InSessions, t # sessions[b] PROVE t \in InSessions'
    <3>1. PICK a \in Accounts : t = sessions[a] /\ t # NoSession
      BY DEF InSessions
    <3>2. sessions'[a] = t
      BY <1>3, <2>2, <3>1
    <3>3. QED BY <3>1, <3>2 DEF InSessions
  <2>3. s \in InSessions'
    BY <1>1, <1>3 DEF InSessions
  <2>4. QED BY <2>1, <2>2, <2>3
<1>8. QED BY <1>4, <1>5, <1>7 DEF b

(* A session leaves m_sessions. *)
LEMMA SessionLeft ==
    ASSUME TypeOK, EverySessionOnce, NEW s \in InSessions,
           sessions' = [sessions EXCEPT ![sess[s].acc] = NoSession]
    PROVE  /\ InSessions' = InSessions \ {s}
           /\ sessions' \in [Accounts -> DOMAIN sess \cup {NoSession}]
           /\ \A a \in Accounts : sessions'[a] # NoSession => sess[sessions'[a]].acc = a
<1> DEFINE b == sess[s].acc
<1>1. b \in Accounts /\ s # NoSession /\ sessions[b] = s
  BY SessionNumbers, InSessionsInDomain, InSessionsByAccount DEF Session
<1>2. sessions \in [Accounts -> DOMAIN sess \cup {NoSession}]
  BY DEF TypeOK
<1>3. \A a \in Accounts : sessions'[a] = IF a = b THEN NoSession ELSE sessions[a]
  BY <1>1, <1>2
<1>4. sessions' \in [Accounts -> DOMAIN sess \cup {NoSession}]
  BY <1>1, <1>2
<1>5. \A a \in Accounts : sessions'[a] # NoSession => sess[sessions'[a]].acc = a
  BY <1>3 DEF EverySessionOnce
<1>6. \A a \in Accounts : sessions[a] = sessions[b] /\ sessions[a] # NoSession => a = b
  BY <1>1, InSessionsByAccount
<1> HIDE DEF b
<1>7. ASSUME NEW t \in InSessions' PROVE t \in InSessions \ {s}
  BY <1>1, <1>3, <1>6 DEF InSessions
<1>8. ASSUME NEW t \in InSessions, t # s PROVE t \in InSessions'
  <2>1. PICK a \in Accounts : t = sessions[a] /\ t # NoSession
    BY DEF InSessions
  <2>2. sessions'[a] = t
    BY <1>1, <1>3, <1>8, <2>1
  <2>3. QED BY <2>1, <2>2 DEF InSessions
<1>9. QED BY <1>4, <1>5, <1>7, <1>8

(* The places of the sessions, when the accounts stay as they are. *)
LEMMA PlacesHold ==
    ASSUME TypeOK, EverySessionOnce,
           DOMAIN sess' = DOMAIN sess, \A t \in DOMAIN sess : sess'[t].acc = sess[t].acc,
           sessions' \in [Accounts -> DOMAIN sess \cup {NoSession}],
           \A a \in Accounts : sessions'[a] # NoSession => sess[sessions'[a]].acc = a,
           (InSessions \cap disconnected)' = {},
           (Queued \cap (InSessions \cup disconnected))' = {},
           \A t \in DOMAIN sess : sess'[t].live <=> t \in (Queued \cup InSessions \cup disconnected)'
    PROVE  EverySessionOnce'
BY DEF EverySessionOnce, Queued

(* What they are, in terms of Queued. *)
LEMMA OnceByPlaces ==
    ASSUME EverySessionOnce
    PROVE  /\ InSessions \cap disconnected = {} /\ Queued \cap (InSessions \cup disconnected) = {}
           /\ \A t \in DOMAIN sess : sess[t].live <=> t \in Queued \cup InSessions \cup disconnected
           /\ \A a \in Accounts : sessions[a] # NoSession => sess[sessions[a]].acc = a
BY DEF EverySessionOnce, Queued

(* A session moves from the queue to m_sessions, *)
LEMMA AddFirstSessionInvariant ==
    ASSUME IInv, NEW s \in Ids, AddFirstSession(s)
    PROVE  IInv'
<1> USE DEF IInv
<1>1. /\ NewSession(s, NoSession) /\ sessions' = [sessions EXCEPT ![sess[s].acc] = s]
      /\ UNCHANGED <<sess, disconnected, mem, owner, far, pipe, db, results, wpc, todo, final,
                     stopEvent, work, logins>>
  BY DEF AddFirstSession
<1>2. /\ s \in DOMAIN sess /\ sess[s].live /\ sess[s].player = NoChar
      /\ s \notin InSessions /\ s \notin disconnected /\ s \in Queued
      /\ NoSession = sessions[sess[s].acc] /\ wpc = "add"
      /\ addSessQueue' \in Seq(Ids) /\ QueuedOnce'
      /\ \A i \in DOMAIN addSessQueue' : addSessQueue'[i] \in DOMAIN sess
      /\ Queued' = Queued \ {s}
  BY <1>1, NewSessionTaken
<1>3. /\ InSessions' = InSessions \cup {s}
      /\ sessions' \in [Accounts -> DOMAIN sess \cup {NoSession}]
      /\ \A a \in Accounts : sessions'[a] # NoSession => sess[sessions'[a]].acc = a
  BY <1>1, <1>2, SessionEntered DEF InSessions
<1>4. SessionTypes'
  BY <1>1, <1>2, <1>3 DEF SessionTypes, TypeOK
<1>5. CharTypes' /\ PipeTypes' /\ LastSaveExists' /\ DbTypes' /\ ControlTypes'
  BY <1>1, CharsKept, PipeKept DEF DbTypes, ControlTypes, TypeOK
<1>6. PlayerHasItsSession'
  BY <1>1, <1>3, PlayersKept
<1>7. EverySessionOnce'
  BY <1>1, <1>2, <1>3, OnceByPlaces, PlacesHold
<1>8. Reaching' /\ ShutdownLogsOut'
  BY <1>1, <1>2 DEF Reaching, ShutdownLogsOut
<1>9. sess[s].sock # "null"
  BY <1>2 DEF Kicking
<1>10. Kicking'
  BY <1>1, <1>2, <1>3, <1>9 DEF Kicking
<1>11. QED BY <1>2, <1>4, <1>5, <1>6, <1>7, <1>8, <1>10, TypesNext

(* or is deleted, *)
LEMMA RejectSessionInvariant ==
    ASSUME IInv, NEW s \in Ids, NEW old \in Ids, RejectSession(s, old)
    PROVE  IInv'
<1> USE DEF IInv
<1>1. /\ NewSession(s, old) /\ sess' = [sess EXCEPT ![s] = Deleted(s)]
      /\ UNCHANGED <<sessions, disconnected, mem, owner, far, pipe, db, results, wpc, todo, final,
                     stopEvent, work, logins>>
  BY DEF RejectSession
<1>2. /\ s \in DOMAIN sess /\ sess[s].player = NoChar
      /\ s \notin InSessions /\ s \notin disconnected /\ s \in Queued /\ wpc = "add"
      /\ addSessQueue' \in Seq(Ids) /\ QueuedOnce'
      /\ \A i \in DOMAIN addSessQueue' : addSessQueue'[i] \in DOMAIN sess
      /\ Queued' = Queued \ {s}
  BY <1>1, NewSessionTaken
<1>3. /\ Deleted(s) \in Session /\ Deleted(s).acc = sess[s].acc /\ Deleted(s).live = FALSE
      /\ Deleted(s).player = NoChar
  BY <1>2, SessionNumbers, DeletedSession
<1>4. /\ sess' \in Seq(Session) /\ Len(sess') = Len(sess) /\ DOMAIN sess' = DOMAIN sess
      /\ \A t \in DOMAIN sess : sess'[t] = IF t = s THEN Deleted(s) ELSE sess[t]
  BY <1>1, <1>2, <1>3, SessionChanged
<1>5. InSessions' = InSessions /\ InSessions \subseteq DOMAIN sess
  BY <1>1, InSessionsInDomain DEF InSessions
<1>6. SessionTypes'
  BY <1>1, <1>2, <1>4 DEF SessionTypes, TypeOK
<1>7. CharTypes' /\ PipeTypes' /\ LastSaveExists' /\ DbTypes' /\ ControlTypes'
  BY <1>1, <1>4, CharsKept, PipeKept DEF DbTypes, ControlTypes, TypeOK
<1>8. PlayerHasItsSession'
  BY <1>1, <1>2, <1>3, <1>4, <1>5, PlayersKept
<1>9. EverySessionOnce'
  <2>1. \A t \in DOMAIN sess : sess'[t].live <=> t \in Queued' \cup InSessions \cup disconnected
    BY <1>2, <1>3, <1>4, OnceByPlaces
  <2>2. \A t \in DOMAIN sess : sess'[t].acc = sess[t].acc
    BY <1>3, <1>4
  <2>3. sessions \in [Accounts -> DOMAIN sess \cup {NoSession}]
    BY DEF TypeOK
  <2>4. QED BY <1>1, <1>2, <1>4, <1>5, <2>1, <2>2, <2>3, OnceByPlaces, PlacesHold
<1>10. Reaching' /\ ShutdownLogsOut' /\ Kicking'
  BY <1>1, <1>2, <1>3, <1>4, <1>5 DEF Reaching, ShutdownLogsOut, Kicking
<1>11. QED BY <1>2, <1>6, <1>7, <1>8, <1>9, <1>10, TypesNext

(* or takes the place of one that moves to m_disconnectedSessions *)
LEMMA ReplaceLingeringInvariant ==
    ASSUME IInv, NEW s \in Ids, NEW old \in Ids, ReplaceLingering(s, old)
    PROVE  IInv'
<1> USE DEF IInv
<1> DEFINE x == [Kicked(old) EXCEPT !.timer = LingerTicks]
           c == sess[old].player
<1>1. /\ NewSession(s, old) /\ sess' = [sess EXCEPT ![old] = x]
      /\ Lingers(old) /\ SaveToDB(c)
      /\ sessions' = [sessions EXCEPT ![sess[s].acc] = s]
      /\ disconnected' = disconnected \cup {old}
      /\ UNCHANGED <<mem, owner, far, db, results, wpc, todo, final, stopEvent, work, logins>>
  BY DEF ReplaceLingering
<1>2. /\ s \in DOMAIN sess /\ sess[s].live /\ s \notin InSessions /\ s \notin disconnected
      /\ s \in Queued /\ old = sessions[sess[s].acc] /\ wpc = "add"
      /\ addSessQueue' \in Seq(Ids) /\ QueuedOnce'
      /\ \A i \in DOMAIN addSessQueue' : addSessQueue'[i] \in DOMAIN sess
      /\ Queued' = Queued \ {s}
  BY <1>1, NewSessionTaken
<1>3. /\ old \in InSessions /\ old \in DOMAIN sess /\ old # s /\ old \notin disconnected
      /\ old \notin Queued /\ sess[old].live
  <2>1. sess[s].acc \in Accounts /\ old # NoSession
    BY <1>2, SessionNumbers, NullAssumption DEF Session, Ids
  <2>2. old \in InSessions
    BY <1>2, <2>1 DEF InSessions
  <2>3. QED BY <1>2, <2>2, InSessionsInDomain, OnceByPlaces
<1>4. x \in Session /\ x.acc = sess[old].acc /\ x.live = sess[old].live /\ x.player = c
  <2>1. /\ Kicked(old) \in Session /\ Kicked(old).acc = sess[old].acc
        /\ Kicked(old).live = sess[old].live /\ Kicked(old).player = sess[old].player
    BY <1>3, SessionNumbers, KickedSession
  <2>2. LingerTicks \in 0 .. LingerTicks
    BY BoundsAssumption
  <2>3. QED BY <2>1, <2>2 DEF Session
<1>5. c \in Chars /\ mem[c] \in Versions /\ ~stopEvent
  BY <1>1, <1>3, SessionNumbers DEF Lingers, HasPlayerInWorld, InWorld, Session, TypeOK
<1> HIDE DEF x, c
<1>6. /\ sess' \in Seq(Session) /\ Len(sess') = Len(sess) /\ DOMAIN sess' = DOMAIN sess
      /\ \A t \in DOMAIN sess : sess'[t] = IF t = old THEN x ELSE sess[t]
  BY <1>1, <1>3, <1>4, SessionChanged
<1>7. /\ InSessions' = (InSessions \ {old}) \cup {s}
      /\ sessions' \in [Accounts -> DOMAIN sess \cup {NoSession}]
      /\ \A a \in Accounts : sessions'[a] # NoSession => sess[sessions'[a]].acc = a
  BY <1>1, <1>2, SessionEntered
<1>8. SessionTypes'
  BY <1>1, <1>2, <1>3, <1>6, <1>7 DEF SessionTypes, TypeOK
<1>9. PipeTypes' /\ LastSaveExists'
  BY <1>1, <1>5, SaveIsAnOperation, OperationAppended DEF SaveToDB, PipeTypes
<1>10. CharTypes' /\ DbTypes' /\ ControlTypes'
  BY <1>1, <1>6, CharsKept DEF DbTypes, ControlTypes, TypeOK
<1>11. PlayerHasItsSession'
  BY <1>1, <1>4, <1>6, <1>7, PlayersKept DEF c
<1>12. EverySessionOnce'
  <2>1. \A t \in DOMAIN sess :
           sess'[t].live <=> t \in Queued' \cup InSessions' \cup disconnected'
    BY <1>1, <1>2, <1>3, <1>4, <1>6, <1>7, OnceByPlaces
  <2>2. \A t \in DOMAIN sess : sess'[t].acc = sess[t].acc
    BY <1>4, <1>6
  <2>3. /\ InSessions' \cap disconnected' = {}
        /\ Queued' \cap (InSessions' \cup disconnected') = {}
    BY <1>1, <1>2, <1>3, <1>7, OnceByPlaces
  <2>4. QED BY <1>6, <1>7, <2>1, <2>2, <2>3, PlacesHold
<1>13. Reaching' /\ ShutdownLogsOut'
  BY <1>1, <1>2 DEF Reaching, ShutdownLogsOut
<1>14. Kicking'
  BY <1>1, <1>2, <1>5, <1>6 DEF Kicking
<1>15. QED BY <1>2, <1>8, <1>9, <1>10, <1>11, <1>12, <1>13, <1>14, TypesNext

(* or of one that is deleted, its character with it. *)
LEMMA ReplaceDeletedInvariant ==
    ASSUME IInv, NEW s \in Ids, NEW old \in Ids, ReplaceDeleted(s, old)
    PROVE  IInv'
<1> USE DEF IInv
<1>1. /\ NewSession(s, old) /\ sess' = [sess EXCEPT ![old] = Deleted(old)]
      /\ LogoutPlayer(old)
      /\ sessions' = [sessions EXCEPT ![sess[s].acc] = s]
      /\ UNCHANGED <<disconnected, db, results, wpc, todo, final, stopEvent, work, logins>>
  BY DEF ReplaceDeleted
<1>2. /\ s \in DOMAIN sess /\ sess[s].live /\ s \notin InSessions /\ s \notin disconnected
      /\ s \in Queued /\ old = sessions[sess[s].acc] /\ wpc = "add" /\ sess[s].player = NoChar
      /\ addSessQueue' \in Seq(Ids) /\ QueuedOnce'
      /\ \A i \in DOMAIN addSessQueue' : addSessQueue'[i] \in DOMAIN sess
      /\ Queued' = Queued \ {s}
  BY <1>1, NewSessionTaken
<1>3. /\ old \in InSessions /\ old \in DOMAIN sess /\ old # s /\ old \notin disconnected
      /\ old \notin Queued
  <2>1. sess[s].acc \in Accounts /\ old # NoSession
    BY <1>2, SessionNumbers, NullAssumption DEF Session, Ids
  <2>2. old \in InSessions
    BY <1>2, <2>1 DEF InSessions
  <2>3. QED BY <1>2, <2>2, InSessionsInDomain, OnceByPlaces
<1>4. /\ Deleted(old) \in Session /\ Deleted(old).acc = sess[old].acc
      /\ Deleted(old).live = FALSE /\ Deleted(old).player = NoChar
  BY <1>3, SessionNumbers, DeletedSession
<1>5. /\ sess' \in Seq(Session) /\ Len(sess') = Len(sess) /\ DOMAIN sess' = DOMAIN sess
      /\ \A t \in DOMAIN sess : sess'[t] = IF t = old THEN Deleted(old) ELSE sess[t]
  BY <1>1, <1>3, <1>4, SessionChanged
<1>6. /\ InSessions' = (InSessions \ {old}) \cup {s}
      /\ sessions' \in [Accounts -> DOMAIN sess \cup {NoSession}]
      /\ \A a \in Accounts : sessions'[a] # NoSession => sess[sessions'[a]].acc = a
  BY <1>1, <1>2, SessionEntered
<1>7. SessionTypes'
  BY <1>1, <1>2, <1>5, <1>6 DEF SessionTypes, TypeOK
<1>8. PlayerHasItsSession' /\ CharTypes' /\ PipeTypes' /\ LastSaveExists'
  BY <1>1, <1>3, <1>4, <1>6, PlayersLogout
<1>9. DbTypes' /\ ControlTypes'
  BY <1>1 DEF DbTypes, ControlTypes, TypeOK
<1>10. EverySessionOnce'
  <2>1. \A t \in DOMAIN sess :
           sess'[t].live <=> t \in Queued' \cup InSessions' \cup disconnected
    BY <1>2, <1>3, <1>4, <1>5, <1>6, OnceByPlaces
  <2>2. \A t \in DOMAIN sess : sess'[t].acc = sess[t].acc
    BY <1>4, <1>5
  <2>3. /\ InSessions' \cap disconnected = {}
        /\ Queued' \cap (InSessions' \cup disconnected) = {}
    BY <1>2, <1>3, <1>6, OnceByPlaces
  <2>4. QED BY <1>1, <1>5, <1>6, <2>1, <2>2, <2>3, PlacesHold
<1>11. Reaching' /\ ShutdownLogsOut'
  BY <1>1, <1>2 DEF Reaching, ShutdownLogsOut
<1>12. Kicking'
  BY <1>1, <1>2, <1>4, <1>5, <1>6 DEF Kicking
<1>13. QED BY <1>2, <1>7, <1>8, <1>9, <1>10, <1>11, <1>12, TypesNext

(* The update begins with all of m_sessions. *)
LEMMA AddDoneInvariant ==
    ASSUME IInv, AddDone
    PROVE  IInv'
<1> USE DEF IInv
<1>1. /\ wpc = "add" /\ wpc' = "update" /\ todo' = InSessions
      /\ UNCHANGED <<sess, addSessQueue, sessions, disconnected, mem, owner, far, pipe, db,
                     results, final, stopEvent, work, logins>>
  BY DEF AddDone
<1>2. /\ SessionTypes' /\ EverySessionOnce' /\ QueuedOnce' /\ InSessions' = InSessions
  BY <1>1, SessionsKept, InSessionsInDomain DEF TypeOK
<1>3. PlayerHasItsSession'
  BY <1>1, <1>2, PlayersKept
<1>4. CharTypes' /\ PipeTypes' /\ LastSaveExists' /\ DbTypes' /\ ControlTypes'
  BY <1>1, CharsKept, PipeKept DEF DbTypes, ControlTypes, TypeOK
<1>5. Reaching' /\ Kicking' /\ ShutdownLogsOut'
  BY <1>1, <1>2 DEF Reaching, Kicking, ShutdownLogsOut
<1>6. QED BY <1>2, <1>3, <1>4, <1>5, TypesNext

-----------------------------------------------------------------------------
(* WorldSession::Update. *)

(* The session that is updated. *)
LEMMA UpdatedSession ==
    ASSUME IInv, NEW s \in todo, Updating(s)
    PROVE  /\ s \in InSessions /\ s \in DOMAIN sess /\ sess[s] \in Session
           /\ wpc = "update" /\ sess[s].live /\ s \notin disconnected /\ s \notin Queued
           /\ sessions[sess[s].acc] = s
           /\ final /\ sess[s].sock = "open" => sess[s].player = NoChar
BY SessionNumbers, InSessionsInDomain, InSessionsByAccount, OnceByPlaces
   DEF IInv, Reaching, Updating, Kicking

(* A session in which nothing happens: after KickAll it has no character. *)
LEMMA UpdateSessionInvariant ==
    ASSUME IInv, NEW s \in todo, UpdateSession(s)
    PROVE  IInv'
<1> USE DEF IInv
<1>1. /\ Updating(s) /\ sess[s].sock = "open" /\ todo' = todo \ {s}
      /\ UNCHANGED <<sess, addSessQueue, sessions, disconnected, mem, owner, far, pipe, db,
                     results, wpc, final, stopEvent, work, logins>>
  BY DEF UpdateSession
<1>2. /\ SessionTypes' /\ EverySessionOnce' /\ QueuedOnce' /\ InSessions' = InSessions
  BY <1>1, SessionsKept DEF TypeOK
<1>3. PlayerHasItsSession'
  BY <1>1, <1>2, PlayersKept
<1>4. CharTypes' /\ PipeTypes' /\ LastSaveExists' /\ DbTypes' /\ ControlTypes'
  BY <1>1, CharsKept, PipeKept DEF DbTypes, ControlTypes, TypeOK
<1>5. Reaching' /\ Kicking' /\ ShutdownLogsOut'
  BY <1>1, <1>2, UpdatedSession DEF Reaching, Kicking, ShutdownLogsOut
<1>6. QED BY <1>2, <1>3, <1>4, <1>5, TypesNext

(* A load is appended to the operations of a character of the account. *)
LEMMA HandlePlayerLoginOpcodeInvariant ==
    ASSUME IInv, NEW s \in todo, NEW c \in Chars, HandlePlayerLoginOpcode(s, c)
    PROVE  IInv'
<1> USE DEF IInv
<1> DEFINE x == [sess[s] EXCEPT !.loading = TRUE]
           op == LoadOp(sess[s].acc, LastSaved(c))
<1>1. /\ Updating(s) /\ sess[s].sock = "open" /\ todo' = todo \ {s} /\ Owner[c] = sess[s].acc
      /\ sess' = [sess EXCEPT ![s] = x] /\ pipe' = [pipe EXCEPT ![c] = Append(@, op)]
      /\ logins < MaxLogins /\ logins' = logins + 1
      /\ UNCHANGED <<addSessQueue, sessions, disconnected, mem, owner, far, db,
                     results, wpc, final, stopEvent, work>>
  BY DEF HandlePlayerLoginOpcode
<1>2. /\ s \in InSessions /\ s \in DOMAIN sess /\ sess[s] \in Session /\ wpc = "update"
      /\ final => sess[s].player = NoChar
  BY <1>1, UpdatedSession
<1>3. /\ x \in Session /\ x.acc = sess[s].acc /\ x.live = sess[s].live
      /\ x.player = sess[s].player /\ x.sock = sess[s].sock
  BY <1>2 DEF Session
<1>4. op \in OpOf(c)
  BY <1>1, LastSavedType DEF LoadOp, OpOf
<1> HIDE DEF x, op
<1>5. /\ sess' \in Seq(Session) /\ Len(sess') = Len(sess) /\ DOMAIN sess' = DOMAIN sess
      /\ \A t \in DOMAIN sess : sess'[t] = IF t = s THEN x ELSE sess[t]
  BY <1>1, <1>2, <1>3, SessionChanged
<1>6. SessionTypes' /\ EverySessionOnce' /\ QueuedOnce' /\ InSessions' = InSessions
  BY <1>1, <1>3, <1>5, SessionsKept DEF TypeOK
<1>7. PlayerHasItsSession'
  BY <1>1, <1>3, <1>5, <1>6, PlayersKept
<1>8. PipeTypes' /\ LastSaveExists'
  BY <1>1, <1>4, OperationAppended DEF PipeTypes
<1>9. CharTypes' /\ DbTypes' /\ ControlTypes'
  <2>1. logins' \in 0 .. MaxLogins
    BY <1>1, BoundsAssumption DEF TypeOK
  <2>2. CharTypes'
    BY <1>1, <1>5, CharsKept
  <2>3. QED BY <1>1, <2>1, <2>2 DEF DbTypes, ControlTypes, TypeOK
<1>10. Reaching' /\ Kicking' /\ ShutdownLogsOut'
  BY <1>1, <1>2, <1>3, <1>5, <1>6 DEF Reaching, Kicking, ShutdownLogsOut
<1>11. QED BY <1>6, <1>7, <1>8, <1>9, <1>10, TypesNext

(* A character is logged out and its session stays. *)
LEMMA HandleLogoutRequestInvariant ==
    ASSUME IInv, NEW s \in todo, HandleLogoutRequest(s)
    PROVE  IInv'
<1> USE DEF IInv
<1> DEFINE x == [sess[s] EXCEPT !.player = NoChar]
<1>1. /\ Updating(s) /\ sess[s].sock = "open" /\ todo' = todo \ {s}
      /\ sess' = [sess EXCEPT ![s] = x] /\ LogoutPlayer(s)
      /\ UNCHANGED <<addSessQueue, sessions, disconnected, db, results, wpc, final, stopEvent,
                     work, logins>>
  BY DEF HandleLogoutRequest
<1>2. /\ s \in InSessions /\ s \in DOMAIN sess /\ sess[s] \in Session /\ wpc = "update"
  BY <1>1, UpdatedSession
<1>3. /\ x \in Session /\ x.acc = sess[s].acc /\ x.live = sess[s].live
      /\ x.player = NoChar /\ x.sock = sess[s].sock
  BY <1>2 DEF Session
<1> HIDE DEF x
<1>4. /\ sess' \in Seq(Session) /\ Len(sess') = Len(sess) /\ DOMAIN sess' = DOMAIN sess
      /\ \A t \in DOMAIN sess : sess'[t] = IF t = s THEN x ELSE sess[t]
  BY <1>1, <1>2, <1>3, SessionChanged
<1>5. SessionTypes' /\ EverySessionOnce' /\ QueuedOnce' /\ InSessions' = InSessions
  BY <1>1, <1>3, <1>4, SessionsKept DEF TypeOK
<1>6. PlayerHasItsSession' /\ CharTypes' /\ PipeTypes' /\ LastSaveExists'
  BY <1>1, <1>2, <1>3, <1>5, PlayersLogout
<1>7. DbTypes' /\ ControlTypes'
  BY <1>1 DEF DbTypes, ControlTypes, TypeOK
<1>8. Reaching' /\ Kicking' /\ ShutdownLogsOut'
  BY <1>1, <1>2, <1>3, <1>4, <1>5 DEF Reaching, Kicking, ShutdownLogsOut
<1>9. QED BY <1>5, <1>6, <1>7, <1>8, TypesNext

(* A character arrives on the other map. *)
LEMMA HandleMoveWorldportAckOpcodeInvariant ==
    ASSUME IInv, NEW s \in todo, HandleMoveWorldportAckOpcode(s)
    PROVE  IInv'
<1> USE DEF IInv
<1>1. /\ Updating(s) /\ sess[s].sock = "open" /\ todo' = todo \ {s}
      /\ sess[s].player \in far /\ far' = far \ {sess[s].player}
      /\ UNCHANGED <<sess, addSessQueue, sessions, disconnected, mem, owner, pipe, db,
                     results, wpc, final, stopEvent, work, logins>>
  BY DEF HandleMoveWorldportAckOpcode
<1>2. /\ SessionTypes' /\ EverySessionOnce' /\ QueuedOnce' /\ InSessions' = InSessions
  BY <1>1, SessionsKept DEF TypeOK
<1>3. PlayerHasItsSession'
  BY <1>1, <1>2, PlayersKept
<1>4. PipeTypes' /\ LastSaveExists' /\ CharTypes' /\ DbTypes' /\ ControlTypes'
  BY <1>1, PipeKept DEF CharTypes, DbTypes, ControlTypes, TypeOK
<1>5. Reaching' /\ Kicking' /\ ShutdownLogsOut'
  BY <1>1, <1>2, UpdatedSession DEF Reaching, Kicking, ShutdownLogsOut
<1>6. QED BY <1>2, <1>3, <1>4, <1>5, TypesNext

(* A session leaves m_sessions and is deleted. *)
LEMMA EraseSessionInvariant ==
    ASSUME IInv, NEW s \in todo, Updating(s), EraseSession(s)
    PROVE  IInv'
<1> USE DEF IInv
<1>1. /\ todo' = todo \ {s}
      /\ sess' = [sess EXCEPT ![s] = Deleted(s)] /\ LogoutPlayer(s)
      /\ sessions' = [sessions EXCEPT ![sess[s].acc] = NoSession]
      /\ UNCHANGED <<addSessQueue, disconnected, db, results, wpc, final, stopEvent,
                     work, logins>>
  BY DEF EraseSession
<1>2. /\ s \in InSessions /\ s \in DOMAIN sess /\ sess[s] \in Session /\ wpc = "update"
      /\ s \notin disconnected /\ s \notin Queued
  BY UpdatedSession
<1>3. /\ Deleted(s) \in Session /\ Deleted(s).acc = sess[s].acc
      /\ Deleted(s).live = FALSE /\ Deleted(s).player = NoChar
  BY <1>2, DeletedSession
<1>4. /\ sess' \in Seq(Session) /\ Len(sess') = Len(sess) /\ DOMAIN sess' = DOMAIN sess
      /\ \A t \in DOMAIN sess : sess'[t] = IF t = s THEN Deleted(s) ELSE sess[t]
  BY <1>1, <1>2, <1>3, SessionChanged
<1>5. /\ InSessions' = InSessions \ {s}
      /\ sessions' \in [Accounts -> DOMAIN sess \cup {NoSession}]
      /\ \A a \in Accounts : sessions'[a] # NoSession => sess[sessions'[a]].acc = a
  BY <1>1, <1>2, SessionLeft
<1>6. Queued' = Queued
  BY <1>1 DEF Queued
<1>7. SessionTypes'
  BY <1>1, <1>4, <1>5 DEF SessionTypes, TypeOK
<1>8. PlayerHasItsSession' /\ CharTypes' /\ PipeTypes' /\ LastSaveExists'
  BY <1>1, <1>2, <1>3, <1>5, PlayersLogout
<1>9. DbTypes' /\ ControlTypes' /\ QueuedOnce'
  BY <1>1 DEF DbTypes, ControlTypes, QueuedOnce, TypeOK
<1>10. EverySessionOnce'
  <2>1. \A t \in DOMAIN sess :
           sess'[t].live <=> t \in Queued' \cup InSessions' \cup disconnected
    BY <1>2, <1>3, <1>4, <1>5, <1>6, OnceByPlaces
  <2>2. \A t \in DOMAIN sess : sess'[t].acc = sess[t].acc
    BY <1>3, <1>4
  <2>3. /\ InSessions' \cap disconnected = {}
        /\ Queued' \cap (InSessions' \cup disconnected) = {}
    BY <1>5, <1>6, OnceByPlaces
  <2>4. QED BY <1>1, <1>4, <1>5, <2>1, <2>2, <2>3, PlacesHold
<1>11. Reaching' /\ ShutdownLogsOut' /\ Kicking'
  BY <1>1, <1>2, <1>3, <1>4, <1>5 DEF Reaching, ShutdownLogsOut, Kicking
<1>12. QED BY <1>7, <1>8, <1>9, <1>10, <1>11, TypesNext

(* A session moves to m_disconnectedSessions, whatever the iteration skips. *)
LEMMA SetDisconnectedSessionInvariant ==
    ASSUME IInv, NEW s \in todo, SetDisconnectedSession(s)
    PROVE  IInv'
<1> USE DEF IInv
<1> DEFINE x == [sess[s] EXCEPT !.sock = "null", !.timer = LingerTicks]
           c == sess[s].player
<1>1. /\ Updating(s) /\ Lingers(s) /\ todo' \subseteq todo \ {s}
      /\ sess' = [sess EXCEPT ![s] = x] /\ SaveToDB(c)
      /\ sessions' = [sessions EXCEPT ![sess[s].acc] = NoSession]
      /\ disconnected' = disconnected \cup {s}
      /\ UNCHANGED <<addSessQueue, mem, owner, far, db, results, wpc, final, stopEvent,
                     work, logins>>
  BY DEF SetDisconnectedSession
<1>2. /\ s \in InSessions /\ s \in DOMAIN sess /\ sess[s] \in Session /\ wpc = "update"
      /\ s \notin disconnected /\ s \notin Queued
  BY <1>1, UpdatedSession
<1>3. x \in Session /\ x.acc = sess[s].acc /\ x.live = sess[s].live /\ x.player = c
  <2>1. LingerTicks \in 0 .. LingerTicks
    BY BoundsAssumption
  <2>2. QED BY <1>2, <2>1 DEF Session
<1>4. c \in Chars /\ mem[c] \in Versions /\ ~stopEvent
  BY <1>1, <1>2 DEF Lingers, HasPlayerInWorld, InWorld, Session, TypeOK
<1> HIDE DEF x, c
<1>5. /\ sess' \in Seq(Session) /\ Len(sess') = Len(sess) /\ DOMAIN sess' = DOMAIN sess
      /\ \A t \in DOMAIN sess : sess'[t] = IF t = s THEN x ELSE sess[t]
  BY <1>1, <1>2, <1>3, SessionChanged
<1>6. /\ InSessions' = InSessions \ {s}
      /\ sessions' \in [Accounts -> DOMAIN sess \cup {NoSession}]
      /\ \A a \in Accounts : sessions'[a] # NoSession => sess[sessions'[a]].acc = a
  BY <1>1, <1>2, SessionLeft
<1>7. Queued' = Queued
  BY <1>1 DEF Queued
<1>8. SessionTypes'
  BY <1>1, <1>2, <1>5, <1>6 DEF SessionTypes, TypeOK
<1>9. PipeTypes' /\ LastSaveExists'
  BY <1>1, <1>4, SaveIsAnOperation, OperationAppended DEF SaveToDB, PipeTypes
<1>10. CharTypes' /\ DbTypes' /\ ControlTypes' /\ QueuedOnce'
  BY <1>1, <1>5, CharsKept DEF DbTypes, ControlTypes, QueuedOnce, TypeOK
<1>11. PlayerHasItsSession'
  BY <1>1, <1>3, <1>5, <1>6, PlayersKept DEF c
<1>12. EverySessionOnce'
  <2>1. \A t \in DOMAIN sess :
           sess'[t].live <=> t \in Queued' \cup InSessions' \cup disconnected'
    BY <1>1, <1>2, <1>3, <1>5, <1>6, <1>7, OnceByPlaces
  <2>2. \A t \in DOMAIN sess : sess'[t].acc = sess[t].acc
    BY <1>3, <1>5
  <2>3. /\ InSessions' \cap disconnected' = {}
        /\ Queued' \cap (InSessions' \cup disconnected') = {}
    BY <1>1, <1>2, <1>6, <1>7, OnceByPlaces
  <2>4. QED BY <1>5, <1>6, <2>1, <2>2, <2>3, PlacesHold
<1>13. Reaching' /\ ShutdownLogsOut'
  BY <1>1, <1>2, <1>6 DEF Reaching, ShutdownLogsOut
<1>14. Kicking'
  BY <1>1, <1>2, <1>4, <1>5 DEF Kicking
<1>15. QED BY <1>8, <1>9, <1>10, <1>11, <1>12, <1>13, <1>14, TypesNext

(* After KickAll no session of m_sessions has a character now. *)
LEMMA UpdateDoneInvariant ==
    ASSUME IInv, UpdateDone
    PROVE  IInv'
<1> USE DEF IInv
<1>1. /\ wpc = "update" /\ todo = {} /\ wpc' = "disconnected" /\ todo' = disconnected
      /\ UNCHANGED <<sess, addSessQueue, sessions, disconnected, mem, owner, far, pipe, db,
                     results, final, stopEvent, work, logins>>
  BY DEF UpdateDone
<1>2. /\ SessionTypes' /\ EverySessionOnce' /\ QueuedOnce' /\ InSessions' = InSessions
  BY <1>1, SessionsKept DEF TypeOK
<1>3. PlayerHasItsSession'
  BY <1>1, <1>2, PlayersKept
<1>4. CharTypes' /\ PipeTypes' /\ LastSaveExists' /\ DbTypes' /\ ControlTypes'
  BY <1>1, CharsKept, PipeKept DEF DbTypes, ControlTypes, TypeOK
<1>5. Reaching' /\ Kicking' /\ ShutdownLogsOut'
  BY <1>1, <1>2 DEF Reaching, Kicking, ShutdownLogsOut
<1>6. QED BY <1>2, <1>3, <1>4, <1>5, TypesNext

-----------------------------------------------------------------------------
(* WorldSession::UpdateDisconnected. *)

(* A session leaves m_disconnectedSessions and is deleted. *)
LEMMA DeleteDisconnectedInvariant ==
    ASSUME IInv, NEW s \in todo, DeleteDisconnected(s)
    PROVE  IInv'
<1> USE DEF IInv
<1>1. /\ wpc = "disconnected" /\ todo' = todo \ {s}
      /\ sess' = [sess EXCEPT ![s] = Deleted(s)] /\ LogoutPlayer(s)
      /\ disconnected' = disconnected \ {s}
      /\ UNCHANGED <<addSessQueue, sessions, db, results, wpc, final, stopEvent,
                     work, logins>>
  BY DEF DeleteDisconnected, UpdatingDisconnected
<1>2. /\ s \in disconnected /\ s \in DOMAIN sess /\ sess[s] \in Session
      /\ s \notin InSessions /\ s \notin Queued
  BY <1>1, SessionNumbers, OnceByPlaces DEF Reaching, TypeOK
<1>3. /\ Deleted(s) \in Session /\ Deleted(s).acc = sess[s].acc
      /\ Deleted(s).live = FALSE /\ Deleted(s).player = NoChar
  BY <1>2, DeletedSession
<1>4. /\ sess' \in Seq(Session) /\ Len(sess') = Len(sess) /\ DOMAIN sess' = DOMAIN sess
      /\ \A t \in DOMAIN sess : sess'[t] = IF t = s THEN Deleted(s) ELSE sess[t]
  BY <1>1, <1>2, <1>3, SessionChanged
<1>5. Queued' = Queued /\ InSessions' = InSessions
  BY <1>1 DEF Queued, InSessions
<1>6. SessionTypes'
  BY <1>1, <1>4 DEF SessionTypes, TypeOK
<1>7. PlayerHasItsSession' /\ CharTypes' /\ PipeTypes' /\ LastSaveExists'
  BY <1>1, <1>2, <1>3, <1>5, PlayersLogout
<1>8. DbTypes' /\ ControlTypes' /\ QueuedOnce'
  BY <1>1 DEF DbTypes, ControlTypes, QueuedOnce, TypeOK
<1>9. EverySessionOnce'
  <2>1. \A t \in DOMAIN sess :
           sess'[t].live <=> t \in Queued' \cup InSessions' \cup disconnected'
    BY <1>1, <1>2, <1>3, <1>4, <1>5, OnceByPlaces
  <2>2. \A t \in DOMAIN sess : sess'[t].acc = sess[t].acc
    BY <1>3, <1>4
  <2>3. /\ InSessions' \cap disconnected' = {}
        /\ Queued' \cap (InSessions' \cup disconnected') = {}
    BY <1>1, <1>5, OnceByPlaces
  <2>4. sessions \in [Accounts -> DOMAIN sess \cup {NoSession}]
    BY DEF TypeOK
  <2>5. QED BY <1>1, <1>4, <2>1, <2>2, <2>3, <2>4, OnceByPlaces, PlacesHold
<1>10. Reaching' /\ ShutdownLogsOut' /\ Kicking'
  BY <1>1, <1>2, <1>3, <1>4, <1>5, InSessionsInDomain DEF Reaching, ShutdownLogsOut, Kicking
<1>11. QED BY <1>6, <1>7, <1>8, <1>9, <1>10, TypesNext

(* The timer of a lingering session. *)
LEMMA KeepDisconnectedInvariant ==
    ASSUME IInv, NEW s \in todo, KeepDisconnected(s)
    PROVE  IInv'
<1> USE DEF IInv
<1> DEFINE x == [sess[s] EXCEPT !.timer = IF final THEN @ ELSE @ - 1]
<1>1. /\ wpc = "disconnected" /\ todo' = todo \ {s} /\ (sess[s].timer > 0 \/ final)
      /\ sess' = [sess EXCEPT ![s] = x]
      /\ UNCHANGED <<addSessQueue, sessions, disconnected, mem, owner, far, pipe, db, results,
                     wpc, final, stopEvent, work, logins>>
  BY DEF KeepDisconnected, UpdatingDisconnected
<1>2. s \in disconnected /\ s \in DOMAIN sess /\ sess[s] \in Session
  BY <1>1, SessionNumbers DEF Reaching, TypeOK
<1>3. /\ x \in Session /\ x.acc = sess[s].acc /\ x.live = sess[s].live
      /\ x.player = sess[s].player /\ x.sock = sess[s].sock
  BY <1>1, <1>2, BoundsAssumption DEF Session
<1> HIDE DEF x
<1>4. /\ sess' \in Seq(Session) /\ Len(sess') = Len(sess) /\ DOMAIN sess' = DOMAIN sess
      /\ \A t \in DOMAIN sess : sess'[t] = IF t = s THEN x ELSE sess[t]
  BY <1>1, <1>2, <1>3, SessionChanged
<1>5. SessionTypes' /\ EverySessionOnce' /\ QueuedOnce' /\ InSessions' = InSessions
  BY <1>1, <1>3, <1>4, SessionsKept DEF TypeOK
<1>6. PlayerHasItsSession'
  BY <1>1, <1>3, <1>4, <1>5, PlayersKept
<1>7. CharTypes' /\ PipeTypes' /\ LastSaveExists' /\ DbTypes' /\ ControlTypes'
  BY <1>1, <1>4, CharsKept, PipeKept DEF DbTypes, ControlTypes, TypeOK
<1>8. Reaching' /\ Kicking' /\ ShutdownLogsOut'
  BY <1>1, <1>3, <1>4, <1>5, InSessionsInDomain DEF Reaching, Kicking, ShutdownLogsOut
<1>9. QED BY <1>5, <1>6, <1>7, <1>8, TypesNext

(* At the end of UpdateSessions(1) what is in the world lingers. *)
LEMMA DisconnectedDoneInvariant ==
    ASSUME IInv, DisconnectedDone
    PROVE  IInv'
<1> USE DEF IInv
<1>1. /\ wpc = "disconnected" /\ wpc' = IF final THEN "stopped" ELSE "maps"
      /\ UNCHANGED <<sess, addSessQueue, sessions, disconnected, mem, owner, far, pipe, db,
                     results, todo, final, stopEvent, work, logins>>
  BY DEF DisconnectedDone
<1>2. /\ SessionTypes' /\ EverySessionOnce' /\ QueuedOnce' /\ InSessions' = InSessions
  BY <1>1, SessionsKept DEF TypeOK
<1>3. PlayerHasItsSession'
  BY <1>1, <1>2, PlayersKept
<1>4. CharTypes' /\ PipeTypes' /\ LastSaveExists' /\ DbTypes' /\ ControlTypes'
  BY <1>1, CharsKept, PipeKept DEF DbTypes, ControlTypes, TypeOK
<1>5. ShutdownLogsOut'
  <2>1. SUFFICES ASSUME final, NEW c \in Chars, mem[c] # Out PROVE owner[c] \in disconnected
    BY <1>1 DEF ShutdownLogsOut
  <2>2. owner[c] \in InSessions \cup disconnected /\ sess[owner[c]].player = c /\ c # NoChar
    BY <2>1, NullAssumption DEF PlayerHasItsSession
  <2>3. \A s \in InSessions : sess[s].player = NoChar
    BY <1>1, <2>1 DEF Kicking
  <2>4. QED BY <2>2, <2>3
<1>6. Reaching' /\ Kicking'
  BY <1>1, <1>2 DEF Reaching, Kicking
<1>7. QED BY <1>2, <1>3, <1>4, <1>5, <1>6, TypesNext

-----------------------------------------------------------------------------
(* The maps. *)

(* Something happens to a character. *)
LEMMA ChangeInvariant ==
    ASSUME IInv, NEW c \in Chars, Change(c)
    PROVE  IInv'
<1> USE DEF IInv
<1>1. /\ wpc = "maps" /\ InWorld(c) /\ work < MaxWork /\ work' = work + 1
      /\ mem' = [mem EXCEPT ![c] = work + 1]
      /\ UNCHANGED <<sess, addSessQueue, sessions, disconnected, owner, far, pipe, db,
                     results, wpc, todo, final, stopEvent, logins>>
  BY DEF Change
<1>2. /\ SessionTypes' /\ EverySessionOnce' /\ QueuedOnce' /\ InSessions' = InSessions
  BY <1>1, SessionsKept DEF TypeOK
<1>3. work + 1 \in Versions /\ work + 1 # Out /\ mem[c] # Out
  BY <1>1, BoundsAssumption, NullAssumption DEF TypeOK, Versions, InWorld
<1>4. \A d \in Chars : mem'[d] = IF d = c THEN work + 1 ELSE mem[d]
  BY <1>1 DEF TypeOK
<1>5. PlayerHasItsSession'
  BY <1>1, <1>2, <1>3, <1>4, PlayersKept
<1>6. CharTypes'
  BY <1>1, <1>3, <1>4 DEF CharTypes, TypeOK
<1>7. PipeTypes' /\ LastSaveExists'
  BY <1>1, PipeKept
<1>8. DbTypes' /\ ControlTypes'
  BY <1>1, <1>3 DEF DbTypes, ControlTypes, Versions, TypeOK
<1>9. Reaching' /\ Kicking' /\ ShutdownLogsOut'
  BY <1>1, <1>2 DEF Reaching, Kicking, ShutdownLogsOut
<1>10. QED BY <1>2, <1>5, <1>6, <1>7, <1>8, <1>9, TypesNext

(* A character leaves its map. *)
LEMMA TeleportFarInvariant ==
    ASSUME IInv, NEW c \in Chars, TeleportFar(c)
    PROVE  IInv'
<1> USE DEF IInv
<1>1. /\ wpc = "maps" /\ InWorld(c) /\ far' = far \cup {c}
      /\ UNCHANGED <<sess, addSessQueue, sessions, disconnected, mem, owner, pipe, db,
                     results, wpc, todo, final, stopEvent, work, logins>>
  BY DEF TeleportFar
<1>2. /\ SessionTypes' /\ EverySessionOnce' /\ QueuedOnce' /\ InSessions' = InSessions
  BY <1>1, SessionsKept DEF TypeOK
<1>3. PlayerHasItsSession'
  BY <1>1, <1>2, PlayersKept
<1>4. PipeTypes' /\ LastSaveExists' /\ CharTypes' /\ DbTypes' /\ ControlTypes'
  BY <1>1, PipeKept DEF CharTypes, DbTypes, ControlTypes, TypeOK, InWorld
<1>5. Reaching' /\ Kicking' /\ ShutdownLogsOut'
  BY <1>1, <1>2 DEF Reaching, Kicking, ShutdownLogsOut
<1>6. QED BY <1>2, <1>3, <1>4, <1>5, TypesNext

(* A save is appended to the operations of a character. *)
LEMMA AutoSaveInvariant ==
    ASSUME IInv, NEW c \in Chars, AutoSave(c)
    PROVE  IInv'
<1> USE DEF IInv
<1>1. /\ wpc = "maps" /\ InWorld(c) /\ SaveToDB(c)
      /\ UNCHANGED <<sess, addSessQueue, sessions, disconnected, mem, owner, far, db,
                     results, wpc, todo, final, stopEvent, work, logins>>
  BY DEF AutoSave
<1>2. /\ SessionTypes' /\ EverySessionOnce' /\ QueuedOnce' /\ InSessions' = InSessions
  BY <1>1, SessionsKept DEF TypeOK
<1>3. PlayerHasItsSession'
  BY <1>1, <1>2, PlayersKept
<1>4. mem[c] \in Versions
  BY <1>1 DEF TypeOK, InWorld
<1>5. PipeTypes' /\ LastSaveExists'
  BY <1>1, <1>4, SaveIsAnOperation, OperationAppended DEF SaveToDB, PipeTypes
<1>6. CharTypes' /\ DbTypes' /\ ControlTypes'
  BY <1>1, CharsKept DEF DbTypes, ControlTypes, TypeOK
<1>7. Reaching' /\ Kicking' /\ ShutdownLogsOut'
  BY <1>1, <1>2 DEF Reaching, Kicking, ShutdownLogsOut
<1>8. QED BY <1>2, <1>3, <1>5, <1>6, <1>7, TypesNext

(* The maps have been updated. *)
LEMMA MapsDoneInvariant ==
    ASSUME IInv, MapsDone
    PROVE  IInv'
<1> USE DEF IInv
<1>1. /\ wpc = "maps" /\ wpc' = "results"
      /\ UNCHANGED <<sess, addSessQueue, sessions, disconnected, mem, owner, far, pipe, db,
                     results, todo, final, stopEvent, work, logins>>
  BY DEF MapsDone
<1>2. /\ SessionTypes' /\ EverySessionOnce' /\ QueuedOnce' /\ InSessions' = InSessions
  BY <1>1, SessionsKept DEF TypeOK
<1>3. PlayerHasItsSession'
  BY <1>1, <1>2, PlayersKept
<1>4. CharTypes' /\ PipeTypes' /\ LastSaveExists' /\ DbTypes' /\ ControlTypes'
  BY <1>1, CharsKept, PipeKept DEF DbTypes, ControlTypes, TypeOK
<1>5. Reaching' /\ Kicking' /\ ShutdownLogsOut'
  BY <1>1, <1>2 DEF Reaching, Kicking, ShutdownLogsOut
<1>6. QED BY <1>2, <1>3, <1>4, <1>5, TypesNext

-----------------------------------------------------------------------------
(* UpdateResultQueue. *)

(* The session of the account whose holder is handled. *)
LEMMA ResultTaken ==
    ASSUME IInv, NEW s \in InSessions \cup {NoSession}, NextResult(s)
    PROVE  /\ DbTypes' /\ PipeTypes' /\ LastSaveExists' /\ ControlTypes'
           /\ UNCHANGED <<addSessQueue, sessions, disconnected, pipe, wpc, todo, final, stopEvent>>
           /\ Head(results).ver \in Versions /\ wpc = "results" /\ ~final
           /\ s # NoSession => /\ s \in DOMAIN sess /\ sess[s] \in Session
                               /\ sess[s].live /\ s \notin disconnected
<1> USE DEF IInv
<1>1. /\ wpc = "results" /\ results # <<>> /\ results' = Tail(results)
      /\ UNCHANGED <<addSessQueue, sessions, disconnected, db, pipe, wpc, todo, final, stopEvent,
                     work, logins>>
  BY DEF NextResult
<1>2. results \in Seq([char : Chars, acc : Accounts, ver : Versions, asked : Versions])
  BY DEF TypeOK
<1>3. /\ Head(results) \in [char : Chars, acc : Accounts, ver : Versions, asked : Versions]
      /\ results' \in Seq([char : Chars, acc : Accounts, ver : Versions, asked : Versions])
  BY <1>1, <1>2, HeadTailProperties
<1>4. DbTypes' /\ ControlTypes'
  BY <1>1, <1>3 DEF DbTypes, ControlTypes, TypeOK
<1>5. PipeTypes' /\ LastSaveExists'
  BY <1>1, PipeKept
<1>6. ~final
  BY <1>1 DEF Kicking
<1>7. ASSUME s # NoSession
      PROVE  s \in DOMAIN sess /\ sess[s] \in Session /\ sess[s].live /\ s \notin disconnected
  BY <1>7, SessionNumbers, InSessionsInDomain, OnceByPlaces
<1>8. QED BY <1>1, <1>3, <1>4, <1>5, <1>6, <1>7

(* A holder nobody expects. *)
LEMMA DropHolderInvariant ==
    ASSUME IInv, NEW s \in InSessions \cup {NoSession}, DropHolder(s)
    PROVE  IInv'
<1> USE DEF IInv
<1>1. /\ NextResult(s) /\ UNCHANGED <<mem, owner, far>>
      /\ sess' = IF s = NoSession THEN sess ELSE [sess EXCEPT ![s].loading = FALSE]
  BY DEF DropHolder
<1>2. /\ DbTypes' /\ PipeTypes' /\ LastSaveExists' /\ ControlTypes'
      /\ UNCHANGED <<addSessQueue, sessions, disconnected, pipe, wpc, todo, final, stopEvent>>
      /\ wpc = "results" /\ ~final
  BY <1>1, ResultTaken
<1>3. /\ sess' \in Seq(Session) /\ Len(sess') = Len(sess) /\ DOMAIN sess' = DOMAIN sess
      /\ \A t \in DOMAIN sess : /\ sess'[t].acc = sess[t].acc /\ sess'[t].live = sess[t].live
                                /\ sess'[t].player = sess[t].player
                                /\ sess'[t].sock = sess[t].sock
  <2>1. CASE s = NoSession
    BY <1>1, <2>1 DEF TypeOK
  <2>2. CASE s # NoSession
    <3> DEFINE x == [sess[s] EXCEPT !.loading = FALSE]
    <3>1. sess' = [sess EXCEPT ![s] = x] /\ s \in DOMAIN sess /\ sess[s] \in Session
      BY <1>1, <2>2, ResultTaken
    <3>2. /\ x \in Session /\ x.acc = sess[s].acc /\ x.live = sess[s].live
          /\ x.player = sess[s].player /\ x.sock = sess[s].sock
      BY <3>1 DEF Session
    <3> HIDE DEF x
    <3>3. QED BY <3>1, <3>2, SessionChanged
  <2>3. QED BY <2>1, <2>2
<1>4. SessionTypes' /\ EverySessionOnce' /\ QueuedOnce' /\ InSessions' = InSessions
  BY <1>2, <1>3, SessionsKept DEF TypeOK
<1>5. PlayerHasItsSession'
  BY <1>1, <1>2, <1>3, <1>4, PlayersKept
<1>6. CharTypes'
  BY <1>1, <1>3, CharsKept
<1>7. Reaching' /\ Kicking' /\ ShutdownLogsOut'
  BY <1>2, <1>3, <1>4 DEF Reaching, Kicking, ShutdownLogsOut
<1>8. QED BY <1>2, <1>4, <1>5, <1>6, <1>7, TypesNext

(* A session is kicked and has no character. *)
LEMMA LoginFailsInvariant ==
    ASSUME IInv, NEW s \in InSessions \cup {NoSession}, NEW c \in Chars, LoginFails(s, c)
    PROVE  IInv'
<1> USE DEF IInv
<1> DEFINE x == [Kicked(s) EXCEPT !.loading = FALSE]
<1>1. /\ NextResult(s) /\ UNCHANGED <<mem, owner, far>> /\ s # NoSession
      /\ sess' = [sess EXCEPT ![s] = x]
  BY DEF LoginFails, Login, Expects
<1>2. /\ DbTypes' /\ PipeTypes' /\ LastSaveExists' /\ ControlTypes'
      /\ UNCHANGED <<addSessQueue, sessions, disconnected, pipe, wpc, todo, final, stopEvent>>
      /\ wpc = "results" /\ ~final
      /\ s \in DOMAIN sess /\ sess[s] \in Session
  BY <1>1, ResultTaken
<1>3. /\ x \in Session /\ x.acc = sess[s].acc /\ x.live = sess[s].live
      /\ x.player = sess[s].player /\ (sess[s].sock # "null" => x.sock = "closed")
  <2>1. /\ Kicked(s) \in Session /\ Kicked(s).acc = sess[s].acc /\ Kicked(s).live = sess[s].live
        /\ Kicked(s).player = sess[s].player
        /\ sess[s].sock # "null" => Kicked(s).sock = "closed"
    BY <1>2, KickedSession
  <2>2. QED BY <2>1 DEF Session
<1> HIDE DEF x
<1>4. /\ sess' \in Seq(Session) /\ Len(sess') = Len(sess) /\ DOMAIN sess' = DOMAIN sess
      /\ \A t \in DOMAIN sess : sess'[t] = IF t = s THEN x ELSE sess[t]
  BY <1>1, <1>2, <1>3, SessionChanged
<1>5. SessionTypes' /\ EverySessionOnce' /\ QueuedOnce' /\ InSessions' = InSessions
  BY <1>2, <1>3, <1>4, SessionsKept DEF TypeOK
<1>6. PlayerHasItsSession'
  BY <1>1, <1>2, <1>3, <1>4, <1>5, PlayersKept
<1>7. CharTypes'
  BY <1>1, <1>4, CharsKept
<1>8. Reaching' /\ Kicking' /\ ShutdownLogsOut'
  BY <1>2, <1>3, <1>4, <1>5 DEF Reaching, Kicking, ShutdownLogsOut
<1>9. QED BY <1>2, <1>5, <1>6, <1>7, <1>8, TypesNext

(* A character enters the world with the session that expects one. *)
LEMMA LoadFromDBInvariant ==
    ASSUME IInv, NEW s \in InSessions \cup {NoSession}, NEW c \in Chars, LoadFromDB(s, c)
    PROVE  IInv'
<1> USE DEF IInv
<1> DEFINE x == [sess[s] EXCEPT !.player = c, !.loading = FALSE]
           v == Head(results).ver
<1>1. /\ NextResult(s) /\ s # NoSession /\ sess[s].player = NoChar /\ mem[c] = Out
      /\ sess' = [sess EXCEPT ![s] = x]
      /\ owner' = [owner EXCEPT ![c] = s] /\ mem' = [mem EXCEPT ![c] = v] /\ far' = far
  BY DEF LoadFromDB, Login, Expects
<1>2. /\ DbTypes' /\ PipeTypes' /\ LastSaveExists' /\ ControlTypes'
      /\ UNCHANGED <<addSessQueue, sessions, disconnected, pipe, wpc, todo, final, stopEvent>>
      /\ wpc = "results" /\ ~final
      /\ s \in DOMAIN sess /\ sess[s] \in Session /\ sess[s].live /\ s \in InSessions
      /\ v \in Versions /\ v # Out
  BY <1>1, ResultTaken, NullAssumption, BoundsAssumption DEF Versions
<1>3. /\ x \in Session /\ x.acc = sess[s].acc /\ x.live = sess[s].live
      /\ x.player = c /\ x.sock = sess[s].sock
  BY <1>2 DEF Session
<1> HIDE DEF x, v
<1>4. /\ sess' \in Seq(Session) /\ Len(sess') = Len(sess) /\ DOMAIN sess' = DOMAIN sess
      /\ \A t \in DOMAIN sess : sess'[t] = IF t = s THEN x ELSE sess[t]
  BY <1>1, <1>2, <1>3, SessionChanged
<1>5. SessionTypes' /\ EverySessionOnce' /\ QueuedOnce' /\ InSessions' = InSessions
  BY <1>2, <1>3, <1>4, SessionsKept DEF TypeOK
<1>6. /\ \A d \in Chars : mem'[d] = IF d = c THEN v ELSE mem[d]
      /\ \A d \in Chars : owner'[d] = IF d = c THEN s ELSE owner[d]
  BY <1>1 DEF TypeOK
<1>7. CharTypes'
  BY <1>1, <1>2, <1>4, <1>6 DEF CharTypes, TypeOK
<1>8. PlayerHasItsSession'
  <2>1. ASSUME NEW d \in Chars, mem'[d] # Out
        PROVE  /\ owner'[d] \in (InSessions \cup disconnected)'
               /\ sess'[owner'[d]].live /\ sess'[owner'[d]].player = d
    <3>1. CASE d = c
      BY <1>2, <1>3, <1>4, <1>5, <1>6, <3>1
    <3>2. CASE d # c
      <4>1. /\ owner[d] \in InSessions \cup disconnected /\ owner'[d] = owner[d]
            /\ sess[owner[d]].live /\ sess[owner[d]].player = d
        BY <1>6, <2>1, <3>2 DEF PlayerHasItsSession
      <4>2. owner[d] # s /\ owner[d] \in DOMAIN sess
        BY <1>1, <4>1, NullAssumption, InSessionsInDomain DEF TypeOK
      <4>3. QED BY <1>2, <1>4, <1>5, <4>1, <4>2
    <3>3. QED BY <3>1, <3>2
  <2>2. ASSUME NEW t \in DOMAIN sess', sess'[t].player # NoChar
        PROVE  mem'[sess'[t].player] # Out /\ owner'[sess'[t].player] = t
    <3>1. CASE t = s
      BY <1>2, <1>3, <1>4, <1>6, <3>1
    <3>2. CASE t # s
      <4>1. /\ sess'[t] = sess[t] /\ sess[t].player \in Chars
            /\ mem[sess[t].player] # Out /\ owner[sess[t].player] = t
        BY <1>4, <2>2, <3>2, SessionNumbers DEF PlayerHasItsSession, Session
      <4>2. sess[t].player # c
        BY <1>1, <4>1
      <4>3. QED BY <1>6, <4>1, <4>2
    <3>3. QED BY <3>1, <3>2
  <2>3. QED BY <2>1, <2>2 DEF PlayerHasItsSession
<1>9. Reaching' /\ Kicking' /\ ShutdownLogsOut'
  BY <1>2, <1>3, <1>4, <1>5 DEF Reaching, Kicking, ShutdownLogsOut
<1>10. QED BY <1>2, <1>5, <1>7, <1>8, <1>9, TypesNext

(* A character changes its session: the old one has none afterwards. *)
LEMMA TakeOverInvariant ==
    ASSUME IInv, NEW s \in InSessions \cup {NoSession}, NEW c \in Chars, TakeOver(s, c)
    PROVE  IInv'
<1> USE DEF IInv
<1> DEFINE o == owner[c]
           y == [sess[o] EXCEPT !.player = NoChar]
           x == [sess[s] EXCEPT !.player = c, !.loading = FALSE]
<1>1. /\ NextResult(s) /\ s # NoSession /\ sess[s].player = NoChar /\ mem[c] # Out
      /\ sess' = [sess EXCEPT ![o].player = NoChar, ![s].player = c, ![s].loading = FALSE]
      /\ owner' = [owner EXCEPT ![c] = s] /\ mem' = mem /\ far' = far
  BY DEF TakeOver, Login, Expects, InWorld
<1>2. /\ DbTypes' /\ PipeTypes' /\ LastSaveExists' /\ ControlTypes'
      /\ UNCHANGED <<addSessQueue, sessions, disconnected, pipe, wpc, todo, final, stopEvent>>
      /\ wpc = "results" /\ ~final
      /\ s \in DOMAIN sess /\ sess[s] \in Session /\ sess[s].live /\ s \in InSessions
  BY <1>1, ResultTaken
<1>3. /\ o \in InSessions \cup disconnected /\ o \in DOMAIN sess /\ sess[o] \in Session
      /\ sess[o].player = c /\ o # s
  BY <1>1, NullAssumption, InSessionsInDomain, SessionNumbers DEF PlayerHasItsSession, TypeOK
<1>4. /\ x \in Session /\ x.acc = sess[s].acc /\ x.live = sess[s].live
      /\ x.player = c /\ x.sock = sess[s].sock
      /\ y \in Session /\ y.acc = sess[o].acc /\ y.live = sess[o].live
      /\ y.player = NoChar /\ y.sock = sess[o].sock
  BY <1>2, <1>3 DEF Session
<1>5. sess' = [[sess EXCEPT ![o] = y] EXCEPT ![s] = x]
  BY <1>1, <1>2, <1>3 DEF TypeOK
<1> HIDE DEF x, y, o
<1>6. /\ sess' \in Seq(Session) /\ Len(sess') = Len(sess) /\ DOMAIN sess' = DOMAIN sess
      /\ \A t \in DOMAIN sess : sess'[t] = IF t = s THEN x ELSE IF t = o THEN y ELSE sess[t]
  <2> DEFINE z == [sess EXCEPT ![o] = y]
  <2>1. /\ z \in Seq(Session) /\ Len(z) = Len(sess) /\ DOMAIN sess = 1 .. Len(sess)
        /\ \A t \in 1 .. Len(sess) : z[t] = IF t = o THEN y ELSE sess[t]
    BY <1>3, <1>4, ExceptSeq, SessionNumbers DEF TypeOK
  <2> HIDE DEF z
  <2>2. sess' = [z EXCEPT ![s] = x]
    BY <1>5 DEF z
  <2>3. QED BY <1>2, <1>4, <2>1, <2>2, ExceptSeq
<1>7. SessionTypes' /\ EverySessionOnce' /\ QueuedOnce' /\ InSessions' = InSessions
  BY <1>2, <1>3, <1>4, <1>6, SessionsKept DEF TypeOK
<1>8. \A d \in Chars : owner'[d] = IF d = c THEN s ELSE owner[d]
  BY <1>1 DEF TypeOK
<1>9. CharTypes'
  BY <1>1, <1>2, <1>6, <1>8 DEF CharTypes, TypeOK
<1>10. PlayerHasItsSession'
  <2>1. ASSUME NEW d \in Chars, mem'[d] # Out
        PROVE  /\ owner'[d] \in (InSessions \cup disconnected)'
               /\ sess'[owner'[d]].live /\ sess'[owner'[d]].player = d
    <3>1. CASE d = c
      BY <1>2, <1>4, <1>6, <1>7, <1>8, <3>1
    <3>2. CASE d # c
      <4>1. /\ owner[d] \in InSessions \cup disconnected /\ owner'[d] = owner[d]
            /\ sess[owner[d]].live /\ sess[owner[d]].player = d
        BY <1>1, <1>8, <2>1, <3>2 DEF PlayerHasItsSession
      <4>2. owner[d] # s /\ owner[d] # o /\ owner[d] \in DOMAIN sess
        BY <1>1, <1>3, <3>2, <4>1, NullAssumption, InSessionsInDomain DEF TypeOK
      <4>3. QED BY <1>2, <1>6, <1>7, <4>1, <4>2
    <3>3. QED BY <3>1, <3>2
  <2>2. ASSUME NEW t \in DOMAIN sess', sess'[t].player # NoChar
        PROVE  mem'[sess'[t].player] # Out /\ owner'[sess'[t].player] = t
    <3>1. CASE t = s
      <4>1. sess'[t].player = c
        BY <1>2, <1>4, <1>6, <3>1
      <4>2. mem'[c] # Out /\ owner'[c] = s
        BY <1>1, <1>8
      <4>3. QED BY <3>1, <4>1, <4>2
    <3>2. CASE t # s
      <4>1. t # o /\ t \in DOMAIN sess /\ sess'[t] = sess[t]
        BY <1>4, <1>6, <2>2, <3>2
      <4>2. /\ sess[t].player \in Chars
            /\ mem[sess[t].player] # Out /\ owner[sess[t].player] = t
        BY <2>2, <4>1, SessionNumbers DEF PlayerHasItsSession, Session
      <4>3. sess[t].player # c
        BY <4>1, <4>2 DEF o
      <4>4. QED BY <1>1, <1>8, <4>1, <4>2, <4>3
    <3>3. QED BY <3>1, <3>2
  <2>3. QED BY <2>1, <2>2 DEF PlayerHasItsSession
<1>11. Reaching' /\ Kicking' /\ ShutdownLogsOut'
  BY <1>2, <1>3, <1>4, <1>6, <1>7 DEF Reaching, Kicking, ShutdownLogsOut
<1>12. QED BY <1>2, <1>7, <1>9, <1>10, <1>11, TypesNext

(* One result of the queue. *)
LEMMA HandleResultInvariant == IInv /\ HandleResult => IInv'
BY DropHolderInvariant, TakeOverInvariant, LoadFromDBInvariant, LoginFailsInvariant DEF HandleResult

(* KickAll, when the server is to stop. *)
LEMMA ResultsDoneInvariant ==
    ASSUME IInv, ResultsDone
    PROVE  IInv'
<1> USE DEF IInv
<1> DEFINE e(t) == IF t \in InSessions THEN Kicked(t) ELSE sess[t]
<1>1. /\ wpc = "results" /\ wpc' = "add" /\ final' = stopEvent
      /\ sess' = IF stopEvent THEN [t \in DOMAIN sess |-> e(t)] ELSE sess
      /\ UNCHANGED <<addSessQueue, sessions, disconnected, mem, owner, far, pipe, db,
                     results, todo, stopEvent, work, logins>>
  BY DEF ResultsDone
<1>2. ASSUME NEW t \in DOMAIN sess
      PROVE  /\ e(t) \in Session /\ e(t).acc = sess[t].acc /\ e(t).live = sess[t].live
             /\ e(t).player = sess[t].player
             /\ sess[t].sock # "null" => e(t).sock # "null"
             /\ t \in InSessions /\ sess[t].sock # "null" => e(t).sock = "closed"
  BY SessionNumbers, KickedSession
<1> HIDE DEF e
<1>3. /\ sess' \in Seq(Session) /\ Len(sess') = Len(sess) /\ DOMAIN sess' = DOMAIN sess
      /\ \A t \in DOMAIN sess : sess'[t] = IF stopEvent THEN e(t) ELSE sess[t]
  <2>1. CASE ~stopEvent
    BY <1>1, <2>1 DEF TypeOK
  <2>2. CASE stopEvent
    <3> DEFINE n == Len(sess)
    <3>1. n \in Nat /\ DOMAIN sess = 1 .. n
      BY SessionNumbers
    <3>2. sess' = [t \in 1 .. n |-> e(t)] /\ \A t \in 1 .. n : e(t) \in Session
      BY <1>1, <1>2, <2>2, <3>1
    <3> HIDE DEF n
    <3>3. sess' \in [1 .. n -> Session]
      BY <3>2
    <3>4. sess' \in Seq(Session)
      BY <3>1, <3>3, SeqDef
    <3>5. Len(sess') \in Nat /\ 1 .. Len(sess') = 1 .. n
      BY <3>3, <3>4
    <3>6. Len(sess') = n
      BY <3>1, <3>5
    <3>7. QED BY <2>2, <3>1, <3>2, <3>4, <3>6 DEF n
  <2>3. QED BY <2>1, <2>2
<1>4. \A t \in DOMAIN sess : /\ sess'[t].acc = sess[t].acc /\ sess'[t].live = sess[t].live
                             /\ sess'[t].player = sess[t].player
                             /\ sess[t].sock # "null" => sess'[t].sock # "null"
  BY <1>2, <1>3
<1>5. SessionTypes' /\ EverySessionOnce' /\ QueuedOnce' /\ InSessions' = InSessions
  BY <1>1, <1>3, <1>4, SessionsKept DEF TypeOK
<1>6. PlayerHasItsSession'
  BY <1>1, <1>3, <1>4, <1>5, PlayersKept
<1>7. CharTypes' /\ PipeTypes' /\ LastSaveExists' /\ DbTypes' /\ ControlTypes'
  BY <1>1, <1>3, CharsKept, PipeKept DEF DbTypes, ControlTypes, TypeOK
<1>8. ASSUME stopEvent, NEW t \in InSessions PROVE sess'[t].sock = "closed"
  <2>1. t \in DOMAIN sess /\ sess[t].live /\ t \notin disconnected
    BY InSessionsInDomain, OnceByPlaces
  <2>2. sess[t].sock # "null"
    BY <2>1 DEF Kicking
  <2>3. QED BY <1>2, <1>3, <1>8, <2>1, <2>2
<1>9. Kicking'
  BY <1>1, <1>3, <1>4, <1>5, <1>8 DEF Kicking
<1>10. Reaching' /\ ShutdownLogsOut'
  BY <1>1 DEF Reaching, ShutdownLogsOut
<1>11. QED BY <1>5, <1>6, <1>7, <1>9, <1>10, TypesNext

-----------------------------------------------------------------------------
(* The database and the stop. *)

(* The first operation of a character is executed. *)
LEMMA ExecuteOperationInvariant ==
    ASSUME IInv, NEW c \in Chars, ExecuteOperation(c)
    PROVE  IInv'
<1> USE DEF IInv
<1> DEFINE op == Head(pipe[c])
           r == [char |-> c, acc |-> op.acc, ver |-> db[c], asked |-> op.asked]
<1>1. /\ pipe[c] # <<>> /\ pipe' = [pipe EXCEPT ![c] = Tail(@)]
      /\ IF op.kind = "save" THEN db' = [db EXCEPT ![c] = op.ver] /\ results' = results
                             ELSE results' = Append(results, r) /\ db' = db
      /\ UNCHANGED <<sess, addSessQueue, sessions, disconnected, mem, owner, far, wpc, todo,
                     final, stopEvent, work, logins>>
  BY DEF ExecuteOperation
<1>2. op \in OpOf(c) /\ PipeTypes' /\ LastSaveExists'
  BY <1>1, OperationTaken DEF PipeTypes
<1>3. /\ op.kind = "save" => op.ver \in Versions
      /\ op.kind # "save" =>
            r \in [char : Chars, acc : Accounts, ver : Versions, asked : Versions]
  BY <1>2, OwnerAssumption DEF OpOf, TypeOK
<1> HIDE DEF op, r
<1>4. DbTypes'
  <2>1. CASE op.kind = "save"
    BY <1>1, <1>3, <2>1 DEF DbTypes, TypeOK
  <2>2. CASE op.kind # "save"
    <3> DEFINE R == [char : Chars, acc : Accounts, ver : Versions, asked : Versions]
    <3>1. results \in Seq(R) /\ r \in R /\ results' = Append(results, r) /\ db' = db
      BY <1>1, <1>3, <2>2 DEF TypeOK
    <3>2. results' \in Seq(R)
      <4> HIDE DEF R
      <4>1. QED BY <3>1
    <3>3. QED BY <3>1, <3>2 DEF DbTypes, TypeOK
  <2>3. QED BY <2>1, <2>2
<1>5. /\ SessionTypes' /\ EverySessionOnce' /\ QueuedOnce' /\ InSessions' = InSessions
  BY <1>1, SessionsKept DEF TypeOK
<1>6. PlayerHasItsSession'
  BY <1>1, <1>5, PlayersKept
<1>7. CharTypes' /\ ControlTypes'
  BY <1>1, CharsKept DEF ControlTypes, TypeOK
<1>8. Reaching' /\ Kicking' /\ ShutdownLogsOut'
  BY <1>1, <1>5 DEF Reaching, Kicking, ShutdownLogsOut
<1>9. QED BY <1>2, <1>4, <1>5, <1>6, <1>7, <1>8, TypesNext

(* The databases have stopped. *)
LEMMA StopServerInvariant ==
    ASSUME IInv, StopServer
    PROVE  IInv'
<1> USE DEF IInv
<1>1. /\ wpc = "stopped" /\ wpc' = "ended" /\ results' = <<>>
      /\ UNCHANGED <<sess, addSessQueue, sessions, disconnected, mem, owner, far, pipe, db,
                     todo, final, stopEvent, work, logins>>
  BY DEF StopServer
<1>2. /\ SessionTypes' /\ EverySessionOnce' /\ QueuedOnce' /\ InSessions' = InSessions
  BY <1>1, SessionsKept DEF TypeOK
<1>3. PlayerHasItsSession'
  BY <1>1, <1>2, PlayersKept
<1>4. CharTypes' /\ PipeTypes' /\ LastSaveExists' /\ DbTypes' /\ ControlTypes'
  BY <1>1, CharsKept, PipeKept DEF DbTypes, ControlTypes, TypeOK
<1>5. Reaching' /\ Kicking' /\ ShutdownLogsOut'
  BY <1>1, <1>2 DEF Reaching, Kicking, ShutdownLogsOut
<1>6. QED BY <1>2, <1>3, <1>4, <1>5, TypesNext

(* The server is asked to stop. *)
LEMMA StopNowInvariant ==
    ASSUME IInv, StopNow
    PROVE  IInv'
<1> USE DEF IInv
<1>1. /\ stopEvent' = TRUE
      /\ UNCHANGED <<sess, addSessQueue, sessions, disconnected, mem, owner, far, pipe, db,
                     results, wpc, todo, final, work, logins>>
  BY DEF StopNow
<1>2. /\ SessionTypes' /\ EverySessionOnce' /\ QueuedOnce' /\ InSessions' = InSessions
  BY <1>1, SessionsKept DEF TypeOK
<1>3. PlayerHasItsSession'
  BY <1>1, <1>2, PlayersKept
<1>4. CharTypes' /\ PipeTypes' /\ LastSaveExists' /\ DbTypes' /\ ControlTypes'
  BY <1>1, CharsKept, PipeKept DEF DbTypes, ControlTypes, TypeOK
<1>5. Reaching' /\ Kicking' /\ ShutdownLogsOut'
  BY <1>1, <1>2 DEF Reaching, Kicking, ShutdownLogsOut
<1>6. QED BY <1>2, <1>3, <1>4, <1>5, TypesNext

(* Nothing changes. *)
LEMMA StutterInvariant ==
    ASSUME IInv, UNCHANGED vars
    PROVE  IInv'
<1> USE DEF IInv
<1>1. UNCHANGED <<sess, addSessQueue, sessions, disconnected, mem, owner, far, pipe, db,
                  results, wpc, todo, final, stopEvent, work, logins>>
  OBVIOUS
<1>2. /\ SessionTypes' /\ EverySessionOnce' /\ QueuedOnce' /\ InSessions' = InSessions
  BY <1>1, SessionsKept DEF TypeOK
<1>3. PlayerHasItsSession'
  BY <1>1, <1>2, PlayersKept
<1>4. CharTypes' /\ PipeTypes' /\ LastSaveExists' /\ DbTypes' /\ ControlTypes'
  BY <1>1, CharsKept, PipeKept DEF DbTypes, ControlTypes, TypeOK
<1>5. Reaching' /\ Kicking' /\ ShutdownLogsOut'
  BY <1>1, <1>2 DEF Reaching, Kicking, ShutdownLogsOut
<1>6. QED BY <1>2, <1>3, <1>4, <1>5, TypesNext

-----------------------------------------------------------------------------
(* A world without sessions satisfies the invariant, *)
LEMMA InitInvariant == Init => IInv
<1> SUFFICES ASSUME Init PROVE IInv
  OBVIOUS
<1>1. DOMAIN sess = {} /\ InSessions = {} /\ DOMAIN addSessQueue = {}
  BY DEF Init, InSessions
<1>2. SessionTypes
  BY <1>1, BoundsAssumption DEF Init, SessionTypes
<1>3. CharTypes /\ ControlTypes
  <2>1. mem \in [Chars -> Versions \cup {Out}] /\ owner \in [Chars -> DOMAIN sess \cup {NoSession}]
    BY DEF Init
  <2>2. 0 \in 0 .. MaxWork /\ 0 \in 0 .. MaxLogins
    BY BoundsAssumption
  <2>3. QED BY <2>1, <2>2 DEF Init, CharTypes, ControlTypes
<1>4. PipeTypes /\ DbTypes
  BY BoundsAssumption DEF Init, PipeTypes, DbTypes, Versions
<1>5. PlayerHasItsSession /\ ShutdownLogsOut /\ Reaching /\ QueuedOnce /\ Kicking
  BY <1>1 DEF Init, PlayerHasItsSession, ShutdownLogsOut, Reaching, QueuedOnce, Kicking
<1>6. EverySessionOnce
  BY <1>1 DEF Init, EverySessionOnce
<1>7. LastSaveExists
  BY DEF Init, LastSaveExists, Saves
<1>8. QED BY <1>2, <1>3, <1>4, <1>5, <1>6, <1>7, Types DEF IInv

(* and every step preserves it. *)
LEMMA StepInvariant == IInv /\ [Next]_vars => IInv'
<1> SUFFICES ASSUME IInv, [Next]_vars PROVE IInv'
  OBVIOUS
<1>1. ASSUME NEW s \in Ids,
             AddFirstSession(s) \/ \E old \in Ids : \/ RejectSession(s, old)
                                                    \/ ReplaceLingering(s, old)
                                                    \/ ReplaceDeleted(s, old)
      PROVE  IInv'
  BY <1>1, AddFirstSessionInvariant, RejectSessionInvariant, ReplaceLingeringInvariant,
     ReplaceDeletedInvariant
<1>2. ASSUME NEW s \in todo,
             \/ UpdateSession(s)
             \/ \E c \in Chars : HandlePlayerLoginOpcode(s, c)
             \/ HandleLogoutRequest(s)
             \/ HandleMoveWorldportAckOpcode(s)
             \/ CharacterScreenIdleKick(s)
             \/ SocketClosed(s)
             \/ SetDisconnectedSession(s)
      PROVE  IInv'
  <2>1. CASE CharacterScreenIdleKick(s) \/ SocketClosed(s)
    BY <2>1, EraseSessionInvariant DEF CharacterScreenIdleKick, SocketClosed
  <2>2. QED BY <1>2, <2>1, UpdateSessionInvariant, HandlePlayerLoginOpcodeInvariant,
               HandleLogoutRequestInvariant, HandleMoveWorldportAckOpcodeInvariant,
               SetDisconnectedSessionInvariant
<1>3. ASSUME NEW s \in todo, DeleteDisconnected(s) \/ KeepDisconnected(s)
      PROVE  IInv'
  BY <1>3, DeleteDisconnectedInvariant, KeepDisconnectedInvariant
<1>4. ASSUME NEW c \in Chars, Change(c) \/ TeleportFar(c) \/ AutoSave(c) \/ ExecuteOperation(c)
      PROVE  IInv'
  BY <1>4, ChangeInvariant, TeleportFarInvariant, AutoSaveInvariant, ExecuteOperationInvariant
<1>5. CASE AddDone \/ UpdateDone \/ DisconnectedDone \/ MapsDone \/ HandleResult \/ ResultsDone
           \/ StopServer
  BY <1>5, AddDoneInvariant, UpdateDoneInvariant, DisconnectedDoneInvariant, MapsDoneInvariant,
     HandleResultInvariant, ResultsDoneInvariant, StopServerInvariant
<1>6. CASE WorldStep
  BY <1>1, <1>2, <1>3, <1>4, <1>5, <1>6 DEF WorldStep
<1>7. ASSUME NEW a \in Accounts, Connect(a) PROVE IInv'
  BY <1>7, ConnectInvariant
<1>8. ASSUME NEW s \in DOMAIN sess, CloseSocket(s) PROVE IInv'
  BY <1>8, CloseSocketInvariant
<1>9. CASE StopNow
  BY <1>9, StopNowInvariant
<1>10. CASE Terminated \/ UNCHANGED vars
  BY <1>10, StutterInvariant DEF Terminated
<1>11. QED BY <1>4, <1>6, <1>7, <1>8, <1>9, <1>10 DEF Next

(* The inductive invariant: places of the sessions, characters and phases agree. *)
THEOREM Invariant == Spec => []IInv
BY InitInvariant, StepInvariant, PTL DEF Spec

(* Every variable keeps its type. *)
THEOREM TypeCorrect == Spec => []TypeOK
<1>1. IInv => TypeOK
  BY DEF IInv
<1>2. QED BY <1>1, Invariant, PTL

(* A character in the world and its session point at each other (HandlePlayerLogin). *)
THEOREM PlayerHasItsSessionHolds == Spec => []PlayerHasItsSession
<1>1. IInv => PlayerHasItsSession
  BY DEF IInv
<1>2. QED BY <1>1, Invariant, PTL

(* A session is in one place until it is deleted (UpdateSessions, AddSession_). *)
THEOREM EverySessionOnceHolds == Spec => []EverySessionOnce
<1>1. IInv => EverySessionOnce
  BY DEF IInv
<1>2. QED BY <1>1, Invariant, PTL

(* When World::Shutdown has run, a character in the world is one that lingers. *)
THEOREM ShutdownLogsOutHolds == Spec => []ShutdownLogsOut
<1>1. IInv => ShutdownLogsOut
  BY DEF IInv
<1>2. QED BY <1>1, Invariant, PTL

-----------------------------------------------------------------------------
(* The step of LogoutSaves. *)
Saved == \A c \in Chars : mem[c] # Out /\ mem'[c] = Out => LastSaved(c)' = mem[c]

(* LogoutPlayer hands the last state over before the character goes. *)
LEMMA LogoutPlayerSaves ==
    ASSUME IInv, NEW s \in DOMAIN sess, LogoutPlayer(s)
    PROVE  Saved
<1> USE DEF IInv
<1>1. sess[s].player \in Chars \cup {NoChar}
  BY SessionNumbers DEF Session
<1>2. CASE sess[s].player = NoChar
  BY <1>2 DEF LogoutPlayer, Saved
<1>3. CASE sess[s].player # NoChar
  <2>1. PICK c \in Chars : c = sess[s].player
    BY <1>1, <1>3
  <2>2. PICK v \in Versions : v = mem[c]
    BY <1>3, <2>1 DEF PlayerHasItsSession, TypeOK
  <2>3. /\ pipe' = [pipe EXCEPT ![c] = Append(@, SaveOp(v))]
        /\ mem' = [mem EXCEPT ![c] = Out]
    BY <1>3, <2>1, <2>2 DEF LogoutPlayer, SaveToDB
  <2>4. SaveOp(v) \in OpOf(c) /\ SaveOp(v).kind = "save" /\ SaveOp(v).ver = v
    BY SaveIsAnOperation
  <2>5. LastSaved(c)' = v
    BY <2>3, <2>4, OperationAppended
  <2>6. \A d \in Chars : d # c => mem'[d] = mem[d]
    BY <2>3 DEF TypeOK
  <2>7. QED BY <2>2, <2>5, <2>6, Zenon DEF Saved
<1>4. QED BY <1>1, <1>2, <1>3

(* No other step takes a character out of the world. *)
LEMMA StepSaves == IInv /\ [Next]_vars => Saved
<1> SUFFICES ASSUME IInv, [Next]_vars PROVE Saved
  OBVIOUS
<1>1. ASSUME UNCHANGED mem PROVE Saved
  BY <1>1 DEF Saved
<1>2. ASSUME NEW s \in Ids,
             AddFirstSession(s) \/ \E old \in Ids : \/ RejectSession(s, old)
                                                    \/ ReplaceLingering(s, old)
                                                    \/ ReplaceDeleted(s, old)
      PROVE  Saved
  <2>1. CASE \E old \in Ids : ReplaceDeleted(s, old)
    <3>1. PICK old \in Ids : ReplaceDeleted(s, old)
      BY <2>1
    <3>2. NewSession(s, old) /\ LogoutPlayer(old)
      BY <3>1 DEF ReplaceDeleted
    <3>3. s \in DOMAIN sess /\ old = sessions[sess[s].acc]
      BY <3>2, NewSessionTaken
    <3>4. old \in DOMAIN sess
      BY <3>3, NullAssumption, SessionNumbers DEF Ids, IInv, TypeOK, Session
    <3>5. QED BY <3>2, <3>4, LogoutPlayerSaves
  <2>2. CASE ~\E old \in Ids : ReplaceDeleted(s, old)
    BY <1>1, <1>2, <2>2 DEF AddFirstSession, RejectSession, ReplaceLingering
  <2>3. QED BY <2>1, <2>2
<1>3. ASSUME NEW s \in todo,
             \/ UpdateSession(s)
             \/ \E c \in Chars : HandlePlayerLoginOpcode(s, c)
             \/ HandleLogoutRequest(s)
             \/ HandleMoveWorldportAckOpcode(s)
             \/ CharacterScreenIdleKick(s)
             \/ SocketClosed(s)
             \/ SetDisconnectedSession(s)
             \/ DeleteDisconnected(s)
             \/ KeepDisconnected(s)
      PROVE  Saved
  <2>1. s \in DOMAIN sess
    BY DEF IInv, TypeOK
  <2>2. ASSUME LogoutPlayer(s) PROVE Saved
    BY <2>1, <2>2, LogoutPlayerSaves
  <2>3. CASE \/ HandleLogoutRequest(s) \/ CharacterScreenIdleKick(s) \/ SocketClosed(s)
             \/ DeleteDisconnected(s)
    BY <2>2, <2>3 DEF HandleLogoutRequest, CharacterScreenIdleKick, SocketClosed, EraseSession,
                      DeleteDisconnected
  <2>4. CASE \/ UpdateSession(s) \/ (\E c \in Chars : HandlePlayerLoginOpcode(s, c))
             \/ HandleMoveWorldportAckOpcode(s) \/ SetDisconnectedSession(s) \/ KeepDisconnected(s)
    BY <1>1, <2>4 DEF UpdateSession, HandlePlayerLoginOpcode, HandleMoveWorldportAckOpcode,
                      SetDisconnectedSession, KeepDisconnected
  <2>5. QED BY <1>3, <2>3, <2>4
<1>4. ASSUME NEW c \in Chars, Change(c)
      PROVE  Saved
  <2>1. mem' = [mem EXCEPT ![c] = work + 1] /\ work + 1 # Out
    BY <1>4, NullAssumption, BoundsAssumption DEF Change, IInv, TypeOK
  <2>2. \A d \in Chars : mem'[d] = Out => mem[d] = Out
    BY <2>1 DEF IInv, TypeOK
  <2>3. QED BY <2>2 DEF Saved
<1>5. ASSUME NEW s \in InSessions \cup {NoSession},
             \/ DropHolder(s)
             \/ \E c \in Chars : TakeOver(s, c) \/ LoadFromDB(s, c) \/ LoginFails(s, c)
      PROVE  Saved
  <2>1. ASSUME NEW c \in Chars, LoadFromDB(s, c) PROVE Saved
    <3>1. mem[c] = Out /\ \E v : mem' = [mem EXCEPT ![c] = v]
      BY <2>1 DEF LoadFromDB
    <3>2. \A d \in Chars : mem[d] # Out => mem'[d] = mem[d]
      BY <3>1 DEF IInv, TypeOK
    <3>3. QED BY <3>2 DEF Saved
  <2>2. QED BY <1>1, <1>5, <2>1 DEF DropHolder, TakeOver, LoginFails
<1>6. ASSUME NEW c \in Chars, TeleportFar(c) \/ AutoSave(c) \/ ExecuteOperation(c) PROVE Saved
  BY <1>1, <1>6 DEF TeleportFar, AutoSave, ExecuteOperation
<1>7. CASE AddDone \/ UpdateDone \/ DisconnectedDone \/ MapsDone \/ ResultsDone \/ StopServer
  BY <1>1, <1>7 DEF AddDone, UpdateDone, DisconnectedDone, MapsDone, ResultsDone, StopServer
<1>8. CASE WorldStep
  BY <1>2, <1>3, <1>4, <1>5, <1>6, <1>7, <1>8 DEF WorldStep, HandleResult
<1>9. CASE (\E a \in Accounts : Connect(a)) \/ (\E s \in DOMAIN sess : CloseSocket(s)) \/ StopNow
  BY <1>1, <1>9 DEF Connect, CloseSocket, StopNow
<1>10. CASE Terminated \/ UNCHANGED vars
  BY <1>1, <1>10 DEF Terminated
<1>11. QED BY <1>6, <1>8, <1>9, <1>10 DEF Next

(* A character leaves the world only saved, in every way a session can end. *)
THEOREM LogoutSavesHolds == Spec => LogoutSaves
<1>1. IInv /\ [Next]_vars =>
        [\A c \in Chars : mem[c] # Out /\ mem'[c] = Out => LastSaved(c)' = mem[c]]_vars
  BY StepSaves DEF Saved
<1>2. QED BY <1>1, Invariant, PTL DEF Spec, LogoutSaves
================================================================================
