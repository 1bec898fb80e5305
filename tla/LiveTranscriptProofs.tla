------------------------- MODULE LiveTranscriptProofs -------------------------
(***************************************************************************)
(* Proofs about the transcript of a meeting under way: RealtimeGateway for *)
(* every set of meetings, sockets and sessions, TranscriptView for any     *)
(* number of finals, sockets and lost connections.                         *)
(*                                                                         *)
(* Of the gateway, the inductive invariant adds to the properties what the *)
(* map of sessions knows (MapInv: an entry is a session of its meeting     *)
(* whose loop runs) and what ties the two ways of keeping time together    *)
(* (TimeInv: the last end a meeting remembers is the time of the session   *)
(* in the map).  Of the page, it says which rows an answer that is still   *)
(* to be merged has read (ResyncInv) and what renews the token of a socket *)
(* that was refused (SocketInv).                                           *)
(***************************************************************************)
EXTENDS RealtimeGateway, TranscriptView, FiniteSetTheorems, WellFoundedInduction, TLAPS

(***************************************************************************)
(* The gateway                                                             *)
(***************************************************************************)
ServerSession ==
    [meeting : Meetings, loop : {"none", "sending", "streaming", "ended"},
     closed : BOOLEAN, ready : BOOLEAN, offset : Nat, finals : Nat]

ServerTypes ==
    /\ stored \in [Meetings -> Nat] /\ starting \subseteq Meetings
    /\ audio \in [Sockets -> {"idle", "finding", "offset", "falling"}]
    /\ current \in [Meetings -> Sessions \cup {0}]
    /\ session \in [Sessions -> ServerSession]
    /\ offset \in [Meetings -> Nat \cup {NoTime}]
    /\ lastEnd \in [Meetings -> Nat \cup {NoTime}]

\* An entry of the map is a session of its meeting, and its loop runs.
MapInv ==
    \A m \in Meetings : current[m] # 0 =>
        /\ session[current[m]].meeting = m
        /\ session[current[m]].loop \in {"sending", "streaming"}

\* The last end that is remembered is the time of the session in the map.
TimeInv ==
    \A m \in Meetings : current[m] # 0 /\ offset[m] # NoTime =>
        lastEnd[m] = session[current[m]].offset + session[current[m]].finals

IInv == ServerTypes /\ MapInv /\ TimeInv /\ OpenSessionInMap /\ StartLockHeld

\* What the invariant is about.
facts == <<stored, starting, audio, provider>>

\* The server starts with no session and no lock.
LEMMA InitIInv == RealtimeInit => IInv
<1> SUFFICES ASSUME RealtimeInit PROVE IInv
  OBVIOUS
<1> USE DEF RealtimeInit
<1>1. Unused \in ServerSession /\ Unused.loop = "none"
  <2>1. (CHOOSE m \in Meetings : TRUE) \in Meetings
    BY RealtimeAssumption
  <2> QED
    BY <2>1 DEF Unused, ServerSession
<1>2. ServerTypes
  BY <1>1 DEF ServerTypes
<1>3. MapInv /\ TimeInv
  BY DEF MapInv, TimeInv
<1>4. OpenSessionInMap
  BY <1>1 DEF OpenSessionInMap
<1>5. StartLockHeld
  BY DEF StartLockHeld, StartsOf
<1> QED
  BY <1>2, <1>3, <1>4, <1>5 DEF IInv

\* An action that leaves the facts alone keeps the invariant.
LEMMA UnchangedIInv == IInv /\ UNCHANGED facts => IInv'
  BY DEF IInv, facts, provider, ServerTypes, MapInv, TimeInv, OpenSessionInMap,
         StartLockHeld, StartsOf

(***************************************************************************)
(* Closing a session                                                       *)
(***************************************************************************)
\* stopSession changes nothing but the closed flag of the session in the map.
LEMMA ClosedKeeps ==
  ASSUME ServerTypes, NEW m \in Meetings
  PROVE  /\ Closed(session, m) \in [Sessions -> ServerSession]
         /\ \A k \in Sessions :
              /\ Closed(session, m)[k].meeting = session[k].meeting
              /\ Closed(session, m)[k].loop = session[k].loop
              /\ Closed(session, m)[k].offset = session[k].offset
              /\ Closed(session, m)[k].finals = session[k].finals
              /\ session[k].closed => Closed(session, m)[k].closed
         /\ current[m] # 0 => Closed(session, m)[current[m]].closed
<1>1. CASE current[m] = 0
  BY <1>1 DEF Closed, ServerTypes
<1>2. CASE current[m] # 0
  <2>1. current[m] \in Sessions
    BY <1>2 DEF ServerTypes
  <2>2. Closed(session, m) = [session EXCEPT ![current[m]].closed = TRUE]
    BY <1>2 DEF Closed
  <2>3. session \in [Sessions -> ServerSession]
    BY DEF ServerTypes
  <2>4. [session[current[m]] EXCEPT !.closed = TRUE] \in ServerSession
    BY <2>1, <2>3 DEF ServerSession
  <2> QED
    BY <2>1, <2>2, <2>3, <2>4
<1> QED
  BY <1>1, <1>2

\* A session is closed, its entry stays; the meeting may forget its times.
LEMMA CloseIInv ==
  ASSUME IInv, NEW m \in Meetings,
         session' = Closed(session, m),
         UNCHANGED <<stored, starting, audio, current>>,
         \/ UNCHANGED <<offset, lastEnd>>
         \/ /\ offset' = [offset EXCEPT ![m] = NoTime]
            /\ lastEnd' = [lastEnd EXCEPT ![m] = NoTime]
  PROVE  IInv'
<1> USE DEF IInv
<1>1. ServerTypes'
  BY ClosedKeeps DEF ServerTypes
<1>2. MapInv'
  BY ClosedKeeps DEF MapInv, ServerTypes
<1>3. TimeInv'
  BY ClosedKeeps DEF TimeInv, ServerTypes
<1>4. OpenSessionInMap'
  BY ClosedKeeps DEF OpenSessionInMap, ServerTypes, ServerSession
<1>5. StartLockHeld'
  BY DEF StartLockHeld, StartsOf
<1> QED
  BY <1>1, <1>2, <1>3, <1>4, <1>5

(***************************************************************************)
(* Starting a session                                                      *)
(***************************************************************************)
\* The finally releases the lock of the start that ends, and of no other.
LEMMA StartOverLock ==
  ASSUME ServerTypes, StartLockHeld, NEW s \in Sockets, NEW ok \in BOOLEAN,
         audio[s] \in {"finding", "offset"}, StartOver(s, ok)
  PROVE  /\ StartLockHeld'
         /\ starting' \subseteq Meetings
         /\ audio' \in [Sockets -> {"idle", "finding", "offset", "falling"}]
<1>1. SocketMeeting[s] \in Meetings
  BY RealtimeAssumption
<1>2. starting' = starting \ {SocketMeeting[s]} /\ audio' = [audio EXCEPT ![s] = "idle"]
  BY DEF StartOver
<1>3. audio' \in [Sockets -> {"idle", "finding", "offset", "falling"}]
  BY <1>2 DEF ServerTypes
<1>4. ASSUME NEW m \in Meetings
      PROVE  StartsOf(m)' = IF m = SocketMeeting[s] THEN {} ELSE StartsOf(m)
  <2>1. CASE m = SocketMeeting[s]
    <3>1. s \in StartsOf(m)
      BY <2>1 DEF StartsOf
    <3>2. \A t \in StartsOf(m) : t = s
      BY <3>1 DEF StartLockHeld
    <3> QED
      BY <1>2, <2>1, <3>2 DEF StartsOf, ServerTypes
  <2>2. CASE m # SocketMeeting[s]
    BY <1>2, <2>2 DEF StartsOf, ServerTypes
  <2> QED
    BY <2>1, <2>2
<1>5. StartLockHeld'
  <2> SUFFICES ASSUME NEW m \in Meetings
               PROVE  /\ m \in starting' <=> StartsOf(m)' # {}
                      /\ \A p, q \in StartsOf(m)' : p = q
    BY DEF StartLockHeld
  <2>1. CASE m = SocketMeeting[s]
    BY <1>2, <1>4, <2>1
  <2>2. CASE m # SocketMeeting[s]
    BY <1>2, <1>4, <2>2 DEF StartLockHeld
  <2> QED
    BY <2>1, <2>2
<1> QED
  BY <1>2, <1>3, <1>5 DEF ServerTypes

\* A start that throws leaves the sessions alone.
LEMMA ThrowsIInv ==
  ASSUME IInv, NEW s \in Sockets, audio[s] \in {"finding", "offset"},
         StartThrows(s), UNCHANGED stored
  PROVE  IInv'
<1>1. StartOver(s, FALSE) /\ UNCHANGED provider
  BY DEF StartThrows
<1>2. StartLockHeld' /\ ServerTypes'
  BY <1>1, StartOverLock DEF IInv, ServerTypes, provider
<1> QED
  BY <1>1, <1>2 DEF IInv, MapInv, TimeInv, OpenSessionInMap, provider

\* A session begins: the one it replaces is closed, the new one is in the map
\* and begins at the time the meeting remembers.
LEMMA ReturnsIInv ==
  ASSUME IInv, NEW s \in Sockets, audio[s] \in {"finding", "offset"},
         NEW from \in Nat, StartReturns(s, from), UNCHANGED stored
  PROVE  IInv'
<1> DEFINE m == SocketMeeting[s]
           new == [meeting |-> m, loop |-> "sending", closed |-> FALSE,
                   ready |-> FALSE, offset |-> from, finals |-> 0]
           old == Closed(session, m)
<1>0. m \in Meetings
  BY RealtimeAssumption
<1>1. PICK k \in Fresh : BeginSession(m, from, k)
  BY DEF StartReturns
<1>2. k \in Sessions /\ session[k].loop = "none" /\ k # 0
  BY <1>1, RealtimeAssumption DEF Fresh
<1>3. ServerTypes /\ MapInv /\ TimeInv /\ OpenSessionInMap /\ StartLockHeld
  BY DEF IInv
<1>4. /\ session' = [old EXCEPT ![k] = new]
      /\ current' = [current EXCEPT ![m] = k]
      /\ offset' = [offset EXCEPT ![m] = from]
      /\ lastEnd' = [lastEnd EXCEPT ![m] = from]
  BY <1>1 DEF BeginSession
<1>5. /\ old \in [Sessions -> ServerSession]
      /\ \A j \in Sessions :
           /\ old[j].meeting = session[j].meeting /\ old[j].loop = session[j].loop
           /\ old[j].offset = session[j].offset /\ old[j].finals = session[j].finals
           /\ session[j].closed => old[j].closed
      /\ current[m] # 0 => old[current[m]].closed
  BY <1>0, <1>3, ClosedKeeps
<1>6. new \in ServerSession
  BY <1>0 DEF ServerSession
<1> HIDE DEF old, new, m
<1>7. \A n \in Meetings : current[n] # k
  BY <1>2, <1>3 DEF MapInv
<1>8. /\ session'[k] = new /\ \A j \in Sessions \ {k} : session'[j] = old[j]
      /\ current'[m] = k /\ \A n \in Meetings \ {m} : current'[n] = current[n]
  BY <1>0, <1>2, <1>3, <1>4, <1>5 DEF ServerTypes
<1>9. StartOver(s, TRUE)
  BY DEF StartReturns
<1>10. StartLockHeld' /\ ServerTypes'
  <2>1. StartLockHeld' /\ starting' \subseteq Meetings
        /\ audio' \in [Sockets -> {"idle", "finding", "offset", "falling"}]
    BY <1>3, <1>9, StartOverLock
  <2>2. session' \in [Sessions -> ServerSession]
    BY <1>2, <1>4, <1>5, <1>6
  <2> QED
    BY <1>0, <1>2, <1>3, <1>4, <2>1, <2>2 DEF ServerTypes
<1>11. new.meeting = m /\ new.loop = "sending" /\ new.offset = from /\ new.finals = 0
  BY DEF new
<1>12. ASSUME NEW n \in Meetings, current'[n] # 0
       PROVE  /\ session'[current'[n]].meeting = n
              /\ session'[current'[n]].loop \in {"sending", "streaming"}
              /\ offset'[n] # NoTime =>
                   lastEnd'[n] = session'[current'[n]].offset + session'[current'[n]].finals
  <2>1. CASE n = m
    <3>1. lastEnd'[m] = from
      BY <1>0, <1>3, <1>4 DEF ServerTypes
    <3> QED
      BY <1>8, <1>11, <2>1, <3>1
  <2>2. CASE n # m
    <3>1. current'[n] = current[n] /\ current[n] \in Sessions \ {k}
      BY <1>3, <1>7, <1>8, <1>12, <2>2 DEF ServerTypes
    <3>2. lastEnd'[n] = lastEnd[n] /\ offset'[n] = offset[n]
      BY <1>3, <1>4, <2>2 DEF ServerTypes
    <3> QED
      BY <1>3, <1>5, <1>8, <1>12, <3>1, <3>2 DEF MapInv, TimeInv
  <2> QED
    BY <2>1, <2>2
<1>13. OpenSessionInMap'
  <2> SUFFICES ASSUME NEW j \in Sessions, session'[j].loop \in {"sending", "streaming"},
                      ~session'[j].closed
               PROVE  current'[session'[j].meeting] = j
    BY DEF OpenSessionInMap
  <2>1. CASE j = k
    BY <1>8, <1>11, <2>1
  <2>2. CASE j # k
    <3>1. session'[j] = old[j]
      BY <1>8, <2>2
    <3>2. current[session[j].meeting] = j /\ session[j].meeting \in Meetings
      BY <1>3, <1>5, <3>1 DEF OpenSessionInMap, ServerTypes, ServerSession
    <3>3. j # 0
      BY RealtimeAssumption
    <3>4. session[j].meeting # m
      BY <1>5, <3>1, <3>2, <3>3
    <3> QED
      BY <1>5, <1>8, <3>1, <3>2, <3>4
  <2> QED
    BY <2>1, <2>2
<1> QED
  BY <1>10, <1>12, <1>13 DEF IInv, MapInv, TimeInv

\* The chunk that finds no session takes the lock; the others change nothing.
LEMMA AudioIInv == ASSUME IInv, NEW s \in Sockets, Audio(s) PROVE IInv'
<1> DEFINE m == SocketMeeting[s]
<1>0. m \in Meetings
  BY RealtimeAssumption
<1>1. UNCHANGED <<stored, provider>> /\ audio[s] = "idle"
  BY DEF Audio
<1>2. CASE UNCHANGED <<audio, starting>>
  BY <1>1, <1>2, UnchangedIInv DEF facts
<1>3. CASE audio' = [audio EXCEPT ![s] = "falling"] /\ UNCHANGED starting
  <2>1. StartLockHeld'
    BY <1>1, <1>3 DEF IInv, ServerTypes, StartLockHeld, StartsOf
  <2>2. ServerTypes'
    BY <1>1, <1>3 DEF IInv, ServerTypes, provider
  <2> QED
    BY <1>1, <2>1, <2>2 DEF IInv, MapInv, TimeInv, OpenSessionInMap, provider
<1>4. CASE /\ m \notin starting
           /\ starting' = starting \cup {m}
           /\ audio' = [audio EXCEPT ![s] = "finding"]
  <2>1. StartsOf(m) = {}
    BY <1>0, <1>4 DEF IInv, StartLockHeld
  <2>2. ASSUME NEW n \in Meetings
        PROVE  StartsOf(n)' = IF n = m THEN {s} ELSE StartsOf(n)
    BY <1>1, <1>4, <2>1 DEF StartsOf, IInv, ServerTypes
  <2>3. StartLockHeld'
    BY <1>0, <1>4, <2>2 DEF IInv, StartLockHeld
  <2>4. ServerTypes'
    BY <1>0, <1>1, <1>4 DEF IInv, ServerTypes, provider
  <2> QED
    BY <1>1, <2>3, <2>4 DEF IInv, MapInv, TimeInv, OpenSessionInMap, provider
<1> QED
  BY <1>2, <1>3, <1>4 DEF Audio

(***************************************************************************)
(* The result loop                                                         *)
(***************************************************************************)
\* A loop that ends closes its session and takes its own entry out of the map.
LEMMA EndIInv ==
  ASSUME IInv, NEW k \in Sessions, session[k].loop \in {"sending", "streaming"},
         EndOfLoop(k), UNCHANGED <<stored, starting, audio, offset, lastEnd>>
  PROVE  IInv'
<1> DEFINE m == session[k].meeting
<1>0. ServerTypes /\ MapInv /\ TimeInv /\ OpenSessionInMap /\ StartLockHeld
  BY DEF IInv
<1>1. m \in Meetings /\ session[k] \in ServerSession /\ k # 0
  BY <1>0, RealtimeAssumption DEF ServerTypes, ServerSession
<1>2. /\ session' = [session EXCEPT ![k] = [session[k] EXCEPT !.loop = "ended", !.closed = TRUE,
                                                            !.ready = FALSE]]
      /\ current' = IF current[m] = k THEN [current EXCEPT ![m] = 0] ELSE current
  BY <1>0, <1>1 DEF EndOfLoop, ServerTypes
<1>3. [session[k] EXCEPT !.loop = "ended", !.closed = TRUE, !.ready = FALSE] \in ServerSession
  BY <1>1 DEF ServerSession
<1>4. ServerTypes'
  BY <1>0, <1>1, <1>2, <1>3 DEF ServerTypes
<1>5. /\ session'[k].closed /\ \A j \in Sessions \ {k} : session'[j] = session[j]
  BY <1>0, <1>1, <1>2, <1>3 DEF ServerTypes, ServerSession
<1>6. \A n \in Meetings : current'[n] # 0 => current'[n] = current[n] /\ current[n] \in Sessions \ {k}
  BY <1>0, <1>1, <1>2 DEF ServerTypes, MapInv
<1>7. MapInv' /\ TimeInv'
  BY <1>0, <1>5, <1>6 DEF MapInv, TimeInv
<1>8. OpenSessionInMap'
  <2> SUFFICES ASSUME NEW j \in Sessions, session'[j].loop \in {"sending", "streaming"},
                      ~session'[j].closed
               PROVE  current'[session'[j].meeting] = j
    BY DEF OpenSessionInMap
  <2>1. j # k /\ session'[j] = session[j]
    BY <1>5
  <2>2. current[session[j].meeting] = j /\ session[j].meeting \in Meetings
    BY <1>0, <2>1 DEF OpenSessionInMap, ServerTypes, ServerSession
  <2> QED
    BY <1>0, <1>1, <1>2, <2>1, <2>2 DEF ServerTypes
<1>9. StartLockHeld'
  BY <1>0 DEF StartLockHeld, StartsOf
<1> QED
  BY <1>4, <1>7, <1>8, <1>9 DEF IInv

\* A session that AWS accepts stays in the map.
LEMMA AcceptedIInv == ASSUME IInv, NEW k \in Sessions, LoopAccepted(k) PROVE IInv'
<1>0. ServerTypes /\ MapInv /\ TimeInv /\ OpenSessionInMap /\ StartLockHeld
  BY DEF IInv
<1>1. session[k] \in ServerSession /\ session[k].loop = "sending"
  BY <1>0 DEF ServerTypes, LoopAccepted
<1> DEFINE ready == current[session[k].meeting] = k
           accepted == [session[k] EXCEPT !.loop = "streaming", !.ready = ready]
<1>2. session' = [session EXCEPT ![k] = accepted]
  BY <1>0 DEF LoopAccepted, ServerTypes
<1>3. /\ accepted \in ServerSession
      /\ accepted.loop = "streaming" /\ accepted.meeting = session[k].meeting
      /\ accepted.closed = session[k].closed /\ accepted.offset = session[k].offset
      /\ accepted.finals = session[k].finals
  BY <1>1 DEF ServerSession
<1>4. UNCHANGED <<stored, starting, audio, current, offset, lastEnd>>
  BY DEF LoopAccepted, connections
<1> HIDE DEF accepted
<1>5. session' \in [Sessions -> ServerSession] /\ session'[k] = accepted
      /\ \A j \in Sessions \ {k} : session'[j] = session[j]
  BY <1>0, <1>2, <1>3 DEF ServerTypes
<1>6. ServerTypes'
  BY <1>0, <1>4, <1>5 DEF ServerTypes
<1>7. MapInv' /\ TimeInv'
  BY <1>0, <1>3, <1>4, <1>5 DEF MapInv, TimeInv, ServerTypes
<1>8. OpenSessionInMap'
  BY <1>0, <1>1, <1>3, <1>4, <1>5 DEF OpenSessionInMap
<1>9. StartLockHeld'
  BY <1>0, <1>4 DEF StartLockHeld, StartsOf
<1> QED
  BY <1>6, <1>7, <1>8, <1>9 DEF IInv

\* What a final does to the session and to the times of its meeting.
LEMMA FinalStep ==
  ASSUME IInv, NEW k \in Sessions, Final(k), NEW m, m = session[k].meeting
  PROVE  /\ m \in Meetings /\ current[m] = k /\ k # 0
         /\ session' \in [Sessions -> ServerSession]
         /\ session'[k] = [session[k] EXCEPT !.finals = @ + 1]
         /\ \A j \in Sessions \ {k} : session'[j] = session[j]
         /\ offset[m] = NoTime => UNCHANGED lastEnd
         /\ offset[m] # NoTime => lastEnd' = [lastEnd EXCEPT ![m] = lastEnd[m] + 1]
         /\ lastEnd' \in [Meetings -> Nat \cup {NoTime}]
<1> DEFINE end == session[k].offset + session[k].finals + 1
<1>0. ServerTypes /\ TimeInv
  BY DEF IInv
<1>1. session[k] \in ServerSession /\ m \in Meetings /\ current[m] = k /\ k # 0
  BY <1>0, RealtimeAssumption DEF ServerTypes, ServerSession, Final, Listens
<1>2. session' = [session EXCEPT ![k] = [session[k] EXCEPT !.finals = @ + 1]]
  BY <1>0 DEF Final, ServerTypes
<1>3. [session[k] EXCEPT !.finals = @ + 1] \in ServerSession
  BY <1>1 DEF ServerSession
<1>4. session' \in [Sessions -> ServerSession]
      /\ session'[k] = [session[k] EXCEPT !.finals = @ + 1]
      /\ \A j \in Sessions \ {k} : session'[j] = session[j]
  BY <1>0, <1>2, <1>3 DEF ServerTypes
<1>5. CASE offset[m] = NoTime
  BY <1>0, <1>1, <1>4, <1>5 DEF Final, ServerTypes
<1>6. CASE offset[m] # NoTime
  <2>1. lastEnd[m] = session[k].offset + session[k].finals
    BY <1>0, <1>1, <1>6 DEF TimeInv
  <2>2. session[k].offset \in Nat /\ session[k].finals \in Nat
    BY <1>1 DEF ServerSession
  <2>3. lastEnd[m] \in Nat /\ end = lastEnd[m] + 1 /\ ~(lastEnd[m] > end)
    BY <2>1, <2>2
  <2>4. lastEnd' = [lastEnd EXCEPT ![m] = IF lastEnd[m] # NoTime /\ lastEnd[m] > end
                                          THEN lastEnd[m] ELSE end]
    BY <1>0, <1>1, <1>6 DEF Final, ServerTypes
  <2>5. lastEnd' = [lastEnd EXCEPT ![m] = lastEnd[m] + 1]
    BY <2>3, <2>4
  <2> QED
    BY <1>0, <1>1, <1>4, <1>6, <2>3, <2>5 DEF ServerTypes
<1> QED
  BY <1>5, <1>6

\* A final moves the session and the last end of its meeting together.
LEMMA FinalIInv == ASSUME IInv, NEW k \in Sessions, Final(k) PROVE IInv'
<1> DEFINE m == session[k].meeting
           end == session[k].offset + session[k].finals + 1
<1>0. ServerTypes /\ MapInv /\ TimeInv /\ OpenSessionInMap /\ StartLockHeld
  BY DEF IInv
<1>1. /\ m \in Meetings /\ current[m] = k /\ k # 0
      /\ session' \in [Sessions -> ServerSession]
      /\ \A j \in Sessions \ {k} : session'[j] = session[j]
      /\ offset[m] = NoTime => UNCHANGED lastEnd
      /\ offset[m] # NoTime => lastEnd' = [lastEnd EXCEPT ![m] = lastEnd[m] + 1]
      /\ lastEnd' \in [Meetings -> Nat \cup {NoTime}]
  BY FinalStep
<1>2. UNCHANGED <<starting, audio, current, offset>>
  BY DEF Final, handlers
<1>3. session[k] \in ServerSession
  BY <1>0 DEF ServerTypes
<1>4. /\ session'[k].meeting = m /\ session'[k].loop = session[k].loop
      /\ session'[k].closed = session[k].closed /\ session'[k].offset = session[k].offset
      /\ session'[k].finals = session[k].finals + 1
  <2>1. session'[k] = [session[k] EXCEPT !.finals = @ + 1]
    BY FinalStep
  <2> QED
    BY <1>3, <2>1 DEF ServerSession
<1>5. stored' \in [Meetings -> Nat]
  <2>1. end \in Nat
    BY <1>3 DEF ServerSession
  <2> QED
    BY <1>0, <1>1, <2>1 DEF Final, saveFinalSegment, ServerTypes
<1>6. ServerTypes'
  BY <1>0, <1>1, <1>2, <1>5 DEF ServerTypes
<1>11. \A n \in Meetings : current[n] # 0 /\ n # m => current[n] \in Sessions \ {k}
  BY <1>0 DEF MapInv, ServerTypes
<1>12. session[k].loop \in {"sending", "streaming"}
  BY <1>0, <1>1 DEF MapInv
<1> HIDE DEF m
<1>7. MapInv'
  BY <1>0, <1>1, <1>2, <1>4, <1>11, <1>12 DEF MapInv
<1>8. TimeInv'
  <2> SUFFICES ASSUME NEW n \in Meetings, current'[n] # 0, offset'[n] # NoTime
               PROVE  lastEnd'[n] = session'[current'[n]].offset + session'[current'[n]].finals
    BY DEF TimeInv
  <2>1. CASE n = m
    <3>1. lastEnd[m] = session[k].offset + session[k].finals
      BY <1>0, <1>1, <1>2, <2>1 DEF TimeInv
    <3>2. lastEnd'[m] = lastEnd[m] + 1
      BY <1>0, <1>1, <1>2, <2>1 DEF ServerTypes
    <3>3. session[k].offset \in Nat /\ session[k].finals \in Nat
      BY <1>3 DEF ServerSession
    <3> QED
      BY <1>1, <1>2, <1>4, <2>1, <3>1, <3>2, <3>3
  <2>2. CASE n # m
    <3>1. current[n] \in Sessions \ {k}
      BY <1>2, <1>11, <2>2
    <3>2. lastEnd'[n] = lastEnd[n]
      BY <1>0, <1>1, <2>2 DEF ServerTypes
    <3> QED
      BY <1>0, <1>1, <1>2, <3>1, <3>2 DEF TimeInv
  <2> QED
    BY <2>1, <2>2
<1>9. OpenSessionInMap'
  <2> SUFFICES ASSUME NEW j \in Sessions, session'[j].loop \in {"sending", "streaming"},
                      ~session'[j].closed
               PROVE  current'[session'[j].meeting] = j
    BY DEF OpenSessionInMap
  <2>1. CASE j = k
    BY <1>1, <1>2, <1>4, <2>1
  <2>2. CASE j # k
    BY <1>0, <1>1, <1>2, <2>2 DEF OpenSessionInMap
  <2> QED
    BY <2>1, <2>2
<1>10. StartLockHeld'
  BY <1>0, <1>2 DEF StartLockHeld, StartsOf
<1> QED
  BY <1>6, <1>7, <1>8, <1>9, <1>10 DEF IInv

(***************************************************************************)
(* The steps together                                                      *)
(***************************************************************************)
\* Every step keeps the invariant.
LEMMA NextIInv == IInv /\ [RealtimeNext]_realtimeVars => IInv'
<1> SUFFICES ASSUME IInv, [RealtimeNext]_realtimeVars PROVE IInv'
  OBVIOUS
<1>0. ServerTypes
  BY DEF IInv
<1>1. ASSUME NEW s \in Sockets, Connect(s) \/ Register(s) \/ Refuse(s) \/ Disconnect(s) \/ Stop(s)
      PROVE  IInv'
  <2>1. UNCHANGED facts
    BY <1>1 DEF Connect, Register, Refuse, Disconnect, Stop, facts, handlers, provider
  <2> QED
    BY <2>1, UnchangedIInv
<1>2. ASSUME NEW s \in Sockets, Audio(s) PROVE IInv'
  BY <1>2, AudioIInv
<1>3. ASSUME NEW s \in Sockets, FallBack(s) PROVE IInv'
  <2>1. /\ audio[s] = "falling" /\ audio' = [audio EXCEPT ![s] = "idle"]
        /\ UNCHANGED <<stored, starting, current, session, offset, lastEnd>>
    BY <1>3 DEF FallBack, provider
  <2>2. \A m \in Meetings : StartsOf(m)' = StartsOf(m)
    BY <1>0, <2>1 DEF StartsOf, ServerTypes
  <2>3. ServerTypes'
    BY <1>0, <2>1 DEF ServerTypes
  <2>4. StartLockHeld'
    BY <2>1, <2>2 DEF IInv, StartLockHeld
  <2> QED
    BY <2>1, <2>3, <2>4 DEF IInv, MapInv, TimeInv, OpenSessionInMap
<1>4. ASSUME NEW s \in Sockets, StartFindsMeeting(s) PROVE IInv'
  <2>0. SocketMeeting[s] \in Meetings /\ audio[s] = "finding" /\ UNCHANGED stored
    BY <1>4, RealtimeAssumption DEF StartFindsMeeting
  <2>1. CASE StartThrows(s)
    BY <2>0, <2>1, ThrowsIInv
  <2>2. CASE lastEnd[SocketMeeting[s]] # NoTime /\ StartReturns(s, lastEnd[SocketMeeting[s]])
    <3>1. lastEnd[SocketMeeting[s]] \in Nat
      BY <1>0, <2>0, <2>2 DEF ServerTypes
    <3> QED
      BY <2>0, <2>2, <3>1, ReturnsIInv
  <2>3. CASE audio' = [audio EXCEPT ![s] = "offset"] /\ UNCHANGED <<starting, provider>>
    <3>1. \A m \in Meetings : StartsOf(m)' = StartsOf(m)
      BY <1>0, <2>0, <2>3 DEF StartsOf, ServerTypes
    <3>2. ServerTypes'
      BY <1>0, <2>0, <2>3 DEF ServerTypes, provider
    <3>3. StartLockHeld'
      BY <2>3, <3>1 DEF IInv, StartLockHeld
    <3> QED
      BY <2>3, <3>2, <3>3 DEF IInv, MapInv, TimeInv, OpenSessionInMap, provider
  <2> QED
    BY <1>4, <2>1, <2>2, <2>3 DEF StartFindsMeeting
<1>5. ASSUME NEW s \in Sockets, StartReadsSegment(s) PROVE IInv'
  <2>1. audio[s] = "offset" /\ UNCHANGED stored /\ stored[SocketMeeting[s]] \in Nat
    BY <1>0, <1>5, RealtimeAssumption DEF StartReadsSegment, ServerTypes
  <2> QED
    BY <1>5, <2>1, ThrowsIInv, ReturnsIInv DEF StartReadsSegment
<1>6. ASSUME NEW s \in Sockets, StopFoundMeeting(s) PROVE IInv'
  <2>1. SocketMeeting[s] \in Meetings
    BY RealtimeAssumption
  <2>2. UNCHANGED <<stored, starting, audio, current>>
    BY <1>6 DEF StopFoundMeeting
  <2>3. CASE session' = Closed(session, SocketMeeting[s]) /\ ForgetOffset(SocketMeeting[s])
    BY <2>1, <2>2, <2>3, CloseIInv DEF ForgetOffset
  <2>4. CASE UNCHANGED <<session, offset, lastEnd>>
    BY <2>2, <2>4, UnchangedIInv DEF facts, provider
  <2> QED
    BY <1>6, <2>3, <2>4 DEF StopFoundMeeting
<1>7. ASSUME NEW m \in Meetings, GraceEnds(m) PROVE IInv'
  <2>1. /\ UNCHANGED <<stored, starting, audio, current, offset, lastEnd>>
        /\ session' = Closed(session, m) \/ UNCHANGED session
    BY <1>7 DEF GraceEnds
  <2> QED
    BY <2>1, CloseIInv, UnchangedIInv DEF facts, provider
<1>8. ASSUME NEW m \in Meetings, FailuresExpire(m) PROVE IInv'
  <2>1. UNCHANGED facts
    BY <1>8 DEF FailuresExpire, facts
  <2> QED
    BY <2>1, UnchangedIInv
<1>9. ASSUME NEW k \in Sessions, LoopStep(k) PROVE IInv'
  <2>1. CASE LoopAccepted(k)
    BY <2>1, AcceptedIInv
  <2>2. CASE LoopFails(k) \/ LoopEnds(k)
    <3>1. /\ session[k].loop \in {"sending", "streaming"} /\ EndOfLoop(k)
          /\ UNCHANGED <<stored, starting, audio, offset, lastEnd>>
      BY <2>2 DEF LoopFails, LoopEnds, handlers
    <3> QED
      BY <3>1, EndIInv
  <2> QED
    BY <1>9, <2>1, <2>2 DEF LoopStep
<1>10. ASSUME NEW k \in Sessions, Final(k) PROVE IInv'
  BY <1>10, FinalIInv
<1>11. CASE UNCHANGED realtimeVars
  <2>1. UNCHANGED facts
    BY <1>11 DEF realtimeVars, facts, handlers
  <2> QED
    BY <2>1, UnchangedIInv
<1> QED
  BY <1>1, <1>2, <1>3, <1>4, <1>5, <1>6, <1>7, <1>8, <1>9, <1>10, <1>11 DEF RealtimeNext

\* The invariant holds in every state the gateway reaches.
THEOREM GatewayInductive == RealtimeSpec => []IInv
BY InitIInv, NextIInv, PTL DEF RealtimeSpec

\* An open session is always the one in the map of its meeting
\* (aws-streaming-transcription.provider.ts:171-276, 484-502).
THEOREM OpenSessionsAreReachable == RealtimeSpec => []OpenSessionInMap
<1>1. IInv => OpenSessionInMap
  BY DEF IInv
<1> QED
  BY <1>1, GatewayInductive, PTL

\* The lock of a start is held by exactly one start, and released by its end
\* (transcription.gateway.ts:511-514, 582-639).
THEOREM StartsExcludeEachOther == RealtimeSpec => []StartLockHeld
<1>1. IInv => StartLockHeld
  BY DEF IInv
<1> QED
  BY <1>1, GatewayInductive, PTL

\* No step but a final gives a session more finals.
LEMMA OnlyFinalCounts ==
  ASSUME IInv, RealtimeNext, NEW k \in Sessions, session'[k].finals > session[k].finals
  PROVE  Final(k)
<1>0. ServerTypes /\ session[k] \in ServerSession /\ session[k].finals \in Nat
  BY DEF IInv, ServerTypes, ServerSession
<1>1. session # session'
  BY <1>0
<1>2. ASSUME NEW m \in Meetings, session' = Closed(session, m) PROVE FALSE
  BY <1>0, <1>2, ClosedKeeps
<1>3. ASSUME NEW s \in Sockets, NEW from, StartReturns(s, from) PROVE FALSE
  <2>1. PICK j \in Fresh : BeginSession(SocketMeeting[s], from, j)
    BY <1>3 DEF StartReturns
  <2>2. j \in Sessions /\ SocketMeeting[s] \in Meetings
    BY RealtimeAssumption DEF Fresh
  <2>3. /\ Closed(session, SocketMeeting[s]) \in [Sessions -> ServerSession]
        /\ Closed(session, SocketMeeting[s])[k].finals = session[k].finals
    BY <1>0, <2>2, ClosedKeeps
  <2>4. session' = [Closed(session, SocketMeeting[s]) EXCEPT
                      ![j] = [meeting |-> SocketMeeting[s], loop |-> "sending", closed |-> FALSE,
                              ready |-> FALSE, offset |-> from, finals |-> 0]]
    BY <2>1 DEF BeginSession
  <2>5. CASE j = k
    BY <1>0, <2>2, <2>3, <2>4, <2>5
  <2>6. CASE j # k
    BY <1>0, <2>2, <2>3, <2>4, <2>6
  <2> QED
    BY <2>5, <2>6
<1>4. ASSUME NEW j \in Sessions, LoopStep(j) PROVE FALSE
  <2>1. session'[k].finals = session[k].finals
    BY <1>0, <1>4 DEF LoopStep, LoopAccepted, LoopFails, LoopEnds, EndOfLoop, ServerTypes, ServerSession
  <2> QED
    BY <1>0, <2>1
<1>5. ASSUME NEW j \in Sessions, j # k, Final(j) PROVE FALSE
  <2>1. session'[k] = session[k]
    BY <1>5, FinalStep
  <2> QED
    BY <1>0, <2>1
<1>6. ASSUME NEW s \in Sockets,
             \/ Connect(s) \/ Register(s) \/ Refuse(s) \/ Disconnect(s) \/ Audio(s)
             \/ FallBack(s) \/ StartFindsMeeting(s) \/ StartReadsSegment(s)
             \/ Stop(s) \/ StopFoundMeeting(s)
      PROVE  FALSE
  <2>1. SocketMeeting[s] \in Meetings
    BY RealtimeAssumption
  <2> QED
    BY <1>1, <1>2, <1>3, <1>6, <2>1
       DEF Connect, Register, Refuse, Disconnect, Audio, FallBack, StartFindsMeeting,
           StartReadsSegment, StartThrows, Stop, StopFoundMeeting, handlers, provider
<1>7. ASSUME NEW m \in Meetings, GraceEnds(m) \/ FailuresExpire(m) PROVE FALSE
  BY <1>1, <1>2, <1>7 DEF GraceEnds, FailuresExpire, provider
<1> QED
  BY <1>4, <1>5, <1>6, <1>7 DEF RealtimeNext

\* While a meeting has an offset, each final extends the transcript by its own
\* length, through reconnects and replaced sessions
\* (transcription.service.ts:203-213, 232-245, 570-582).
THEOREM TimelineIsContiguous == RealtimeSpec => TimelineExtends
<1>1. ASSUME IInv, [RealtimeNext]_realtimeVars, NEW k \in Sessions,
             session'[k].finals > session[k].finals, offset[session[k].meeting] # NoTime
      PROVE  lastEnd'[session[k].meeting] = lastEnd[session[k].meeting] + 1
  <2>1. session[k].finals \in Nat /\ ServerTypes
    BY <1>1 DEF IInv, ServerTypes, ServerSession
  <2>2. RealtimeNext
    BY <1>1, <2>1 DEF realtimeVars, provider
  <2>3. Final(k)
    BY <1>1, <2>2, OnlyFinalCounts
  <2>4. /\ session[k].meeting \in Meetings
        /\ lastEnd' = [lastEnd EXCEPT ![session[k].meeting] = lastEnd[session[k].meeting] + 1]
    BY <1>1, <2>3, FinalStep
  <2> QED
    BY <2>1, <2>4 DEF ServerTypes
<1>2. IInv /\ [RealtimeNext]_realtimeVars
      => [\A k \in Sessions : session'[k].finals > session[k].finals
            => LET m == session[k].meeting
               IN  offset[m] # NoTime => lastEnd'[m] = lastEnd[m] + 1]_realtimeVars
  BY <1>1
<1> QED
  BY <1>2, GatewayInductive, PTL DEF RealtimeSpec, TimelineExtends

(***************************************************************************)
(* The page.  First, what its merge is made of: putting a set in order,    *)
(* and the sequences that are made so.                                     *)
(***************************************************************************)
\* What orders a set: of two members one is before the other, not both.
TotalOrder(S, order) ==
    /\ \A x, y \in S : <<x, y>> \in order \/ <<y, x>> \in order
    /\ \A x, y \in S : <<x, y>> \in order /\ <<y, x>> \in order => x = y
    /\ \A x, y, z \in S : <<x, y>> \in order /\ <<y, z>> \in order => <<x, z>> \in order

\* A sequence of the members of a set, each once.
Lists(s, S) ==
    /\ \A k \in 1..Cardinality(S) : s[k] \in S
    /\ \A x \in S : \E k \in 1..Cardinality(S) : s[k] = x
    /\ \A j, k \in 1..Cardinality(S) : s[j] = s[k] => j = k

\* inOrder lists the set: the number of members up to x is a bijection from the
\* set to 1..Cardinality(S), and x has the place with that number.
LEMMA InOrderLists ==
  ASSUME NEW S, IsFiniteSet(S), NEW order, TotalOrder(S, order)
  PROVE  Lists(inOrder(S, order), S)
<1> DEFINE upTo(x) == {y \in S : <<y, x>> \in order}
           n == Cardinality(S)
           rank == [x \in S |-> Cardinality(upTo(x))]
<1>1. n \in Nat
  BY FS_CardinalityType
<1>2. \A x \in S : IsFiniteSet(upTo(x)) /\ Cardinality(upTo(x)) \in 1..n
  <2> SUFFICES ASSUME NEW x \in S
               PROVE  IsFiniteSet(upTo(x)) /\ Cardinality(upTo(x)) \in 1..n
    OBVIOUS
  <2>1. upTo(x) \in SUBSET S /\ upTo(x) # {}
    BY DEF TotalOrder
  <2>2. IsFiniteSet(upTo(x)) /\ Cardinality(upTo(x)) <= n
    BY <2>1, FS_Subset
  <2>3. Cardinality(upTo(x)) \in Nat /\ Cardinality(upTo(x)) # 0
    BY <2>1, <2>2, FS_CardinalityType, FS_EmptySet
  <2> QED
    BY <1>1, <2>2, <2>3
<1>3. \A x, y \in S : <<x, y>> \in order /\ x # y
                        => Cardinality(upTo(x)) < Cardinality(upTo(y))
  <2> SUFFICES ASSUME NEW x \in S, NEW y \in S, <<x, y>> \in order, x # y
               PROVE  Cardinality(upTo(x)) < Cardinality(upTo(y))
    OBVIOUS
  <2>1. upTo(x) \in SUBSET upTo(y)
    BY DEF TotalOrder
  <2>2. y \in upTo(y) /\ y \notin upTo(x)
    BY DEF TotalOrder
  <2>3. Cardinality(upTo(x)) <= Cardinality(upTo(y))
        /\ Cardinality(upTo(x)) # Cardinality(upTo(y))
    BY <1>2, <2>1, <2>2, FS_Subset
  <2> QED
    BY <1>1, <1>2, <2>3
<1>4. \A x, y \in S : rank[x] = rank[y] => x = y
  <2> SUFFICES ASSUME NEW x \in S, NEW y \in S, rank[x] = rank[y], x # y PROVE FALSE
    OBVIOUS
  <2>1. Cardinality(upTo(x)) = Cardinality(upTo(y)) /\ Cardinality(upTo(x)) \in Int
    BY <1>1, <1>2
  <2>2. <<x, y>> \in order \/ <<y, x>> \in order
    BY DEF TotalOrder
  <2> HIDE DEF upTo
  <2> QED
    BY <1>3, <2>1, <2>2
<1>5. rank \in Injection(S, 1..n)
  BY <1>2, <1>4 DEF Injection, IsInjective
<1>6. IsFiniteSet(1..n) /\ Cardinality(1..n) = n
  BY <1>1, FS_Interval
<1>7. rank \in Surjection(S, 1..n)
  BY <1>5, <1>6, FS_Injection
<1>8. \A k \in 1..n : \E x \in S : rank[x] = k
  BY <1>7 DEF Surjection
<1> DEFINE s == inOrder(S, order)
<1>9. s = [k \in 1..n |-> CHOOSE x \in S : Cardinality(upTo(x)) = k]
  BY DEF inOrder
<1>10. \A k \in 1..n : s[k] \in S /\ rank[s[k]] = k
  <2> SUFFICES ASSUME NEW k \in 1..n PROVE s[k] \in S /\ rank[s[k]] = k
    OBVIOUS
  <2>1. s[k] = CHOOSE x \in S : Cardinality(upTo(x)) = k
    BY <1>9
  <2>2. \E x \in S : Cardinality(upTo(x)) = k
    BY <1>8
  <2> HIDE DEF upTo, s
  <2>3. s[k] \in S /\ Cardinality(upTo(s[k])) = k
    BY <2>1, <2>2
  <2> QED
    BY <2>3
<1> HIDE DEF rank
<1> HIDE DEF s
<1>11. \A x \in S : rank[x] \in 1..n /\ s[rank[x]] = x
  BY <1>4, <1>5, <1>10 DEF Injection
<1>12. Lists(s, S)
  BY <1>10, <1>11 DEF Lists
<1> QED
  BY <1>12 DEF s

LEMMA AscendingLists ==
  ASSUME NEW S, IsFiniteSet(S), S \subseteq Nat
  PROVE  Lists(ascending(S), S)
<1>1. TotalOrder(S, {p \in S \X S : p[1] <= p[2]})
  BY DEF TotalOrder
<1> QED
  BY <1>1, InOrderLists DEF ascending

\* A non-empty set of numbers has a least element.
LEMMA LeastNumber ==
    ASSUME NEW S \in SUBSET Nat, S # {}
    PROVE  \E n \in S : \A m \in S : n <= m
<1>1. PICK x \in S : \A y \in S : <<y, x>> \notin OpToRel(<, Nat)
  BY WFMin, NatLessThanWellFounded
<1>2. ASSUME NEW y \in S PROVE x <= y
  <2>1. x \in Nat /\ y \in Nat
    OBVIOUS
  <2>2. <<y, x>> \in Nat \X Nat /\ <<y, x>>[1] = y /\ <<y, x>>[2] = x
    BY <2>1
  <2>3. y < x => <<y, x>> \in OpToRel(<, Nat)
    BY <2>2, Zenon DEF OpToRel
  <2>4. ~(y < x)
    BY <1>1, <2>3
  <2> QED
    BY <2>1, <2>4
<1> QED
  BY <1>2

Segment == [id : Finals \cup {ServerId(f) : f \in Finals}, tr : Translations]

\* No final is taken for the row of another that has no result id.
UtterancesApart == \A f \in Legacy, g \in Finals : f # g => ~isEquivalentSegment(g, f)

\* Every utterance once: NoSegmentTwice says it of the segments shown.
EachOnce(s) == \A j, k \in 1..Len(s) : FinalOf(s[j]) = FinalOf(s[k]) => j = k

LEMMA FinalsAreNumbers ==
    Finals \subseteq Nat /\ \A f \in Finals : f \in Int /\ f > 0
  BY TranscriptAssumption, FS_CardinalityType

LEMMA SegmentFinal ==
  ASSUME NEW e \in Segment
  PROVE  /\ FinalOf(e) \in Finals
         /\ e.id \in Finals => FinalOf(e) = e.id
<1>1. e.id \in Finals \/ \E f \in Finals : e.id = -f
  BY DEF Segment, ServerId
<1>2. ASSUME NEW f \in Finals, e.id = f PROVE FinalOf(e) = f
  <2>1. ~(f < 0)
    BY FinalsAreNumbers
  <2> QED
    BY <1>2, <2>1, Zenon DEF FinalOf
<1>3. ASSUME NEW f \in Finals, e.id = -f PROVE FinalOf(e) = f /\ e.id \notin Finals
  <2>1. f \in Int /\ -f < 0 /\ -(-f) = f /\ \A g \in Finals : g # -f
    BY FinalsAreNumbers
  <2> QED
    BY <1>3, <2>1, Zenon DEF FinalOf
<1>4. CASE e.id \in Finals
  BY <1>2, <1>4, Zenon
<1> QED
  BY <1>1, <1>3, <1>4, Zenon

LEMMA EndsAreNumbers == \A f \in Finals : StartOf[f] \in Nat /\ EndOf[f] \in Nat
  BY TranscriptAssumption

LEMMA SameIsEquivalent == \A f \in Finals : isEquivalentSegment(f, f)
<1> SUFFICES ASSUME NEW f \in Finals PROVE isEquivalentSegment(f, f)
  OBVIOUS
<1>1. StartOf[f] - StartOf[f] = 0 /\ EndOf[f] - EndOf[f] = 0
  BY EndsAreNumbers
<1>2. distance(StartOf[f], StartOf[f]) = 0 /\ distance(EndOf[f], EndOf[f]) = 0
  BY <1>1, EndsAreNumbers DEF distance
<1> QED
  BY <1>2 DEF isEquivalentSegment, sameText

\* A row is shown as its own final, under the id of the provider if it has one.
LEMMA RowIsItsFinal ==
  ASSUME segments \in Seq(Segment), NEW f \in Finals, NEW b \in BOOLEAN
  PROVE  LET e == rowSegment(f, b)
         IN  /\ e \in Segment
             /\ f \notin Legacy => e.id = f
             /\ UtterancesApart => FinalOf(e) = f
<1> DEFINE k == CHOOSE i \in matches(f) : \A j \in matches(f) : i <= j
           e == rowSegment(f, b)
<1>1. matches(f) \in SUBSET (1..Len(segments)) /\ Len(segments) \in Nat
  BY DEF matches
<1>2. matches(f) # {} => k \in matches(f)
  BY <1>1, LeastNumber
<1>3. matches(f) # {} => segments[k] \in Segment
  BY <1>1, <1>2
<1>4. e = [id |-> IF f \notin Legacy THEN f
                  ELSE IF matches(f) # {} THEN segments[k].id ELSE ServerId(f),
           tr |-> IF b THEN "done"
                  ELSE IF matches(f) # {} THEN segments[k].tr ELSE "none"]
  BY DEF rowSegment
<1> HIDE DEF k
<1> HIDE DEF e
<1>5. e \in Segment
  BY <1>3, <1>4 DEF Segment, Translations
<1>6. f \notin Legacy => e.id = f
  BY <1>4
<1>7. ASSUME UtterancesApart PROVE FinalOf(e) = f
  <2>1. CASE f \notin Legacy
    BY <1>5, <1>6, <2>1, SegmentFinal
  <2>2. CASE f \in Legacy /\ matches(f) # {}
    <3>1. isEquivalentSegment(FinalOf(segments[k]), f)
      BY <1>2, <2>2 DEF matches
    <3>2. FinalOf(segments[k]) = f
      BY <1>3, <1>7, <2>2, <3>1, SegmentFinal DEF UtterancesApart
    <3> QED
      BY <1>4, <2>2, <3>2 DEF FinalOf
  <2>3. CASE f \in Legacy /\ matches(f) = {}
    BY <1>4, <2>3, FinalsAreNumbers DEF FinalOf, ServerId
  <2> QED
    BY <2>1, <2>2, <2>3
<1> QED
  BY <1>5, <1>6, <1>7 DEF e

\* The rows as segments: each row once.
LEMMA SyncedRows ==
  ASSUME segments \in Seq(Segment), NEW rows \in SUBSET Finals, NEW translated
  PROVE  LET s == synced(rows, translated)
         IN  /\ s \in Seq(Segment) /\ Len(s) = Cardinality(rows)
             /\ Legacy = {} => \A k \in 1..Len(s) : s[k].id \in Finals
             /\ UtterancesApart => EachOnce(s)
             /\ UtterancesApart => \A f \in rows : \E k \in 1..Len(s) : FinalOf(s[k]) = f
<1> DEFINE s == synced(rows, translated)
           a == ascending(rows)
           n == Cardinality(rows)
<1>1. IsFiniteSet(rows) /\ n \in Nat
  BY TranscriptAssumption, FS_Subset, FS_CardinalityType
<1>2. Lists(a, rows)
  BY <1>1, FinalsAreNumbers, AscendingLists
<1>3. \A k \in 1..n : a[k] \in rows
  BY <1>2 DEF Lists
<1>4. s = [k \in 1..n |-> rowSegment(a[k], a[k] \in translated)]
  BY DEF synced
<1> HIDE DEF a
<1> HIDE DEF s
<1>5. \A k \in 1..n : /\ s[k] \in Segment
                      /\ a[k] \notin Legacy => s[k].id = a[k]
                      /\ UtterancesApart => FinalOf(s[k]) = a[k]
  <2> SUFFICES ASSUME NEW k \in 1..n
               PROVE  /\ s[k] \in Segment
                      /\ a[k] \notin Legacy => s[k].id = a[k]
                      /\ UtterancesApart => FinalOf(s[k]) = a[k]
    OBVIOUS
  <2>1. a[k] \in Finals /\ (a[k] \in translated) \in BOOLEAN
    BY <1>3
  <2>2. s[k] = rowSegment(a[k], a[k] \in translated)
    BY <1>4
  <2> QED
    BY <2>1, <2>2, RowIsItsFinal
<1>6. s \in Seq(Segment) /\ Len(s) = n
  BY <1>1, <1>4, <1>5
<1>7. Legacy = {} => \A k \in 1..Len(s) : s[k].id \in Finals
  BY <1>3, <1>5, <1>6
<1>8. UtterancesApart => EachOnce(s)
  BY <1>2, <1>5, <1>6 DEF EachOnce, Lists
<1>9. UtterancesApart => \A f \in rows : \E k \in 1..Len(s) : FinalOf(s[k]) = f
  BY <1>2, <1>5, <1>6 DEF Lists
<1> QED
  BY <1>6, <1>7, <1>8, <1>9 DEF s

\* The local tail: segments shown, none of a final that a row is of.
LEMMA LocalTail ==
  ASSUME segments \in Seq(Segment), NEW fromServer \in Seq(Segment)
  PROVE  LET t == localTail(fromServer)
         IN  /\ t \in Seq(Segment)
             /\ \A k \in 1..Len(t) : \E j \in 1..Len(segments) : t[k] = segments[j]
             /\ NoSegmentTwice => EachOnce(t)
             /\ \A k \in 1..Len(t), i \in 1..Len(fromServer) :
                  FinalOf(t[k]) # FinalOf(fromServer[i])
<1> DEFINE kept == {j \in 1..Len(segments) :
                   /\ EndOf[FinalOf(segments[j])] > EndOf[FinalOf(fromServer[Len(fromServer)])] + 5
                   /\ \A k \in 1..Len(fromServer) :
                        /\ fromServer[k].id # segments[j].id
                        /\ ~isEquivalentSegment(FinalOf(fromServer[k]), FinalOf(segments[j]))}
           n == Cardinality(kept)
           a == ascending(kept)
           t == localTail(fromServer)
<1>1. t = [k \in 1..n |-> segments[a[k]]]
  BY DEF localTail
<1>2. kept \in SUBSET (1..Len(segments)) /\ kept \in SUBSET Nat /\ Len(segments) \in Nat
  OBVIOUS
<1>3. \A j \in kept, i \in 1..Len(fromServer) : FinalOf(segments[j]) # FinalOf(fromServer[i])
  <2> SUFFICES ASSUME NEW j \in kept, NEW i \in 1..Len(fromServer)
               PROVE  FinalOf(segments[j]) # FinalOf(fromServer[i])
    OBVIOUS
  <2>1. ~isEquivalentSegment(FinalOf(fromServer[i]), FinalOf(segments[j]))
    OBVIOUS
  <2>2. segments[j] \in Segment
    BY <1>2
  <2> HIDE DEF kept
  <2> QED
    BY <2>1, <2>2, SegmentFinal, SameIsEquivalent
<1>4. IsFiniteSet(1..Len(segments))
  BY <1>2, FS_Interval
<1> HIDE DEF kept
<1> HIDE DEF t
<1>5. IsFiniteSet(kept) /\ n \in Nat
  BY <1>2, <1>4, FS_Subset, FS_CardinalityType
<1>6. Lists(a, kept)
  BY <1>2, <1>5, AscendingLists
<1>7. \A k \in 1..n : a[k] \in kept
  BY <1>6 DEF Lists
<1> HIDE DEF a
<1>8. \A k \in 1..n : t[k] = segments[a[k]] /\ a[k] \in 1..Len(segments) /\ t[k] \in Segment
  <2> SUFFICES ASSUME NEW k \in 1..n
               PROVE  t[k] = segments[a[k]] /\ a[k] \in 1..Len(segments) /\ t[k] \in Segment
    OBVIOUS
  <2>1. t[k] = segments[a[k]]
    BY <1>1
  <2>2. a[k] \in 1..Len(segments)
    BY <1>2, <1>7
  <2> QED
    BY <2>1, <2>2
<1>9. t \in Seq(Segment) /\ Len(t) = n
  BY <1>1, <1>5, <1>8
<1>10. NoSegmentTwice => EachOnce(t)
  <2> SUFFICES ASSUME NoSegmentTwice, NEW j \in 1..n, NEW k \in 1..n,
                      FinalOf(t[j]) = FinalOf(t[k])
               PROVE  j = k
    BY <1>9 DEF EachOnce
  <2>1. FinalOf(segments[a[j]]) = FinalOf(segments[a[k]])
    BY <1>8
  <2>2. a[j] = a[k]
    BY <1>8, <2>1 DEF NoSegmentTwice
  <2> QED
    BY <1>6, <2>2 DEF Lists
<1>11. \A k \in 1..Len(t), i \in 1..Len(fromServer) : FinalOf(t[k]) # FinalOf(fromServer[i])
  BY <1>3, <1>7, <1>8, <1>9
<1>12. \A k \in 1..Len(t) : \E j \in 1..Len(segments) : t[k] = segments[j]
  BY <1>8, <1>9
<1> QED
  BY <1>9, <1>10, <1>11, <1>12 DEF t

\* Sorting moves the entries and loses none.
LEMMA ByStartPermutes ==
  ASSUME NEW e \in Seq(Segment)
  PROVE  LET s == byStart(e)
         IN  /\ s \in Seq(Segment) /\ Len(s) = Len(e)
             /\ \A k \in 1..Len(s) : \E j \in 1..Len(e) : s[k] = e[j]
             /\ \A j \in 1..Len(e) : \E k \in 1..Len(s) : s[k] = e[j]
             /\ EachOnce(e) => EachOnce(s)
<1> DEFINE start(k) == StartOf[FinalOf(e[k])]
           places == 1..Len(e)
           order == {p \in places \X places :
                    \/ start(p[1]) < start(p[2])
                    \/ start(p[1]) = start(p[2]) /\ p[1] <= p[2]}
           a == inOrder(places, order)
           s == byStart(e)
<1>1. s = [k \in places |-> e[a[k]]]
  BY DEF byStart
<1>2. Len(e) \in Nat
  OBVIOUS
<1>3. IsFiniteSet(places) /\ Cardinality(places) = Len(e)
  BY <1>2, FS_Interval
<1>4. \A k \in places : start(k) \in Nat
  <2> SUFFICES ASSUME NEW k \in places PROVE start(k) \in Nat
    OBVIOUS
  <2>1. e[k] \in Segment
    OBVIOUS
  <2> QED
    BY <2>1, SegmentFinal, EndsAreNumbers
<1>5. TotalOrder(places, order)
  <2>1. \A x, y \in places : <<x, y>> \in order
                               <=> (start(x) < start(y) \/ (start(x) = start(y) /\ x <= y))
    OBVIOUS
  <2> HIDE DEF start
  <2> HIDE DEF order
  <2> QED
    BY <1>2, <1>4, <2>1 DEF TotalOrder
<1> HIDE DEF order
<1> HIDE DEF s
<1>6. Lists(a, places)
  BY <1>3, <1>5, InOrderLists
<1> HIDE DEF a
<1>7. \A k \in places : a[k] \in places
  BY <1>3, <1>6 DEF Lists
<1>8. s \in Seq(Segment) /\ Len(s) = Len(e) /\ \A k \in places : s[k] = e[a[k]]
  BY <1>1, <1>2, <1>7
<1>9. \A j \in places : \E k \in places : a[k] = j
  BY <1>3, <1>6 DEF Lists
<1>10. \A k \in 1..Len(s) : \E j \in 1..Len(e) : s[k] = e[j]
  BY <1>7, <1>8
<1>11. \A j \in 1..Len(e) : \E k \in 1..Len(s) : s[k] = e[j]
  <2> SUFFICES ASSUME NEW j \in places PROVE \E k \in places : s[k] = e[j]
    BY <1>8
  <2>1. PICK k \in places : a[k] = j
    BY <1>9
  <2> QED
    BY <1>8, <2>1
<1>12. EachOnce(e) => EachOnce(s)
  <2> SUFFICES ASSUME EachOnce(e), NEW j \in places, NEW k \in places,
                      FinalOf(s[j]) = FinalOf(s[k])
               PROVE  j = k
    BY <1>8 DEF EachOnce
  <2>1. FinalOf(e[a[j]]) = FinalOf(e[a[k]])
    BY <1>8
  <2>2. a[j] = a[k]
    BY <1>7, <2>1 DEF EachOnce
  <2> QED
    BY <1>3, <1>6, <2>2 DEF Lists
<1> QED
  BY <1>8, <1>10, <1>11, <1>12 DEF s

(***************************************************************************)
(* The page: its types, its socket, and what it asks for.                  *)
(***************************************************************************)
Payload == [type : {"partial", "final", "translated", "failed"}, id : Finals]

Request == [generation : Nat, socket : 0..MaxSockets, read : BOOLEAN,
            rows : SUBSET Finals, translated : SUBSET Finals]

ViewTypes ==
    /\ TranscriptTypeOK
    /\ segments \in Seq(Segment) /\ wire \in Seq(Payload)
    /\ resync \in [generation : Nat, requests : SUBSET Request]

\* A renewal that is counted on is under way; an authentication error that is
\* shown while the socket is up leads to one.
SocketInv ==
    /\ link.conn # "none" => link.socket \in 1..MaxSockets
    /\ link.isRecovering => link.socket \in recoveries
    /\ (link.conn = "up" /\ link.error = "auth") => link.authPending \/ link.fellBack
    /\ ExpelledRecovers

\* One request per generation; the rows the last one has read, or will read,
\* are no less than what has been merged.
ResyncInv ==
    /\ recovered \subseteq backend.rows
    /\ \A r \in resync.requests :
         /\ r.generation <= resync.generation
         /\ (r.read /\ r.generation = resync.generation) => recovered \subseteq r.rows
         /\ r.rows \subseteq backend.rows
    /\ \A q, r \in resync.requests : q.generation = r.generation => q = r

ViewInv == ViewTypes /\ SocketInv /\ ResyncInv

LEMMA InitView == TranscriptInit => ViewInv
<1> SUFFICES ASSUME TranscriptInit PROVE ViewInv
  OBVIOUS
<1> USE DEF TranscriptInit
<1>1. link \in Link
  BY TranscriptAssumption DEF NoLink, Link
<1>2. backend \in [emitted : Finals \cup {0}, rows : SUBSET Finals,
                   outcome : [Foreign -> {"none", "translated", "failed"}],
                   translated : SUBSET Finals]
  OBVIOUS
<1>3. ViewTypes
  BY <1>1, <1>2 DEF ViewTypes, TranscriptTypeOK
<1>4. SocketInv
  BY DEF NoLink, SocketInv, ExpelledRecovers
<1>5. ResyncInv
  BY DEF ResyncInv
<1> QED
  BY <1>3, <1>4, <1>5 DEF ViewInv

LEMMA UnchangedView == ViewInv /\ UNCHANGED transcriptVars => ViewInv'
  BY DEF transcriptVars, ViewInv, ViewTypes, TranscriptTypeOK, SocketInv, ExpelledRecovers,
         ResyncInv

\* What is on the wire is of the server's making.
LEMMA ToRoomTypes ==
  ASSUME wire \in Seq(Payload), NEW p \in Payload, ToRoom(p)
  PROVE  wire' \in Seq(Payload)
  BY DEF ToRoom

\* Whatever is shown, the entries are segments.
SegmentsTyped == segments \in Seq(Segment)

LEMMA TypedSegments ==
  ASSUME segments' \in Seq(Segment)
  PROVE  \A k \in 1..Len(segments') : segments'[k] \in Segment
  OBVIOUS

LEMMA ServerKeepsView ==
  ASSUME ViewInv, UNCHANGED <<segments, partial, connection, recovered>>,
         wire' \in Seq(Payload),
         backend' \in [emitted : Finals \cup {0}, rows : SUBSET Finals,
                       outcome : [Foreign -> {"none", "translated", "failed"}],
                       translated : SUBSET Finals],
         backend.rows \subseteq backend'.rows
  PROVE  ViewInv'
<1> USE DEF ViewInv, connection
<1>1. ViewTypes'
  BY DEF ViewTypes, TranscriptTypeOK
<1>2. SocketInv'
  BY DEF SocketInv, ExpelledRecovers
<1>3. ResyncInv'
  BY DEF ResyncInv
<1> QED
  BY <1>1, <1>2, <1>3

LEMMA ServerSteps ==
  ASSUME ViewInv,
         \/ EmitPartial \/ EmitFinal \/ \E f \in Finals : StoreFinal(f)
         \/ \E f \in Foreign, outcome \in {"translated", "failed"} : Translate(f, outcome)
         \/ \E f \in Foreign : StoreTranslation(f)
  PROVE  ViewInv'
<1> DEFINE Backend == [emitted : Finals \cup {0}, rows : SUBSET Finals,
                       outcome : [Foreign -> {"none", "translated", "failed"}],
                       translated : SUBSET Finals]
<1>1. backend \in Backend /\ wire \in Seq(Payload)
  BY DEF ViewInv, ViewTypes, TranscriptTypeOK
<1>2. CASE EmitPartial
  <2> DEFINE p == [type |-> "partial", id |-> backend.emitted + 1]
  <2>1. p \in Payload /\ ToRoom(p)
    BY <1>2 DEF EmitPartial, Payload
  <2>2. wire' \in Seq(Payload)
    BY <1>1, <2>1, ToRoomTypes
  <2> QED
    BY <1>1, <1>2, <2>2, ServerKeepsView DEF EmitPartial
<1>3. CASE EmitFinal
  <2> DEFINE p == [type |-> "final", id |-> backend.emitted + 1]
  <2>1. p \in Payload /\ ToRoom(p)
    BY <1>3 DEF EmitFinal, Payload
  <2>2. wire' \in Seq(Payload)
    BY <1>1, <2>1, ToRoomTypes
  <2>3. backend' \in Backend /\ backend.rows \subseteq backend'.rows
    BY <1>1, <1>3 DEF EmitFinal
  <2> QED
    BY <1>3, <2>2, <2>3, ServerKeepsView DEF EmitFinal
<1>4. ASSUME NEW f \in Finals, StoreFinal(f) PROVE ViewInv'
  <2>1. backend' \in Backend /\ backend.rows \subseteq backend'.rows
    BY <1>1, <1>4 DEF StoreFinal
  <2> QED
    BY <1>1, <1>4, <2>1, ServerKeepsView DEF StoreFinal
<1>5. ASSUME NEW f \in Foreign, NEW outcome \in {"translated", "failed"}, Translate(f, outcome)
      PROVE  ViewInv'
  <2> DEFINE p == [type |-> outcome, id |-> f]
  <2>1. p \in Payload /\ ToRoom(p)
    BY <1>5, TranscriptAssumption DEF Translate, Payload
  <2>2. wire' \in Seq(Payload)
    BY <1>1, <2>1, ToRoomTypes
  <2>3. backend' \in Backend /\ backend.rows \subseteq backend'.rows
    BY <1>1, <1>5 DEF Translate
  <2> QED
    BY <1>5, <2>2, <2>3, ServerKeepsView DEF Translate
<1>6. ASSUME NEW f \in Foreign, StoreTranslation(f) PROVE ViewInv'
  <2>1. backend' \in Backend /\ backend.rows \subseteq backend'.rows
    BY <1>1, <1>6, TranscriptAssumption DEF StoreTranslation
  <2> QED
    BY <1>1, <1>6, <2>1, ServerKeepsView DEF StoreTranslation
<1> QED
  BY <1>2, <1>3, <1>4, <1>5, <1>6

\* A final is appended or not.
LEMMA ShowFinalAppends ==
  ASSUME SegmentsTyped, NEW f \in Finals, showFinal(f)
  PROVE  \/ segments' = segments
         \/ \E e \in Segment :
              /\ segments' = Append(segments, e) /\ e.id = f
              /\ ~recentDuplicate(f) /\ \A k \in 1..Len(segments) : segments[k].id # f
<1> DEFINE e == [id |-> f, tr |-> IF f \in Foreign THEN "pending" ELSE "none"]
<1>1. e \in Segment /\ e.id = f
  BY DEF Segment, Translations
<1> HIDE DEF e
<1> QED
  BY <1>1 DEF showFinal, e

\* A translation changes no id.
LEMMA ShowTranslationKeeps ==
  ASSUME SegmentsTyped, NEW f, NEW failed \in BOOLEAN, showTranslation(f, failed)
  PROVE  /\ segments' \in Seq(Segment) /\ Len(segments') = Len(segments)
         /\ \A k \in 1..Len(segments) : segments'[k].id = segments[k].id
<1> DEFINE e(k) == IF segments[k].id # f THEN segments[k]
                   ELSE [segments[k] EXCEPT !.tr = IF failed THEN "failed" ELSE "done"]
<1>1. \A k \in 1..Len(segments) : e(k) \in Segment /\ e(k).id = segments[k].id
  <2> SUFFICES ASSUME NEW k \in 1..Len(segments)
               PROVE  e(k) \in Segment /\ e(k).id = segments[k].id
    OBVIOUS
  <2>1. segments[k] \in Segment
    BY DEF SegmentsTyped
  <2> QED
    BY <2>1 DEF Segment, Translations
<1>2. segments' = [k \in 1..Len(segments) |-> e(k)] /\ Len(segments) \in Nat
  BY DEF showTranslation, SegmentsTyped
<1> HIDE DEF e
<1> QED
  BY <1>1, <1>2

\* What a merge shows: the rows, and segments shown before that are of no row.
LEMMA MergeShows ==
  ASSUME SegmentsTyped, NEW rows \in SUBSET Finals, NEW translated,
         syncSegmentsFromServer(rows, translated), rows # {}
  PROVE  /\ segments' \in Seq(Segment)
         /\ (Legacy = {} /\ \A k \in 1..Len(segments) : segments[k].id \in Finals)
               => \A k \in 1..Len(segments') : segments'[k].id \in Finals
         /\ UtterancesApart
               => \A f \in rows : \E k \in 1..Len(segments') : FinalOf(segments'[k]) = f
         /\ UtterancesApart /\ NoSegmentTwice => EachOnce(segments')
<1> DEFINE s == synced(rows, translated)
           t == localTail(s)
           u == s \o t
<1>1. segments \in Seq(Segment) /\ segments' = byStart(u)
  BY DEF SegmentsTyped, syncSegmentsFromServer
<1>2. /\ s \in Seq(Segment)
      /\ Legacy = {} => \A k \in 1..Len(s) : s[k].id \in Finals
      /\ UtterancesApart => EachOnce(s)
      /\ UtterancesApart => \A f \in rows : \E k \in 1..Len(s) : FinalOf(s[k]) = f
  BY <1>1, SyncedRows
<1> HIDE DEF s
<1>3. /\ t \in Seq(Segment)
      /\ \A k \in 1..Len(t) : \E j \in 1..Len(segments) : t[k] = segments[j]
      /\ NoSegmentTwice => EachOnce(t)
      /\ \A k \in 1..Len(t), i \in 1..Len(s) : FinalOf(t[k]) # FinalOf(s[i])
  BY <1>1, <1>2, LocalTail
<1> HIDE DEF t
<1>4. /\ u \in Seq(Segment) /\ Len(u) = Len(s) + Len(t)
      /\ Len(s) \in Nat /\ Len(t) \in Nat
      /\ \A k \in 1..Len(s) : u[k] = s[k]
      /\ \A k \in 1..Len(u) : k > Len(s) => k - Len(s) \in 1..Len(t) /\ u[k] = t[k - Len(s)]
  BY <1>2, <1>3
<1> HIDE DEF u
<1>5. /\ segments' \in Seq(Segment) /\ Len(segments') = Len(u)
      /\ \A k \in 1..Len(segments') : \E j \in 1..Len(u) : segments'[k] = u[j]
      /\ \A j \in 1..Len(u) : \E k \in 1..Len(segments') : segments'[k] = u[j]
      /\ EachOnce(u) => EachOnce(segments')
  BY <1>1, <1>4, ByStartPermutes
<1>6. ASSUME Legacy = {}, \A k \in 1..Len(segments) : segments[k].id \in Finals,
             NEW k \in 1..Len(segments')
      PROVE  segments'[k].id \in Finals
  <2>1. PICK j \in 1..Len(u) : segments'[k] = u[j]
    BY <1>5
  <2>2. CASE j <= Len(s)
    BY <1>2, <1>4, <1>6, <2>1, <2>2
  <2>3. CASE j > Len(s)
    <3>1. PICK i \in 1..Len(t) : u[j] = t[i]
      BY <1>4, <2>3
    <3>2. PICK h \in 1..Len(segments) : t[i] = segments[h]
      BY <1>3
    <3> QED
      BY <1>6, <2>1, <3>1, <3>2
  <2> QED
    BY <1>4, <2>2, <2>3
<1>7. ASSUME UtterancesApart, NEW f \in rows
      PROVE  \E k \in 1..Len(segments') : FinalOf(segments'[k]) = f
  <2>1. PICK j \in 1..Len(s) : FinalOf(s[j]) = f
    BY <1>2, <1>7
  <2>2. j \in 1..Len(u) /\ u[j] = s[j]
    BY <1>4
  <2>3. PICK k \in 1..Len(segments') : segments'[k] = u[j]
    BY <1>5, <2>2
  <2> QED
    BY <2>1, <2>2, <2>3
<1>8. ASSUME UtterancesApart, NoSegmentTwice PROVE EachOnce(segments')
  <2>1. EachOnce(s) /\ EachOnce(t)
    BY <1>2, <1>3, <1>8
  <2> SUFFICES ASSUME NEW j \in 1..Len(u), NEW k \in 1..Len(u), FinalOf(u[j]) = FinalOf(u[k])
               PROVE  j = k
    BY <1>5 DEF EachOnce
  <2>2. \A i \in 1..Len(u) : i <= Len(s) => i \in 1..Len(s) /\ u[i] = s[i]
    BY <1>4
  <2>3. \A i \in 1..Len(u) : ~(i <= Len(s)) => i - Len(s) \in 1..Len(t) /\ u[i] = t[i - Len(s)]
    BY <1>4
  <2>4. CASE j <= Len(s) /\ k <= Len(s)
    <3>1. FinalOf(s[j]) = FinalOf(s[k]) /\ j \in 1..Len(s) /\ k \in 1..Len(s)
      BY <2>2, <2>4
    <3> QED
      BY <2>1, <3>1 DEF EachOnce
  <2>5. CASE ~(j <= Len(s)) /\ ~(k <= Len(s))
    <3>1. FinalOf(t[j - Len(s)]) = FinalOf(t[k - Len(s)])
      BY <2>3, <2>5
    <3>2. j - Len(s) = k - Len(s)
      BY <2>1, <2>3, <2>5, <3>1 DEF EachOnce
    <3> QED
      BY <1>4, <3>2
  <2>6. CASE j <= Len(s) /\ ~(k <= Len(s))
    <3>1. FinalOf(s[j]) = FinalOf(t[k - Len(s)])
      BY <2>2, <2>3, <2>6
    <3> QED
      BY <1>3, <2>2, <2>3, <2>6, <3>1
  <2>7. CASE ~(j <= Len(s)) /\ k <= Len(s)
    <3>1. FinalOf(t[j - Len(s)]) = FinalOf(s[k])
      BY <2>2, <2>3, <2>7
    <3> QED
      BY <1>3, <2>2, <2>3, <2>7, <3>1
  <2> QED
    BY <2>4, <2>5, <2>6, <2>7
<1> QED
  BY <1>5, <1>6, <1>7, <1>8

LEMMA TypesFromSegments ==
  ASSUME segments' \in Seq(Segment)
  PROVE  \A k \in 1..Len(segments') :
           segments'[k] \in [id : Finals \cup {ServerId(f) : f \in Finals}, tr : Translations]
<1>1. \A k \in 1..Len(segments') : segments'[k] \in Segment
  OBVIOUS
<1> QED
  BY <1>1 DEF Segment

LEMMA DeliverView == ASSUME ViewInv, Deliver PROVE ViewInv'
<1> USE DEF ViewInv, Deliver, connection
<1>1. wire[1] \in Payload /\ wire' \in Seq(Payload)
  <2>1. wire \in Seq(Payload) /\ wire # <<>> /\ wire' = Tail(wire)
    BY DEF ViewTypes
  <2> HIDE DEF Deliver
  <2> QED
    BY <2>1
<1>2. segments' \in Seq(Segment) /\ partial' \in Finals \cup {0}
  <2>1. segments \in Seq(Segment) /\ SegmentsTyped /\ partial \in Finals \cup {0}
    BY DEF ViewTypes, TranscriptTypeOK, SegmentsTyped
  <2>2. CASE wire[1].type = "partial"
    BY <1>1, <2>1, <2>2 DEF Payload
  <2>3. CASE wire[1].type = "final"
    <3>1. showFinal(wire[1].id) /\ wire[1].id \in Finals
      BY <1>1, <2>3 DEF Payload
    <3> QED
      <4>1. \/ segments' = segments
            \/ \E e \in Segment : segments' = Append(segments, e)
        BY <2>1, <3>1, ShowFinalAppends
      <4>2. segments' \in Seq(Segment)
        BY <2>1, <4>1
      <4> QED
        BY <3>1, <4>2 DEF showFinal
  <2>4. CASE wire[1].type \in {"translated", "failed"}
    <3>1. showTranslation(wire[1].id, wire[1].type = "failed") /\ partial' = partial
      BY <2>4
    <3> QED
      BY <2>1, <3>1, ShowTranslationKeeps, (wire[1].type = "failed") \in BOOLEAN
  <2> QED
    BY <1>1, <2>2, <2>3, <2>4
<1>3. ViewTypes'
  BY <1>1, <1>2, TypesFromSegments DEF ViewTypes, TranscriptTypeOK
<1>4. SocketInv' /\ ResyncInv'
  BY DEF SocketInv, ExpelledRecovers, ResyncInv
<1> QED
  BY <1>3, <1>4

\* Steps of the socket that leave the transcript and the requests alone.
LEMMA SocketKeepsView ==
  ASSUME ViewInv, UNCHANGED <<noPayload, resync>>, wire' \in Seq(Payload),
         link' \in Link, recoveries' \subseteq 1..MaxSockets, SocketInv'
  PROVE  ViewInv'
<1> USE DEF ViewInv, noPayload
<1>1. ViewTypes'
  BY DEF ViewTypes, TranscriptTypeOK
<1>2. ResyncInv'
  BY DEF ResyncInv
<1> QED
  BY <1>1, <1>2

LEMMA RecoveringKeeps ==
  ASSUME NEW next \in Link, next.socket \in 1..MaxSockets, recoveries \subseteq 1..MaxSockets,
         next.isRecovering => next.socket \in recoveries,
         Recovering(next)
  PROVE  /\ link' \in Link /\ link' = [next EXCEPT !.isRecovering = TRUE]
         /\ recoveries' \subseteq 1..MaxSockets
         /\ next.socket \in recoveries'
  BY DEF Recovering, Link

LEMMA SocketSteps ==
  ASSUME ViewInv,
         \/ OpenSocket \/ TransportLost \/ ReconnectFailed
         \/ \E kind \in {"auth", "other"} : ErrorEvent(kind)
         \/ ServerDisconnects
         \/ \E k \in recoveries : TokenRenewed(k) \/ TokenLost(k)
  PROVE  ViewInv'
<1>1. /\ link \in Link /\ recoveries \subseteq 1..MaxSockets /\ wire \in Seq(Payload)
      /\ SocketInv /\ <<>> \in Seq(Payload)
  BY DEF ViewInv, ViewTypes, TranscriptTypeOK
<1>2. CASE OpenSocket
  <2> DEFINE n == link.socket + 1
             opened == [NoLink EXCEPT !.socket = n, !.conn = "connecting"]
  <2>1. link' = opened
    BY <1>2 DEF OpenSocket
  <2>2. n \in 1..MaxSockets
    BY <1>1, <1>2, TranscriptAssumption DEF OpenSocket, Link
  <2> HIDE DEF n
  <2>3. opened \in Link /\ opened.socket = n /\ opened.conn = "connecting"
        /\ ~opened.isRecovering
    <3>1. n \in 0..MaxSockets
      BY <2>2, TranscriptAssumption
    <3>2. NoLink \in Link /\ NoLink.isRecovering = FALSE
      BY TranscriptAssumption DEF NoLink, Link
    <3> QED
      BY <3>1, <3>2 DEF Link
  <2> HIDE DEF opened
  <2>4. link' \in Link /\ SocketInv'
    <3>1. link'.socket = n /\ link'.conn = "connecting" /\ ~link'.isRecovering /\ link' \in Link
      BY <2>1, <2>3
    <3> QED
      BY <2>2, <3>1 DEF SocketInv, ExpelledRecovers
  <2> QED
    BY <1>1, <1>2, <2>4, SocketKeepsView DEF OpenSocket
<1>3. CASE TransportLost
  <2>1. link' \in Link
    BY <1>1, <1>3 DEF TransportLost, Link
  <2>2. SocketInv'
    BY <1>1, <1>3 DEF TransportLost, SocketInv, ExpelledRecovers, Link
  <2> QED
    BY <1>1, <1>3, <2>1, <2>2, SocketKeepsView DEF TransportLost
<1>4. CASE ReconnectFailed
  <2>1. link' \in Link
    BY <1>1, <1>4 DEF ReconnectFailed, Link
  <2>2. SocketInv'
    BY <1>1, <1>4 DEF ReconnectFailed, SocketInv, ExpelledRecovers, Link
  <2> QED
    BY <1>1, <1>4, <2>1, <2>2, SocketKeepsView DEF ReconnectFailed
<1>5. ASSUME NEW kind \in {"auth", "other"}, ErrorEvent(kind) PROVE ViewInv'
  <2>1. link.socket \in 1..MaxSockets
    BY <1>1, <1>5 DEF ErrorEvent, SocketInv
  <2>2. CASE kind = "auth"
    <3> DEFINE next == [link EXCEPT !.expelled = kind, !.error = "auth", !.authPending = TRUE]
    <3>1. /\ next \in Link /\ next.socket = link.socket /\ next.conn = link.conn
          /\ next.isRecovering = link.isRecovering /\ next.authPending
      BY <1>1, <2>2 DEF Link
    <3>2. Recovering(next)
      BY <1>5, <2>2 DEF ErrorEvent
    <3> HIDE DEF next
    <3>3. next.isRecovering => next.socket \in recoveries
      BY <1>1, <3>1 DEF SocketInv
    <3>4. /\ link' \in Link /\ link' = [next EXCEPT !.isRecovering = TRUE]
          /\ recoveries' \subseteq 1..MaxSockets /\ next.socket \in recoveries'
      BY <1>1, <2>1, <3>1, <3>2, <3>3, RecoveringKeeps
    <3>5. link'.socket = next.socket /\ link'.conn = next.conn /\ link'.authPending
      BY <3>1, <3>4 DEF Link
    <3>6. SocketInv'
      BY <1>5, <2>1, <3>1, <3>4, <3>5 DEF SocketInv, ExpelledRecovers, ErrorEvent
    <3> QED
      BY <1>1, <1>5, <3>4, <3>6, SocketKeepsView DEF ErrorEvent
  <2>3. CASE kind = "other"
    <3>1. link' = [link EXCEPT !.expelled = kind, !.error = "other"] /\ recoveries' = recoveries
      BY <1>5, <2>3 DEF ErrorEvent
    <3>2. link' \in Link
      BY <1>1, <2>3, <3>1 DEF Link
    <3>3. SocketInv'
      BY <1>1, <2>1, <3>1 DEF SocketInv, ExpelledRecovers, Link
    <3> QED
      BY <1>1, <1>5, <3>1, <3>2, <3>3, SocketKeepsView DEF ErrorEvent
  <2> QED
    BY <2>2, <2>3
<1>6. CASE ServerDisconnects
  <2> DEFINE off == [link EXCEPT !.conn = "off", !.expelled = "no", !.authPending = FALSE]
  <2>1. link.socket \in 1..MaxSockets /\ link.conn = "up"
    BY <1>1, <1>6 DEF ServerDisconnects, SocketInv
  <2>2. /\ off \in Link /\ off.socket = link.socket /\ off.isRecovering = link.isRecovering
        /\ off.error = link.error /\ off.fellBack = link.fellBack
    BY <1>1 DEF Link
  <2>3. CASE link.authPending
    <3>1. Recovering(off)
      BY <1>6, <2>3 DEF ServerDisconnects
    <3> HIDE DEF off
    <3>2. off.isRecovering => off.socket \in recoveries
      BY <1>1, <2>2 DEF SocketInv
    <3>3. /\ link' \in Link /\ link' = [off EXCEPT !.isRecovering = TRUE]
          /\ recoveries' \subseteq 1..MaxSockets /\ off.socket \in recoveries'
      BY <1>1, <2>1, <2>2, <3>1, <3>2, RecoveringKeeps
    <3>4. link'.socket = off.socket
      BY <2>2, <3>3 DEF Link
    <3>5. link'.conn = off.conn /\ off.conn = "off"
      BY <1>1, <2>2, <3>3 DEF Link, off
    <3>6. SocketInv'
      BY <2>1, <2>2, <3>3, <3>4, <3>5 DEF SocketInv, ExpelledRecovers
    <3> QED
      BY <1>1, <1>6, <3>3, <3>6, SocketKeepsView DEF ServerDisconnects
  <2>4. CASE ~link.authPending
    <3>1. link' = off /\ recoveries' = recoveries
      BY <1>6, <2>4 DEF ServerDisconnects
    <3>2. off.conn = "off" /\ (link.error = "auth" => link.fellBack)
      BY <1>1, <2>1, <2>4 DEF SocketInv, Link
    <3> HIDE DEF off
    <3>3. SocketInv'
      BY <1>1, <2>1, <2>2, <3>1, <3>2 DEF SocketInv, ExpelledRecovers
    <3> QED
      BY <1>1, <1>6, <2>2, <3>1, <3>3, SocketKeepsView DEF ServerDisconnects
  <2> QED
    BY <2>3, <2>4
<1>7. ASSUME NEW k \in recoveries, TokenRenewed(k) PROVE ViewInv'
  <2> DEFINE next == [link EXCEPT !.isRecovering = FALSE,
                        !.conn = IF k = link.socket /\ @ = "off" THEN "connecting" ELSE @]
  <2>1. link' = next /\ recoveries' = recoveries \ {k}
    BY <1>7 DEF TokenRenewed
  <2>2. /\ next \in Link /\ next.socket = link.socket /\ next.error = link.error
        /\ next.fellBack = link.fellBack /\ next.authPending = link.authPending
        /\ ~next.isRecovering
        /\ next.conn = IF k = link.socket /\ link.conn = "off" THEN "connecting" ELSE link.conn
    BY <1>1 DEF Link
  <2> HIDE DEF next
  <2>3. SocketInv'
    BY <1>1, <2>1, <2>2 DEF SocketInv, ExpelledRecovers
  <2> QED
    BY <1>1, <1>7, <2>1, <2>2, <2>3, SocketKeepsView DEF TokenRenewed
<1>8. ASSUME NEW k \in recoveries, TokenLost(k) PROVE ViewInv'
  <2> DEFINE next == [link EXCEPT !.isRecovering = FALSE, !.error = "auth", !.fellBack = TRUE]
  <2>1. link' = next /\ recoveries' = recoveries \ {k}
    BY <1>8 DEF TokenLost
  <2>2. /\ next \in Link /\ next.socket = link.socket /\ next.fellBack /\ ~next.isRecovering
        /\ next.conn = link.conn
    BY <1>1 DEF Link
  <2> HIDE DEF next
  <2>3. SocketInv'
    BY <1>1, <2>1, <2>2 DEF SocketInv, ExpelledRecovers
  <2> QED
    BY <1>1, <1>8, <2>1, <2>2, <2>3, SocketKeepsView DEF TokenLost
<1> QED
  BY <1>2, <1>3, <1>4, <1>5, <1>6, <1>7, <1>8

\* The cleanup leaves nothing that has been merged.
LEMMA CloseView == ASSUME ViewInv, CloseSocket PROVE ViewInv'
<1> USE DEF ViewInv, CloseSocket
<1>1. /\ link \in Link /\ recoveries \subseteq 1..MaxSockets
      /\ resync \in [generation : Nat, requests : SUBSET Request]
      /\ SocketInv /\ ResyncInv
  BY DEF ViewTypes, TranscriptTypeOK
<1>2. link' \in Link
  BY <1>1 DEF NoLink, Link
<1>3. resync' \in [generation : Nat, requests : SUBSET Request]
      /\ resync'.requests = resync.requests /\ resync'.generation = resync.generation + 1
  BY <1>1
<1>4. ViewTypes'
  BY <1>1, <1>2, <1>3 DEF ViewTypes, TranscriptTypeOK
<1>5. SocketInv'
  BY <1>1 DEF SocketInv, ExpelledRecovers, NoLink
<1>6. ResyncInv'
  <2>1. \A r \in resync.requests : r.generation \in Nat
    BY <1>1 DEF Request
  <2> QED
    BY <1>1, <1>3, <2>1 DEF ResyncInv
<1> QED
  BY <1>4, <1>5, <1>6

LEMMA ConnectedView == ASSUME ViewInv, Connected PROVE ViewInv'
<1> USE DEF ViewInv, Connected, noPayload
<1>1. /\ link \in Link /\ recoveries \subseteq 1..MaxSockets
      /\ resync \in [generation : Nat, requests : SUBSET Request]
      /\ SocketInv /\ ResyncInv
  BY DEF ViewTypes, TranscriptTypeOK
<1>2. link' \in Link /\ link'.error = "none" /\ link'.conn = "up" /\ link'.socket = link.socket
      /\ link'.isRecovering = link.isRecovering
  BY <1>1 DEF Link
<1> DEFINE new == [generation |-> resync.generation + 1, socket |-> link.socket,
                   read |-> FALSE, rows |-> {}, translated |-> {}]
<1>3. new \in Request
  BY <1>1 DEF Request, Link
<1>4. \/ resync' = resync
      \/ resync' = [generation |-> resync.generation + 1,
                    requests |-> resync.requests \cup {new}]
  OBVIOUS
<1>5. new.generation = resync.generation + 1 /\ ~new.read /\ new.rows = {}
  OBVIOUS
<1> HIDE DEF new
<1>6. resync' \in [generation : Nat, requests : SUBSET Request]
  BY <1>1, <1>3, <1>4
<1>7. ViewTypes'
  BY <1>1, <1>2, <1>6 DEF ViewTypes, TranscriptTypeOK
<1>8. SocketInv'
  BY <1>1, <1>2 DEF SocketInv, ExpelledRecovers
<1>9. ResyncInv'
  <2>1. \A r \in resync.requests : r.generation \in Nat /\ r.generation <= resync.generation
    BY <1>1 DEF Request, ResyncInv
  <2>2. resync.generation \in Nat
    BY <1>1
  <2>3. CASE resync' = resync
    BY <1>1, <2>3 DEF ResyncInv
  <2>4. CASE resync' = [generation |-> resync.generation + 1,
                        requests |-> resync.requests \cup {new}]
    <3>1. resync'.generation = resync.generation + 1
          /\ resync'.requests = resync.requests \cup {new}
      BY <2>4
    <3>2. \A r \in resync'.requests :
            /\ r.generation <= resync'.generation
            /\ (r.read /\ r.generation = resync'.generation) => recovered \subseteq r.rows
            /\ r.rows \subseteq backend.rows
      BY <1>1, <1>5, <2>1, <2>2, <3>1 DEF ResyncInv
    <3>3. \A q, r \in resync'.requests : q.generation = r.generation => q = r
      BY <1>1, <1>5, <2>1, <2>2, <3>1 DEF ResyncInv
    <3> QED
      BY <1>1, <3>2, <3>3 DEF ResyncInv
  <2> QED
    BY <1>4, <2>3, <2>4
<1> QED
  BY <1>7, <1>8, <1>9

\* The SELECT sees every row that has been merged.
LEMMA ReadView == ASSUME ViewInv, NEW q \in resync.requests, ReadRows(q) PROVE ViewInv'
<1> USE DEF ViewInv, ReadRows, noPayload
<1>1. /\ resync \in [generation : Nat, requests : SUBSET Request]
      /\ backend.rows \subseteq Finals /\ backend.translated \subseteq Finals
      /\ SocketInv /\ ResyncInv
  BY DEF ViewTypes, TranscriptTypeOK
<1> DEFINE new == [q EXCEPT !.read = TRUE, !.rows = backend.rows,
                            !.translated = backend.translated]
<1>2. new \in Request /\ new.generation = q.generation /\ new.rows = backend.rows
  BY <1>1 DEF Request
<1>3. /\ resync'.requests = (resync.requests \ {q}) \cup {new}
      /\ resync'.generation = resync.generation
      /\ resync' \in [generation : Nat, requests : SUBSET Request]
  BY <1>1, <1>2
<1> HIDE DEF new
<1>4. ViewTypes'
  BY <1>3 DEF ViewTypes, TranscriptTypeOK
<1>5. SocketInv'
  BY DEF SocketInv, ExpelledRecovers
<1>6. ResyncInv'
  <2>1. \A r \in resync'.requests :
          /\ r.generation <= resync'.generation
          /\ (r.read /\ r.generation = resync'.generation) => recovered \subseteq r.rows
          /\ r.rows \subseteq backend.rows
    BY <1>1, <1>2, <1>3 DEF ResyncInv
  <2>2. \A p, r \in resync'.requests : p.generation = r.generation => p = r
    BY <1>1, <1>2, <1>3 DEF ResyncInv
  <2> QED
    BY <1>1, <2>1, <2>2 DEF ResyncInv
<1> QED
  BY <1>4, <1>5, <1>6

LEMMA RequestFailsView ==
  ASSUME ViewInv, NEW q \in resync.requests, RequestFails(q) PROVE ViewInv'
<1> USE DEF ViewInv, RequestFails, noPayload
<1>1. /\ resync \in [generation : Nat, requests : SUBSET Request]
      /\ SocketInv /\ ResyncInv
  BY DEF ViewTypes
<1>2. /\ resync'.requests = resync.requests \ {q}
      /\ resync'.generation = resync.generation
      /\ resync' \in [generation : Nat, requests : SUBSET Request]
  BY <1>1
<1>3. ViewTypes'
  BY <1>2 DEF ViewTypes, TranscriptTypeOK
<1>4. SocketInv'
  BY DEF SocketInv, ExpelledRecovers
<1>5. ResyncInv'
  BY <1>1, <1>2 DEF ResyncInv
<1> QED
  BY <1>3, <1>4, <1>5

\* The answer that is merged is of the last generation, so it is no older than
\* what has been merged, and no other answer of its generation is to come.
LEMMA ArriveView ==
  ASSUME ViewInv, NEW q \in resync.requests, RowsArrive(q) PROVE ViewInv'
<1> USE DEF ViewInv, RowsArrive
<1>1. /\ resync \in [generation : Nat, requests : SUBSET Request]
      /\ SegmentsTyped /\ SocketInv /\ ResyncInv /\ recovered \subseteq Finals
  BY DEF ViewTypes, TranscriptTypeOK, SegmentsTyped
<1>2. /\ resync'.requests = resync.requests \ {q}
      /\ resync'.generation = resync.generation
      /\ resync' \in [generation : Nat, requests : SUBSET Request]
  BY <1>1
<1>3. q.rows \subseteq Finals
  BY <1>1 DEF Request
<1>4. segments' \in Seq(Segment) /\ recovered' \subseteq recovered \cup q.rows
  <2>1. CASE isLastRequest(q) /\ q.rows # {}
    BY <1>1, <1>3, <2>1, MergeShows
  <2>2. CASE ~(isLastRequest(q) /\ q.rows # {})
    BY <1>1, <2>2 DEF syncSegmentsFromServer, SegmentsTyped
  <2> QED
    BY <2>1, <2>2
<1>5. ViewTypes'
  BY <1>1, <1>2, <1>3, <1>4, TypesFromSegments DEF ViewTypes, TranscriptTypeOK
<1>6. SocketInv'
  BY DEF SocketInv, ExpelledRecovers
<1>7. ResyncInv'
  <2>1. recovered' \subseteq backend.rows
    BY <1>1, <1>4 DEF ResyncInv
  <2>2. ASSUME NEW r \in resync'.requests, r.read, r.generation = resync'.generation
        PROVE  recovered' \subseteq r.rows
    <3>1. CASE isLastRequest(q)
      BY <1>1, <1>2, <2>2, <3>1 DEF ResyncInv, isLastRequest
    <3>2. CASE ~isLastRequest(q)
      BY <1>1, <1>2, <2>2, <3>2 DEF ResyncInv
    <3> QED
      BY <3>1, <3>2
  <2> QED
    BY <1>1, <1>2, <2>1, <2>2 DEF ResyncInv
<1> QED
  BY <1>5, <1>6, <1>7

LEMMA NextView == ViewInv /\ [TranscriptNext]_transcriptVars => ViewInv'
<1> SUFFICES ASSUME ViewInv, [TranscriptNext]_transcriptVars PROVE ViewInv'
  OBVIOUS
<1>1. CASE UNCHANGED transcriptVars
  BY <1>1, UnchangedView
<1>2. CASE \/ EmitPartial \/ EmitFinal \/ \E f \in Finals : StoreFinal(f)
           \/ \E f \in Foreign, outcome \in {"translated", "failed"} : Translate(f, outcome)
           \/ \E f \in Foreign : StoreTranslation(f)
  BY <1>2, ServerSteps
<1>3. CASE Deliver
  BY <1>3, DeliverView
<1>4. CASE \/ OpenSocket \/ TransportLost \/ ReconnectFailed
           \/ \E kind \in {"auth", "other"} : ErrorEvent(kind)
           \/ ServerDisconnects
           \/ \E k \in recoveries : TokenRenewed(k) \/ TokenLost(k)
  BY <1>4, SocketSteps
<1>5. CASE CloseSocket
  BY <1>5, CloseView
<1>6. CASE Connected
  BY <1>6, ConnectedView
<1>7. ASSUME NEW q \in resync.requests, ReadRows(q) \/ RowsArrive(q) \/ RequestFails(q)
      PROVE  ViewInv'
  BY <1>7, ReadView, ArriveView, RequestFailsView
<1> QED
  BY <1>1, <1>2, <1>3, <1>4, <1>5, <1>6, <1>7, Zenon DEF TranscriptNext

\* The inductive invariant of the page: its types, what it may count on to get
\* its socket back, and that the last answer asked for is no older than what
\* has been merged.
THEOREM PageIsInStep == TranscriptSpec => []ViewInv
  BY InitView, NextView, PTL DEF TranscriptSpec

\* Every variable of the page keeps its type.
THEOREM TranscriptTypes == TranscriptSpec => []TranscriptTypeOK
<1>1. ViewInv => TranscriptTypeOK
  BY DEF ViewInv, ViewTypes
<1> QED
  BY <1>1, PageIsInStep, PTL

\* A page that was thrown out for its token renews it, connects or falls back,
\* whatever renewal of whatever socket ends when
\* (transcriptionSocketSession.ts:40-82, 123-155).
THEOREM ExpelledPageRecovers == TranscriptSpec => []ExpelledRecovers
<1>1. ViewInv => ExpelledRecovers
  BY DEF ViewInv, SocketInv
<1> QED
  BY <1>1, PageIsInStep, PTL

(***************************************************************************)
(* What is shown.  Only the delivery of a message, a merge and the cleanup *)
(* change it.                                                              *)
(***************************************************************************)
LEMMA OthersShowTheSame ==
  ASSUME [TranscriptNext]_transcriptVars, ~Deliver, ~CloseSocket,
         ~\E q \in resync.requests : RowsArrive(q)
  PROVE  UNCHANGED <<segments, recovered>>
<1> USE DEF connection, noPayload
<1>1. CASE UNCHANGED transcriptVars
  BY <1>1 DEF transcriptVars
<1>2. CASE EmitPartial \/ EmitFinal
  BY <1>2 DEF EmitPartial, EmitFinal
<1>3. CASE \/ \E f \in Finals : StoreFinal(f)
           \/ \E f \in Foreign, outcome \in {"translated", "failed"} : Translate(f, outcome)
           \/ \E f \in Foreign : StoreTranslation(f)
  BY <1>3 DEF StoreFinal, Translate, StoreTranslation
<1>4. CASE OpenSocket \/ Connected \/ TransportLost \/ ReconnectFailed \/ ServerDisconnects
  BY <1>4 DEF OpenSocket, Connected, TransportLost, ReconnectFailed, ServerDisconnects
<1>5. CASE \E kind \in {"auth", "other"} : ErrorEvent(kind)
  BY <1>5 DEF ErrorEvent
<1>6. CASE \E k \in recoveries : TokenRenewed(k) \/ TokenLost(k)
  BY <1>6 DEF TokenRenewed, TokenLost
<1>7. CASE \E q \in resync.requests : ReadRows(q) \/ RequestFails(q)
  BY <1>7 DEF ReadRows, RequestFails
<1> QED
  BY <1>1, <1>2, <1>3, <1>4, <1>5, <1>6, <1>7, Zenon DEF TranscriptNext

\* The finals of a sequence of segments.
FinalsOf(s) == {FinalOf(s[k]) : k \in 1..Len(s)}

\* A delivery takes nothing away, and adds a final that is not recognized.
LEMMA DeliverShows ==
  ASSUME ViewInv, Deliver
  PROVE  \/ /\ Len(segments') = Len(segments)
            /\ \A k \in 1..Len(segments) : segments'[k].id = segments[k].id
         \/ \E e \in Segment :
              /\ segments' = Append(segments, e) /\ e.id \in Finals
              /\ ~recentDuplicate(e.id) /\ \A k \in 1..Len(segments) : segments[k].id # e.id
<1>1. SegmentsTyped /\ wire[1] \in Payload
  <2>1. wire \in Seq(Payload) /\ wire # <<>>
    BY DEF ViewInv, ViewTypes, Deliver
  <2> QED
    BY <2>1 DEF ViewInv, ViewTypes, SegmentsTyped
<1>2. CASE wire[1].type = "partial"
  BY <1>2 DEF Deliver
<1>3. CASE wire[1].type = "final"
  <2>1. showFinal(wire[1].id) /\ wire[1].id \in Finals
    BY <1>1, <1>3 DEF Deliver, Payload
  <2> QED
    BY <1>1, <2>1, ShowFinalAppends
<1>4. CASE wire[1].type \in {"translated", "failed"}
  <2>1. showTranslation(wire[1].id, wire[1].type = "failed")
    BY <1>4 DEF Deliver
  <2> QED
    BY <1>1, <2>1, ShowTranslationKeeps, (wire[1].type = "failed") \in BOOLEAN
<1> QED
  BY <1>1, <1>2, <1>3, <1>4 DEF Payload

\* A merge is of rows that there are, or changes nothing.
LEMMA ArriveShows ==
  ASSUME ViewInv, NEW q \in resync.requests, RowsArrive(q)
  PROVE  \/ UNCHANGED <<segments, recovered>>
         \/ /\ isLastRequest(q) /\ q.read /\ q.rows = {}
            /\ segments' = segments /\ recovered' = recovered
         \/ /\ isLastRequest(q) /\ q.read /\ q.rows # {} /\ q.rows \subseteq Finals
            /\ syncSegmentsFromServer(q.rows, q.translated)
            /\ recovered' = recovered \cup q.rows /\ recovered \subseteq q.rows
<1>1. q \in Request /\ ResyncInv
  BY DEF ViewInv, ViewTypes
<1>2. q.rows \subseteq Finals /\ (isLastRequest(q) /\ q.read => recovered \subseteq q.rows)
  BY <1>1 DEF Request, ResyncInv, isLastRequest
<1> QED
  BY <1>2 DEF RowsArrive, syncSegmentsFromServer

\* As long as no final is taken for the row of another, what a merge has brought
\* back stays on the screen until the transcript is cleared, in whatever order
\* the answers come (useTranscription.ts:113-127).
THEOREM RecoveredIsShown ==
  ASSUME UtterancesApart
  PROVE  TranscriptSpec => []RecoveredStaysShown
<1>1. TranscriptInit => RecoveredStaysShown
  BY DEF TranscriptInit, RecoveredStaysShown
<1>2. ViewInv /\ RecoveredStaysShown /\ [TranscriptNext]_transcriptVars => RecoveredStaysShown'
  <2> SUFFICES ASSUME ViewInv, RecoveredStaysShown, [TranscriptNext]_transcriptVars
               PROVE  RecoveredStaysShown'
    OBVIOUS
  <2>1. SegmentsTyped
    BY DEF ViewInv, ViewTypes, SegmentsTyped
  <2>2. CASE Deliver
    <3>1. recovered' = recovered
      BY <2>2 DEF Deliver
    <3>2. CASE /\ Len(segments') = Len(segments)
               /\ \A k \in 1..Len(segments) : segments'[k].id = segments[k].id
      BY <3>1, <3>2 DEF RecoveredStaysShown, FinalOf
    <3>3. ASSUME NEW e \in Segment, segments' = Append(segments, e)
          PROVE  RecoveredStaysShown'
      <4>1. /\ Len(segments') = Len(segments) + 1 /\ Len(segments) \in Nat
            /\ \A k \in 1..Len(segments) : segments'[k] = segments[k]
        BY <2>1, <3>3 DEF SegmentsTyped
      <4> QED
        BY <3>1, <4>1 DEF RecoveredStaysShown
    <3> QED
      BY <2>2, <3>2, <3>3, DeliverShows
  <2>3. CASE CloseSocket
    BY <2>3 DEF CloseSocket, RecoveredStaysShown
  <2>4. ASSUME NEW q \in resync.requests, RowsArrive(q) PROVE RecoveredStaysShown'
    <3>1. CASE UNCHANGED <<segments, recovered>>
      BY <3>1 DEF RecoveredStaysShown
    <3>2. CASE /\ q.rows # {} /\ q.rows \subseteq Finals
               /\ syncSegmentsFromServer(q.rows, q.translated)
               /\ recovered' = recovered \cup q.rows /\ recovered \subseteq q.rows
      <4>1. \A f \in q.rows : \E k \in 1..Len(segments') : FinalOf(segments'[k]) = f
        BY <2>1, <3>2, MergeShows
      <4> QED
        BY <3>2, <4>1 DEF RecoveredStaysShown
    <3> QED
      BY <2>4, <3>1, <3>2, ArriveShows
  <2>5. CASE UNCHANGED <<segments, recovered>>
    BY <2>5 DEF RecoveredStaysShown
  <2> QED
    BY <2>2, <2>3, <2>4, <2>5, OthersShowTheSame
<1> QED
  BY <1>1, <1>2, PageIsInStep, PTL DEF TranscriptSpec

\* Without rows that lack a result id every segment has the id of its final.
IdsAreFinals == Legacy = {} => \A k \in 1..Len(segments) : segments[k].id \in Finals

\* Finals shown once each are no more than there are finals.
LEMMA FewSegments ==
  ASSUME SegmentsTyped, NoSegmentTwice
  PROVE  Len(segments) <= Cardinality(Finals)
<1> DEFINE place == [k \in 1..Len(segments) |-> FinalOf(segments[k])]
<1>1. Len(segments) \in Nat /\ \A k \in 1..Len(segments) : FinalOf(segments[k]) \in Finals
  BY SegmentFinal DEF SegmentsTyped
<1>2. place \in Injection(1..Len(segments), Finals)
  BY <1>1 DEF NoSegmentTwice, Injection, IsInjective
<1>3. Cardinality(1..Len(segments)) <= Cardinality(Finals)
  BY <1>2, TranscriptAssumption, FS_Injection
<1> QED
  BY <1>1, <1>3, FS_Interval

\* A final that is shown is recognized when it is delivered: by its id, or
\* among the last three segments.
LEMMA DeliveredIsNew ==
  ASSUME SegmentsTyped, NoSegmentTwice, IdsAreFinals,
         Legacy = {} \/ Cardinality(Finals) <= 3,
         NEW f \in Finals, ~recentDuplicate(f),
         \A k \in 1..Len(segments) : segments[k].id # f,
         NEW k \in 1..Len(segments)
  PROVE  FinalOf(segments[k]) # f
<1>1. segments[k] \in Segment /\ Len(segments) \in Nat
  BY DEF SegmentsTyped
<1>2. CASE Legacy = {}
  BY <1>1, <1>2, SegmentFinal DEF IdsAreFinals
<1>3. CASE Cardinality(Finals) <= 3
  <2>1. k > Len(segments) - 3
    BY <1>1, <1>3, FewSegments, TranscriptAssumption, FS_CardinalityType
  <2>2. EndOf[f] - EndOf[f] = 0
    BY EndsAreNumbers
  <2>3. distance(EndOf[f], EndOf[f]) < 25
    BY <2>2, EndsAreNumbers DEF distance
  <2> QED
    BY <2>1, <2>3 DEF recentDuplicate, sameText
<1> QED
  BY <1>2, <1>3

LEMMA OnceIsKept ==
  ASSUME UtterancesApart, Legacy = {} \/ Cardinality(Finals) <= 3,
         ViewInv, NoSegmentTwice, IdsAreFinals, [TranscriptNext]_transcriptVars
  PROVE  NoSegmentTwice' /\ IdsAreFinals'
<1>1. SegmentsTyped
  BY DEF ViewInv, ViewTypes, SegmentsTyped
<1>2. CASE Deliver
  <2>1. CASE /\ Len(segments') = Len(segments)
             /\ \A k \in 1..Len(segments) : segments'[k].id = segments[k].id
    BY <2>1 DEF NoSegmentTwice, IdsAreFinals, FinalOf
  <2>2. ASSUME NEW e \in Segment, segments' = Append(segments, e), e.id \in Finals,
               ~recentDuplicate(e.id), \A k \in 1..Len(segments) : segments[k].id # e.id
        PROVE  NoSegmentTwice' /\ IdsAreFinals'
    <3>1. /\ Len(segments') = Len(segments) + 1 /\ Len(segments) \in Nat
          /\ \A k \in 1..Len(segments) : segments'[k] = segments[k]
          /\ segments'[Len(segments')] = e
      BY <1>1, <2>2 DEF SegmentsTyped
    <3>2. FinalOf(e) = e.id
      BY <2>2, SegmentFinal
    <3>3. \A k \in 1..Len(segments) : FinalOf(segments[k]) # FinalOf(e)
      BY <1>1, <2>2, <3>2, DeliveredIsNew
    <3>4. NoSegmentTwice'
      <4> SUFFICES ASSUME NEW j \in 1..Len(segments'), NEW k \in 1..Len(segments'),
                          FinalOf(segments'[j]) = FinalOf(segments'[k])
                   PROVE  j = k
        BY DEF NoSegmentTwice
      <4>1. \A i \in 1..Len(segments') : i \in 1..Len(segments) \/ i = Len(segments')
        BY <3>1
      <4> QED
        BY <3>1, <3>3, <4>1 DEF NoSegmentTwice
    <3>5. IdsAreFinals'
      BY <2>2, <3>1 DEF IdsAreFinals
    <3> QED
      BY <3>4, <3>5
  <2> QED
    BY <1>2, <2>1, <2>2, DeliverShows
<1>3. CASE CloseSocket
  BY <1>3 DEF CloseSocket, NoSegmentTwice, IdsAreFinals
<1>4. ASSUME NEW q \in resync.requests, RowsArrive(q)
      PROVE  NoSegmentTwice' /\ IdsAreFinals'
  <2>1. CASE UNCHANGED <<segments, recovered>>
    BY <2>1 DEF NoSegmentTwice, IdsAreFinals
  <2>2. CASE /\ q.rows # {} /\ q.rows \subseteq Finals
             /\ syncSegmentsFromServer(q.rows, q.translated)
    <3>1. EachOnce(segments')
      BY <1>1, <2>2, MergeShows
    <3>2. IdsAreFinals'
      BY <1>1, <2>2, MergeShows DEF IdsAreFinals
    <3> QED
      BY <3>1, <3>2 DEF EachOnce, NoSegmentTwice
  <2> QED
    BY <1>4, <2>1, <2>2, ArriveShows
<1>5. CASE UNCHANGED <<segments, recovered>>
  BY <1>5 DEF NoSegmentTwice, IdsAreFinals
<1> QED
  BY <1>2, <1>3, <1>4, <1>5, OthersShowTheSame

\* No utterance is shown twice, for any number of finals when every row has its
\* result id, as the rows that saveFinalSegment writes do (transcription.service.ts:611).
\* A row without one is recognized by its text among the last three segments only:
\* with up to three finals that is enough, with a fourth it is not.
THEOREM ShownOnce ==
  ASSUME UtterancesApart, Legacy = {} \/ Cardinality(Finals) <= 3
  PROVE  TranscriptSpec => []NoSegmentTwice
<1>1. TranscriptInit => NoSegmentTwice /\ IdsAreFinals
  BY DEF TranscriptInit, NoSegmentTwice, IdsAreFinals
<1>2. ViewInv /\ (NoSegmentTwice /\ IdsAreFinals) /\ [TranscriptNext]_transcriptVars
        => (NoSegmentTwice /\ IdsAreFinals)'
  BY OnceIsKept
<1> QED
  BY <1>1, <1>2, PageIsInStep, PTL DEF TranscriptSpec
==============================================================================
