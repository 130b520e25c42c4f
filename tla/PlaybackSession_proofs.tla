------------------------- MODULE PlaybackSession_proofs -------------------------
(***************************************************************************)
(* Machine-checked proofs about PlaybackSession, for every set of URIs,    *)
(* ids and lists, every queue bound and every choice of Outside.           *)
(*                                                                         *)
(* The inductive invariant is SessionInv: MarkerTruth needs the            *)
(* observation to name the row the session is on (ObservedNamesRow),       *)
(* because a sample equal to the observation keeps the row.                *)
(***************************************************************************)
EXTENDS PlaybackSession, FiniteSetTheorems, WellFoundedInduction, TLAPS

-----------------------------------------------------------------------------
(* The server: every command keeps it well formed.                         *)

\* The entries of a well-formed server have a URI and an id.
LEMMA EntryTyped ==
  ASSUME NEW m, ServerOk(m), NEW p \in Positions(m)
  PROVE  /\ p + 1 \in 1..Len(m.queue)
         /\ m.queue[p + 1] \in Entry
         /\ m.queue[p + 1].uri \in Uri
         /\ m.queue[p + 1].id \in Id
<1>1. m.queue \in Seq(Entry)
  BY DEF ServerOk, ServerType
<1>2. p + 1 \in 1..Len(m.queue)
  BY <1>1 DEF Positions
<1>3. m.queue[p + 1] \in Entry
  BY <1>1, <1>2
<1>4. QED
  BY <1>2, <1>3 DEF Entry

\* The current entry of a well-formed server is one of its entries.
LEMMA CurrentTyped ==
  ASSUME NEW m, ServerOk(m)
  PROVE  /\ CurrentUri(m) \in Uri \cup {NoUri}
         /\ CurrentId(m) \in Id \cup {NoId}
         /\ HasCurrent(m) <=> CurrentUri(m) # NoUri
         /\ HasCurrent(m) <=> CurrentId(m) # NoId
         /\ ~HasCurrent(m) => m.state = "stopped"
         /\ m.state \in PlayState /\ m.random \in BOOLEAN
<1>1. /\ ~HasCurrent(m) => m.state = "stopped"
      /\ m.state \in PlayState /\ m.random \in BOOLEAN
  BY DEF ServerOk, ServerType, HasCurrent
<1>2. CASE ~HasCurrent(m)
  BY <1>1, <1>2 DEF CurrentUri, CurrentId
<1>3. CASE HasCurrent(m)
  <2>1. m.current \in Positions(m)
    BY <1>3 DEF HasCurrent, ServerOk
  <2>2. m.queue[m.current + 1].uri \in Uri /\ m.queue[m.current + 1].id \in Id
    BY <2>1, EntryTyped
  <2>3. QED
    BY <1>1, <1>3, <2>2, ServerAssumption DEF CurrentUri, CurrentId
<1>4. QED
  BY <1>2, <1>3

\* A server with the same queue is well formed when its current entry is.
LEMMA SameQueueOk ==
  ASSUME NEW m, ServerOk(m),
         NEW n \in ServerType, n.queue = m.queue,
         n.current \in Positions(m) \cup {-1},
         n.current = -1 => n.state = "stopped"
  PROVE  ServerOk(n)
  BY DEF ServerOk, Positions

\* The fields of a well-formed server.
LEMMA ServerFields ==
  ASSUME NEW m, ServerOk(m)
  PROVE  /\ m \in ServerType
         /\ m.queue \in Seq(Entry) /\ Len(m.queue) \in Nat
         /\ m.current \in Positions(m) \cup {-1}
         /\ m.state \in PlayState /\ m.random \in BOOLEAN
         /\ m.heard \in SUBSET Id
         /\ m.current = -1 => m.state = "stopped"
         /\ Positions(m) \subseteq Nat
  BY DEF ServerOk, ServerType, Positions

\* A server of which the current entry, the state and the round are replaced.
Moved(m, current, state, heard) ==
  [m EXCEPT !.current = current, !.state = state, !.heard = heard]

LEMMA MovedTyped ==
  ASSUME NEW m \in ServerType, NEW current \in Int, NEW state \in PlayState,
         NEW heard \in SUBSET Id
  PROVE  LET n == Moved(m, current, state, heard)
         IN /\ n \in ServerType
            /\ n.queue = m.queue /\ n.random = m.random
            /\ n.current = current /\ n.state = state
<1> DEFINE m1 == [m EXCEPT !.current = current]
           m2 == [m1 EXCEPT !.state = state]
           m3 == [m2 EXCEPT !.heard = heard]
<1>1. /\ m1 \in ServerType /\ m1.queue = m.queue /\ m1.random = m.random
      /\ m1.current = current
  BY DEF ServerType
<1>2. /\ m2 \in ServerType /\ m2.queue = m.queue /\ m2.random = m.random
      /\ m2.current = current /\ m2.state = state
  <2> HIDE DEF m1
  <2> QED BY <1>1 DEF ServerType
<1>3. /\ m3 \in ServerType /\ m3.queue = m.queue /\ m3.random = m.random
      /\ m3.current = current /\ m3.state = state
  <2> HIDE DEF m2
  <2> QED BY <1>2 DEF ServerType
<1>4. Moved(m, current, state, heard) = m3
  BY DEF Moved
<1>5. QED
  BY <1>3, <1>4

\* Starting an entry that exists.
LEMMA PlayingAtOk ==
  ASSUME NEW m, ServerOk(m), NEW p \in Positions(m)
  PROVE  /\ ServerOk(PlayingAt(m, p)) /\ PlayingAt(m, p).queue = m.queue
         /\ PlayingAt(m, p).current = p
<1> DEFINE heard == IF m.random THEN m.heard \cup {m.queue[p + 1].id}
                                ELSE m.heard
<1>1. heard \in SUBSET Id
  BY EntryTyped, ServerFields
<1>2. m \in ServerType /\ p \in Int /\ p # -1 /\ "playing" \in PlayState
  BY ServerFields DEF PlayState
<1>3. PlayingAt(m, p) = Moved(m, p, "playing", heard)
  BY DEF PlayingAt, Moved
<1> HIDE DEF heard
<1>4. /\ PlayingAt(m, p) \in ServerType
      /\ PlayingAt(m, p).queue = m.queue
      /\ PlayingAt(m, p).current = p
  BY <1>1, <1>2, <1>3, MovedTyped
<1>5. QED
  BY <1>2, <1>4, SameQueueOk

\* Stopping at the end of the queue.
LEMMA FinishedOk ==
  ASSUME NEW m, ServerOk(m)
  PROVE  ServerOk(Finished(m)) /\ Finished(m).queue = m.queue
<1>1. m \in ServerType /\ "stopped" \in PlayState /\ -1 \in Int
  BY ServerFields DEF PlayState
<1>2. Finished(m) = Moved(m, -1, "stopped", {})
  BY DEF Finished, Moved
<1>3. /\ Finished(m) \in ServerType
      /\ Finished(m).queue = m.queue
      /\ Finished(m).current = -1
      /\ Finished(m).state = "stopped"
  BY <1>1, <1>2, MovedTyped
<1>4. QED
  BY <1>3, SameQueueOk

\* A server that plays or pauses has a queue, and what follows or precedes the
\* current entry is an entry of the same queue, or the end.
LEMMA FollowingOk ==
  ASSUME NEW m, ServerOk(m), m.state # "stopped", NEW n \in Following(m)
  PROVE  ServerOk(n) /\ n.queue = m.queue
<1> DEFINE anew == [m EXCEPT !.heard = {}]
<1>1. m.current \in Positions(m) /\ 0 \in Positions(m)
  BY DEF ServerOk, ServerType, Positions
<1>2. /\ anew \in ServerType /\ anew.queue = m.queue
      /\ anew.current = m.current /\ anew.state = m.state
  BY ServerFields DEF ServerType
<1>3. ServerOk(anew) /\ anew.queue = m.queue
  BY <1>2, SameQueueOk, ServerFields
<1>4. Positions(anew) = Positions(m)
  BY <1>3 DEF Positions
<1>5. \/ n = Finished(m)
      \/ \E p \in Positions(m) : n = PlayingAt(m, p)
      \/ \E p \in Positions(m) : n = PlayingAt(anew, p)
  BY <1>1 DEF Following, Unheard
<1> HIDE DEF anew
<1>6. QED
  BY <1>3, <1>4, <1>5, PlayingAtOk, FinishedOk

LEMMA PrecedingOk ==
  ASSUME NEW m, ServerOk(m), m.state # "stopped", NEW n \in Preceding(m)
  PROVE  ServerOk(n) /\ n.queue = m.queue
<1>1. m.current \in Positions(m) /\ 0 \in Positions(m)
      /\ Len(m.queue) - 1 \in Positions(m)
  BY DEF ServerOk, ServerType, Positions
<1>2. m.current > 0 => m.current - 1 \in Positions(m)
  BY <1>1 DEF Positions, ServerOk, ServerType
<1>3. \E p \in Positions(m) : n = PlayingAt(m, p)
  BY <1>1, <1>2 DEF Preceding, Unheard
<1>4. QED
  BY <1>3, PlayingAtOk

\* The commands that leave the queue alone.
LEMMA CommandOk ==
  ASSUME NEW m, ServerOk(m), NEW p \in Int, NEW on \in BOOLEAN,
         NEW n \in TrackEnd(m) \cup CmdNext(m) \cup CmdPrevious(m)
                   \cup CmdPlayPos(m, p) \cup CmdPlay(m) \cup CmdPause(m, on)
                   \cup CmdStop(m) \cup CmdRandom(m, on) \cup {m}
  PROVE  ServerOk(n) /\ n.queue = m.queue
<1>1. CASE n \in TrackEnd(m)
  BY <1>1, FollowingOk DEF TrackEnd
<1>2. CASE n \in CmdNext(m)
  BY <1>2, FollowingOk DEF CmdNext
<1>3. CASE n \in CmdPrevious(m)
  BY <1>3, PrecedingOk DEF CmdPrevious
<1>4. CASE n \in CmdPlayPos(m, p)
  BY <1>4, PlayingAtOk DEF CmdPlayPos
<1>5. CASE n \in CmdPlay(m)
  <2>1. n = m \/ \E q \in Positions(m) : n = PlayingAt(m, q)
    BY <1>5 DEF CmdPlay, Positions, HasCurrent, ServerOk, ServerType
  <2>2. QED
    BY <2>1, PlayingAtOk
<1>6. CASE n \in CmdPause(m, on)
  <2>1. PICK state \in PlayState :
          /\ n = [m EXCEPT !.state = state]
          /\ m.state = "stopped" => state = "stopped"
    BY <1>6 DEF CmdPause, PlayState
  <2>2. /\ n \in ServerType /\ n.queue = m.queue /\ n.current = m.current
        /\ n.state = state
    BY <2>1, ServerFields DEF ServerType
  <2>3. QED
    BY <2>1, <2>2, SameQueueOk, ServerFields
<1>7. CASE n \in CmdStop(m)
  <2>1. /\ n \in ServerType /\ n.queue = m.queue /\ n.current = m.current
        /\ n.state = "stopped"
    BY <1>7, ServerFields DEF CmdStop, ServerType, PlayState
  <2>2. QED
    BY <2>1, SameQueueOk, ServerFields
<1>8. CASE n \in CmdRandom(m, on)
  <2> DEFINE heard == IF on /\ HasCurrent(m) THEN {CurrentId(m)} ELSE {}
             m1 == [m EXCEPT !.random = on]
  <2>1. heard \in SUBSET Id
    BY CurrentTyped
  <2>2. n = [m1 EXCEPT !.heard = heard]
    BY <1>8 DEF CmdRandom
  <2>3. /\ m1 \in ServerType /\ m1.queue = m.queue /\ m1.current = m.current
        /\ m1.state = m.state
    BY ServerFields DEF ServerType
  <2> HIDE DEF heard, m1
  <2>4. /\ n \in ServerType /\ n.queue = m.queue /\ n.current = m.current
        /\ n.state = m.state
    BY <2>1, <2>2, <2>3 DEF ServerType
  <2>5. QED
    BY <2>4, SameQueueOk, ServerFields
<1>9. QED
  BY <1>1, <1>2, <1>3, <1>4, <1>5, <1>6, <1>7, <1>8

-----------------------------------------------------------------------------
(* Two servers and their current songs.                                    *)

\* Entries of m and n with one id are entries with one URI.
SameSongs(m, n) ==
  \A i \in 1..Len(m.queue), j \in 1..Len(n.queue) :
     m.queue[i].id = n.queue[j].id => m.queue[i].uri = n.queue[j].uri

\* The current id then determines the current URI.
LEMMA CurrentUriById ==
  ASSUME NEW m, ServerOk(m), NEW n, ServerOk(n), SameSongs(m, n),
         CurrentId(m) = CurrentId(n)
  PROVE  CurrentUri(m) = CurrentUri(n)
<1>1. HasCurrent(m) <=> HasCurrent(n)
  BY CurrentTyped
<1>2. CASE ~HasCurrent(m)
  BY <1>1, <1>2 DEF CurrentUri
<1>3. CASE HasCurrent(m)
  <2>1. m.current \in Positions(m) /\ n.current \in Positions(n)
    BY <1>1, <1>3, ServerFields DEF HasCurrent
  <2>2. m.current + 1 \in 1..Len(m.queue) /\ n.current + 1 \in 1..Len(n.queue)
    BY <2>1, EntryTyped
  <2>3. m.queue[m.current + 1].id = n.queue[n.current + 1].id
    BY <1>1, <1>3 DEF CurrentId
  <2>4. QED
    BY <1>1, <1>3, <2>2, <2>3 DEF SameSongs, CurrentUri
<1>4. QED
  BY <1>2, <1>3

LEMMA SameQueueSameSongs ==
  ASSUME NEW m, ServerOk(m), NEW n, n.queue = m.queue
  PROVE  SameSongs(m, n)
  BY DEF SameSongs, ServerOk

\* No player event between two servers with the same songs: the same song is
\* current.
LEMMA NoEventSameSong ==
  ASSUME NEW m, ServerOk(m), NEW n, ServerOk(n), SameSongs(m, n),
         "player" \notin Raised(m, n)
  PROVE  CurrentUri(m) = CurrentUri(n) /\ CurrentId(m) = CurrentId(n)
         /\ m.state = n.state
<1>1. CurrentId(m) = CurrentId(n) /\ m.state = n.state
  BY DEF Raised
<1>2. QED
  BY <1>1, CurrentUriById

\* Adding an entry.
LEMMA AddOk ==
  ASSUME NEW m, ServerOk(m), Len(m.queue) < MaxQueue, NEW u \in Uri,
         NEW used \in SUBSET (Id \cup {NoId}), NEW n \in CmdAdd(m, u, used)
  PROVE  ServerOk(n) /\ SameSongs(m, n)
<1>1. /\ m.queue \in Seq(Entry) /\ Len(m.queue) \in Nat
      /\ m \in ServerType
  BY ServerFields
<1>2. Ids(m) \subseteq Id
  <2>1. \A i \in 1..Len(m.queue) : m.queue[i] \in Entry
    BY <1>1
  <2>2. QED
    BY <2>1 DEF Ids, Entry
<1>3. PICK ids \in Fresh(1, used \cup Ids(m)) :
        n = [m EXCEPT !.queue = Append(m.queue, [uri |-> u, id |-> ids[1]])]
  BY DEF CmdAdd
<1>4. 1 \in 0..MaxQueue /\ used \cup Ids(m) \in SUBSET (Id \cup {NoId})
  BY <1>2, ServerAssumption
<1>5. ids[1] \in Id /\ ids[1] \notin Ids(m)
  BY <1>4, ServerAssumption DEF FreshOk
<1> DEFINE q == Append(m.queue, [uri |-> u, id |-> ids[1]])
<1>6. /\ q \in Seq(Entry) /\ Len(q) = Len(m.queue) + 1
      /\ \A i \in 1..Len(m.queue) : q[i] = m.queue[i]
      /\ q[Len(m.queue) + 1] = [uri |-> u, id |-> ids[1]]
  BY <1>1, <1>5 DEF Entry
<1>7. \A i \in 1..Len(m.queue) : m.queue[i].id # ids[1]
  BY <1>5 DEF Ids
<1> HIDE DEF q
<1>8. /\ n \in ServerType /\ n.queue = q /\ n.current = m.current
      /\ n.state = m.state
  BY <1>1, <1>3, <1>6 DEF ServerType, q
<1>9. \A i, j \in 1..Len(q) : q[i].id = q[j].id => i = j
  <2> SUFFICES ASSUME NEW i \in 1..Len(q), NEW j \in 1..Len(q),
                      q[i].id = q[j].id
               PROVE  i = j
    OBVIOUS
  <2>1. CASE i \in 1..Len(m.queue) /\ j \in 1..Len(m.queue)
    BY <1>6, <2>1 DEF ServerOk
  <2>2. CASE i = Len(m.queue) + 1 \/ j = Len(m.queue) + 1
    BY <1>1, <1>6, <1>7, <2>2
  <2>3. QED
    BY <1>1, <1>6, <2>1, <2>2
<1>10. m.current \in Positions(n) \cup {-1}
  <2>1. m.current \in Positions(m) \cup {-1}
    BY ServerFields
  <2>2. Positions(m) \subseteq Positions(n)
    BY <1>1, <1>6, <1>8 DEF Positions
  <2>3. QED
    BY <1>8, <2>1, <2>2
<1>11. ServerOk(n)
  <2>1. Len(n.queue) <= MaxQueue
    BY <1>1, <1>6, <1>8, ServerAssumption
  <2>2. n.current = -1 => n.state = "stopped"
    BY <1>8, ServerFields
  <2>3. QED
    BY <1>8, <1>9, <1>10, <2>1, <2>2 DEF ServerOk
<1>12. SameSongs(m, n)
  <2> SUFFICES ASSUME NEW i \in 1..Len(m.queue), NEW j \in 1..Len(q),
                      m.queue[i].id = q[j].id
               PROVE  m.queue[i].uri = q[j].uri
    BY <1>8 DEF SameSongs
  <2>1. i \in 1..Len(q) /\ q[i] = m.queue[i]
    BY <1>1, <1>6
  <2>2. QED
    BY <1>9, <2>1
<1>13. QED
  BY <1>11, <1>12

\* Deleting an entry.
LEMMA DeleteOk ==
  ASSUME NEW m, ServerOk(m), NEW p \in Positions(m), NEW n \in CmdDelete(m, p)
  PROVE  ServerOk(n) /\ SameSongs(m, n)
<1> DEFINE q == [i \in 1 .. Len(m.queue) - 1 |->
                   m.queue[IF i <= p THEN i ELSE i + 1]]
           heard == m.heard \ {m.queue[p + 1].id}
           rest == [m EXCEPT !.queue = q, !.heard = heard]
           from(i) == IF i <= p THEN i ELSE i + 1
<1>1. /\ m \in ServerType /\ m.queue \in Seq(Entry)
      /\ Len(m.queue) \in Nat /\ p \in Nat /\ p <= Len(m.queue) - 1
      /\ heard \in SUBSET Id
  BY ServerFields DEF Positions
<1>2. \A i \in 1..Len(m.queue) : m.queue[i] \in Entry
  BY <1>1
<1>3. /\ q \in Seq(Entry) /\ Len(q) = Len(m.queue) - 1
      /\ \A i \in 1..Len(q) : /\ from(i) \in 1..Len(m.queue)
                              /\ q[i] = m.queue[from(i)]
  <2>1. \A i \in 1..(Len(m.queue) - 1) : from(i) \in 1..Len(m.queue)
    BY <1>1
  <2>2. q \in [1..(Len(m.queue) - 1) -> Entry]
    BY <1>2, <2>1
  <2>3. Len(m.queue) - 1 \in Nat
    BY <1>1
  <2>4. q \in Seq(Entry) /\ Len(q) = Len(m.queue) - 1
    BY <2>2, <2>3
  <2>5. QED
    BY <2>1, <2>4
<1>4. \A i, j \in 1..Len(q) : from(i) = from(j) => i = j
  BY <1>1, <1>3
<1> HIDE DEF q, heard, from
<1>5. \A i, j \in 1..Len(q) : q[i].id = q[j].id => i = j
  <2> SUFFICES ASSUME NEW i \in 1..Len(q), NEW j \in 1..Len(q),
                      q[i].id = q[j].id
               PROVE  from(i) = from(j)
    BY <1>4
  <2>1. /\ from(i) \in 1..Len(m.queue) /\ from(j) \in 1..Len(m.queue)
        /\ m.queue[from(i)].id = m.queue[from(j)].id
    BY <1>3
  <2>2. QED
    BY <2>1 DEF ServerOk
<1>6. \A r : r.queue = q => SameSongs(m, r)
  BY <1>3 DEF SameSongs, ServerOk
<1>7. /\ rest \in ServerType /\ rest.queue = q /\ rest.current = m.current
      /\ rest.state = m.state
  <2>1. [m EXCEPT !.queue = q] \in ServerType
    BY <1>1, <1>3 DEF ServerType
  <2>2. QED
    BY <1>1, <1>3, <2>1 DEF ServerType
<1>8. ASSUME NEW r \in ServerType, r.queue = q,
             r.current \in 0 .. Len(q) - 1 \cup {-1},
             r.current = -1 => r.state = "stopped"
      PROVE  ServerOk(r) /\ SameSongs(m, r)
  <2>1. Len(r.queue) <= MaxQueue
    BY <1>1, <1>3, <1>8, ServerAssumption DEF ServerOk
  <2>2. r.current \in Positions(r) \cup {-1}
    BY <1>8 DEF Positions
  <2>3. QED
    BY <1>5, <1>6, <1>8, <2>1, <2>2 DEF ServerOk
<1>9. \/ p < m.current /\ n = [rest EXCEPT !.current = m.current - 1]
      \/ p > m.current /\ n = rest
      \/ p = m.current /\ p < Len(q) /\ n = PlayingAt(rest, p)
      \/ n = Finished(rest)
  <2>1. m.current \in Int /\ rest.current = m.current
    BY <1>1, <1>7 DEF ServerType
  <2>2. QED
    BY <1>1, <2>1 DEF CmdDelete, q, heard
<1> HIDE DEF rest
<1>10. m.current \in 0 .. Len(m.queue) - 1 \cup {-1}
  BY ServerFields DEF Positions
<1>11. CASE p < m.current /\ n = [rest EXCEPT !.current = m.current - 1]
  <2>1. m.current - 1 \in 0 .. Len(q) - 1
    BY <1>1, <1>3, <1>10, <1>11
  <2>2. n \in ServerType /\ n.queue = q /\ n.current = m.current - 1
    BY <1>7, <1>11, <2>1 DEF ServerType
  <2>3. QED
    BY <1>8, <2>1, <2>2
<1>12. CASE p > m.current /\ n = rest
  <2>1. rest.current \in 0 .. Len(q) - 1 \cup {-1}
    BY <1>1, <1>3, <1>7, <1>10, <1>12
  <2>2. QED
    BY <1>7, <1>8, <1>12, <2>1, ServerFields
<1>13. CASE p = m.current /\ p < Len(q) /\ n = PlayingAt(rest, p)
  <2>1. ServerOk(rest) /\ p \in Positions(rest)
    BY <1>1, <1>3, <1>7, <1>8, <1>13 DEF Positions
  <2>2. ServerOk(n) /\ n.queue = q
    BY <1>7, <1>13, <2>1, PlayingAtOk
  <2>3. QED
    BY <1>6, <2>2
<1>14. CASE n = Finished(rest)
  <2>1. n = Moved(rest, -1, "stopped", {})
    BY <1>14 DEF Finished, Moved
  <2>2. -1 \in Int /\ "stopped" \in PlayState /\ {} \in SUBSET Id
    BY DEF PlayState
  <2>3. n \in ServerType /\ n.queue = q /\ n.current = -1 /\ n.state = "stopped"
    BY <1>7, <2>1, <2>2, MovedTyped
  <2>4. QED
    BY <1>8, <2>3
<1>15. QED
  BY <1>9, <1>11, <1>12, <1>13, <1>14

\* A queue of new entries, with nothing current.
LEMMA RefilledOk ==
  ASSUME NEW m, ServerOk(m), NEW tracks \in Seq(Uri), Len(tracks) <= MaxQueue,
         NEW ids, \A i \in 1..Len(tracks) : ids[i] \in Id,
         \A i, j \in 1..Len(tracks) : ids[i] = ids[j] => i = j
  PROVE  /\ ServerOk(Refilled(m, tracks, ids))
         /\ ~HasCurrent(Refilled(m, tracks, ids))
<1> DEFINE n == Refilled(m, tracks, ids)
           q == [i \in 1..Len(tracks) |-> [uri |-> tracks[i], id |-> ids[i]]]
           m1 == [m EXCEPT !.queue = q]
<1>1. /\ m \in ServerType /\ "stopped" \in PlayState /\ -1 \in Int
      /\ Len(tracks) \in Nat
  BY ServerFields DEF PlayState
<1>2. q \in [1..Len(tracks) -> Entry]
  BY DEF Entry
<1>3. q \in Seq(Entry) /\ Len(q) = Len(tracks)
  BY <1>1, <1>2
<1>4. \A i, j \in 1..Len(q) : q[i].id = q[j].id => i = j
  BY <1>3
<1> HIDE DEF q
<1>5. m1 \in ServerType /\ m1.queue = q
  BY <1>1, <1>3 DEF ServerType
<1>6. n = Moved(m1, -1, "stopped", {})
  BY DEF Refilled, Moved, q
<1> HIDE DEF m1, n
<1>7. n \in ServerType /\ n.queue = q /\ n.current = -1 /\ n.state = "stopped"
  BY <1>1, <1>5, <1>6, MovedTyped
<1>8. ServerOk(n) /\ ~HasCurrent(n)
  BY <1>3, <1>4, <1>7 DEF ServerOk, HasCurrent
<1>9. QED
  BY <1>8 DEF n

-----------------------------------------------------------------------------
(* The session: what one sample makes of it.                               *)

\* ObservedNamesRow of a session and an observation.
RowOk(s, o) ==
  Valid(s) /\ o.id # NoId => Row(s.seq, s.occ) = o.uri

\* A track list is not empty and holds a URI in every row.
LEMMA ListTyped ==
  ASSUME NEW l \in Lists
  PROVE  /\ l \in Seq(Uri) /\ Len(l) \in 1..MaxQueue
         /\ \A i \in Rows(l) : i \in Nat /\ Row(l, i) \in Uri
<1>1. l \in Seq(Uri) /\ Len(l) \in 1..MaxQueue
  BY SessionAssumption
<1>2. QED
  BY <1>1 DEF Rows, Row

\* The fields of a session.
LEMMA SessionFields ==
  ASSUME NEW s \in Session
  PROVE  \/ s = NoSession /\ ~Valid(s)
         \/ /\ Valid(s) /\ s.context \in Contexts /\ s.seq \in Lists
            /\ s.occ \in Rows(s.seq)
            /\ s \in [context : Contexts, seq : Lists, occ : Nat]
  BY SessionAssumption DEF Session, NoSession, Valid

\* A lookup finds a row with the URI looked for, or none.
LEMMA LookupOk ==
  ASSUME NEW l \in Lists, NEW uri, NEW occurrence \in Nat
  PROVE  LET index == OccurrenceIndexIn(l, uri, occurrence)
         IN \/ index = -1
            \/ index \in Rows(l) /\ Row(l, index) = uri
<1> DEFINE rows == OccurrenceRows(l, uri, occurrence)
<1>1. \A i \in rows : i \in Rows(l) /\ Row(l, i) = uri
  BY DEF OccurrenceRows
<1> HIDE DEF rows
<1>2. OccurrenceIndexIn(l, uri, occurrence)
        = IF rows = {} THEN -1 ELSE CHOOSE i \in rows : TRUE
  BY DEF OccurrenceIndexIn, rows
<1>3. QED
  BY <1>1, <1>2

\* Resolving a song gives up the session, or moves it to a row of that song.
LEMMA ResolvedOk ==
  ASSUME NEW s \in Session, Valid(s), NEW uri
  PROVE  /\ Resolved(s, uri) \in Session
         /\ Valid(Resolved(s, uri)) =>
              Row(Resolved(s, uri).seq, Resolved(s, uri).occ) = uri
<1> DEFINE index == OccurrenceIndexIn(s.seq, uri, 0)
<1>1. /\ s.seq \in Lists
      /\ s \in [context : Contexts, seq : Lists, occ : Nat]
  BY SessionFields
<1>2. \/ index = -1
      \/ index \in Rows(s.seq) /\ Row(s.seq, index) = uri
  BY <1>1, LookupOk
<1> HIDE DEF index
<1>3. CASE index = -1
  BY <1>3 DEF Resolved, index, Session, Valid, NoSession
<1>4. CASE index \in Rows(s.seq) /\ Row(s.seq, index) = uri
  <2>1. index \in Nat
    BY <1>1, <1>4, ListTyped
  <2>2. Resolved(s, uri) = [s EXCEPT !.occ = index]
    BY <2>1 DEF Resolved, index
  <2>3. /\ Resolved(s, uri) \in [context : Contexts, seq : Lists, occ : Nat]
        /\ Resolved(s, uri).seq = s.seq /\ Resolved(s, uri).occ = index
    BY <1>1, <2>1, <2>2
  <2>4. QED
    BY <1>4, <2>3 DEF Session
<1>5. QED
  BY <1>2, <1>3, <1>4

\* One sample: the session and the observation agree, and a session that is
\* kept is on the song of the sample.
LEMMA SyncOk ==
  ASSUME NEW p \in PlayerSample, NEW s \in Session, NEW o \in Observed,
         RowOk(s, o), SyncPlaybackSession(p, s, o)
  PROVE  /\ session' \in Session /\ observed' \in Observed
         /\ RowOk(session', observed')
         /\ HasSong(p) /\ Valid(session')
              => Row(session'.seq, session'.occ) = p.uri
         /\ ~HasSong(p) /\ p.state = "stopped" => ~Valid(session')
<1>1. /\ NoSession \in Session /\ ~Valid(NoSession)
      /\ NotObserved \in Observed /\ NotObserved.id = NoId
      /\ Identity(p) \in Observed
      /\ Identity(p).uri = p.uri /\ Identity(p).id = p.id
  BY DEF Session, Valid, NoSession, NotObserved, Observed, Identity,
         PlayerSample
<1>2. CASE ~HasSong(p)
  BY <1>1, <1>2 DEF SyncPlaybackSession, RowOk
<1>3. CASE HasSong(p) /\ Identity(p) = o
  BY <1>1, <1>3 DEF SyncPlaybackSession, RowOk, HasSong
<1>4. CASE HasSong(p) /\ Identity(p) # o
  <2>1. /\ observed' = Identity(p)
        /\ session' = IF Valid(s) THEN Resolved(s, p.uri) ELSE s
    BY <1>4 DEF SyncPlaybackSession
  <2>2. CASE Valid(s)
    BY <1>1, <1>4, <2>1, <2>2, ResolvedOk DEF RowOk
  <2>3. CASE ~Valid(s)
    BY <1>1, <1>4, <2>1, <2>3 DEF RowOk
  <2>4. QED
    BY <2>2, <2>3
<1>5. QED
  BY <1>2, <1>3, <1>4

-----------------------------------------------------------------------------
(* Samples taken from the server keep the invariant.                       *)

LEMMA SampleTyped ==
  ASSUME NEW m, ServerOk(m), NEW n, ServerOk(n)
  PROVE  /\ Sample(m, n) \in PlayerSample
         /\ Sample(m, n).state = m.state
         /\ Sample(m, n).uri = CurrentUri(n)
         /\ Sample(m, n).id = CurrentId(m)
         /\ BrokenSamples(m) \subseteq PlayerSample
<1>1. /\ CurrentUri(n) \in Uri \cup {NoUri} /\ CurrentId(m) \in Id \cup {NoId}
      /\ CurrentUri(m) \in Uri \cup {NoUri}
      /\ m.state \in PlayState /\ m.random \in BOOLEAN
  BY CurrentTyped
<1>2. Sample(m, n) \in PlayerSample /\ Sample(m, m) \in PlayerSample
  BY <1>1 DEF Sample, PlayerSample
<1>3. [Sample(m, m) EXCEPT !.uri = NoUri] \in PlayerSample
  BY <1>2 DEF PlayerSample
<1>4. BlankPlayer \in PlayerSample
  BY DEF BlankPlayer, PlayerSample, PlayState
<1>5. QED
  BY <1>2, <1>3, <1>4 DEF BrokenSamples, Sample

LEMMA TrackEndOk ==
  ASSUME NEW m, ServerOk(m), NEW n \in {m} \cup TrackEnd(m)
  PROVE  ServerOk(n) /\ n.queue = m.queue
  BY FollowingOk DEF TrackEnd

\* A torn or whole sample: the session kept is on the current song, or a player
\* event of the change in between is waiting.
LEMMA SampleOk ==
  ASSUME NEW m, ServerOk(m), NEW n \in {m} \cup TrackEnd(m),
         NEW s \in Session, NEW o \in Observed, RowOk(s, o),
         SyncPlaybackSession(Sample(m, n), s, o)
  PROVE  /\ session' \in Session /\ observed' \in Observed
         /\ RowOk(session', observed')
         /\ "player" \notin Raised(m, n) /\ Valid(session')
              => Row(session'.seq, session'.occ) = CurrentUri(n)
<1> DEFINE p == Sample(m, n)
<1>1. ServerOk(n) /\ SameSongs(m, n)
  BY TrackEndOk, SameQueueSameSongs
<1>2. /\ p \in PlayerSample /\ p.state = m.state /\ p.uri = CurrentUri(n)
      /\ p.id = CurrentId(m)
  BY <1>1, SampleTyped
<1> HIDE DEF p
<1>3. /\ session' \in Session /\ observed' \in Observed
      /\ RowOk(session', observed')
      /\ HasSong(p) /\ Valid(session')
           => Row(session'.seq, session'.occ) = p.uri
      /\ ~HasSong(p) /\ p.state = "stopped" => ~Valid(session')
  BY <1>2, SyncOk DEF p
<1>4. ASSUME "player" \notin Raised(m, n), Valid(session')
      PROVE  Row(session'.seq, session'.occ) = CurrentUri(n)
  <2>1. CurrentId(m) = CurrentId(n)
    BY <1>1, <1>4, NoEventSameSong
  <2>2. CASE HasSong(p)
    BY <1>2, <1>3, <1>4, <2>2
  <2>3. CASE ~HasSong(p)
    <3>1. ~HasCurrent(m)
      BY <1>1, <1>2, <2>1, <2>3, CurrentTyped DEF HasSong
    <3>2. p.state = "stopped"
      BY <1>2, <3>1, CurrentTyped
    <3>3. QED
      BY <1>3, <1>4, <2>3, <3>2
  <2>4. QED
    BY <2>2, <2>3
<1>5. QED
  BY <1>3, <1>4

\* refreshPlayer(), from any server the handler has led to.
LEMMA RefreshPlayerOk ==
  ASSUME NEW m, ServerOk(m), NEW s \in Session, NEW o \in Observed,
         RowOk(s, o), NEW events \in SUBSET Event,
         RefreshPlayer(m, s, o, events)
  PROVE  SessionInv'
<1>1. CASE \E n \in {m} \cup TrackEnd(m) :
             /\ link' = "up"
             /\ mpd' = n
             /\ player' = Sample(m, n)
             /\ SyncPlaybackSession(Sample(m, n), s, o)
             /\ pending' = events \cup Raised(mpd, m) \cup Raised(m, n)
             /\ mpd_connected' = TRUE
  <2>1. PICK n \in {m} \cup TrackEnd(m) :
             /\ link' = "up"
             /\ mpd' = n
             /\ player' = Sample(m, n)
             /\ SyncPlaybackSession(Sample(m, n), s, o)
             /\ pending' = events \cup Raised(mpd, m) \cup Raised(m, n)
             /\ mpd_connected' = TRUE
    BY <1>1
  <2>2. ServerOk(n) /\ player' \in PlayerSample
    BY <2>1, TrackEndOk, SampleTyped
  <2>3. /\ session' \in Session /\ observed' \in Observed
        /\ RowOk(session', observed')
        /\ "player" \notin Raised(m, n) /\ Valid(session')
             => Row(session'.seq, session'.occ) = CurrentUri(n)
    BY <2>1, SampleOk
  <2>4. pending' \in SUBSET Event
    BY <2>1 DEF Raised, Event
  <2>5. TypeOK'
    BY <2>1, <2>2, <2>3, <2>4 DEF TypeOK, Link
  <2>6. MarkerTruth'
    BY <2>1, <2>3 DEF MarkerTruth
  <2>7. ObservedNamesRow'
    BY <2>3 DEF ObservedNamesRow, RowOk
  <2>8. QED
    BY <2>5, <2>6, <2>7 DEF SessionInv
<1>2. CASE \E p \in BrokenSamples(m) :
             /\ LinkMayBreak
             /\ link' = "down"
             /\ mpd' = m
             /\ player' = p
             /\ SyncPlaybackSession(p, s, o)
             /\ pending' = events
             /\ mpd_connected' = FALSE
  <2>1. PICK p \in BrokenSamples(m) :
             /\ link' = "down"
             /\ mpd' = m
             /\ player' = p
             /\ SyncPlaybackSession(p, s, o)
             /\ pending' = events
             /\ mpd_connected' = FALSE
    BY <1>2
  <2>2. p \in PlayerSample
    BY SampleTyped
  <2>3. /\ session' \in Session /\ observed' \in Observed
        /\ RowOk(session', observed')
    BY <2>1, <2>2, SyncOk
  <2>4. QED
    BY <2>1, <2>2, <2>3
    DEF SessionInv, TypeOK, Link, MarkerTruth, Connected, ObservedNamesRow,
        RowOk
<1>3. QED
  BY <1>1, <1>2 DEF RefreshPlayer

\* A handler that ends with the connection gone has only types to keep.
LEMMA DisconnectedOk ==
  ASSUME ServerOk(mpd)', link' \in {"deaf", "down"}, pending' \in SUBSET Event,
         mpd_connected' \in BOOLEAN, player' \in PlayerSample,
         session' \in Session, observed' \in Observed,
         RowOk(session', observed')
  PROVE  SessionInv'
  BY DEF SessionInv, TypeOK, Link, MarkerTruth, Connected, ObservedNamesRow,
         RowOk

\* The two orders of player and queue.
LEMMA RefreshBothOk ==
  ASSUME NEW m, ServerOk(m), NEW s \in Session, NEW o \in Observed,
         RowOk(s, o), NEW events \in SUBSET Event, player \in PlayerSample,
         \/ RefreshQueueAndPlayer(m, s, o, events)
         \/ RefreshPlayerAndQueue(m, s, o, events)
  PROVE  SessionInv'
<1>1. CASE RefreshPlayer(m, s, o, events)
  BY <1>1, RefreshPlayerOk
<1>2. CASE /\ link' = "down" /\ mpd' = m /\ pending' = events
           /\ mpd_connected' = FALSE /\ session' = s /\ observed' = o
           /\ UNCHANGED player
  BY <1>2, DisconnectedOk
<1>3. CASE \E n \in {m} \cup TrackEnd(m) :
             /\ link' = "down" /\ mpd' = n /\ player' = Sample(m, n)
             /\ SyncPlaybackSession(Sample(m, n), s, o)
             /\ pending' = events /\ mpd_connected' = FALSE
  <2>1. PICK n \in {m} \cup TrackEnd(m) :
             /\ link' = "down" /\ mpd' = n /\ player' = Sample(m, n)
             /\ SyncPlaybackSession(Sample(m, n), s, o)
             /\ pending' = events /\ mpd_connected' = FALSE
    BY <1>3
  <2>2. ServerOk(n) /\ player' \in PlayerSample
    BY <2>1, TrackEndOk, SampleTyped
  <2>3. /\ session' \in Session /\ observed' \in Observed
        /\ RowOk(session', observed')
    BY <2>1, SampleOk
  <2>4. QED
    BY <2>1, <2>2, <2>3, DisconnectedOk
<1>4. QED
  BY <1>1, <1>2, <1>3 DEF RefreshQueueAndPlayer, RefreshPlayerAndQueue

-----------------------------------------------------------------------------
(* One lemma per kind of handler.                                          *)

LEMMA InvFields ==
  ASSUME SessionInv
  PROVE  /\ ServerOk(mpd) /\ link \in Link /\ pending \in SUBSET Event
         /\ mpd_connected \in BOOLEAN /\ player \in PlayerSample
         /\ session \in Session /\ observed \in Observed
         /\ RowOk(session, observed)
  BY DEF SessionInv, TypeOK, ObservedNamesRow, RowOk

\* Nothing but mpd_connected changes.
LEMMA FlagOk ==
  ASSUME SessionInv, mpd_connected' \in BOOLEAN,
         UNCHANGED <<mpd, link, pending, player, session, observed>>
  PROVE  SessionInv'
  BY DEF SessionInv, TypeOK, MarkerTruth, Connected, ObservedNamesRow

LEMMA AnsweredDeafOk ==
  ASSUME SessionInv, NEW cmd, \A m \in cmd : ServerOk(m),
         NEW s \in Session, NEW o \in Observed, RowOk(s, o),
         AnsweredDeaf(cmd, s, o)
  PROVE  SessionInv'
<1>1. /\ ServerOk(mpd)' /\ link' = "deaf" /\ pending' = pending
      /\ mpd_connected' = TRUE /\ player' = player
      /\ session' = s /\ observed' = o
  BY DEF AnsweredDeaf
<1>2. QED
  BY <1>1, InvFields, DisconnectedOk

LEMMA CommandLostOk ==
  ASSUME SessionInv, NEW cmd, \A m \in cmd : ServerOk(m), CommandLost(cmd)
  PROVE  SessionInv'
<1>1. /\ ServerOk(mpd)' /\ link' = "down" /\ pending' = pending
      /\ mpd_connected' = FALSE /\ player' = player
      /\ session' = session /\ observed' = observed
  BY InvFields DEF CommandLost
<1>2. QED
  BY <1>1, InvFields, DisconnectedOk

LEMMA CommandThenRefreshOk ==
  ASSUME SessionInv, NEW cmd, \A m \in cmd : ServerOk(m),
         CommandThenRefresh(cmd)
  PROVE  SessionInv'
<1>1. CASE \E m \in cmd \cup {mpd} :
             RefreshPlayer(m, session, observed, pending)
  BY <1>1, InvFields, RefreshPlayerOk
<1>2. CASE AnsweredDeaf(cmd, session, observed)
  BY <1>2, InvFields, AnsweredDeafOk
<1>3. CASE RefusedDeaf
  BY <1>3, FlagOk DEF RefusedDeaf
<1>4. CASE CommandLost(cmd)
  BY <1>4, CommandLostOk
<1>5. QED
  BY <1>1, <1>2, <1>3, <1>4 DEF CommandThenRefresh

LEMMA CommandThenRefreshIfDoneOk ==
  ASSUME SessionInv, NEW cmd, \A m \in cmd : ServerOk(m),
         NEW s \in Session, NEW o \in Observed, RowOk(s, o),
         CommandThenRefreshIfDone(cmd, s, o)
  PROVE  SessionInv'
<1>1. CASE \E m \in cmd : RefreshPlayer(m, s, o, pending)
  BY <1>1, InvFields, RefreshPlayerOk
<1>2. CASE /\ mpd_connected' = TRUE
           /\ UNCHANGED <<mpd, link, pending, player, session, observed>>
  BY <1>2, FlagOk
<1>3. CASE AnsweredDeaf(cmd, s, o)
  BY <1>3, AnsweredDeafOk
<1>4. CASE RefusedDeaf
  BY <1>4, FlagOk DEF RefusedDeaf
<1>5. CASE CommandLost(cmd)
  BY <1>5, CommandLostOk
<1>6. QED
  BY <1>1, <1>2, <1>3, <1>4, <1>5 DEF CommandThenRefreshIfDone

\* Next and Previous.
LEMMA StepOk ==
  ASSUME SessionInv, NEW delta \in {1, -1}, StepContext(delta)
  PROVE  SessionInv'
<1>1. CASE StepByMpd(delta)
  <2>1. \A m \in CmdNext(mpd) \cup CmdPrevious(mpd) : ServerOk(m)
    BY InvFields, FollowingOk, PrecedingOk DEF CmdNext, CmdPrevious
  <2>2. QED
    BY <1>1, <2>1, CommandThenRefreshOk DEF StepByMpd
<1>2. CASE Valid(session) /\ StepInSnapshot(delta)
  <2> DEFINE to == StepTarget(session, delta)
             s == SteppedTo(session, to)
             o == [uri |-> Row(session.seq, to), id |-> NoId]
  <2>1. /\ session.seq \in Lists /\ session.occ \in Rows(session.seq)
        /\ session \in [context : Contexts, seq : Lists, occ : Nat]
    BY <1>2, InvFields, SessionFields
  <2>2. /\ Len(session.seq) \in Nat \ {0} /\ session.occ \in Nat
    BY <2>1, ListTyped, SessionAssumption
  <2>3. to \in 0 .. Len(session.seq) - 1
    BY <2>2 DEF StepTarget
  <2>4. to \in Rows(session.seq) /\ to \in Nat
    BY <2>3 DEF Rows
  <2> HIDE DEF to
  <2>5. s \in Session
    BY <2>1, <2>4 DEF SteppedTo, Session
  <2>6. o \in Observed /\ RowOk(s, o)
    BY <2>1, <2>4, ListTyped DEF Observed, RowOk
  <2>7. \A m \in CmdPlayPos(mpd, to) : ServerOk(m)
    BY InvFields, PlayingAtOk DEF CmdPlayPos
  <2>8. CommandThenRefreshIfDone(CmdPlayPos(mpd, to), s, o)
    BY <1>2 DEF StepInSnapshot, to
  <2> HIDE DEF s, o
  <2>9. QED
    BY <2>5, <2>6, <2>7, <2>8, CommandThenRefreshIfDoneOk
<1>3. QED
  BY <1>1, <1>2 DEF StepContext

\* Space, shuffle, seek, volume and repeat.
LEMMA ToggleOk ==
  ASSUME SessionInv, TogglePlay \/ ToggleShuffle \/ SeekVolumeRepeat
  PROVE  SessionInv'
<1>1. \A n : \/ \E on \in BOOLEAN :
                  n \in CmdPause(mpd, on) \cup CmdRandom(mpd, on)
             \/ n \in CmdPlay(mpd)
             => ServerOk(n)
  <2>1. 0 \in Int /\ TRUE \in BOOLEAN
    OBVIOUS
  <2>2. QED
    BY <2>1, InvFields, CommandOk
<1>2. CASE TogglePlay
  <2> DEFINE cmd == CASE player.state = "playing" -> CmdPause(mpd, TRUE)
                      [] player.state = "paused"  -> CmdPause(mpd, FALSE)
                      [] player.state = "stopped" -> CmdPlay(mpd)
  <2>1. player.state \in PlayState
    BY InvFields DEF PlayerSample
  <2>2. \A n \in cmd : ServerOk(n)
    BY <1>1, <2>1 DEF PlayState
  <2>3. CommandThenRefreshIfDone(cmd, session, observed)
    BY <1>2 DEF TogglePlay
  <2> HIDE DEF cmd
  <2>4. QED
    BY <2>2, <2>3, InvFields, CommandThenRefreshIfDoneOk
<1>3. CASE ToggleShuffle
  <2>1. (~player.random) \in BOOLEAN
    BY InvFields DEF PlayerSample
  <2>2. \A n \in CmdRandom(mpd, ~player.random) : ServerOk(n)
    BY <1>1, <2>1
  <2>3. QED
    BY <1>3, <2>2, CommandThenRefreshOk DEF ToggleShuffle
<1>4. CASE SeekVolumeRepeat
  BY <1>4, InvFields, CommandThenRefreshOk DEF SeekVolumeRepeat
<1>5. QED
  BY <1>2, <1>3, <1>4

\* What playSequence leaves on the server.
LEMMA LoadedOk ==
  ASSUME SessionInv, NEW tracks \in Lists, NEW k \in 0..Len(tracks),
         NEW m \in Loaded(tracks, k)
  PROVE  ServerOk(m) /\ ~HasCurrent(m)
<1> DEFINE used == {observed.id, player.id}
<1>1. /\ tracks \in Seq(Uri) /\ Len(tracks) \in 1..MaxQueue
      /\ Len(tracks) \in Nat /\ MaxQueue \in Nat /\ k \in Nat
      /\ Len(tracks) \in 0..MaxQueue
  BY ListTyped, ServerAssumption
<1>2. used \in SUBSET (Id \cup {NoId})
  BY InvFields DEF Observed, PlayerSample
<1>3. /\ SubSeq(tracks, 1, k) \in Seq(Uri)
      /\ Len(SubSeq(tracks, 1, k)) = k
  <2>1. \A i \in 1..k : i \in 1..Len(tracks)
    BY <1>1
  <2>2. QED
    BY <1>1, <2>1
<1>4. PICK ids \in Fresh(Len(tracks), used) :
        m = Refilled(mpd, SubSeq(tracks, 1, k), ids)
  BY DEF Loaded
<1> HIDE DEF used
<1>5. /\ ids \in [1..Len(tracks) -> Id \ used]
      /\ \A i, j \in 1..Len(tracks) : ids[i] = ids[j] => i = j
  BY <1>1, <1>2, ServerAssumption DEF FreshOk
<1>6. /\ \A i \in 1..k : ids[i] \in Id
      /\ \A i, j \in 1..k : ids[i] = ids[j] => i = j
  BY <1>1, <1>5
<1>7. k <= MaxQueue
  BY <1>1
<1>8. QED
  BY <1>3, <1>4, <1>6, <1>7, InvFields, RefilledOk

LEMMA StartedOk ==
  ASSUME SessionInv, NEW tracks \in Lists, NEW start \in Rows(tracks),
         NEW m \in Started(tracks, start)
  PROVE  ServerOk(m)
<1>1. Len(tracks) \in 0..Len(tracks)
  BY ListTyped, ServerAssumption
<1>2. PICK l \in Loaded(tracks, Len(tracks)) : m \in CmdPlayPos(l, start)
  BY DEF Started
<1>3. QED
  BY <1>1, <1>2, LoadedOk, PlayingAtOk DEF CmdPlayPos

\* Starting a run.
LEMMA PlayTrackAtOk ==
  ASSUME SessionInv, NEW tracks \in Lists, NEW start \in Rows(tracks),
         NEW context \in Contexts, PlayTrackAt(tracks, start, context)
  PROVE  SessionInv'
<1> DEFINE new  == NewSession(tracks, start, context)
           seen == [uri |-> Row(tracks, start), id |-> NoId]
<1>1. new \in Session /\ seen \in Observed /\ RowOk(new, seen)
  BY ListTyped DEF NewSession, Session, Observed, RowOk
<1>2. \A m \in HalfLoaded(tracks) : ServerOk(m) /\ ~HasCurrent(m)
  BY LoadedOk DEF HalfLoaded
<1>3. CASE \E m \in Started(tracks, start) :
             RefreshQueueAndPlayer(m, new, seen, pending)
  <2> HIDE DEF new, seen
  <2>1. QED
    BY <1>1, <1>3, StartedOk, InvFields, RefreshBothOk
<1>4. CASE /\ mpd' \in HalfLoaded(tracks)
           /\ pending' = pending \cup Raised(mpd, mpd')
           /\ mpd_connected' = TRUE
           /\ UNCHANGED <<link, player, session, observed>>
  <2>1. ServerOk(mpd') /\ ~HasCurrent(mpd')
    BY <1>2, <1>4
  <2>2. CurrentId(mpd') = NoId /\ CurrentUri(mpd') = NoUri
    BY <2>1 DEF CurrentId, CurrentUri
  <2>3. "player" \notin Raised(mpd, mpd') => CurrentUri(mpd) = CurrentUri(mpd')
    <3>1. SUFFICES ASSUME "player" \notin Raised(mpd, mpd')
                   PROVE  CurrentUri(mpd) = NoUri
      BY <2>2
    <3>2. CurrentId(mpd) = NoId
      BY <2>2, <3>1 DEF Raised
    <3>3. QED
      BY <3>2, InvFields, CurrentTyped
  <2>4. pending' \in SUBSET Event
    BY <1>4, InvFields DEF Raised, Event
  <2>5. TypeOK' /\ ObservedNamesRow'
    BY <1>4, <2>1, <2>4 DEF SessionInv, TypeOK, ObservedNamesRow
  <2>6. MarkerTruth'
    BY <1>4, <2>3 DEF SessionInv, MarkerTruth, Connected
  <2>7. QED
    BY <2>5, <2>6 DEF SessionInv
<1>5. CASE CommandLost(HalfLoaded(tracks) \cup Started(tracks, start))
  BY <1>2, <1>5, StartedOk, CommandLostOk
<1>6. QED
  BY <1>3, <1>4, <1>5 DEF PlayTrackAt

\* Backend events, timers and reconnecting.
LEMMA BackendOk ==
  ASSUME SessionInv,
         \/ \E events \in SUBSET pending : HandleBackendEvent(events)
         \/ NoticeDisconnect
         \/ Reconnect
  PROVE  SessionInv'
<1>1. ASSUME NEW events \in SUBSET pending, HandleBackendEvent(events)
      PROVE  SessionInv'
  <2>1. pending \ events \in SUBSET Event
    BY InvFields
  <2>2. CASE RefreshPlayerAndQueue(mpd, session, observed, pending \ events)
    BY <2>1, <2>2, InvFields, RefreshBothOk
  <2>3. CASE RefreshPlayer(mpd, session, observed, pending \ events)
    BY <2>1, <2>3, InvFields, RefreshPlayerOk
  <2>4. CASE AsksQueue(events) /\ ~AsksPlayer(events)
             /\ RefreshQueue(pending \ events)
    <3>1. "player" \notin pending' => "player" \notin pending
      BY <2>4 DEF AsksPlayer, RefreshQueue
    <3>2. /\ link' = link \/ link' = "down"
          /\ pending' \in SUBSET Event /\ mpd_connected' \in BOOLEAN
          /\ UNCHANGED <<mpd, player, session, observed>>
      BY <2>1, <2>4 DEF RefreshQueue
    <3>3. QED
      BY <3>1, <3>2 DEF SessionInv, TypeOK, Link, MarkerTruth, Connected,
                        ObservedNamesRow
  <2>5. CASE /\ ~Connected
             /\ pending' = pending \ events
             /\ mpd_connected' = FALSE
             /\ UNCHANGED <<mpd, link, player, session, observed>>
    <3>1. link' \in {"deaf", "down"}
      BY <2>5, InvFields DEF Connected, Link
    <3>2. QED
      BY <2>1, <2>5, <3>1, InvFields, DisconnectedOk
  <2>6. QED
    BY <1>1, <2>2, <2>3, <2>4, <2>5 DEF HandleBackendEvent
<1>2. CASE NoticeDisconnect
  BY <1>2, FlagOk DEF NoticeDisconnect
<1>3. BlankPlayer \in PlayerSample
  BY DEF BlankPlayer, PlayerSample, PlayState
<1>4. CASE ProbeFailed
  BY <1>3, <1>4 DEF ProbeFailed, SessionInv, TypeOK, MarkerTruth, Connected,
                    ObservedNamesRow
<1>5. CASE ConnectFailed
  BY <1>3, <1>5, InvFields, DisconnectedOk DEF ConnectFailed
<1>6. CASE ConnectSucceeded
  BY <1>6, InvFields, RefreshBothOk DEF ConnectSucceeded
<1>7. QED
  BY <1>1, <1>2, <1>4, <1>5, <1>6 DEF Reconnect

\* A step of MPD between two handlers.
MovedOn ==
  /\ ServerOk(mpd') /\ SameSongs(mpd, mpd')
  /\ pending' = IF Connected THEN pending \cup Raised(mpd, mpd') ELSE pending
  /\ UNCHANGED <<link, mpd_connected, player, session, observed>>

\* The server moves on its own: the same song stays current, or an event waits.
LEMMA ServerMovesOk ==
  ASSUME SessionInv, NEW next,
         \A n \in next : ServerOk(n) /\ SameSongs(mpd, n),
         ServerMoves(next)
  PROVE  SessionInv' /\ MovedOn
<1>1. /\ ServerOk(mpd') /\ SameSongs(mpd, mpd')
      /\ pending' = IF Connected THEN pending \cup Raised(mpd, mpd')
                                 ELSE pending
      /\ UNCHANGED <<link, mpd_connected, player, session, observed>>
  BY DEF ServerMoves
<1>2. pending' \in SUBSET Event
  BY <1>1, InvFields DEF Raised, Event
<1>3. TypeOK' /\ ObservedNamesRow'
  BY <1>1, <1>2 DEF SessionInv, TypeOK, ObservedNamesRow
<1>4. "player" \notin Raised(mpd, mpd') => CurrentUri(mpd) = CurrentUri(mpd')
  BY <1>1, InvFields, NoEventSameSong
<1>5. MarkerTruth'
  BY <1>1, <1>4 DEF SessionInv, MarkerTruth, Connected
<1>6. QED
  BY <1>1, <1>3, <1>5 DEF SessionInv, MovedOn

\* Tracks that end, and other clients.
LEMMA OutsideOk ==
  ASSUME SessionInv, TrackEnds \/ OtherClient
  PROVE  SessionInv' /\ MovedOn
<1>1. \A n : ServerOk(n) /\ n.queue = mpd.queue
               => ServerOk(n) /\ SameSongs(mpd, n)
  BY InvFields, SameQueueSameSongs
<1>2. CASE TrackEnds
  <2>1. \A n \in TrackEnd(mpd) : ServerOk(n) /\ SameSongs(mpd, n)
    BY <1>1, InvFields, FollowingOk DEF TrackEnd
  <2>2. QED
    BY <1>2, <2>1, ServerMovesOk DEF TrackEnds
<1>3. CASE ClientPlays
  <2>1. PICK p \in Positions(mpd) : ServerMoves(CmdPlayPos(mpd, p))
    BY <1>3 DEF ClientPlays
  <2>2. \A n \in CmdPlayPos(mpd, p) : ServerOk(n) /\ SameSongs(mpd, n)
    BY <1>1, InvFields, PlayingAtOk DEF CmdPlayPos
  <2>3. QED
    BY <2>1, <2>2, ServerMovesOk
<1>4. CASE ClientPauses
  <2>1. PICK on \in BOOLEAN : ServerMoves(CmdPause(mpd, on))
    BY <1>4 DEF ClientPauses
  <2>2. \A n \in CmdPause(mpd, on) : ServerOk(n) /\ SameSongs(mpd, n)
    <3>1. 0 \in Int
      OBVIOUS
    <3>2. QED
      BY <1>1, <3>1, InvFields, CommandOk
  <2>3. QED
    BY <2>1, <2>2, ServerMovesOk
<1>5. CASE ClientStops
  <2>1. \A n \in CmdStop(mpd) : ServerOk(n) /\ SameSongs(mpd, n)
    <3>1. 0 \in Int /\ TRUE \in BOOLEAN
      OBVIOUS
    <3>2. QED
      BY <1>1, <3>1, InvFields, CommandOk
  <2>2. QED
    BY <1>5, <2>1, ServerMovesOk DEF ClientStops
<1>6. CASE ClientDeletes
  <2>1. PICK p \in Positions(mpd) : ServerMoves(CmdDelete(mpd, p))
    BY <1>6 DEF ClientDeletes
  <2>2. \A n \in CmdDelete(mpd, p) : ServerOk(n) /\ SameSongs(mpd, n)
    BY InvFields, DeleteOk
  <2>3. QED
    BY <2>1, <2>2, ServerMovesOk
<1>7. CASE ClientShuffles
  <2>1. (~mpd.random) \in BOOLEAN /\ 0 \in Int
    BY InvFields, ServerFields
  <2>2. \A n \in CmdRandom(mpd, ~mpd.random) : ServerOk(n) /\ SameSongs(mpd, n)
    BY <1>1, <2>1, InvFields, CommandOk
  <2>3. QED
    BY <1>7, <2>2, ServerMovesOk DEF ClientShuffles
<1>8. CASE ClientAdds
  <2> DEFINE used == {observed.id, player.id}
  <2>1. used \in SUBSET (Id \cup {NoId})
    BY InvFields DEF Observed, PlayerSample
  <2>2. PICK u \in Uri : ServerMoves(CmdAdd(mpd, u, used))
    BY <1>8 DEF ClientAdds
  <2>3. Len(mpd.queue) < MaxQueue
    BY <1>8 DEF ClientAdds
  <2> HIDE DEF used
  <2>4. \A n \in CmdAdd(mpd, u, used) : ServerOk(n) /\ SameSongs(mpd, n)
    BY <2>1, <2>3, InvFields, AddOk
  <2>5. QED
    BY <2>2, <2>4, ServerMovesOk
<1>9. QED
  BY <1>2, <1>3, <1>4, <1>5, <1>6, <1>7, <1>8 DEF OtherClient

\* A renumbered queue.
LEMMA RestartOk ==
  ASSUME SessionInv, LinkBreaks \/ ServerRestarts
  PROVE  SessionInv'
<1>1. CASE LinkBreaks
  <2>1. link' \in {"deaf", "down"}
    BY <1>1 DEF LinkBreaks
  <2>2. QED
    BY <1>1, <2>1, InvFields, DisconnectedOk DEF LinkBreaks
<1>2. CASE ServerRestarts
  <2> DEFINE q(ids) == [i \in 1..Len(mpd.queue) |->
                          [mpd.queue[i] EXCEPT !.id = ids[i]]]
  <2>1. PICK ids \in Fresh(Len(mpd.queue), {}) :
          mpd' = [mpd EXCEPT !.queue = q(ids), !.state = "stopped",
                             !.heard = {}]
    BY <1>2 DEF ServerRestarts
  <2>2. /\ mpd \in ServerType /\ Len(mpd.queue) \in Nat
        /\ Len(mpd.queue) \in 0..MaxQueue
        /\ mpd.queue \in Seq(Entry)
    BY InvFields, ServerFields, ServerAssumption DEF ServerOk
  <2>3. /\ ids \in [1..Len(mpd.queue) -> Id \ {}]
        /\ \A i, j \in 1..Len(mpd.queue) : ids[i] = ids[j] => i = j
    BY <2>2, ServerAssumption DEF FreshOk
  <2>4. \A i \in 1..Len(mpd.queue) :
          /\ [mpd.queue[i] EXCEPT !.id = ids[i]] \in Entry
          /\ [mpd.queue[i] EXCEPT !.id = ids[i]].id = ids[i]
    <3>1. \A i \in 1..Len(mpd.queue) : mpd.queue[i] \in Entry /\ ids[i] \in Id
      BY <2>2, <2>3
    <3>2. QED
      BY <3>1 DEF Entry
  <2>5. q(ids) \in [1..Len(mpd.queue) -> Entry]
    BY <2>4
  <2>6. q(ids) \in Seq(Entry) /\ Len(q(ids)) = Len(mpd.queue)
    BY <2>2, <2>5
  <2>7. \A i, j \in 1..Len(q(ids)) : q(ids)[i].id = q(ids)[j].id => i = j
    BY <2>3, <2>4, <2>6
  <2> DEFINE m1 == [mpd EXCEPT !.queue = q(ids)]
  <2> HIDE DEF q
  <2>8. m1 \in ServerType /\ m1.queue = q(ids) /\ m1.current = mpd.current
    BY <2>2, <2>6 DEF ServerType
  <2>9. mpd' = [m1 EXCEPT !.state = "stopped", !.heard = {}]
    BY <2>1
  <2> HIDE DEF m1
  <2>10. /\ mpd' \in ServerType /\ mpd'.queue = q(ids)
         /\ mpd'.current = mpd.current /\ mpd'.state = "stopped"
    <3> DEFINE m2 == [m1 EXCEPT !.state = "stopped"]
    <3>1. /\ m2 \in ServerType /\ m2.queue = q(ids)
          /\ m2.current = mpd.current /\ m2.state = "stopped"
      BY <2>8 DEF ServerType, PlayState
    <3>2. mpd' = [m2 EXCEPT !.heard = {}]
      BY <2>9
    <3> HIDE DEF m2
    <3>3. QED
      BY <3>1, <3>2 DEF ServerType
  <2>11. mpd.current \in Positions(mpd') \cup {-1}
    BY <2>6, <2>10, InvFields, ServerFields DEF Positions
  <2>12. Len(mpd'.queue) <= MaxQueue
    BY <2>2, <2>6, <2>10, ServerAssumption
  <2>13. ServerOk(mpd')
    BY <2>7, <2>10, <2>11, <2>12 DEF ServerOk
  <2>14. QED
    BY <1>2, <2>13, InvFields, DisconnectedOk DEF ServerRestarts
<1>3. QED
  BY <1>1, <1>2

-----------------------------------------------------------------------------
(* The theorems.                                                           *)

LEMMA InitInv == Init => SessionInv
<1>1. ServerOk(EmptyServer)
  <2>1. EmptyServer \in ServerType
    BY DEF EmptyServer, ServerType, PlayState
  <2>2. QED
    BY <2>1, ServerAssumption DEF EmptyServer, ServerOk, Positions
<1>2. BlankPlayer \in PlayerSample /\ NotObserved \in Observed
  BY DEF BlankPlayer, PlayerSample, PlayState, NotObserved, Observed
<1>3. NoSession \in Session /\ ~Valid(NoSession)
  BY DEF Session, Valid, NoSession
<1>4. QED
  BY <1>1, <1>2, <1>3
  DEF Init, SessionInv, TypeOK, Link, MarkerTruth, ObservedNamesRow

LEMMA NextInv == SessionInv /\ [Next]_vars => SessionInv'
<1> SUFFICES ASSUME SessionInv, [Next]_vars
             PROVE  SessionInv'
  OBVIOUS
<1>1. ASSUME NEW l \in Lists, NEW i \in Rows(l), NEW c \in Contexts,
             PlayTrackAt(l, i, c)
      PROVE  SessionInv'
  BY <1>1, PlayTrackAtOk
<1>2. ASSUME NEW delta \in {1, -1}, StepContext(delta)
      PROVE  SessionInv'
  BY <1>2, StepOk
<1>3. CASE TogglePlay \/ ToggleShuffle \/ SeekVolumeRepeat
  BY <1>3, ToggleOk
<1>4. CASE \/ \E events \in SUBSET pending : HandleBackendEvent(events)
           \/ NoticeDisconnect
           \/ Reconnect
  BY <1>4, BackendOk
<1>5. CASE TrackEnds \/ OtherClient
  BY <1>5, OutsideOk
<1>6. CASE LinkBreaks \/ ServerRestarts
  BY <1>6, RestartOk
<1>7. CASE UNCHANGED vars
  BY <1>7 DEF vars, SessionInv, TypeOK, MarkerTruth, Connected,
              ObservedNamesRow
<1>8. QED
  BY <1>1, <1>2, <1>3, <1>4, <1>5, <1>6, <1>7 DEF Next, UserActs

-----------------------------------------------------------------------------
(* The row that carries the marker (playback.cpp), of lists that may hold    *)
(* one URI several times.                                                    *)

\* A set of rows that is not empty has a first one.
LEMMA FirstOf ==
  ASSUME NEW S \in SUBSET Nat, S # {}
  PROVE  \E m \in S : \A n \in S : m <= n
<1>1. PICK m \in S : \A n \in S : ~(<<n, m>> \in OpToRel(<, Nat))
  BY NatLessThanWellFounded, WFMin
<1>2. ASSUME NEW n \in S PROVE m <= n
  <2>1. <<n, m>> \in Nat \X Nat
    OBVIOUS
  <2>2. <<n, m>>[1] = n /\ <<n, m>>[2] = m
    OBVIOUS
  <2>3. ~(n < m)
    BY <1>1, <2>1, <2>2 DEF OpToRel
  <2> QED BY <2>3
<1> QED BY <1>2

\* The counters of two rows with one URI differ.
LEMMA CountersDiffer ==
  ASSUME NEW tracks, NEW i \in Nat, NEW j \in Nat, i < j,
         Row(tracks, i) = Row(tracks, j)
  PROVE  Occurrence(tracks, i) # Occurrence(tracks, j)
<1> DEFINE S == SameUriUpTo(tracks, i)
           T == SameUriUpTo(tracks, j)
<1>1. S \in SUBSET T /\ j \in T /\ j \notin S
  BY DEF SameUriUpTo
<1>2. IsFiniteSet(T)
  <2>1. IsFiniteSet(0..j) /\ T \in SUBSET (0..j)
    BY FS_Interval DEF SameUriUpTo
  <2> QED BY <2>1, FS_Subset
<1> QED BY <1>1, <1>2, FS_Subset DEF Occurrence

\* A counter is at least 1, so a lookup never takes it for one not filled in.
LEMMA CounterIsPositive ==
  ASSUME NEW tracks, NEW i \in Nat
  PROVE  Wanted(Occurrence(tracks, i)) = Occurrence(tracks, i)
<1> DEFINE S == SameUriUpTo(tracks, i)
<1>1. IsFiniteSet(S)
  <2>1. IsFiniteSet(0..i) /\ S \in SUBSET (0..i)
    BY FS_Interval DEF SameUriUpTo
  <2> QED BY <2>1, FS_Subset
<1>2. {i} \in SUBSET S /\ Cardinality({i}) = 1
  BY FS_Singleton DEF SameUriUpTo
<1>3. Cardinality(S) \in Nat /\ 1 <= Cardinality(S)
  BY <1>1, <1>2, FS_Subset, FS_CardinalityType
<1> QED BY <1>3 DEF Wanted, Occurrence

\* The marker is on the very row of the snapshot that plays, also when the list
\* holds the song several times (playback.cpp:56: "The duplicate count is what
\* separates the second `A` from the first").
THEOREM MarkerIsOnItsRow ==
  ASSUME NEW collection, NEW tracks, NEW records, NEW i \in Rows(tracks),
         Len(tracks) \in Nat
  PROVE  PlayingRowIn(collection, collection, TRUE, tracks, records,
                      SnapshotRow(tracks, records, i), FALSE) = i
<1> DEFINE uri == Row(tracks, i)
           rows == OccurrenceRows(tracks, uri, Occurrence(tracks, i))
<1>1. i \in Nat /\ \A j \in Rows(tracks) : j \in Nat
  BY DEF Rows
<1>2. Wanted(Occurrence(tracks, i)) = Occurrence(tracks, i)
  BY <1>1, CounterIsPositive
<1>3. i \in rows
  BY <1>2 DEF OccurrenceRows
<1>4. ASSUME NEW j \in rows PROVE j = i
  <2>1. /\ j \in Nat /\ Row(tracks, j) = Row(tracks, i)
        /\ Occurrence(tracks, j) = Occurrence(tracks, i)
    BY <1>1, <1>2, <1>4 DEF OccurrenceRows
  <2>2. ~(i < j) /\ ~(j < i)
    BY <1>1, <2>1, CountersDiffer
  <2> QED BY <1>1, <2>1, <2>2
<1> HIDE DEF rows
<1>5. rows = {i}
  BY <1>3, <1>4
<1>6. OccurrenceIndexIn(tracks, uri, Occurrence(tracks, i)) = i
  BY <1>5 DEF OccurrenceIndexIn, rows
<1> QED BY <1>6 DEF PlayingRowIn, SnapshotRow

\* Whatever became of the list on screen since the run was started: no other
\* collection than the one that owns playback has a marker, and the marked row
\* shows the song, or the record, that plays (playback.cpp:36 and 40).
THEOREM MarkerNamesWhatPlays ==
  ASSUME NEW displayed, NEW context, NEW valid \in BOOLEAN,
         NEW tracks, Len(tracks) \in Nat, NEW records, Len(records) \in Nat,
         NEW playing, NEW is_history \in BOOLEAN,
         PlayingRowIn(displayed, context, valid, tracks, records, playing, is_history) # -1
  PROVE  LET row == PlayingRowIn(displayed, context, valid, tracks, records, playing, is_history)
         IN  /\ valid /\ displayed = context
             /\ is_history  => /\ row \in Rows(records) /\ playing.record # 0
                               /\ Row(records, row) = playing.record
             /\ ~is_history => row \in Rows(tracks) /\ Row(tracks, row) = playing.uri
<1>1. valid /\ displayed = context
  BY DEF PlayingRowIn
<1>2. CASE is_history
  <2> DEFINE rows == {i \in Rows(records) : Row(records, i) = playing.record}
  <2>1. playing.record # 0 /\ rows # {}
    BY <1>1, <1>2 DEF PlayingRowIn, RecordIndexIn
  <2>2. rows \in SUBSET Nat
    BY DEF Rows
  <2>3. PICK first \in rows : \A j \in rows : first <= j
    BY <2>1, <2>2, FirstOf
  <2>4. (CHOOSE i \in rows : \A j \in rows : i <= j) \in rows
    BY <2>3
  <2>5. PlayingRowIn(displayed, context, valid, tracks, records, playing, is_history)
          = CHOOSE i \in rows : \A j \in rows : i <= j
    BY <1>1, <1>2, <2>1 DEF PlayingRowIn, RecordIndexIn
  <2> HIDE DEF rows
  <2>6. PlayingRowIn(displayed, context, valid, tracks, records, playing, is_history) \in rows
    BY <2>4, <2>5
  <2> QED BY <1>1, <1>2, <2>1, <2>6 DEF rows
<1>3. CASE ~is_history
  <2> DEFINE rows == OccurrenceRows(tracks, playing.uri, playing.occurrence)
  <2>1. PlayingRowIn(displayed, context, valid, tracks, records, playing, is_history)
          = IF rows = {} THEN -1 ELSE CHOOSE i \in rows : TRUE
    BY <1>1, <1>3 DEF PlayingRowIn, OccurrenceIndexIn
  <2> HIDE DEF rows
  <2>2. PlayingRowIn(displayed, context, valid, tracks, records, playing, is_history) \in rows
    BY <2>1
  <2> QED BY <1>1, <1>3, <2>2 DEF rows, OccurrenceRows
<1> QED BY <1>2, <1>3

\* The session of the Controller, the observation it compares the next sample
\* with, and the server stay in step (controller.cpp 1011-1052), whatever the
\* lists, the clients, the lost connections and the torn samples.
THEOREM SessionInvariant == Spec => []SessionInv
<1>1. Init => SessionInv
  BY InitInv
<1>2. SessionInv /\ [Next]_vars => SessionInv'
  BY NextInv
<1>3. QED
  BY <1>1, <1>2, PTL DEF Spec

\* Every variable stays in its range, and the server stays well formed.
THEOREM TypeCorrect == Spec => []TypeOK
<1>1. SessionInv => TypeOK
  BY DEF SessionInv
<1>2. QED
  BY <1>1, SessionInvariant, PTL

\* The marker is true: with the connection up and no player event waiting, a
\* run is only shown when its row is the song MPD is on.
THEOREM MarkerIsTrue == Spec => []MarkerTruth
<1>1. SessionInv => MarkerTruth
  BY DEF SessionInv
<1>2. QED
  BY <1>1, SessionInvariant, PTL

\* The observation the next sample is compared with names the row of the
\* session, so an unchanged sample may keep the row (controller.cpp 1026-1027).
THEOREM ObservationNamesRow == Spec => []ObservedNamesRow
<1>1. SessionInv => ObservedNamesRow
  BY DEF SessionInv
<1>2. QED
  BY <1>1, SessionInvariant, PTL
-----------------------------------------------------------------------------
(* What the player bar shows.                                                *)

\* Without a player or options event a sample of the one server is one of the
\* other, if both are on the same song.
LEMMA SameView ==
  ASSUME NEW m, ServerOk(m), NEW n, ServerOk(n),
         "player" \notin Raised(m, n), "options" \notin Raised(m, n)
  PROVE  /\ Sample(m, n) = Sample(n, n)
         /\ CurrentUri(m) = CurrentUri(n) => Sample(m, m) = Sample(n, n)
<1>1. m.state = n.state /\ CurrentId(m) = CurrentId(n) /\ m.random = n.random
  BY DEF Raised
<1>2. QED
  BY <1>1 DEF Sample

\* A sample is fresh, or torn with an event waiting, or the connection is gone.
LEMMA RefreshView ==
  ASSUME NEW m, ServerOk(m), NEW s, NEW o, NEW events,
         RefreshPlayer(m, s, o, events)
  PROVE  PlayerViewFresh'
<1>1. CASE \E n \in {m} \cup TrackEnd(m) :
             /\ mpd' = n
             /\ player' = Sample(m, n)
             /\ pending' = events \cup Raised(mpd, m) \cup Raised(m, n)
  <2>1. PICK n \in {m} \cup TrackEnd(m) :
             /\ mpd' = n
             /\ player' = Sample(m, n)
             /\ pending' = events \cup Raised(mpd, m) \cup Raised(m, n)
    BY <1>1
  <2>2. "player" \notin Raised(m, n) /\ "options" \notin Raised(m, n)
          => Sample(m, n) = Sample(n, n)
    BY TrackEndOk, SameView
  <2>3. QED
    BY <2>1, <2>2 DEF PlayerViewFresh, PlayerNewsPending
<1>2. CASE link' = "down"
  BY <1>2 DEF PlayerViewFresh, Connected
<1>3. QED
  BY <1>1, <1>2 DEF RefreshPlayer

\* Without a sample the player bar stays, or the connection is not up.
LEMMA KeptView ==
  ASSUME PlayerViewFresh, UNCHANGED <<mpd, player>>, link' = link \/ link' # "up",
         pending \cap {"player", "options"} \subseteq pending'
  PROVE  PlayerViewFresh'
  BY DEF PlayerViewFresh, PlayerNewsPending, Connected

LEMMA MovedView ==
  ASSUME SessionInv, PlayerViewFresh, ServerOk(mpd'),
         CurrentUri(mpd) = CurrentUri(mpd') \/ SameSongs(mpd, mpd'),
         Connected => pending' = pending \cup Raised(mpd, mpd'),
         UNCHANGED <<link, player>>
  PROVE  PlayerViewFresh'
<1>1. CASE ~Connected
  BY <1>1 DEF PlayerViewFresh, Connected
<1>2. CASE "player" \notin pending' /\ "options" \notin pending' /\ Connected
  <2>1. "player" \notin Raised(mpd, mpd') /\ "options" \notin Raised(mpd, mpd')
    BY <1>2
  <2>2. CurrentUri(mpd) = CurrentUri(mpd')
    BY <2>1, InvFields, NoEventSameSong
  <2>3. Sample(mpd, mpd) = Sample(mpd', mpd')
    BY <2>1, <2>2, InvFields, SameView
  <2>4. QED
    BY <1>2, <2>3 DEF PlayerViewFresh, PlayerNewsPending
<1>3. QED
  BY <1>1, <1>2 DEF PlayerViewFresh, PlayerNewsPending

LEMMA CommandView ==
  ASSUME SessionInv, PlayerViewFresh, NEW cmd, \A m \in cmd : ServerOk(m),
         NEW s, NEW o,
         CommandThenRefresh(cmd) \/ CommandThenRefreshIfDone(cmd, s, o)
  PROVE  PlayerViewFresh'
<1>1. CASE \E m \in cmd \cup {mpd} : \E x, y : RefreshPlayer(m, x, y, pending)
  BY <1>1, InvFields, RefreshView
<1>2. CASE UNCHANGED <<mpd, link, pending, player>>
  BY <1>2, KeptView
<1>3. CASE link' \in {"deaf", "down"}
  BY <1>3 DEF PlayerViewFresh, Connected
<1>4. QED
  BY <1>1, <1>2, <1>3
  DEF CommandThenRefresh, CommandThenRefreshIfDone, AnsweredDeaf, RefusedDeaf, CommandLost

LEMMA UserView ==
  ASSUME SessionInv, PlayerViewFresh, UserActs
  PROVE  PlayerViewFresh'
<1>1. ASSUME NEW l \in Lists, NEW i \in Rows(l), NEW c \in Contexts,
             PlayTrackAt(l, i, c)
      PROVE  PlayerViewFresh'
  <2>1. CASE \E m \in Started(l, i) : \E s, o : RefreshQueueAndPlayer(m, s, o, pending)
    <3>1. PICK m \in Started(l, i) : \E s, o : RefreshQueueAndPlayer(m, s, o, pending)
      BY <2>1
    <3>2. QED
      BY <3>1, StartedOk, RefreshView DEF RefreshQueueAndPlayer, PlayerViewFresh, Connected
  <2>2. CASE /\ mpd' \in HalfLoaded(l)
             /\ pending' = pending \cup Raised(mpd, mpd')
             /\ UNCHANGED <<link, player>>
    <3>1. ServerOk(mpd') /\ ~HasCurrent(mpd')
      BY <2>2, LoadedOk DEF HalfLoaded
    <3>2. "player" \notin Raised(mpd, mpd') => CurrentUri(mpd) = CurrentUri(mpd')
      <4>1. CurrentId(mpd') = NoId /\ CurrentUri(mpd') = NoUri
        BY <3>1 DEF CurrentId, CurrentUri
      <4>2. CurrentId(mpd) = NoId => CurrentUri(mpd) = NoUri
        BY InvFields, CurrentTyped
      <4>3. QED
        BY <4>1, <4>2 DEF Raised
    <3>3. CASE "player" \in Raised(mpd, mpd')
      BY <2>2, <3>3 DEF PlayerViewFresh, PlayerNewsPending
    <3>4. CASE "player" \notin Raised(mpd, mpd')
      BY <2>2, <3>1, <3>2, <3>4, MovedView
    <3>5. QED
      BY <3>3, <3>4
  <2>3. CASE link' = "down"
    BY <2>3 DEF PlayerViewFresh, Connected
  <2>4. QED
    BY <1>1, <2>1, <2>2, <2>3 DEF PlayTrackAt, CommandLost
<1>2. ASSUME NEW delta \in {1, -1}, StepContext(delta)
      PROVE  PlayerViewFresh'
  <2>1. \A m \in CmdNext(mpd) \cup CmdPrevious(mpd) : ServerOk(m)
    BY InvFields, FollowingOk, PrecedingOk DEF CmdNext, CmdPrevious
  <2>2. \A p : \A m \in CmdPlayPos(mpd, p) : ServerOk(m)
    BY InvFields, PlayingAtOk DEF CmdPlayPos
  <2>3. QED
    BY <1>2, <2>1, <2>2, CommandView DEF StepContext, StepByMpd, StepInSnapshot
<1>3. CASE TogglePlay \/ ToggleShuffle \/ SeekVolumeRepeat
  <2>1. \A on \in BOOLEAN : \A n \in CmdPause(mpd, on) \cup CmdRandom(mpd, on)
                                      \cup CmdPlay(mpd) \cup {mpd} : ServerOk(n)
    <3>1. 0 \in Int
      OBVIOUS
    <3>2. QED
      BY <3>1, InvFields, CommandOk
  <2>2. player.state \in PlayState /\ player.random \in BOOLEAN
    BY InvFields DEF PlayerSample
  <2>3. CASE TogglePlay
    BY <2>1, <2>2, <2>3, CommandView DEF TogglePlay, PlayState
  <2>4. CASE ToggleShuffle
    BY <2>1, <2>2, <2>4, CommandView DEF ToggleShuffle
  <2>5. CASE SeekVolumeRepeat
    BY <2>1, <2>5, CommandView DEF SeekVolumeRepeat
  <2>6. QED
    BY <1>3, <2>3, <2>4, <2>5
<1>4. QED
  BY <1>1, <1>2, <1>3 DEF UserActs

LEMMA BackendView ==
  ASSUME SessionInv, PlayerViewFresh,
         \/ \E events \in SUBSET pending : HandleBackendEvent(events)
         \/ NoticeDisconnect
         \/ Reconnect
  PROVE  PlayerViewFresh'
<1>1. ASSUME NEW events \in SUBSET pending, HandleBackendEvent(events)
      PROVE  PlayerViewFresh'
  <2>1. CASE \E p : RefreshPlayer(mpd, session, observed, p)
    BY <2>1, InvFields, RefreshView
  <2>2. CASE link' = "down"
    BY <2>2 DEF PlayerViewFresh, Connected
  <2>3. CASE /\ ~AsksPlayer(events) /\ pending' = pending \ events
             /\ UNCHANGED <<mpd, link, player>>
    BY <2>3, KeptView DEF AsksPlayer
  <2>4. CASE ~Connected /\ UNCHANGED link
    BY <2>4 DEF PlayerViewFresh, Connected
  <2>5. QED
    BY <1>1, <2>1, <2>2, <2>3, <2>4
    DEF HandleBackendEvent, RefreshPlayerAndQueue, RefreshQueue
<1>2. CASE NoticeDisconnect
  BY <1>2, KeptView DEF NoticeDisconnect
<1>3. CASE Reconnect
  <2>1. CASE ProbeFailed
    BY <2>1, KeptView DEF ProbeFailed, PlayerViewFresh
  <2>2. CASE ConnectFailed
    BY <2>2 DEF ConnectFailed, PlayerViewFresh, Connected
  <2>3. CASE ConnectSucceeded
    BY <2>3, InvFields, RefreshView
    DEF ConnectSucceeded, RefreshPlayerAndQueue, PlayerViewFresh, Connected
  <2>4. QED
    BY <1>3, <2>1, <2>2, <2>3 DEF Reconnect
<1>4. QED
  BY <1>1, <1>2, <1>3

\* PlayerBarIsFresh: what the player bar shows is MPD's state, or about to be
\* refreshed, or blank, through every command, batch of events and failure.
THEOREM PlayerBarIsFresh == Spec => []PlayerViewFresh
<1>1. Init => PlayerViewFresh
  BY DEF Init, PlayerViewFresh, Connected
<1>2. SessionInv /\ PlayerViewFresh /\ [Next]_vars => PlayerViewFresh'
  <2> SUFFICES ASSUME SessionInv, PlayerViewFresh, [Next]_vars PROVE PlayerViewFresh'
    OBVIOUS
  <2>1. CASE TrackEnds \/ OtherClient
    <3>1. MovedOn
      BY <2>1, OutsideOk
    <3>2. QED
      BY <3>1, MovedView DEF MovedOn
  <2>2. CASE LinkBreaks \/ ServerRestarts
    BY <2>2 DEF LinkBreaks, ServerRestarts, PlayerViewFresh, Connected
  <2>3. CASE UNCHANGED vars
    BY <2>3, KeptView DEF vars
  <2>4. QED
    BY <2>1, <2>2, <2>3, UserView, BackendView DEF Next
<1>3. QED
  BY <1>1, <1>2, SessionInvariant, PTL DEF Spec
-----------------------------------------------------------------------------
(* Next and Previous.                                                      *)

\* Starting entry p of m makes its id the current one.
LEMMA PlayingId ==
  ASSUME NEW m, ServerOk(m), NEW p \in Positions(m)
  PROVE  CurrentId(PlayingAt(m, p)) = m.queue[p + 1].id
<1>1. p # -1
  BY ServerFields
<1>2. QED
  BY <1>1, PlayingAtOk DEF CurrentId, HasCurrent

\* A sample that was taken shows the current id of the state it was taken in.
LEMMA RefreshShowsId ==
  ASSUME NEW m, NEW s, NEW o, NEW events,
         RefreshPlayer(m, s, o, events), link' = "up"
  PROVE  player'.id = CurrentId(m)
<1>1. PICK n : player' = Sample(m, n)
  BY DEF RefreshPlayer
<1>2. Sample(m, n).id = CurrentId(m)
  BY DEF Sample
<1> QED BY <1>1, <1>2

\* In a list without duplicates the true marker is the position MPD is on.
LEMMA DistinctRow ==
  ASSUME SessionInv, Connected, "player" \notin pending,
         OnSnapshotQueue, Distinct(session.seq)
  PROVE  /\ session.occ = mpd.current
         /\ Len(session.seq) = Len(mpd.queue) /\ Len(mpd.queue) \in Nat \ {0}
         /\ mpd.current \in Positions(mpd)
<1>1. /\ session.seq \in Seq(Uri) /\ Len(session.seq) \in Nat \ {0}
      /\ session.occ \in Rows(session.seq) /\ session.occ \in Nat
      /\ Row(session.seq, session.occ) \in Uri
  BY InvFields, SessionFields, ListTyped, SessionAssumption
     DEF OnSnapshotQueue
<1>2. Row(session.seq, session.occ) = CurrentUri(mpd)
  BY DEF SessionInv, MarkerTruth, OnSnapshotQueue
<1>3. HasCurrent(mpd)
  BY <1>1, <1>2, InvFields, CurrentTyped, ServerAssumption
<1>4. mpd.current \in Positions(mpd) /\ Len(mpd.queue) \in Nat
  BY <1>3, InvFields, ServerFields DEF HasCurrent
<1>5. mpd.current + 1 \in 1..Len(mpd.queue)
  BY <1>4, InvFields, EntryTyped
<1>6. Len(session.seq) = Len(mpd.queue)
  <2>1. DOMAIN session.seq = 1..Len(mpd.queue)
    BY DEF OnSnapshotQueue, Uris
  <2>2. DOMAIN session.seq = 1..Len(session.seq)
    BY <1>1
  <2> QED BY <1>1, <1>4, <2>1, <2>2
<1>7. session.seq[mpd.current + 1] = mpd.queue[mpd.current + 1].uri
  BY <1>5 DEF OnSnapshotQueue, Uris
<1>8. session.seq[session.occ + 1] = session.seq[mpd.current + 1]
  BY <1>2, <1>3, <1>7 DEF Row, CurrentUri
<1>9. session.occ + 1 = mpd.current + 1
  <2>1. session.occ + 1 \in 1..Len(session.seq)
    BY <1>1 DEF Rows
  <2> QED BY <1>5, <1>6, <1>8, <2>1 DEF Distinct
<1>10. mpd.current \in Int
  BY InvFields, ServerFields DEF Positions
<1> QED BY <1>1, <1>4, <1>6, <1>9, <1>10

\* MarkerNamesTheEntry fails for a list that holds a song twice; for every
\* other list the row of the session is the position MPD is on.
THEOREM MarkerNamesDistinctEntry ==
  Spec => [](Distinct(session.seq) => MarkerNamesTheEntry)
<1>1. SessionInv => (Distinct(session.seq) => MarkerNamesTheEntry)
  BY DistinctRow DEF MarkerNamesTheEntry, Quiet
<1>2. QED
  BY <1>1, SessionInvariant, PTL

\* Next and Previous start the neighbour of the entry MPD is on, wrapping at
\* both ends, for lists of every length without duplicates.
THEOREM StepsPlayNeighbour == Spec => StepPlaysNeighbour
<1>1. ASSUME SessionInv, NEW delta \in {1, -1},
             Quiet, link' = "up",
             OnSnapshotQueue, Distinct(session.seq), ~player.random,
             StepContext(delta)
      PROVE  \/ UNCHANGED <<mpd, session>>
             \/ LET to == (mpd.current + delta) % Len(mpd.queue)
                IN player'.id = mpd.queue[to + 1].id
  <2> DEFINE to == (mpd.current + delta) % Len(mpd.queue)
             s == SteppedTo(session, to)
             o == [uri |-> Row(session.seq, to), id |-> NoId]
  <2>1. /\ session.occ = mpd.current /\ Len(session.seq) = Len(mpd.queue)
        /\ Len(mpd.queue) \in Nat \ {0} /\ mpd.current \in Positions(mpd)
    BY <1>1, DistinctRow DEF Quiet
  <2>2. to \in Positions(mpd)
    BY <2>1 DEF Positions
  <2>3. StepTarget(session, delta) = to
    BY <2>1 DEF StepTarget
  <2>4. CommandThenRefreshIfDone(CmdPlayPos(mpd, to), s, o)
    <3>1. StepInSnapshot(delta)
      BY <1>1 DEF StepContext, OnSnapshotQueue
    <3> HIDE DEF to
    <3> QED BY <2>3, <3>1 DEF StepInSnapshot
  <2> HIDE DEF to, s, o
  <2>5. CASE \E m \in CmdPlayPos(mpd, to) : RefreshPlayer(m, s, o, pending)
    <3>1. RefreshPlayer(PlayingAt(mpd, to), s, o, pending)
      BY <2>2, <2>5 DEF CmdPlayPos
    <3>2. player'.id = mpd.queue[to + 1].id
      BY <1>1, <2>2, <3>1, RefreshShowsId, PlayingId, InvFields
    <3> QED BY <3>2 DEF to
  <2>6. CASE UNCHANGED <<mpd, link, pending, player, session, observed>>
    BY <2>6
  <2> QED BY <1>1, <2>4, <2>5, <2>6
          DEF CommandThenRefreshIfDone, AnsweredDeaf, RefusedDeaf, CommandLost,
              Quiet, Connected
<1>2. SessionInv =>
        [\A delta \in {1, -1} :
           /\ Quiet /\ link' = "up"
           /\ OnSnapshotQueue /\ Distinct(session.seq) /\ ~player.random
           /\ StepContext(delta)
           => \/ UNCHANGED <<mpd, session>>
              \/ LET to == (mpd.current + delta) % Len(mpd.queue)
                 IN player'.id = mpd.queue[to + 1].id]_vars
  BY <1>1
<1> QED BY <1>2, SessionInvariant, PTL DEF Spec, StepPlaysNeighbour

\* With shuffle on, Next never plays an entry of this round again while others
\* are left, for queues of every length.
THEOREM ShuffleStepsAreNew == Spec => ShuffleNeverRepeats
<1>1. ASSUME SessionInv, Quiet, link' = "up",
             player.random, mpd.random, Unheard(mpd) # {}, StepContext(1)
      PROVE  \/ player'.id = CurrentId(mpd)
             \/ player'.id \notin mpd.heard
  <2>1. CommandThenRefresh(CmdNext(mpd))
    BY <1>1 DEF StepContext, StepByMpd
  <2>2. PICK m \in CmdNext(mpd) \cup {mpd} :
          RefreshPlayer(m, session, observed, pending)
    BY <1>1, <2>1 DEF CommandThenRefresh, AnsweredDeaf, RefusedDeaf,
                      CommandLost, Quiet, Connected
  <2>3. player'.id = CurrentId(m)
    BY <1>1, <2>2, RefreshShowsId
  <2>4. CASE m = mpd
    BY <2>3, <2>4
  <2>5. CASE m \in CmdNext(mpd)
    <3>1. PICK p \in Unheard(mpd) : m = PlayingAt(mpd, p)
      BY <1>1, <2>5 DEF CmdNext, Following
    <3>2. p \in Positions(mpd) /\ mpd.queue[p + 1].id \notin mpd.heard
      BY DEF Unheard
    <3> QED BY <1>1, <2>3, <3>1, <3>2, PlayingId, InvFields
  <2> QED BY <2>2, <2>4, <2>5
<1>2. SessionInv =>
        [/\ Quiet /\ link' = "up"
         /\ player.random /\ mpd.random /\ Unheard(mpd) # {}
         /\ StepContext(1)
         => \/ player'.id = CurrentId(mpd)
            \/ player'.id \notin mpd.heard]_vars
  BY <1>1
<1> QED BY <1>2, SessionInvariant, PTL DEF Spec, ShuffleNeverRepeats
=============================================================================
