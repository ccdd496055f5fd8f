-------------------------- MODULE ConnectionProofs --------------------------
(***************************************************************************)
(* For any connections, addresses and limits: the slots stay within their  *)
(* numbers, a logged-in miner has work, a miner that reads is not dropped  *)
(* for its own requests, and every proven level is counted, but for those  *)
(* a full record of departed levels leaves out.                            *)
(*                                                                         *)
(* None of the four is inductive.  SlotsCounted ties the counters, which   *)
(* the code tests, to the connections they stand for; WorkOnItsWay says    *)
(* where a miner's job is while it is not sent yet; LevelsKept does so for *)
(* a level; RoomLeft bounds a queue by what its reader may have queued at  *)
(* its place, and what the broadcasts have.                                *)
(***************************************************************************)
EXTENDS Connection, FiniteSetTheorems, TLAPS

\* The readers' places.
Places == {"none", "handler", "first", "open", "room", "blocked", "handle", "answer", "load", "ending",
           "release"}

\* The types of the variables the proofs are about.
TypeOK ==
    /\ pc \in [Conns -> Places]
    /\ ipConns \in [Hosts -> Int]
    /\ clients \subseteq Conns /\ auth \subseteq Conns /\ proven \subseteq Conns /\ departed \subseteq Conns
    /\ unkept \subseteq Conns
    /\ queued \in [Conns -> Nat]
    /\ casts \in [Conns -> 0..2]
    /\ cur \in Nat
    /\ todo \in [of : SUBSET Conns, size : 0..2]
    /\ scan \in [pc : {"idle", "clients", "departed"}, saw : SUBSET Conns, must : SUBSET Conns]

\* The connections that hold a slot, those of them from the internet, and those their address counts.
Open        == {c \in Conns : pc[c] # "none"}
FromOutside == {c \in Open : HostOf[c] \notin LocalNetwork}
CountedAt(h) == {c \in Open : HostOf[c] = h /\ CountedByIP(c) /\ pc[c] # "handler"}

\* The counters count what they are meant to, and what they count is within its limit.
SlotsCounted ==
    /\ \A c \in Conns : arriving = c => pc[c] = "none"
    /\ IsFiniteSet(Open)
    /\ slots = Cardinality(Open) /\ slots <= MaxConnections
    /\ Cardinality(FromOutside) <= MaxConnections - Kept
    /\ \A h \in Hosts :
          /\ ipConns[h] = Cardinality(CountedAt(h))
          /\ MaxConnectionsPerIP > 0 => ipConns[h] <= MaxConnectionsPerIP

\* Only a connection whose reader has seen an object open, and not ended yet, is logged in.
LoginsPlaced ==
    /\ clients = {c \in Conns : pc[c] \notin {"none", "handler"}}
    /\ \A c \in auth : c \in mix.talk /\ pc[c] \notin {"none", "handler", "first"}
    /\ \A c \in Conns : pc[c] \in {"open", "room", "blocked", "handle", "answer", "load"} => c \in mix.talk

\* A logged-in miner has the job, or is about to be sent it, by its login or by the broadcast.
WorkOnItsWay ==
    \A c \in auth \cap clients : pc[c] \notin {"answer", "load"} /\ cur > 0 => c \in got \cup todo.of

\* A level is proven by a login; it is kept before its connection ends; and while the levels are read
\* each one to be counted is where it is still looked for.
LevelsKept ==
    /\ proven \subseteq auth
    /\ \A c \in proven : pc[c] = "release" => c \in departed \cup unkept
    /\ scan.pc = "clients"  => scan.must \subseteq departed \cup unkept \cup {c \in proven : Connected(c)}
    /\ scan.pc = "departed" => scan.must \subseteq departed \cup unkept \cup scan.saw

\* What the reader may have queued for its own requests since it last saw room.
Answered(c) == IF pc[c] \in {"handle", "answer"} THEN 0 ELSE IF pc[c] = "load" THEN 2 ELSE 3

\* Before a second broadcast the queue holds at most that, what there was room beside, and one job.
RoomLeft ==
    \A c \in Conns : c \notin outClosed /\ casts[c] < 2
                        => queued[c] <= ClientQueue - ReaderRoom + Answered(c) + 2 * casts[c]

\* The inductive invariant.
IInv == TypeOK /\ SlotsCounted /\ LoginsPlaced /\ WorkOnItsWay /\ LevelsKept /\ RoomLeft

\* Every step leaves the variables in their types.
LEMMA TypeKept ==
  ASSUME IInv, [Next]_vars
  PROVE  TypeOK'
<1>1. ASSUME NEW c \in Conns, Count(c), UNCHANGED mix PROVE TypeOK'
  BY <1>1 DEF Count, Goto, IInv, TypeOK, Places, readVars, queueVars, jobVars,
              levelVars, shareVars
<1>2. ASSUME NEW c \in Conns, Reserve(c), UNCHANGED mix PROVE TypeOK'
  BY <1>2 DEF Reserve, Goto, IInv, TypeOK, Places, readVars, queueVars, jobVars,
              levelVars, shareVars
<1>3. ASSUME NEW c \in Conns, FirstByte(c), UNCHANGED mix PROVE TypeOK'
  BY <1>3 DEF FirstByte, Goto, IInv, TypeOK, Places, slotVars, readVars, queueVars,
              jobVars, levelVars, shareVars
<1>4. ASSUME NEW c \in Conns, ReadLine(c), UNCHANGED mix PROVE TypeOK'
  BY <1>4 DEF ReadLine, Goto, IInv, TypeOK, Places, slotVars, queueVars, jobVars,
              levelVars, shareVars
<1>5. ASSUME NEW c \in Conns, EndOfInput(c), UNCHANGED mix PROVE TypeOK'
  BY <1>5 DEF EndOfInput, Goto, IInv, TypeOK, Places, slotVars, readVars, queueVars,
              jobVars, levelVars, shareVars
<1>6. ASSUME NEW c \in Conns, Room(c), UNCHANGED mix PROVE TypeOK'
  BY <1>6 DEF Room, Goto, IInv, TypeOK, Places, slotVars, readVars, jobVars, levelVars,
              shareVars
<1>7. ASSUME NEW c \in Conns, Woken(c), UNCHANGED mix PROVE TypeOK'
  BY <1>7 DEF Woken, Goto, IInv, TypeOK, Places, slotVars, readVars, jobVars,
              levelVars, shareVars
<1>8. ASSUME NEW c \in Conns, HandleJunk(c), UNCHANGED mix PROVE TypeOK'
  BY <1>8 DEF HandleJunk, Goto, IInv, TypeOK, Places, slotVars, readVars, queueVars,
              jobVars, levelVars, shareVars
<1>9. ASSUME NEW c \in Conns, HandleRequest(c), UNCHANGED mix PROVE TypeOK'
  BY <1>9, QueueAssumption DEF HandleRequest, Goto, IInv, TypeOK, Places, slotVars, readVars, jobVars,
                               levelVars, shareVars, Enqueue
<1>10. ASSUME NEW c \in Conns, HandleShare(c), UNCHANGED mix PROVE TypeOK'
  BY <1>10, QueueAssumption DEF HandleShare, Goto, IInv, TypeOK, Places, slotVars, readVars, jobVars,
                                levelVars, Enqueue
<1>11. ASSUME NEW c \in Conns, HandleLogin(c), UNCHANGED mix PROVE TypeOK'
  BY <1>11 DEF HandleLogin, Goto, IInv, TypeOK, Places, slotVars, queueVars, jobVars,
               levelVars, shareVars
<1>12. ASSUME NEW c \in Conns, AnswerLogin(c), UNCHANGED mix PROVE TypeOK'
  BY <1>12, QueueAssumption DEF AnswerLogin, Goto, IInv, TypeOK, Places, slotVars, readVars, jobVars,
                                levelVars, shareVars, Enqueue
<1>13. ASSUME NEW c \in Conns, SendWork(c), UNCHANGED mix PROVE TypeOK'
  BY <1>13, QueueAssumption DEF SendWork, Goto, IInv, TypeOK, Places, slotVars, readVars, jobVars,
                                levelVars, shareVars, Enqueue
<1>14. ASSUME NEW c \in Conns, KeepDeparted(c), UNCHANGED mix PROVE TypeOK'
  BY <1>14 DEF KeepDeparted, Goto, IInv, TypeOK, Places, slotVars, readVars, queueVars,
               jobVars, shareVars
<1>15. ASSUME NEW c \in Conns, Release(c), UNCHANGED mix PROVE TypeOK'
  <2>1. pc' \in [Conns -> Places] /\ queued' \in [Conns -> Nat] /\ casts' \in [Conns -> 0..2]
    BY <1>15 DEF Release, Goto, IInv, TypeOK, Places
  <2>2. ipConns' \in [Hosts -> Int]
    BY <1>15 DEF Release, IInv, TypeOK, Hosts
  <2>3. /\ clients' \subseteq Conns /\ auth' \subseteq Conns /\ proven' \subseteq Conns
        /\ UNCHANGED <<cur, todo, departed, unkept, scan>>
    BY <1>15 DEF Release, IInv, TypeOK, jobVars, levelVars
  <2> QED BY <2>1, <2>2, <2>3 DEF IInv, TypeOK
<1>16. ASSUME NEW c \in Conns, BroadcastTo(c), UNCHANGED mix PROVE TypeOK'
  BY <1>16, QueueAssumption DEF BroadcastTo, IInv, TypeOK, Places, slotVars, readVars, levelVars,
                                shareVars, Enqueue
<1>17. ASSUME NEW c \in Conns, TakeMessage(c), UNCHANGED mix PROVE TypeOK'
  BY <1>17, QueueAssumption DEF TakeMessage, IInv, TypeOK, Places, slotVars, readVars, jobVars,
                                levelVars, shareVars
<1>18. ASSUME NEW c \in Conns, Written(c), UNCHANGED mix PROVE TypeOK'
  BY <1>18 DEF Written, IInv, TypeOK, Places, slotVars, readVars, jobVars, levelVars,
               shareVars
<1>19. ASSUME NEW c \in Conns, LevelExpires(c), UNCHANGED mix PROVE TypeOK'
  BY <1>19 DEF LevelExpires, IInv, TypeOK, Places, slotVars, readVars, queueVars,
               jobVars, shareVars
<1>20. ASSUME Broadcast, UNCHANGED mix PROVE TypeOK'
  BY <1>20 DEF Broadcast, IInv, TypeOK, slotVars, readVars, queueVars, levelVars, shareVars
<1>21. ASSUME ScanStart, UNCHANGED mix PROVE TypeOK'
  BY <1>21 DEF ScanStart, IInv, TypeOK, slotVars, readVars, queueVars, jobVars, shareVars
<1>22. ASSUME ScanClients, UNCHANGED mix PROVE TypeOK'
  BY <1>22 DEF ScanClients, IInv, TypeOK, slotVars, readVars, queueVars, jobVars, shareVars
<1>23. ASSUME ScanDeparted, UNCHANGED mix PROVE TypeOK'
  BY <1>23 DEF ScanDeparted, IInv, TypeOK, slotVars, readVars, queueVars, jobVars, shareVars
<1>24. ASSUME NEW c \in Conns, Arrive(c) \/ AuthTimeout(c),
             UNCHANGED mix
      PROVE  TypeOK'
  <2>1. UNCHANGED <<pc, ipConns, clients, auth, proven, departed, unkept, queued, casts, cur, todo, scan>>
    BY <1>24 DEF Arrive, AuthTimeout, slotVars, readVars, queueVars, jobVars, levelVars, shareVars
  <2> QED BY <2>1 DEF IInv, TypeOK
<1>25. ASSUME ShareProcessed \/ Stopping \/ UNCHANGED vars,
             UNCHANGED mix
      PROVE  TypeOK'
  <2>1. UNCHANGED <<pc, ipConns, clients, auth, proven, departed, unkept, queued, casts, cur, todo, scan>>
    BY <1>25 DEF ShareProcessed, Stopping, StopBegins, StopGrace, StopClosed, StopShares, vars,
             slotVars, readVars, queueVars, jobVars, levelVars, shareVars
  <2> QED BY <2>1 DEF IInv, TypeOK
<1> QED BY <1>1, <1>2, <1>3, <1>4, <1>5, <1>6, <1>7, <1>8, <1>9, <1>10, <1>11, <1>12, <1>13,
          <1>14, <1>15, <1>16, <1>17, <1>18, <1>19, <1>20, <1>21, <1>22, <1>23, <1>24, <1>25
       DEF Next, Handler, Read, Write, vars

\* The list of clients and the logins follow the readers' places (handleClient, handleMessage).
LEMMA LoginsKept ==
  ASSUME IInv, [Next]_vars
  PROVE  LoginsPlaced'
<1>1. ASSUME NEW c \in Conns, Count(c), UNCHANGED mix PROVE LoginsPlaced'
  BY <1>1 DEF Count, Goto, IInv, TypeOK, LoginsPlaced, SlotsCounted, readVars, queueVars, jobVars,
              levelVars, shareVars
<1>2. ASSUME NEW c \in Conns, Reserve(c), UNCHANGED mix PROVE LoginsPlaced'
  BY <1>2 DEF Reserve, Goto, IInv, TypeOK, LoginsPlaced, readVars, queueVars, jobVars, levelVars,
              shareVars
<1>3. ASSUME NEW c \in Conns, FirstByte(c), UNCHANGED mix PROVE LoginsPlaced'
  BY <1>3 DEF FirstByte, Goto, IInv, TypeOK, LoginsPlaced, slotVars, readVars, queueVars, jobVars,
              levelVars, shareVars
<1>4. ASSUME NEW c \in Conns, ReadLine(c), UNCHANGED mix PROVE LoginsPlaced'
  BY <1>4 DEF ReadLine, Goto, IInv, TypeOK, LoginsPlaced, slotVars, queueVars, jobVars, levelVars,
              shareVars
<1>5. ASSUME NEW c \in Conns, EndOfInput(c), UNCHANGED mix PROVE LoginsPlaced'
  BY <1>5 DEF EndOfInput, Goto, IInv, TypeOK, LoginsPlaced, slotVars, readVars, queueVars, jobVars,
              levelVars, shareVars
<1>6. ASSUME NEW c \in Conns, Room(c), UNCHANGED mix PROVE LoginsPlaced'
  BY <1>6 DEF Room, Goto, IInv, TypeOK, LoginsPlaced, slotVars, readVars, jobVars, levelVars, shareVars
<1>7. ASSUME NEW c \in Conns, Woken(c), UNCHANGED mix PROVE LoginsPlaced'
  BY <1>7 DEF Woken, Goto, IInv, TypeOK, LoginsPlaced, slotVars, readVars, jobVars, levelVars, shareVars
<1>8. ASSUME NEW c \in Conns, HandleJunk(c), UNCHANGED mix PROVE LoginsPlaced'
  BY <1>8 DEF HandleJunk, Goto, IInv, TypeOK, LoginsPlaced, slotVars, readVars, queueVars, jobVars,
              levelVars, shareVars
<1>9. ASSUME NEW c \in Conns, HandleRequest(c), UNCHANGED mix PROVE LoginsPlaced'
  BY <1>9 DEF HandleRequest, Goto, IInv, TypeOK, LoginsPlaced, slotVars, readVars, jobVars, levelVars,
              shareVars
<1>10. ASSUME NEW c \in Conns, HandleShare(c), UNCHANGED mix PROVE LoginsPlaced'
  BY <1>10 DEF HandleShare, Goto, IInv, TypeOK, LoginsPlaced, slotVars, readVars, jobVars, levelVars
<1>11. ASSUME NEW c \in Conns, HandleLogin(c), UNCHANGED mix PROVE LoginsPlaced'
  BY <1>11 DEF HandleLogin, Goto, IInv, TypeOK, LoginsPlaced, slotVars, queueVars, jobVars, levelVars,
               shareVars
<1>12. ASSUME NEW c \in Conns, AnswerLogin(c), UNCHANGED mix PROVE LoginsPlaced'
  BY <1>12 DEF AnswerLogin, Goto, IInv, TypeOK, LoginsPlaced, slotVars, readVars, jobVars, levelVars,
               shareVars
<1>13. ASSUME NEW c \in Conns, SendWork(c), UNCHANGED mix PROVE LoginsPlaced'
  BY <1>13 DEF SendWork, Goto, IInv, TypeOK, LoginsPlaced, slotVars, readVars, jobVars, levelVars,
               shareVars
<1>14. ASSUME NEW c \in Conns, KeepDeparted(c), UNCHANGED mix PROVE LoginsPlaced'
  BY <1>14 DEF KeepDeparted, Goto, IInv, TypeOK, LoginsPlaced, slotVars, readVars, queueVars, jobVars,
               shareVars
<1>15. ASSUME NEW c \in Conns, Release(c), UNCHANGED mix PROVE LoginsPlaced'
  BY <1>15 DEF Release, Goto, IInv, TypeOK, LoginsPlaced, jobVars, levelVars, shareVars
<1>16. ASSUME NEW c \in Conns, Arrive(c) \/ AuthTimeout(c) \/ BroadcastTo(c) \/ TakeMessage(c) \/ Written(c)
                   \/ LevelExpires(c),
             UNCHANGED mix
      PROVE  LoginsPlaced'
  <2>1. UNCHANGED <<mix, pc, clients, auth>>
    BY <1>16 DEF Arrive, AuthTimeout, BroadcastTo, TakeMessage, Written, LevelExpires, Goto,
             Enqueue, slotVars, readVars, queueVars, jobVars, levelVars, shareVars
  <2> QED BY <2>1 DEF IInv, LoginsPlaced
<1>17. ASSUME Broadcast \/ ScanStart \/ ScanClients \/ ScanDeparted \/ ShareProcessed
                   \/ Stopping \/ UNCHANGED vars,
             UNCHANGED mix
      PROVE  LoginsPlaced'
  <2>1. UNCHANGED <<mix, pc, clients, auth>>
    BY <1>17 DEF Broadcast, ScanStart, ScanClients, ScanDeparted, ShareProcessed, Stopping,
             StopBegins, StopGrace, StopClosed, StopShares, vars, slotVars, readVars, queueVars,
             jobVars, levelVars, shareVars
  <2> QED BY <2>1 DEF IInv, LoginsPlaced
<1> QED BY <1>1, <1>2, <1>3, <1>4, <1>5, <1>6, <1>7, <1>8, <1>9, <1>10, <1>11, <1>12, <1>13,
          <1>14, <1>15, <1>16, <1>17
       DEF Next, Handler, Read, Write, vars

\* A login that the broadcast passes by before it is done loads the new job itself (BroadcastJob makes a
\* job current before it lists the clients).
LEMMA WorkKept ==
  ASSUME IInv, [Next]_vars
  PROVE  WorkOnItsWay'
<1>1. ASSUME NEW c \in Conns, Count(c), UNCHANGED mix PROVE WorkOnItsWay'
  BY <1>1 DEF Count, Goto, IInv, TypeOK, WorkOnItsWay, LoginsPlaced, SlotsCounted, readVars, queueVars,
              jobVars, levelVars, shareVars
<1>2. ASSUME NEW c \in Conns, Reserve(c), UNCHANGED mix PROVE WorkOnItsWay'
  BY <1>2 DEF Reserve, Goto, IInv, TypeOK, WorkOnItsWay, LoginsPlaced, readVars, queueVars, jobVars,
              levelVars, shareVars
<1>3. ASSUME NEW c \in Conns, FirstByte(c), UNCHANGED mix PROVE WorkOnItsWay'
  BY <1>3 DEF FirstByte, Goto, IInv, TypeOK, WorkOnItsWay, LoginsPlaced, slotVars, readVars, queueVars,
              jobVars, levelVars, shareVars
<1>4. ASSUME NEW c \in Conns, ReadLine(c), UNCHANGED mix PROVE WorkOnItsWay'
  BY <1>4 DEF ReadLine, Goto, IInv, TypeOK, WorkOnItsWay, LoginsPlaced, slotVars, queueVars, jobVars,
              levelVars, shareVars
<1>5. ASSUME NEW c \in Conns, EndOfInput(c), UNCHANGED mix PROVE WorkOnItsWay'
  BY <1>5 DEF EndOfInput, Goto, IInv, TypeOK, WorkOnItsWay, LoginsPlaced, slotVars, readVars, queueVars,
              jobVars, levelVars, shareVars
<1>6. ASSUME NEW c \in Conns, Room(c), UNCHANGED mix PROVE WorkOnItsWay'
  BY <1>6 DEF Room, Goto, IInv, TypeOK, WorkOnItsWay, LoginsPlaced, slotVars, readVars, jobVars,
              levelVars, shareVars
<1>7. ASSUME NEW c \in Conns, Woken(c), UNCHANGED mix PROVE WorkOnItsWay'
  BY <1>7 DEF Woken, Goto, IInv, TypeOK, WorkOnItsWay, LoginsPlaced, slotVars, readVars, jobVars,
              levelVars, shareVars
<1>8. ASSUME NEW c \in Conns, HandleJunk(c), UNCHANGED mix PROVE WorkOnItsWay'
  BY <1>8 DEF HandleJunk, Goto, IInv, TypeOK, WorkOnItsWay, LoginsPlaced, slotVars, readVars, queueVars,
              jobVars, levelVars, shareVars
<1>9. ASSUME NEW c \in Conns, HandleRequest(c), UNCHANGED mix PROVE WorkOnItsWay'
  BY <1>9 DEF HandleRequest, Goto, IInv, TypeOK, WorkOnItsWay, LoginsPlaced, slotVars, readVars,
              jobVars, levelVars, shareVars
<1>10. ASSUME NEW c \in Conns, HandleShare(c), UNCHANGED mix PROVE WorkOnItsWay'
  BY <1>10 DEF HandleShare, Goto, IInv, TypeOK, WorkOnItsWay, LoginsPlaced, slotVars, readVars, jobVars,
               levelVars
<1>11. ASSUME NEW c \in Conns, HandleLogin(c), UNCHANGED mix PROVE WorkOnItsWay'
  BY <1>11 DEF HandleLogin, Goto, IInv, TypeOK, WorkOnItsWay, LoginsPlaced, slotVars, queueVars,
               jobVars, levelVars, shareVars
<1>12. ASSUME NEW c \in Conns, AnswerLogin(c), UNCHANGED mix PROVE WorkOnItsWay'
  BY <1>12 DEF AnswerLogin, Goto, IInv, TypeOK, WorkOnItsWay, LoginsPlaced, slotVars, readVars, jobVars,
               levelVars, shareVars
<1>13. ASSUME NEW c \in Conns, SendWork(c), UNCHANGED mix PROVE WorkOnItsWay'
  BY <1>13 DEF SendWork, Goto, IInv, TypeOK, WorkOnItsWay, LoginsPlaced, slotVars, readVars, jobVars,
               levelVars, shareVars
<1>14. ASSUME NEW c \in Conns, KeepDeparted(c), UNCHANGED mix PROVE WorkOnItsWay'
  BY <1>14 DEF KeepDeparted, Goto, IInv, TypeOK, WorkOnItsWay, LoginsPlaced, slotVars, readVars,
               queueVars, jobVars, shareVars
<1>15. ASSUME NEW c \in Conns, Release(c), UNCHANGED mix PROVE WorkOnItsWay'
  BY <1>15 DEF Release, Goto, IInv, TypeOK, WorkOnItsWay, LoginsPlaced, jobVars, levelVars, shareVars
<1>16. ASSUME NEW c \in Conns, BroadcastTo(c), UNCHANGED mix PROVE WorkOnItsWay'
  BY <1>16 DEF BroadcastTo, IInv, TypeOK, WorkOnItsWay, LoginsPlaced, slotVars, readVars, levelVars,
               shareVars
<1>17. ASSUME Broadcast, UNCHANGED mix PROVE WorkOnItsWay'
  BY <1>17 DEF Broadcast, IInv, TypeOK, WorkOnItsWay, LoginsPlaced, slotVars, readVars, queueVars,
               levelVars, shareVars
<1>18. ASSUME NEW c \in Conns, Arrive(c) \/ AuthTimeout(c) \/ TakeMessage(c) \/ Written(c)
                   \/ LevelExpires(c),
             UNCHANGED mix
      PROVE  WorkOnItsWay'
  <2>1. UNCHANGED <<pc, clients, auth, cur, got, todo>>
    BY <1>18 DEF Arrive, AuthTimeout, TakeMessage, Written, LevelExpires, slotVars, readVars, queueVars,
                 jobVars, levelVars, shareVars
  <2> QED BY <2>1 DEF IInv, WorkOnItsWay
<1>19. ASSUME ScanStart \/ ScanClients \/ ScanDeparted \/ ShareProcessed \/ Stopping
                   \/ UNCHANGED vars,
             UNCHANGED mix
      PROVE  WorkOnItsWay'
  <2>1. UNCHANGED <<pc, clients, auth, cur, got, todo>>
    BY <1>19 DEF ScanStart, ScanClients, ScanDeparted, ShareProcessed, Stopping, StopBegins,
             StopGrace, StopClosed, StopShares, vars, slotVars, readVars, queueVars, jobVars,
             levelVars, shareVars
  <2> QED BY <2>1 DEF IInv, WorkOnItsWay
<1> QED BY <1>1, <1>2, <1>3, <1>4, <1>5, <1>6, <1>7, <1>8, <1>9, <1>10, <1>11, <1>12, <1>13,
          <1>14, <1>15, <1>16, <1>17, <1>18, <1>19
       DEF Next, Handler, Read, Write, vars

\* A level leaves one of the two places it is looked for only once it is in the other, or expired.
LEMMA LevelsStay ==
  ASSUME IInv, [Next]_vars
  PROVE  LevelsKept'
<1>1. ASSUME NEW c \in Conns, Count(c), UNCHANGED mix PROVE LevelsKept'
  BY <1>1 DEF Count, Goto, IInv, TypeOK, LevelsKept, LoginsPlaced, Connected, readVars, queueVars,
              jobVars, levelVars, shareVars
<1>2. ASSUME NEW c \in Conns, Reserve(c), UNCHANGED mix PROVE LevelsKept'
  BY <1>2 DEF Reserve, Goto, IInv, TypeOK, LevelsKept, LoginsPlaced, Connected, readVars, queueVars,
              jobVars, levelVars, shareVars
<1>3. ASSUME NEW c \in Conns, FirstByte(c), UNCHANGED mix PROVE LevelsKept'
  BY <1>3 DEF FirstByte, Goto, IInv, TypeOK, LevelsKept, LoginsPlaced, Connected, slotVars, readVars,
              queueVars, jobVars, levelVars, shareVars
<1>4. ASSUME NEW c \in Conns, ReadLine(c), UNCHANGED mix PROVE LevelsKept'
  BY <1>4 DEF ReadLine, Goto, IInv, TypeOK, LevelsKept, LoginsPlaced, Connected, slotVars, queueVars,
              jobVars, levelVars, shareVars
<1>5. ASSUME NEW c \in Conns, EndOfInput(c), UNCHANGED mix PROVE LevelsKept'
  BY <1>5 DEF EndOfInput, Goto, IInv, TypeOK, LevelsKept, LoginsPlaced, Connected, slotVars, readVars,
              queueVars, jobVars, levelVars, shareVars
<1>6. ASSUME NEW c \in Conns, Room(c), UNCHANGED mix PROVE LevelsKept'
  BY <1>6 DEF Room, Goto, IInv, TypeOK, LevelsKept, LoginsPlaced, Connected, slotVars, readVars,
              jobVars, levelVars, shareVars
<1>7. ASSUME NEW c \in Conns, Woken(c), UNCHANGED mix PROVE LevelsKept'
  BY <1>7 DEF Woken, Goto, IInv, TypeOK, LevelsKept, LoginsPlaced, Connected, slotVars, readVars,
              jobVars, levelVars, shareVars
<1>8. ASSUME NEW c \in Conns, HandleJunk(c), UNCHANGED mix PROVE LevelsKept'
  BY <1>8 DEF HandleJunk, Goto, IInv, TypeOK, LevelsKept, LoginsPlaced, Connected, slotVars, readVars,
              queueVars, jobVars, levelVars, shareVars
<1>9. ASSUME NEW c \in Conns, HandleRequest(c), UNCHANGED mix PROVE LevelsKept'
  BY <1>9 DEF HandleRequest, Goto, IInv, TypeOK, LevelsKept, LoginsPlaced, Connected, slotVars,
              readVars, jobVars, levelVars, shareVars
<1>10. ASSUME NEW c \in Conns, HandleShare(c), UNCHANGED mix PROVE LevelsKept'
  BY <1>10 DEF HandleShare, Goto, IInv, TypeOK, LevelsKept, LoginsPlaced, Connected, slotVars, readVars,
               jobVars, levelVars
<1>11. ASSUME NEW c \in Conns, HandleLogin(c), UNCHANGED mix PROVE LevelsKept'
  BY <1>11 DEF HandleLogin, Goto, IInv, TypeOK, LevelsKept, LoginsPlaced, Connected, slotVars,
               queueVars, jobVars, levelVars, shareVars
<1>12. ASSUME NEW c \in Conns, AnswerLogin(c), UNCHANGED mix PROVE LevelsKept'
  BY <1>12 DEF AnswerLogin, Goto, IInv, TypeOK, LevelsKept, LoginsPlaced, Connected, slotVars, readVars,
               jobVars, levelVars, shareVars
<1>13. ASSUME NEW c \in Conns, SendWork(c), UNCHANGED mix PROVE LevelsKept'
  BY <1>13 DEF SendWork, Goto, IInv, TypeOK, LevelsKept, LoginsPlaced, Connected, slotVars, readVars,
               jobVars, levelVars, shareVars
<1>14. ASSUME NEW c \in Conns, KeepDeparted(c), UNCHANGED mix PROVE LevelsKept'
  BY <1>14 DEF KeepDeparted, Goto, IInv, TypeOK, LevelsKept, LoginsPlaced, Connected, slotVars,
               readVars, queueVars, jobVars, shareVars
<1>15. ASSUME NEW c \in Conns, Release(c), UNCHANGED mix PROVE LevelsKept'
  BY <1>15 DEF Release, Goto, IInv, TypeOK, LevelsKept, LoginsPlaced, Connected, jobVars, levelVars,
               shareVars
<1>16. ASSUME NEW c \in Conns, LevelExpires(c), UNCHANGED mix PROVE LevelsKept'
  BY <1>16 DEF LevelExpires, IInv, TypeOK, LevelsKept, LoginsPlaced, Connected, slotVars, readVars,
               queueVars, jobVars, shareVars
<1>17. ASSUME ScanStart, UNCHANGED mix PROVE LevelsKept'
  BY <1>17 DEF ScanStart, IInv, TypeOK, LevelsKept, Connected, slotVars, readVars, queueVars, jobVars,
               shareVars
<1>18. ASSUME ScanClients, UNCHANGED mix PROVE LevelsKept'
  BY <1>18 DEF ScanClients, IInv, TypeOK, LevelsKept, Connected, slotVars, readVars, queueVars, jobVars,
               shareVars
<1>19. ASSUME ScanDeparted, UNCHANGED mix PROVE LevelsKept'
  BY <1>19 DEF ScanDeparted, IInv, TypeOK, LevelsKept, Connected, slotVars, readVars, queueVars,
               jobVars, shareVars
<1>20. ASSUME NEW c \in Conns, Arrive(c) \/ AuthTimeout(c) \/ BroadcastTo(c) \/ TakeMessage(c) \/ Written(c),
             UNCHANGED mix
      PROVE  LevelsKept'
  <2>1. UNCHANGED <<pc, clients, auth, proven, departed, unkept, scan>>
    BY <1>20 DEF Arrive, AuthTimeout, BroadcastTo, TakeMessage, Written, Enqueue, slotVars, readVars,
                 queueVars, jobVars, levelVars, shareVars
  <2> QED BY <2>1 DEF IInv, LevelsKept, Connected
<1>21. ASSUME Broadcast \/ ShareProcessed \/ Stopping \/ UNCHANGED vars,
             UNCHANGED mix
      PROVE  LevelsKept'
  <2>1. UNCHANGED <<pc, clients, auth, proven, departed, unkept, scan>>
    BY <1>21 DEF Broadcast, ShareProcessed, Stopping, StopBegins, StopGrace, StopClosed, StopShares,
             vars, slotVars, readVars, queueVars, jobVars, levelVars, shareVars
  <2> QED BY <2>1 DEF IInv, LevelsKept, Connected
<1> QED BY <1>1, <1>2, <1>3, <1>4, <1>5, <1>6, <1>7, <1>8, <1>9, <1>10, <1>11, <1>12, <1>13,
          <1>14, <1>15, <1>16, <1>17, <1>18, <1>19, <1>20, <1>21
       DEF Next, Handler, Read, Write, vars

\* What a reader queues between two looks at its queue is bounded by the room it looked for.
LEMMA RoomKept ==
  ASSUME IInv, [Next]_vars
  PROVE  RoomLeft'
<1>1. ASSUME NEW c \in Conns, Count(c), UNCHANGED mix PROVE RoomLeft'
  BY <1>1, QueueAssumption DEF Count, Goto, IInv, TypeOK, RoomLeft, Answered, readVars, queueVars,
                               jobVars, levelVars, shareVars
<1>2. ASSUME NEW c \in Conns, Reserve(c), UNCHANGED mix PROVE RoomLeft'
  BY <1>2, QueueAssumption DEF Reserve, Goto, IInv, TypeOK, RoomLeft, Answered, readVars, queueVars,
                               jobVars, levelVars, shareVars
<1>3. ASSUME NEW c \in Conns, FirstByte(c), UNCHANGED mix PROVE RoomLeft'
  BY <1>3, QueueAssumption DEF FirstByte, Goto, IInv, TypeOK, RoomLeft, Answered, slotVars, readVars,
                               queueVars, jobVars, levelVars, shareVars
<1>4. ASSUME NEW c \in Conns, ReadLine(c), UNCHANGED mix PROVE RoomLeft'
  BY <1>4, QueueAssumption DEF ReadLine, Goto, IInv, TypeOK, RoomLeft, Answered, slotVars, queueVars,
                               jobVars, levelVars, shareVars
<1>5. ASSUME NEW c \in Conns, EndOfInput(c), UNCHANGED mix PROVE RoomLeft'
  BY <1>5, QueueAssumption DEF EndOfInput, Goto, IInv, TypeOK, RoomLeft, Answered, slotVars, readVars,
                               queueVars, jobVars, levelVars, shareVars
<1>6. ASSUME NEW c \in Conns, Room(c), UNCHANGED mix PROVE RoomLeft'
  BY <1>6, QueueAssumption DEF Room, Goto, IInv, TypeOK, RoomLeft, Answered, slotVars, readVars,
                               jobVars, levelVars, shareVars, HasRoom, Queued
<1>7. ASSUME NEW c \in Conns, Woken(c), UNCHANGED mix PROVE RoomLeft'
  BY <1>7, QueueAssumption DEF Woken, Goto, IInv, TypeOK, RoomLeft, Answered, slotVars, readVars,
                               jobVars, levelVars, shareVars
<1>8. ASSUME NEW c \in Conns, HandleJunk(c), UNCHANGED mix PROVE RoomLeft'
  BY <1>8, QueueAssumption DEF HandleJunk, Goto, IInv, TypeOK, RoomLeft, Answered, slotVars, readVars,
                               queueVars, jobVars, levelVars, shareVars
<1>9. ASSUME NEW c \in Conns, HandleRequest(c), UNCHANGED mix PROVE RoomLeft'
  BY <1>9, QueueAssumption DEF HandleRequest, Goto, IInv, TypeOK, RoomLeft, Answered, slotVars,
                               readVars, jobVars, levelVars, shareVars, Enqueue
<1>10. ASSUME NEW c \in Conns, HandleShare(c), UNCHANGED mix PROVE RoomLeft'
  BY <1>10, QueueAssumption DEF HandleShare, Goto, IInv, TypeOK, RoomLeft, Answered, slotVars, readVars,
                                jobVars, levelVars, Enqueue
<1>11. ASSUME NEW c \in Conns, HandleLogin(c), UNCHANGED mix PROVE RoomLeft'
  BY <1>11, QueueAssumption DEF HandleLogin, Goto, IInv, TypeOK, RoomLeft, Answered, slotVars,
                                queueVars, jobVars, levelVars, shareVars
<1>12. ASSUME NEW c \in Conns, AnswerLogin(c), UNCHANGED mix PROVE RoomLeft'
  BY <1>12, QueueAssumption DEF AnswerLogin, Goto, IInv, TypeOK, RoomLeft, Answered, slotVars, readVars,
                                jobVars, levelVars, shareVars, Enqueue
<1>13. ASSUME NEW c \in Conns, SendWork(c), UNCHANGED mix PROVE RoomLeft'
  BY <1>13, QueueAssumption DEF SendWork, Goto, IInv, TypeOK, RoomLeft, Answered, slotVars, readVars,
                                jobVars, levelVars, shareVars, Enqueue
<1>14. ASSUME NEW c \in Conns, KeepDeparted(c), UNCHANGED mix PROVE RoomLeft'
  BY <1>14, QueueAssumption DEF KeepDeparted, Goto, IInv, TypeOK, RoomLeft, Answered, slotVars,
                                readVars, queueVars, jobVars, shareVars
<1>15. ASSUME NEW c \in Conns, Release(c), UNCHANGED mix PROVE RoomLeft'
  BY <1>15, QueueAssumption DEF Release, Goto, IInv, TypeOK, RoomLeft, Answered, jobVars, levelVars,
                                shareVars
<1>16. ASSUME NEW c \in Conns, BroadcastTo(c), UNCHANGED mix PROVE RoomLeft'
  BY <1>16, QueueAssumption DEF BroadcastTo, IInv, TypeOK, RoomLeft, Answered, slotVars, readVars,
                                levelVars, shareVars, Enqueue
<1>17. ASSUME NEW c \in Conns, TakeMessage(c), UNCHANGED mix PROVE RoomLeft'
  BY <1>17, QueueAssumption DEF TakeMessage, IInv, TypeOK, RoomLeft, Answered, slotVars, readVars,
                                jobVars, levelVars, shareVars
<1>18. ASSUME NEW c \in Conns, Arrive(c) \/ AuthTimeout(c) \/ Written(c) \/ LevelExpires(c),
             UNCHANGED mix
      PROVE  RoomLeft'
  <2>1. UNCHANGED <<pc, outClosed, queued, casts>>
    BY <1>18 DEF Arrive, AuthTimeout, Written, LevelExpires, slotVars, readVars, queueVars, jobVars,
                 levelVars, shareVars
  <2> QED BY <2>1 DEF IInv, RoomLeft, Answered
<1>19. ASSUME Broadcast \/ ScanStart \/ ScanClients \/ ScanDeparted \/ ShareProcessed
                   \/ Stopping \/ UNCHANGED vars,
             UNCHANGED mix
      PROVE  RoomLeft'
  <2>1. UNCHANGED <<pc, outClosed, queued, casts>>
    BY <1>19 DEF Broadcast, ScanStart, ScanClients, ScanDeparted, ShareProcessed, Stopping,
             StopBegins, StopGrace, StopClosed, StopShares, vars, slotVars, readVars, queueVars,
             jobVars, levelVars, shareVars
  <2> QED BY <2>1 DEF IInv, RoomLeft, Answered
<1> QED BY <1>1, <1>2, <1>3, <1>4, <1>5, <1>6, <1>7, <1>8, <1>9, <1>10, <1>11, <1>12, <1>13,
          <1>14, <1>15, <1>16, <1>17, <1>18, <1>19
       DEF Next, Handler, Read, Write, vars
\* The part kept for this network is a part of the slots.
LEMMA KeptIsPart == Kept \in Nat /\ Kept <= MaxConnections
<1>1. \A m \in Nat, p \in Nat \ {0} : m \div p \in Nat /\ m \div p <= m
  OBVIOUS
<1> QED BY <1>1, SlotsAssumption DEF Kept

\* Each place where a slot is taken or given back keeps the counters true to the connections, and
\* takes one only within the limits (acceptLoop, connectionLimitFor, reserveIPSlot).
LEMMA SlotsKept ==
  ASSUME IInv, [Next]_vars
  PROVE  SlotsCounted'
<1> USE DEF IInv
<1>0. /\ pc \in [Conns -> Places] /\ IsFiniteSet(Open) /\ slots = Cardinality(Open)
      /\ slots \in Nat /\ slots <= MaxConnections
      /\ FromOutside \subseteq Open /\ \A h : CountedAt(h) \subseteq Open
  <2>1. Cardinality(Open) \in Nat
    BY FS_CardinalityType DEF SlotsCounted
  <2> QED BY <2>1 DEF TypeOK, SlotsCounted, FromOutside, CountedAt
<1>1. /\ IsFiniteSet(FromOutside) /\ Cardinality(FromOutside) \in Nat
      /\ \A h : IsFiniteSet(CountedAt(h)) /\ Cardinality(CountedAt(h)) \in Nat
  BY <1>0, FS_Subset, FS_CardinalityType
<1>2. ASSUME UNCHANGED slotVars, Open' = Open, FromOutside' = FromOutside,
             \A h \in Hosts : CountedAt(h)' = CountedAt(h), \A c \in Conns : arriving = c => pc'[c] = "none"
      PROVE  SlotsCounted'
  BY <1>2 DEF SlotsCounted, slotVars
<1>3. ASSUME NEW c \in Conns, Arrive(c) PROVE SlotsCounted'
  <2>1. UNCHANGED <<pc, slots, ipConns>> /\ arriving' = c /\ pc[c] = "none"
    BY <1>3 DEF Arrive
  <2>2. Open' = Open /\ FromOutside' = FromOutside /\ \A h : CountedAt(h)' = CountedAt(h)
    BY <2>1 DEF Open, FromOutside, CountedAt
  <2> QED BY <2>1, <2>2 DEF SlotsCounted
<1>4. ASSUME NEW c \in Conns, Count(c) PROVE SlotsCounted'
  <2>1. pc[c] = "none" /\ arriving' = Nobody /\ ipConns' = ipConns
    BY <1>4 DEF Count, SlotsCounted
  <2>2. CASE slots + 1 > LimitFor(c)
    <3>1. UNCHANGED <<pc, slots, ipConns>>
      BY <1>4, <2>1, <2>2 DEF Count
    <3>2. Open' = Open /\ FromOutside' = FromOutside /\ \A h : CountedAt(h)' = CountedAt(h)
      BY <3>1 DEF Open, FromOutside, CountedAt
    <3>3. \A d \in Conns : arriving' = d => pc'[d] = "none"
      BY <2>1, NobodyAssumption
    <3> QED BY <2>1, <3>1, <3>2, <3>3 DEF SlotsCounted
  <2>3. CASE ~(slots + 1 > LimitFor(c))
    <3>1. slots' = slots + 1 /\ pc' = [pc EXCEPT ![c] = "handler"]
      BY <1>4, <2>3 DEF Count, Goto
    <3>2. /\ Open' = Open \cup {c} /\ c \notin Open
          /\ FromOutside' = IF HostOf[c] \notin LocalNetwork THEN FromOutside \cup {c} ELSE FromOutside
          /\ \A h : CountedAt(h)' = CountedAt(h)
      BY <1>0, <2>1, <3>1 DEF Open, FromOutside, CountedAt
    <3>3. IsFiniteSet(Open') /\ Cardinality(Open') = slots'
      BY <1>0, <3>1, <3>2, FS_AddElement
    <3>4. slots' <= LimitFor(c) /\ slots' \in Nat /\ LimitFor(c) <= MaxConnections
      BY <1>0, <2>3, <3>1, KeptIsPart, SlotsAssumption DEF LimitFor
    <3>5. Cardinality(FromOutside') <= MaxConnections - Kept
      <4>1. CASE HostOf[c] \notin LocalNetwork
        <5>1. FromOutside' \subseteq Open'
          BY DEF FromOutside
        <5>2. Cardinality(FromOutside') <= Cardinality(Open') /\ Cardinality(FromOutside') \in Nat
          BY <3>3, <5>1, FS_Subset, FS_CardinalityType
        <5> QED BY <3>3, <3>4, <4>1, <5>2, KeptIsPart, SlotsAssumption DEF LimitFor
      <4>2. CASE HostOf[c] \in LocalNetwork
        BY <3>2, <4>2 DEF SlotsCounted
      <4> QED BY <4>1, <4>2
    <3>6. slots' <= MaxConnections
      BY <1>0, <3>4, KeptIsPart, SlotsAssumption DEF LimitFor
    <3>7. \A d \in Conns : arriving' = d => pc'[d] = "none"
      BY <2>1, NobodyAssumption
    <3> QED BY <2>1, <3>2, <3>3, <3>5, <3>6, <3>7 DEF SlotsCounted
  <2> QED BY <2>2, <2>3
<1>5. ASSUME NEW c \in Conns, pc[c] # "none", pc' = [pc EXCEPT ![c] = "none"],
             slots' = slots - 1, arriving' = arriving
      PROVE  /\ IsFiniteSet(Open') /\ slots' = Cardinality(Open') /\ slots' <= MaxConnections
             /\ Cardinality(FromOutside') <= MaxConnections - Kept
             /\ \A d \in Conns : arriving' = d => pc'[d] = "none"
  <2>1. Open' = Open \ {c} /\ c \in Open /\ FromOutside' \subseteq FromOutside
    BY <1>0, <1>5 DEF Open, FromOutside
  <2>2. IsFiniteSet(Open') /\ Cardinality(Open') = Cardinality(Open) - 1
    BY <1>0, <2>1, FS_RemoveElement
  <2>3. Cardinality(FromOutside') <= Cardinality(FromOutside) /\ Cardinality(FromOutside') \in Nat
    BY <1>1, <2>1, FS_Subset, FS_CardinalityType
  <2>4. Cardinality(FromOutside) <= MaxConnections - Kept
    BY DEF SlotsCounted
  <2>5. Cardinality(FromOutside') <= MaxConnections - Kept
    BY <1>1, <2>3, <2>4, KeptIsPart, SlotsAssumption
  <2>6. slots' <= MaxConnections
    BY <1>0, <1>5, SlotsAssumption
  <2>7. \A d \in Conns : arriving' = d => pc'[d] = "none"
    BY <1>0, <1>5 DEF SlotsCounted
  <2> QED BY <1>0, <1>5, <2>2, <2>5, <2>6, <2>7
<1>6. ASSUME NEW c \in Conns, Reserve(c) PROVE SlotsCounted'
  <2>1. pc[c] = "handler" /\ arriving' = arriving
    BY <1>6 DEF Reserve
  <2>2. CASE CountedByIP(c) /\ ipConns[HostOf[c]] >= MaxConnectionsPerIP
    <3>1. pc' = [pc EXCEPT ![c] = "none"] /\ slots' = slots - 1 /\ ipConns' = ipConns
      BY <1>6, <2>2 DEF Reserve, Goto
    <3>2. \A h \in Hosts : CountedAt(h)' = CountedAt(h)
      BY <1>0, <2>1, <3>1 DEF CountedAt, Open
    <3> QED BY <1>5, <2>1, <3>1, <3>2 DEF SlotsCounted
  <2>3. CASE ~(CountedByIP(c) /\ ipConns[HostOf[c]] >= MaxConnectionsPerIP)
    <3>1. /\ pc' = [pc EXCEPT ![c] = "first"] /\ slots' = slots
          /\ ipConns' = IF CountedByIP(c) THEN [ipConns EXCEPT ![HostOf[c]] = @ + 1] ELSE ipConns
      BY <1>6, <2>3 DEF Reserve, Goto
    <3>2. Open' = Open /\ FromOutside' = FromOutside /\ HostOf[c] \in Hosts
      BY <1>0, <2>1, <3>1 DEF Open, FromOutside, Hosts
    <3>3. \A d \in Conns : arriving' = d => pc'[d] = "none"
      BY <1>0, <2>1, <3>1 DEF SlotsCounted
    <3>4. ASSUME NEW h \in Hosts
          PROVE  /\ ipConns'[h] = Cardinality(CountedAt(h)')
                 /\ MaxConnectionsPerIP > 0 => ipConns'[h] <= MaxConnectionsPerIP
      <4>0. /\ ipConns[h] = Cardinality(CountedAt(h)) /\ ipConns \in [Hosts -> Int]
            /\ MaxConnectionsPerIP > 0 => ipConns[h] <= MaxConnectionsPerIP
        BY DEF SlotsCounted, TypeOK
      <4>1. CASE CountedByIP(c) /\ h = HostOf[c]
        <5>1. CountedAt(h)' = CountedAt(h) \cup {c} /\ c \notin CountedAt(h)
          BY <1>0, <2>1, <3>1, <4>1 DEF CountedAt, Open, CountedByIP
        <5>2. Cardinality(CountedAt(h)') = Cardinality(CountedAt(h)) + 1
          BY <1>1, <5>1, FS_AddElement
        <5>3. ipConns'[h] = ipConns[h] + 1
          BY <3>1, <4>0, <4>1
        <5> QED BY <1>1, <2>3, <4>0, <4>1, <5>2, <5>3, SlotsAssumption
      <4>2. CASE ~(CountedByIP(c) /\ h = HostOf[c])
        <5>1. CountedAt(h)' = CountedAt(h)
          BY <1>0, <2>1, <3>1, <4>2 DEF CountedAt, Open, CountedByIP
        <5>2. ipConns'[h] = ipConns[h]
          BY <3>1, <4>0, <4>2
        <5> QED BY <4>0, <5>1, <5>2
      <4> QED BY <4>1, <4>2
    <3> QED BY <1>0, <3>1, <3>2, <3>3, <3>4 DEF SlotsCounted
  <2> QED BY <2>2, <2>3
<1>7. ASSUME NEW c \in Conns, Release(c) PROVE SlotsCounted'
  <2>1. /\ pc[c] = "release" /\ pc' = [pc EXCEPT ![c] = "none"] /\ slots' = slots - 1 /\ arriving' = arriving
        /\ ipConns' = IF CountedByIP(c) THEN [ipConns EXCEPT ![HostOf[c]] = @ - 1] ELSE ipConns
        /\ HostOf[c] \in Hosts
    BY <1>7 DEF Release, Goto, Hosts
  <2>2. ASSUME NEW h \in Hosts
        PROVE  /\ ipConns'[h] = Cardinality(CountedAt(h)')
               /\ MaxConnectionsPerIP > 0 => ipConns'[h] <= MaxConnectionsPerIP
    <3>0. /\ ipConns[h] = Cardinality(CountedAt(h)) /\ ipConns \in [Hosts -> Int]
          /\ MaxConnectionsPerIP > 0 => ipConns[h] <= MaxConnectionsPerIP
      BY DEF SlotsCounted, TypeOK
    <3>1. CASE CountedByIP(c) /\ h = HostOf[c]
      <4>1. CountedAt(h)' = CountedAt(h) \ {c} /\ c \in CountedAt(h)
        BY <1>0, <2>1, <3>1 DEF CountedAt, Open, CountedByIP
      <4>2. Cardinality(CountedAt(h)') = Cardinality(CountedAt(h)) - 1
        BY <1>1, <4>1, FS_RemoveElement
      <4>3. ipConns'[h] = ipConns[h] - 1
        BY <2>1, <3>0, <3>1
      <4> QED BY <1>1, <3>0, <4>2, <4>3, SlotsAssumption
    <3>2. CASE ~(CountedByIP(c) /\ h = HostOf[c])
      <4>1. CountedAt(h)' = CountedAt(h)
        BY <1>0, <2>1, <3>2 DEF CountedAt, Open, CountedByIP
      <4>2. ipConns'[h] = ipConns[h]
        BY <2>1, <3>0, <3>2
      <4> QED BY <3>0, <4>1, <4>2
    <3> QED BY <3>1, <3>2
  <2> QED BY <1>5, <2>1, <2>2 DEF SlotsCounted
<1>8. ASSUME NEW c \in Conns,
             \/ FirstByte(c) \/ ReadLine(c) \/ EndOfInput(c) \/ Room(c) \/ Woken(c) \/ HandleJunk(c)
             \/ HandleRequest(c) \/ HandleShare(c) \/ HandleLogin(c) \/ AnswerLogin(c) \/ SendWork(c)
             \/ KeepDeparted(c)
      PROVE  SlotsCounted'
  <2>1. PICK place \in Places \ {"none", "handler"} : pc' = [pc EXCEPT ![c] = place]
    BY <1>8 DEF FirstByte, ReadLine, EndOfInput, Room, Woken, HandleJunk, HandleRequest, HandleShare,
                HandleLogin, AnswerLogin, SendWork, KeepDeparted, Goto, Places
  <2>2. pc[c] \notin {"none", "handler"} /\ UNCHANGED slotVars
    BY <1>8 DEF FirstByte, ReadLine, EndOfInput, Room, Woken, HandleJunk, HandleRequest, HandleShare,
                HandleLogin, AnswerLogin, SendWork, KeepDeparted, slotVars
  <2>3. Open' = Open /\ FromOutside' = FromOutside /\ \A h : CountedAt(h)' = CountedAt(h)
    BY <1>0, <2>1, <2>2 DEF Open, FromOutside, CountedAt
  <2>4. \A d \in Conns : arriving = d => pc'[d] = "none"
    BY <1>0, <2>1, <2>2 DEF SlotsCounted
  <2> QED BY <1>2, <2>2, <2>3, <2>4
<1>9. ASSUME UNCHANGED <<pc, slotVars>> PROVE SlotsCounted'
  <2>1. Open' = Open /\ FromOutside' = FromOutside /\ \A h : CountedAt(h)' = CountedAt(h)
    BY <1>9 DEF Open, FromOutside, CountedAt
  <2>2. \A c \in Conns : arriving = c => pc'[c] = "none"
    BY <1>9 DEF SlotsCounted
  <2> QED BY <1>2, <1>9, <2>1, <2>2
<1>10. ASSUME NEW c \in Conns,
              AuthTimeout(c) \/ BroadcastTo(c) \/ TakeMessage(c) \/ Written(c) \/ LevelExpires(c)
       PROVE  SlotsCounted'
  BY <1>9, <1>10 DEF AuthTimeout, BroadcastTo, TakeMessage, Written, LevelExpires, slotVars
<1>11. ASSUME \/ Broadcast \/ ScanStart \/ ScanClients \/ ScanDeparted \/ ShareProcessed \/ Stopping
              \/ UNCHANGED vars
       PROVE  SlotsCounted'
  BY <1>9, <1>11 DEF Broadcast, ScanStart, ScanClients, ScanDeparted, ShareProcessed, Stopping,
                     StopBegins, StopGrace, StopClosed, StopShares, vars, slotVars
<1> QED BY <1>3, <1>4, <1>6, <1>7, <1>8, <1>10, <1>11 DEF Next, Handler, Read, Write

\* A server just started satisfies the invariant.
LEMMA InitIInv == Init => IInv
<1> SUFFICES ASSUME Init PROVE IInv
  OBVIOUS
<1>1. TypeOK /\ LoginsPlaced /\ WorkOnItsWay /\ LevelsKept
  BY DEF Init, TypeOK, Places, LoginsPlaced, WorkOnItsWay, LevelsKept
<1>2. RoomLeft
  BY QueueAssumption DEF Init, RoomLeft, Answered
<1>3. SlotsCounted
  <2>1. Open = {} /\ FromOutside = {} /\ \A h : CountedAt(h) = {}
    BY DEF Init, Open, FromOutside, CountedAt
  <2>2. IsFiniteSet(Open) /\ Cardinality(Open) = 0 /\ Cardinality(FromOutside) = 0
        /\ \A h : Cardinality(CountedAt(h)) = 0
    BY <2>1, FS_EmptySet
  <2>3. 0 <= MaxConnections /\ 0 <= MaxConnections - Kept /\ 0 <= MaxConnectionsPerIP
    BY KeptIsPart, SlotsAssumption
  <2> QED BY <2>2, <2>3, NobodyAssumption DEF Init, SlotsCounted
<1> QED BY <1>1, <1>2, <1>3 DEF IInv

\* Every step keeps the invariant.
LEMMA NextIInv == IInv /\ [Next]_vars => IInv'
  BY TypeKept, SlotsKept, LoginsKept, WorkKept, LevelsStay, RoomKept DEF IInv

\* Every reachable state satisfies the invariant.
LEMMA Invariance == Spec => []IInv
  BY InitIInv, NextIInv, PTL DEF Spec

\* Whatever connects and however it ends, the slots and each address's part stay within their limits, and
\* those of the internet leave this network's miners the part kept for them.
THEOREM LimitsHold == Spec => []LimitsKept
<1>1. IInv => LimitsKept
  <2> SUFFICES ASSUME IInv PROVE LimitsKept
    OBVIOUS
  <2>1. Open = {c \in Conns : pc[c] # "none"}
    BY DEF Open
  <2>2. Cardinality(Open) <= MaxConnections /\ Cardinality(FromOutside) <= MaxConnections - Kept
    BY DEF IInv, SlotsCounted
  <2>3. ASSUME NEW h \in Hosts \ Loopback, MaxConnectionsPerIP > 0
        PROVE  Cardinality({c \in Open : HostOf[c] = h /\ pc[c] # "handler"}) <= MaxConnectionsPerIP
    <3>1. {c \in Open : HostOf[c] = h /\ pc[c] # "handler"} = CountedAt(h)
      BY <2>3 DEF CountedAt, CountedByIP
    <3> QED BY <2>3, <3>1 DEF IInv, SlotsCounted
  <2> QED BY <2>1, <2>2, <2>3 DEF LimitsKept, FromOutside
<1> QED BY <1>1, Invariance, PTL

\* A miner whose login is done has the current job, however login and broadcast interleave.
THEOREM LoggedInMinersHaveWork == Spec => []LoggedInHasWork
<1>1. IInv => LoggedInHasWork
  BY DEF IInv, WorkOnItsWay, LoggedInHasWork
<1> QED BY <1>1, Invariance, PTL

\* A step that closes a queue for being full is a second broadcast since its reader last saw room.
LEMMA OverflowIsBroadcast ==
  ASSUME IInv, [Next]_vars, NEW c \in Conns, c \in outClosed' \ outClosed
  PROVE  casts'[c] >= 2
<1>1. /\ queued \in [Conns -> Nat] /\ casts \in [Conns -> 0..2] /\ todo.size \in 0..2
      /\ casts[c] < 2 => queued[c] <= ClientQueue - ReaderRoom + Answered(c) + 2 * casts[c]
      /\ ClientQueue \in Nat /\ ReaderRoom \in 5..ClientQueue /\ casts[c] \in 0..2 /\ queued[c] \in Nat
  BY QueueAssumption DEF IInv, TypeOK, RoomLeft
<1>2. ASSUME NEW d \in Conns, NEW k \in 0..2, Enqueue(d, k) PROVE d = c /\ queued[c] + k > ClientQueue
  <2>1. d = c /\ ~(queued[c] + k <= ClientQueue)
    BY <1>2 DEF Enqueue
  <2> QED BY <1>1, <2>1
<1>3. ASSUME NEW d \in Conns, HandleRequest(d) \/ HandleShare(d) \/ AnswerLogin(d) \/ SendWork(d)
      PROVE  casts'[c] >= 2
  <2>1. casts' = casts
    BY <1>3 DEF HandleRequest, HandleShare, AnswerLogin, SendWork
  <2>2. CASE HandleRequest(d)
    <3>1. PICK k \in 1..2 : Enqueue(d, k)
      BY <2>2 DEF HandleRequest
    <3>2. d = c /\ queued[c] + k > ClientQueue
      BY <3>1, <1>2
    <3>3. Answered(c) = 0
      BY <2>2, <3>2 DEF HandleRequest, Answered
    <3> QED BY <1>1, <2>1, <3>2, <3>3
  <2>3. CASE HandleShare(d)
    <3>1. d = c /\ queued[c] + 1 > ClientQueue
      BY <2>3, <1>2 DEF HandleShare
    <3>2. Answered(c) = 0
      BY <2>3, <3>1 DEF HandleShare, Answered
    <3> QED BY <1>1, <2>1, <3>1, <3>2
  <2>4. CASE AnswerLogin(d)
    <3>1. d = c /\ queued[c] + 2 > ClientQueue
      BY <2>4, <1>2 DEF AnswerLogin
    <3>2. Answered(c) = 0
      BY <2>4, <3>1 DEF AnswerLogin, Answered
    <3> QED BY <1>1, <2>1, <3>1, <3>2
  <2>5. CASE SendWork(d)
    <3>1. Enqueue(d, 1)
      BY <2>5 DEF SendWork
    <3>2. d = c /\ queued[c] + 1 > ClientQueue
      BY <3>1, <1>2
    <3>3. Answered(c) = 2
      BY <2>5, <3>2 DEF SendWork, Answered
    <3> QED BY <1>1, <2>1, <3>2, <3>3
  <2> QED BY <1>3, <2>2, <2>3, <2>4, <2>5
<1>4. ASSUME NEW d \in Conns, BroadcastTo(d) PROVE casts'[c] >= 2
  <2>1. Enqueue(d, todo.size) /\ casts' = [casts EXCEPT ![d] = IF @ < 2 THEN @ + 1 ELSE @]
    BY <1>4 DEF BroadcastTo
  <2>2. d = c /\ queued[c] + todo.size > ClientQueue
    BY <1>1, <1>2, <2>1
  <2>3. casts'[c] = IF casts[c] < 2 THEN casts[c] + 1 ELSE casts[c]
    BY <1>1, <2>1, <2>2
  <2>4. Answered(c) <= 3 /\ Answered(c) \in Nat
    BY DEF Answered
  <2> QED BY <1>1, <2>2, <2>3, <2>4
<1>5. ASSUME NEW d \in Conns,
             \/ Arrive(d) \/ Count(d) \/ Reserve(d) \/ FirstByte(d) \/ ReadLine(d) \/ EndOfInput(d) \/ Room(d)
             \/ Woken(d) \/ HandleJunk(d) \/ HandleLogin(d) \/ KeepDeparted(d) \/ Release(d) \/ AuthTimeout(d)
             \/ TakeMessage(d) \/ Written(d) \/ LevelExpires(d)
      PROVE  FALSE
  <2>1. outClosed' \subseteq outClosed
    BY <1>5 DEF Arrive, Count, Reserve, FirstByte, ReadLine, EndOfInput, Room, Woken, HandleJunk,
                HandleLogin, KeepDeparted, Release, AuthTimeout, TakeMessage, Written, LevelExpires,
                queueVars
  <2> QED BY <2>1
<1>6. ASSUME \/ Broadcast \/ ScanStart \/ ScanClients \/ ScanDeparted \/ ShareProcessed \/ Stopping
             \/ UNCHANGED vars
      PROVE  FALSE
  <2>1. outClosed' = outClosed
    BY <1>6 DEF Broadcast, ScanStart, ScanClients, ScanDeparted, ShareProcessed, Stopping, StopBegins,
                StopGrace, StopClosed, StopShares, vars, queueVars
  <2> QED BY <2>1
<1> QED BY <1>3, <1>4, <1>5, <1>6 DEF Next, Handler, Read, Write

\* A miner that reads its answers is not dropped for its own requests, for any sizes of the queue and of the
\* room kept in it, if the room holds a login's answers and one clean job.
THEOREM OwnRequestsDropNobody == Spec => OnlyBroadcastsOverflow
<1>1. IInv /\ [Next]_vars => [\A c \in Conns : c \in outClosed' \ outClosed => casts'[c] >= 2]_vars
  BY OverflowIsBroadcast
<1> QED BY <1>1, Invariance, PTL DEF Spec, OnlyBroadcastsOverflow

\* maxDifficultyAt counts every level that was proven when it began and has not expired, wherever between
\* its two looks a connection ends, for any room (maxDeparted) in the record of departed levels, but for the
\* levels that record was full for.
THEOREM ProvenLevelsAreCounted == Spec => ProvenLevelCounted
<1>1. ASSUME IInv, [Next]_vars, scan.pc = "departed", scan'.pc = "idle"
      PROVE  scan.must \subseteq scan'.saw \cup unkept
  <2>1. ScanDeparted
    <3>1. ASSUME NEW c \in Conns,
                 \/ Arrive(c) \/ Handler(c) \/ AuthTimeout(c) \/ BroadcastTo(c) \/ Write(c)
          PROVE  scan' = scan
      BY <3>1 DEF Arrive, Handler, Count, Reserve, Read, FirstByte, ReadLine, EndOfInput, Room, Woken,
                  HandleJunk, HandleRequest, HandleShare, HandleLogin, AnswerLogin, SendWork, KeepDeparted,
                  Release, AuthTimeout, BroadcastTo, Write, TakeMessage, Written, levelVars
    <3>2. ASSUME NEW c \in Conns, LevelExpires(c) PROVE scan'.pc = scan.pc
      BY <3>2 DEF LevelExpires, IInv, TypeOK
    <3>3. ASSUME Broadcast \/ ShareProcessed \/ Stopping \/ UNCHANGED vars PROVE scan' = scan
      BY <3>3 DEF Broadcast, ShareProcessed, Stopping, StopBegins, StopGrace, StopClosed, StopShares,
                  vars, levelVars
    <3>4. ~ScanStart /\ ~ScanClients
      BY <1>1 DEF ScanStart, ScanClients
    <3> QED BY <1>1, <3>1, <3>2, <3>3, <3>4 DEF Next
  <2>2. scan'.saw = scan.saw \cup departed
    BY <2>1 DEF ScanDeparted, IInv, TypeOK
  <2> QED BY <1>1, <2>2 DEF IInv, LevelsKept
<1>2. IInv /\ [Next]_vars =>
         [scan.pc = "departed" /\ scan'.pc = "idle" => scan.must \subseteq scan'.saw \cup unkept]_vars
  BY <1>1
<1> QED BY <1>2, Invariance, PTL DEF Spec, ProvenLevelCounted
=============================================================================
