---------------------------- MODULE ReactorProofs ----------------------------
(***************************************************************************)
(* Ownership and attention in Reactor, for any number of loops,            *)
(* descriptors and connections.  The inductive invariant IInv is what the  *)
(* tables, the timers and the position of the loops in their passes say    *)
(* about one another; WatchInv, on top of it, is what epoll watches for.   *)
(***************************************************************************)
EXTENDS Reactor, TLAPS

Busy == {"read", "tail", "write", "conn"}

(* An object is blank, waits in the task vector without a timer, or is      *)
(* alive and entered under its descriptor in the table of its loop.         *)
ObjectInv ==
  \A h \in Https :
    /\ http[h].life = "none" => http[h] = NewHttp
    /\ http[h].life # "none" => /\ http[h].loop \in Loops
                                /\ http[h].fd \in Fds
                                /\ http[h].connectionState # "DISCONNECTED"
    /\ http[h].life \in {"queued", "running"} => http[h].timers = 0
    /\ Live(h) => fd2http[http[h].loop][http[h].fd] = h

FdsApart ==
  \A g, h \in Https : Open(g) /\ Open(h) /\ g # h => http[g].fd # http[h].fd

EntriesLive ==
  \A l \in Loops, f \in Fds :
    /\ fd2chan[l][f] \in {None, fd2http[l][f]}
    /\ fd2http[l][f] # None => /\ Live(fd2http[l][f])
                               /\ http[fd2http[l][f]].loop = l
                               /\ http[fd2http[l][f]].fd = f

(* Where a loop is in its pass, and what it may still touch there. *)
LoopInv ==
  \A l \in Loops :
    /\ cur[l] # None <=> phase[l] \in Busy
    /\ batch[l] # {} => phase[l] \in Busy \cup {"dispatch"}
    /\ cur[l] \notin batch[l]
    /\ \A h \in Https : h \in batch[l] \/ cur[l] = h => Live(h) /\ http[h].loop = l

(* Only the connection in a handler may be without its timer node. *)
GuardInv ==
  \A h \in Https :
    Live(h) /\ http[h].connectionState = "CONNECTED" /\ cur[http[h].loop] # h
      => http[h].timers = 1

IInv == TypeOK /\ ObjectInv /\ FdsApart /\ EntriesLive /\ LoopInv /\ GuardInv /\ OneTimer
-----------------------------------------------------------------------------
(* Types of the operators. *)

LEMMA BlankTypes == NewHttp \in HttpDatas /\ NewSock \in Socks
BY DEF NewHttp, NewSock, HttpDatas, Socks, Lives, Conns, Masks, Reports

LEMMA NotifyTypes ==
  ASSUME NEW k \in Socks, NEW e
  PROVE  /\ Notify([k EXCEPT !.inq = TRUE], e) \in Socks
         /\ Notify([k EXCEPT !.fin = TRUE], e) \in Socks
         /\ Notify([k EXCEPT !.rst = TRUE], e) \in Socks
         /\ Notify([k EXCEPT !.space = TRUE], e) \in Socks
<1>1. ASSUME NEW j \in Socks PROVE Notify(j, e) \in Socks
  BY DEF Notify, Socks
<1>2. /\ [k EXCEPT !.inq = TRUE] \in Socks
      /\ [k EXCEPT !.fin = TRUE] \in Socks
      /\ [k EXCEPT !.rst = TRUE] \in Socks
      /\ [k EXCEPT !.space = TRUE] \in Socks
  BY DEF Socks
<1> QED BY <1>1, <1>2

LEMMA SockTypes ==
  ASSUME NEW k \in Socks, NEW ev \in Masks
  PROVE  /\ EpollCtl(k, ev) \in Socks
         /\ EpollWait(k) \in Socks
         /\ Drained(k) \in Socks
<1>1. EpollCtl(k, ev) \in Socks
  BY DEF EpollCtl, Socks
<1>2. EpollWait(k) \in Socks
  BY DEF EpollWait, Socks
<1>3. Drained(k) \in Socks
  BY DEF Drained, Socks
<1> QED BY <1>1, <1>2, <1>3

(* A connection whose node and link agree. *)
Linked(c) == c.timers <= 1 /\ (c.linked <=> c.timers = 1)

(* d is c after a handler: the same object, not closed. *)
Continues(c, d) ==
  /\ d \in HttpDatas
  /\ d.life = c.life /\ d.loop = c.loop /\ d.fd = c.fd
  /\ d.connectionState # "DISCONNECTED"
  /\ Linked(d)

(* Clearing the timer leaves no node and touches nothing else. *)
LEMMA Separated ==
  ASSUME NEW c \in HttpDatas, Linked(c)
  PROVE  LET d == SeperateTimer(c) IN
         /\ d \in HttpDatas /\ d.timers = 0 /\ ~d.linked
         /\ d.life = c.life /\ d.loop = c.loop /\ d.fd = c.fd
         /\ d.connectionState = c.connectionState
         /\ d.error = c.error /\ d.events = c.events
<1>1. CASE c.linked
  <2>1. c.timers \in Nat /\ c.timers = 1
    BY <1>1 DEF Linked, HttpDatas
  <2>2. SeperateTimer(c) = [c EXCEPT !.timers = 0, !.linked = FALSE]
    BY <1>1, <2>1 DEF SeperateTimer
  <2> DEFINE d == [c EXCEPT !.timers = 0, !.linked = FALSE]
  <2>3. d \in HttpDatas
    BY DEF HttpDatas
  <2>4. d.timers = 0 /\ d.linked = FALSE
    BY DEF HttpDatas
  <2>5. /\ d.life = c.life /\ d.loop = c.loop /\ d.fd = c.fd
        /\ d.connectionState = c.connectionState
        /\ d.error = c.error /\ d.events = c.events
    BY DEF HttpDatas
  <2> QED BY <2>2, <2>3, <2>4, <2>5
<1>2. CASE ~c.linked
  <2>1. c.timers = 0
    BY <1>2 DEF Linked, HttpDatas
  <2> QED BY <1>2, <2>1 DEF SeperateTimer
<1> QED BY <1>1, <1>2

LEMMA TimerAdded ==
  ASSUME NEW c \in HttpDatas, c.timers = 0
  PROVE  LET d == AddTimer(c) IN
         /\ d \in HttpDatas /\ d.timers = 1 /\ d.linked = TRUE
         /\ d.life = c.life /\ d.loop = c.loop /\ d.fd = c.fd
         /\ d.connectionState = c.connectionState
<1> DEFINE d == [c EXCEPT !.timers = 1, !.linked = TRUE]
<1>1. AddTimer(c) = d
  BY DEF AddTimer
<1>2. d \in HttpDatas
  BY DEF HttpDatas
<1>3. d.timers = 1 /\ d.linked = TRUE
  BY DEF HttpDatas
<1>4. /\ d.life = c.life /\ d.loop = c.loop /\ d.fd = c.fd
      /\ d.connectionState = c.connectionState
  BY DEF HttpDatas
<1> HIDE DEF d
<1> QED BY <1>1, <1>2, <1>3, <1>4

LEMMA WriteType ==
  ASSUME NEW c \in HttpDatas, NEW w \in Writes
  PROVE  /\ WriteTo(c, w) \in HttpDatas
         /\ WriteTo(c, w).connectionState = c.connectionState
         /\ WriteTo(c, w).life = c.life /\ WriteTo(c, w).loop = c.loop
         /\ WriteTo(c, w).fd = c.fd
         /\ WriteTo(c, w).timers = c.timers /\ WriteTo(c, w).linked = c.linked
BY ZenonT(40) DEF WriteTo, Skips, HttpDatas, Writes, Masks
-----------------------------------------------------------------------------
(* Steps that leave the tables alone, or drop a channel that epoll_ctl      *)
(* refused.                                                                 *)

ChannelsKept == \A l \in Loops, f \in Fds : fd2chan'[l][f] \in {None, fd2chan[l][f]}

(* Every object stays what it is, or moves on from the task vector. *)
Evolves(c, d) ==
  /\ d.life = c.life \/ (c.life = "queued" /\ d.life = "running")
  /\ d.loop = c.loop /\ d.fd = c.fd
  /\ c.life = "none" => d = c
  /\ c.life # "none" => d.connectionState # "DISCONNECTED"
  /\ c.life \in {"queued", "running"} => d.timers = 0
  /\ Linked(d)

LEMMA KeptTables ==
  ASSUME IInv, UNCHANGED fd2http, ChannelsKept,
         \A h \in Https : Evolves(http[h], http'[h])
  PROVE  ObjectInv' /\ FdsApart' /\ EntriesLive' /\ OneTimer'
<1>1. \A h \in Https : /\ http'[h].life = "live" <=> http[h].life = "live"
                       /\ http'[h].life = "none" <=> http[h].life = "none"
                       /\ http'[h].loop = http[h].loop
                       /\ http'[h].fd = http[h].fd
  <2>1. SUFFICES ASSUME NEW h \in Https
                 PROVE  /\ http'[h].life = "live" \/ http[h].life = "live"
                             => http'[h].life = http[h].life
                        /\ http'[h].life = "none" \/ http[h].life = "none"
                             => http'[h].life = http[h].life
                        /\ http'[h].loop = http[h].loop
                        /\ http'[h].fd = http[h].fd
    OBVIOUS
  <2> QED BY DEF Evolves
<1>2. ObjectInv'
  <2>1. SUFFICES ASSUME NEW h \in Https
                 PROVE  /\ http'[h].life = "none" => http'[h] = NewHttp
                        /\ http'[h].life # "none" => /\ http'[h].loop \in Loops
                                                     /\ http'[h].fd \in Fds
                                                     /\ http'[h].connectionState # "DISCONNECTED"
                        /\ http'[h].life \in {"queued", "running"} => http'[h].timers = 0
                        /\ http'[h].life = "live" => fd2http'[http'[h].loop][http'[h].fd] = h
    BY DEF ObjectInv, Live
  <2>2. Evolves(http[h], http'[h])
    OBVIOUS
  <2>3. /\ http[h].life = "none" => http[h] = NewHttp
        /\ http[h].life # "none" => http[h].loop \in Loops /\ http[h].fd \in Fds
        /\ http[h].life = "live" => fd2http[http[h].loop][http[h].fd] = h
    BY DEF IInv, ObjectInv, Live
  <2> QED BY <1>1, <2>2, <2>3 DEF Evolves
<1>3. FdsApart'
  BY <1>1 DEF IInv, FdsApart, Open
<1>4. EntriesLive'
  <2>1. SUFFICES ASSUME NEW l \in Loops, NEW f \in Fds
                 PROVE  /\ fd2chan'[l][f] \in {None, fd2http[l][f]}
                        /\ fd2http[l][f] # None => /\ http'[fd2http[l][f]].life = "live"
                                                   /\ http'[fd2http[l][f]].loop = l
                                                   /\ http'[fd2http[l][f]].fd = f
    BY DEF EntriesLive, Live
  <2>2. fd2http[l][f] \in Https \cup {None}
    BY DEF IInv, TypeOK
  <2>3. fd2chan'[l][f] \in {None, fd2http[l][f]}
    BY DEF IInv, EntriesLive, ChannelsKept
  <2> QED BY <1>1, <2>2, <2>3 DEF IInv, EntriesLive, Live
<1>5. OneTimer'
  BY DEF Evolves, OneTimer, Linked
<1> QED BY <1>2, <1>3, <1>4, <1>5

(* A step inside the handling of h, from one Busy phase to another. *)
LEMMA HandlerStep ==
  ASSUME IInv, NEW l \in Loops, NEW h \in Https, cur[l] = h,
         NEW c, Continues(http[h], c), http' = [http EXCEPT ![h] = c],
         sock' \in [Https -> Socks],
         NEW p \in Busy, phase' = [phase EXCEPT ![l] = p],
         UNCHANGED <<fd2chan, fd2http, batch, cur, wake>>
  PROVE  IInv'
<1>1. Live(h) /\ http[h].loop = l
  BY DEF IInv, LoopInv
<1>2. http \in [Https -> HttpDatas] /\ phase \in [Loops -> Phases]
  BY DEF IInv, TypeOK
<1>3. TypeOK'
  <2>1. http' \in [Https -> HttpDatas]
    BY <1>2 DEF Continues
  <2>2. phase' \in [Loops -> Phases]
    BY <1>2 DEF Busy, Phases
  <2> QED BY <2>1, <2>2 DEF IInv, TypeOK
<1>4. http'[h] = c /\ \A g \in Https \ {h} : http'[g] = http[g]
  BY <1>2
<1>5. \A g \in Https : Evolves(http[g], http'[g])
  <2>1. Evolves(http[h], http'[h])
    BY <1>1, <1>4 DEF Evolves, Continues, Live
  <2>2. ASSUME NEW g \in Https \ {h} PROVE Evolves(http[g], http[g])
    BY DEF IInv, ObjectInv, OneTimer, Evolves, Linked
  <2> QED BY <1>4, <2>1, <2>2
<1>6. LoopInv'
  <2>1. SUFFICES ASSUME NEW m \in Loops
                 PROVE  /\ cur[m] # None <=> phase'[m] \in Busy
                        /\ batch[m] # {} => phase'[m] \in Busy \cup {"dispatch"}
                        /\ cur[m] \notin batch[m]
                        /\ \A g \in Https : g \in batch[m] \/ cur[m] = g
                              => http'[g].life = "live" /\ http'[g].loop = m
    BY DEF LoopInv, Live
  <2>2. \A g \in Https : g \in batch[m] \/ cur[m] = g
                            => http'[g].life = "live" /\ http'[g].loop = m
    BY <1>5 DEF IInv, LoopInv, Live, Evolves
  <2>3. phase'[m] = IF m = l THEN p ELSE phase[m]
    BY <1>2
  <2> QED BY <2>2, <2>3, ReactorAssumption DEF IInv, LoopInv
<1>7. GuardInv'
  BY <1>1, <1>4, <1>5 DEF IInv, GuardInv, Live, Evolves
<1> QED BY <1>3, <1>5, <1>6, <1>7, KeptTables DEF IInv, ChannelsKept

(* handleConn keeps the connection: it needs its timer only while connected. *)
LEMMA LeaveStep ==
  ASSUME IInv, NEW l \in Loops, NEW h \in Https, cur[l] = h,
         NEW c, Continues(http[h], c), http' = [http EXCEPT ![h] = c],
         c.connectionState = "CONNECTED" => c.timers = 1,
         sock' \in [Https -> Socks],
         fd2chan' \in [Loops -> [Fds -> Https \cup {None}]], ChannelsKept,
         phase' = [phase EXCEPT ![l] = "dispatch"], cur' = [cur EXCEPT ![l] = None],
         UNCHANGED <<fd2http, batch, wake>>
  PROVE  IInv'
<1>1. Live(h) /\ http[h].loop = l
  BY DEF IInv, LoopInv
<1>2. /\ http \in [Https -> HttpDatas] /\ phase \in [Loops -> Phases]
      /\ cur \in [Loops -> Https \cup {None}] /\ batch \in [Loops -> SUBSET Https]
  BY DEF IInv, TypeOK
<1>3. TypeOK'
  <2>1. http' \in [Https -> HttpDatas]
    BY <1>2 DEF Continues
  <2>2. phase' \in [Loops -> Phases] /\ cur' \in [Loops -> Https \cup {None}]
    BY <1>2 DEF Phases
  <2> QED BY <2>1, <2>2 DEF IInv, TypeOK
<1>4. http'[h] = c /\ \A g \in Https \ {h} : http'[g] = http[g]
  BY <1>2
<1>5. \A g \in Https : Evolves(http[g], http'[g])
  <2>1. Evolves(http[h], http'[h])
    BY <1>1, <1>4 DEF Evolves, Continues, Live
  <2>2. ASSUME NEW g \in Https \ {h} PROVE Evolves(http[g], http[g])
    BY DEF IInv, ObjectInv, OneTimer, Evolves, Linked
  <2> QED BY <1>4, <2>1, <2>2
<1>6. cur'[l] = None /\ \A m \in Loops \ {l} : cur'[m] = cur[m]
  BY <1>2
<1>7. phase'[l] = "dispatch" /\ \A m \in Loops \ {l} : phase'[m] = phase[m]
  BY <1>2
<1>8. LoopInv'
  <2>1. SUFFICES ASSUME NEW m \in Loops
                 PROVE  /\ cur'[m] # None <=> phase'[m] \in Busy
                        /\ batch[m] # {} => phase'[m] \in Busy \cup {"dispatch"}
                        /\ cur'[m] \notin batch[m]
                        /\ \A g \in Https : g \in batch[m] \/ cur'[m] = g
                              => http'[g].life = "live" /\ http'[g].loop = m
    BY DEF LoopInv, Live
  <2>2. \A g \in Https : g \in batch[m] \/ cur[m] = g
                            => http'[g].life = "live" /\ http'[g].loop = m
    BY <1>5 DEF IInv, LoopInv, Live, Evolves
  <2> QED BY <1>2, <1>6, <1>7, <2>2, ReactorAssumption DEF IInv, LoopInv, Busy
<1>9. GuardInv'
  <2>1. SUFFICES ASSUME NEW g \in Https, http'[g].life = "live",
                        http'[g].connectionState = "CONNECTED", cur'[http'[g].loop] # g
                 PROVE  http'[g].timers = 1
    BY DEF GuardInv, Live
  <2>2. CASE g = h
    BY <1>4, <2>1, <2>2
  <2>3. CASE g # h
    <3>1. http'[g] = http[g] /\ http[g].loop \in Loops
      BY <1>4, <2>1, <2>3 DEF IInv, ObjectInv
    <3>2. cur[http[g].loop] # g
      BY <1>6, <2>1, <2>3, <3>1
    <3> QED BY <2>1, <3>1, <3>2 DEF IInv, GuardInv, Live
  <2> QED BY <2>2, <2>3
<1> QED BY <1>3, <1>5, <1>8, <1>9, KeptTables DEF IInv

-----------------------------------------------------------------------------
(* Steps that change the tables. *)

(* Closing connections of loop l whose last node is gone frees them and      *)
(* their entries, and no entry of another connection.                        *)
LEMMA CloseTables ==
  ASSUME IInv, NEW l \in Loops, NEW D \in SUBSET Https, NEW left,
         \A h \in D : Live(h) /\ http[h].loop = l /\ left[h] = 0,
         CloseAll(l, D, left)
  PROVE  /\ fd2chan' \in [Loops -> [Fds -> Https \cup {None}]]
         /\ fd2http' \in [Loops -> [Fds -> Https \cup {None}]]
         /\ http' \in [Https -> HttpDatas]
         /\ sock' \in [Https -> Socks]
         /\ \A h \in Https : http'[h] = IF h \in D THEN NewHttp ELSE http[h]
         /\ ObjectInv' /\ FdsApart' /\ EntriesLive' /\ OneTimer'
<1> DEFINE gone == {http[h].fd : h \in D}
<1>1. /\ fd2chan \in [Loops -> [Fds -> Https \cup {None}]]
      /\ fd2http \in [Loops -> [Fds -> Https \cup {None}]]
      /\ http \in [Https -> HttpDatas] /\ sock \in [Https -> Socks]
  BY DEF IInv, TypeOK
<1>2. /\ http' = [h \in Https |-> IF h \in D THEN NewHttp ELSE http[h]]
      /\ sock' = [h \in Https |-> IF h \in D THEN NewSock ELSE sock[h]]
  BY DEF CloseAll
<1>3. /\ http' \in [Https -> HttpDatas] /\ sock' \in [Https -> Socks]
      /\ \A h \in Https : http'[h] = IF h \in D THEN NewHttp ELSE http[h]
  BY <1>1, <1>2, BlankTypes
<1>4. /\ fd2chan' = [fd2chan EXCEPT ![l] = Forget(fd2chan[l], gone)]
      /\ fd2http' = [fd2http EXCEPT ![l] = Forget(fd2http[l], gone)]
  BY DEF CloseAll
<1>5. ASSUME NEW tab \in [Fds -> Https \cup {None}]
      PROVE  /\ Forget(tab, gone) \in [Fds -> Https \cup {None}]
             /\ \A f \in Fds : Forget(tab, gone)[f] = IF f \in gone THEN None ELSE tab[f]
  BY DEF Forget
<1>6. /\ fd2chan' \in [Loops -> [Fds -> Https \cup {None}]]
      /\ fd2http' \in [Loops -> [Fds -> Https \cup {None}]]
      /\ \A m \in Loops, f \in Fds :
           /\ fd2chan'[m][f] = IF m = l /\ f \in gone THEN None ELSE fd2chan[m][f]
           /\ fd2http'[m][f] = IF m = l /\ f \in gone THEN None ELSE fd2http[m][f]
  <2>1. fd2chan[l] \in [Fds -> Https \cup {None}] /\ fd2http[l] \in [Fds -> Https \cup {None}]
    BY <1>1
  <2>2. /\ Forget(fd2chan[l], gone) \in [Fds -> Https \cup {None}]
        /\ \A f \in Fds : Forget(fd2chan[l], gone)[f] = IF f \in gone THEN None ELSE fd2chan[l][f]
    BY <1>5, <2>1
  <2>3. /\ Forget(fd2http[l], gone) \in [Fds -> Https \cup {None}]
        /\ \A f \in Fds : Forget(fd2http[l], gone)[f] = IF f \in gone THEN None ELSE fd2http[l][f]
    BY <1>5, <2>1
  <2> HIDE DEF gone
  <2> QED BY <1>1, <1>4, <2>2, <2>3
<1>7. NewHttp.life = "none" /\ NewHttp.timers = 0 /\ NewHttp.linked = FALSE
  BY DEF NewHttp
<1>8. FdsApart'
  BY <1>3, <1>7 DEF FdsApart, Open, IInv
<1>9. OneTimer'
  BY <1>3, <1>7 DEF OneTimer, IInv
<1>10. ObjectInv'
  <2>1. SUFFICES ASSUME NEW h \in Https, h \notin D, Live(h)
                 PROVE  fd2http'[http[h].loop][http[h].fd] = h
    BY <1>3, <1>7 DEF ObjectInv, IInv, Live
  <2>2. http[h].loop \in Loops /\ http[h].fd \in Fds /\ fd2http[http[h].loop][http[h].fd] = h
    BY <2>1 DEF IInv, ObjectInv, Live
  <2>3. http[h].fd \notin gone
    BY <2>1 DEF IInv, FdsApart, Open, Live
  <2> QED BY <1>6, <2>2, <2>3
<1>11. EntriesLive'
  <2>1. SUFFICES ASSUME NEW m \in Loops, NEW f \in Fds
                 PROVE  /\ fd2chan'[m][f] \in {None, fd2http'[m][f]}
                        /\ fd2http'[m][f] # None => /\ http'[fd2http'[m][f]].life = "live"
                                                    /\ http'[fd2http'[m][f]].loop = m
                                                    /\ http'[fd2http'[m][f]].fd = f
    BY DEF EntriesLive, Live
  <2>2. CASE m = l /\ f \in gone
    BY <1>6, <2>2
  <2>3. CASE ~(m = l /\ f \in gone)
    <3>1. fd2chan'[m][f] = fd2chan[m][f] /\ fd2http'[m][f] = fd2http[m][f]
      BY <1>6, <2>3
    <3>2. fd2chan[m][f] \in {None, fd2http[m][f]}
      BY DEF IInv, EntriesLive
    <3>3. ASSUME fd2http[m][f] # None
          PROVE  /\ fd2http[m][f] \in Https \ D
                 /\ http[fd2http[m][f]].life = "live"
                 /\ http[fd2http[m][f]].loop = m /\ http[fd2http[m][f]].fd = f
      <4>1. fd2http[m][f] \in Https
        BY <1>1, <3>3
      <4>2. /\ http[fd2http[m][f]].life = "live"
            /\ http[fd2http[m][f]].loop = m /\ http[fd2http[m][f]].fd = f
        BY <3>3 DEF IInv, EntriesLive, Live
      <4>3. fd2http[m][f] \notin D
        BY <2>3, <4>2
      <4> QED BY <4>1, <4>2, <4>3
    <3>4. fd2http[m][f] # None => http'[fd2http[m][f]] = http[fd2http[m][f]]
      BY <1>3, <3>3
    <3> HIDE DEF gone
    <3> QED BY <3>1, <3>2, <3>3, <3>4
  <2> QED BY <2>2, <2>3
<1> QED BY <1>3, <1>6, <1>8, <1>9, <1>10, <1>11

-----------------------------------------------------------------------------
(* Each action preserves IInv. *)

LEMMA InitInv == Init => IInv
<1> SUFFICES ASSUME Init PROVE IInv
  OBVIOUS
<1>1. NewHttp.life = "none" /\ NewHttp.timers = 0 /\ NewHttp.linked = FALSE
  BY DEF NewHttp
<1>2. \A h \in Https : http[h] = NewHttp
  BY DEF Init
<1>3. TypeOK
  BY BlankTypes DEF Init, TypeOK, Phases
<1>4. ObjectInv /\ FdsApart /\ GuardInv /\ OneTimer
  BY <1>1, <1>2 DEF ObjectInv, FdsApart, GuardInv, OneTimer, Open, Live
<1>5. EntriesLive
  BY DEF Init, EntriesLive
<1>6. LoopInv
  BY ReactorAssumption DEF Init, LoopInv, Busy
<1> QED BY <1>3, <1>4, <1>5, <1>6 DEF IInv

LEMMA ClientInv ==
  ASSUME IInv, NEW h \in Https, Client(h)
  PROVE  IInv'
<1>1. sock \in [Https -> Socks]
  BY DEF IInv, TypeOK
<1>2. PICK k \in Socks : ClientStep(h, k)
  <2>1. sock[h] \in Socks
    BY <1>1
  <2>2. CASE Send(h)
    <3>1. Notify([sock[h] EXCEPT !.inq = TRUE], "IN") \in Socks
      BY <2>1, NotifyTypes
    <3> QED BY <2>2, <3>1 DEF Send
  <2>3. CASE ShutdownWrite(h)
    <3>1. Notify([sock[h] EXCEPT !.fin = TRUE], "IN") \in Socks
      BY <2>1, NotifyTypes
    <3> QED BY <2>3, <3>1 DEF ShutdownWrite
  <2>4. CASE Reset(h)
    <3>1. Notify([sock[h] EXCEPT !.rst = TRUE], "ERR") \in Socks
      BY <2>1, NotifyTypes
    <3> QED BY <2>4, <3>1 DEF Reset
  <2>5. CASE Drain(h)
    <3>1. Notify([sock[h] EXCEPT !.space = TRUE], "OUT") \in Socks
      BY <2>1, NotifyTypes
    <3> QED BY <2>5, <3>1 DEF Drain
  <2> QED BY <2>2, <2>3, <2>4, <2>5 DEF Client
<1>3. TypeOK'
  BY <1>1, <1>2 DEF IInv, TypeOK, ClientStep
<1> QED BY <1>2, <1>3 DEF IInv, ClientStep, ObjectInv, FdsApart, EntriesLive, LoopInv, GuardInv,
                          OneTimer, Open, Live

LEMMA HandNewConnInv ==
  ASSUME IInv, NEW h \in Https, NEW f \in Fds, NEW l \in Loops, HandNewConn(h, f, l)
  PROVE  IInv'
<1> DEFINE c == [NewHttp EXCEPT !.life = "queued", !.loop = l, !.fd = f]
<1>1. /\ c \in HttpDatas /\ c.life = "queued" /\ c.loop = l /\ c.fd = f /\ c.timers = 0
      /\ c.linked = FALSE /\ c.connectionState = "CONNECTED"
  BY DEF NewHttp, HttpDatas, Lives, Conns, Masks, Reports
<1>2. http' = [http EXCEPT ![h] = c] /\ sock' = [sock EXCEPT ![h] = NewSock]
  BY DEF HandNewConn
<1> HIDE DEF c
<1>3. http[h].life = "none" /\ \A g \in Https : http[g].life # "none" => http[g].fd # f
  BY DEF HandNewConn, Open
<1>4. http \in [Https -> HttpDatas] /\ http'[h] = c /\ \A g \in Https \ {h} : http'[g] = http[g]
  BY <1>2 DEF IInv, TypeOK
<1>5. TypeOK'
  <2>1. http' \in [Https -> HttpDatas] /\ sock' \in [Https -> Socks]
    BY <1>1, <1>2, BlankTypes DEF IInv, TypeOK
  <2> QED BY <2>1 DEF IInv, TypeOK, HandNewConn
<1>6. ObjectInv'
  <2>1. SUFFICES ASSUME NEW g \in Https
                 PROVE  /\ http'[g].life = "none" => http'[g] = NewHttp
                        /\ http'[g].life # "none" => /\ http'[g].loop \in Loops
                                                     /\ http'[g].fd \in Fds
                                                     /\ http'[g].connectionState # "DISCONNECTED"
                        /\ http'[g].life \in {"queued", "running"} => http'[g].timers = 0
                        /\ http'[g].life = "live" => fd2http[http'[g].loop][http'[g].fd] = g
    BY DEF ObjectInv, Live, HandNewConn
  <2>2. CASE g = h
    BY <1>1, <1>4, <2>2
  <2>3. CASE g # h
    BY <1>4, <2>3 DEF IInv, ObjectInv, Live
  <2> QED BY <2>2, <2>3
<1>7. FdsApart'
  BY <1>1, <1>3, <1>4 DEF IInv, FdsApart, Open
<1>8. EntriesLive'
  BY <1>3, <1>4, ReactorAssumption DEF IInv, TypeOK, EntriesLive, Live, HandNewConn
<1>9. LoopInv'
  BY <1>3, <1>4 DEF IInv, LoopInv, Live, HandNewConn
<1>10. GuardInv'
  BY <1>1, <1>4 DEF IInv, GuardInv, Live, HandNewConn
<1>11. OneTimer'
  BY <1>1, <1>4 DEF IInv, OneTimer
<1> QED BY <1>5, <1>6, <1>7, <1>8, <1>9, <1>10, <1>11 DEF IInv

(* poll() returns channels of its own loop. *)
LEMMA PolledOwned ==
  ASSUME IInv, NEW l \in Loops
  PROVE  \A h \in Channels(l) : h \in Https /\ Live(h) /\ http[h].loop = l
<1>1. SUFFICES ASSUME NEW p \in Polled(l), NEW h, h = fd2chan[l][http[p].fd], h # None
               PROVE  h \in Https /\ Live(h) /\ http[h].loop = l
  BY DEF Channels
<1>2. p \in Https /\ http[p].loop = l
  BY DEF Polled, OnLoop
<1>3. http[p].fd \in Fds
  <2>1. http[p].life # "none"
    BY <1>2, ReactorAssumption DEF IInv, ObjectInv, NewHttp
  <2> QED BY <1>2, <2>1 DEF IInv, ObjectInv
<1>4. fd2chan[l][http[p].fd] = fd2http[l][http[p].fd]
  BY <1>1, <1>3 DEF IInv, EntriesLive
<1>5. Live(h) /\ http[h].loop = l
  BY <1>1, <1>3, <1>4 DEF IInv, EntriesLive
<1>6. h \in Https
  BY <1>1, <1>3 DEF IInv, TypeOK
<1> QED BY <1>5, <1>6

LEMMA PollInv ==
  ASSUME IInv, NEW l \in Loops, Poll(l)
  PROVE  IInv'
<1>1. /\ http \in [Https -> HttpDatas] /\ sock \in [Https -> Socks]
      /\ fd2chan \in [Loops -> [Fds -> Https \cup {None}]]
      /\ batch \in [Loops -> SUBSET Https] /\ phase \in [Loops -> Phases]
  BY DEF IInv, TypeOK
<1>2. \A h \in Channels(l) : h \in Https /\ Live(h) /\ http[h].loop = l
  BY PolledOwned
<1>3. \A h \in Https :
        \/ http'[h] = http[h]
        \/ h \in Channels(l) /\ \E r \in Reports :
              http'[h] = [http[h] EXCEPT !.events = {}, !.revents = r]
  <2>1. \A k \in Socks : Reported(k) \in Reports
    BY DEF Reported, Ready, Reports
  <2>2. SUFFICES ASSUME NEW g \in Channels(l), g \in Https
        PROVE  UNION {Reported(sock[h]) :
                        h \in {p \in Polled(l) : fd2chan[l][http[p].fd] = g}} \in Reports
    BY DEF Poll
  <2>3. \A p \in Polled(l) : Reported(sock[p]) \in Reports
    BY <1>1, <2>1 DEF Polled, OnLoop
  <2> QED BY <2>3 DEF Reports
<1>4. \A h \in Https : /\ http'[h] \in HttpDatas
                       /\ http'[h].life = http[h].life
                       /\ http'[h].loop = http[h].loop /\ http'[h].fd = http[h].fd
                       /\ http'[h].connectionState = http[h].connectionState
                       /\ http'[h].timers = http[h].timers
                       /\ http'[h].linked = http[h].linked
                       /\ http[h].life = "none" => http'[h] = http[h]
  <2>1. SUFFICES ASSUME NEW h \in Https, h \in Channels(l), NEW r \in Reports,
                        http'[h] = [http[h] EXCEPT !.events = {}, !.revents = r]
                 PROVE  /\ http'[h] \in HttpDatas
                        /\ http'[h].life = http[h].life
                        /\ http'[h].loop = http[h].loop /\ http'[h].fd = http[h].fd
                        /\ http'[h].connectionState = http[h].connectionState
                        /\ http'[h].timers = http[h].timers
                        /\ http'[h].linked = http[h].linked
                        /\ http[h].life # "none"
    BY <1>1, <1>3, ZenonT(40)
  <2>2. http[h] \in HttpDatas /\ http[h].life # "none"
    BY <1>1, <1>2, <2>1 DEF Live
  <2> QED BY <2>1, <2>2 DEF HttpDatas, Masks
<1>5. \A h \in Https : Evolves(http[h], http'[h])
  BY <1>4 DEF IInv, ObjectInv, OneTimer, Evolves, Linked
<1>6. TypeOK'
  <2>1. http' \in [Https -> HttpDatas]
    BY <1>4 DEF Poll
  <2>2. sock' \in [Https -> Socks]
    BY <1>1, SockTypes DEF Poll, Masks
  <2>3. /\ batch' \in [Loops -> SUBSET Https] /\ phase' \in [Loops -> Phases]
        /\ wake' \in [Loops -> BOOLEAN]
    BY <1>1, <1>2 DEF Poll, Phases, IInv, TypeOK
  <2> QED BY <2>1, <2>2, <2>3 DEF IInv, TypeOK, Poll
<1>7. /\ batch'[l] = Channels(l) /\ phase'[l] = "dispatch" /\ phase[l] = "poll"
      /\ \A m \in Loops \ {l} : batch'[m] = batch[m] /\ phase'[m] = phase[m]
      /\ cur' = cur
  BY <1>1 DEF Poll
<1>8. LoopInv'
  <2>1. SUFFICES ASSUME NEW m \in Loops
                 PROVE  /\ cur[m] # None <=> phase'[m] \in Busy
                        /\ batch'[m] # {} => phase'[m] \in Busy \cup {"dispatch"}
                        /\ cur[m] \notin batch'[m]
                        /\ \A h \in Https : h \in batch'[m] \/ cur[m] = h
                              => http[h].life = "live" /\ http[h].loop = m
    BY <1>4, <1>7 DEF LoopInv, Live
  <2>2. CASE m = l
    <3>1. cur[l] = None
      BY <1>7 DEF IInv, LoopInv, Busy
    <3>2. None \notin Channels(l)
      BY DEF Channels
    <3> QED BY <1>2, <1>7, <2>2, <3>1, <3>2, ReactorAssumption DEF Live, Busy
  <2>3. CASE m # l
    BY <1>7, <2>3 DEF IInv, LoopInv, Live
  <2> QED BY <2>2, <2>3
<1>9. GuardInv'
  BY <1>4, <1>7 DEF IInv, GuardInv, Live
<1> QED BY <1>5, <1>6, <1>8, <1>9, KeptTables DEF IInv, ChannelsKept, Poll

LEMMA DispatchInv ==
  ASSUME IInv, NEW l \in Loops, NEW h \in Https, Dispatch(l, h)
  PROVE  IInv'
<1>1. /\ http \in [Https -> HttpDatas] /\ phase \in [Loops -> Phases]
      /\ cur \in [Loops -> Https \cup {None}] /\ batch \in [Loops -> SUBSET Https]
  BY DEF IInv, TypeOK
<1>2. /\ phase[l] = "dispatch" /\ h \in batch[l]
      /\ batch' = [batch EXCEPT ![l] = @ \ {h}]
      /\ UNCHANGED <<fd2chan, fd2http, sock, wake>>
  BY DEF Dispatch
<1>3. \/ /\ http' = [http EXCEPT ![h].events = {}, ![h].revents = {}]
         /\ UNCHANGED <<phase, cur>>
      \/ /\ http' = [http EXCEPT ![h].events = {}]
         /\ cur' = [cur EXCEPT ![l] = h]
         /\ \E p \in Busy : phase' = [phase EXCEPT ![l] = p]
  BY DEF Dispatch, Busy
<1>4. http[h] \in HttpDatas /\ Live(h) /\ http[h].loop = l
  BY <1>1, <1>2 DEF IInv, LoopInv
<1>5. /\ http' \in [Https -> HttpDatas]
      /\ \A g \in Https : /\ http'[g].life = http[g].life
                          /\ http'[g].loop = http[g].loop /\ http'[g].fd = http[g].fd
                          /\ http'[g].connectionState = http[g].connectionState
                          /\ http'[g].timers = http[g].timers
                          /\ http'[g].linked = http[g].linked
                          /\ http[g].life = "none" => http'[g] = http[g]
  <2> DEFINE d == [http[h] EXCEPT !.events = {}]
             e == [http[h] EXCEPT !.events = {}, !.revents = {}]
  <2>1. \A x \in {d, e} : /\ x \in HttpDatas /\ x.life = http[h].life
                          /\ x.loop = http[h].loop /\ x.fd = http[h].fd
                          /\ x.connectionState = http[h].connectionState
                          /\ x.timers = http[h].timers /\ x.linked = http[h].linked
    BY <1>4, ZenonT(40) DEF HttpDatas, Masks, Reports
  <2>2. http' = [http EXCEPT ![h] = d] \/ http' = [http EXCEPT ![h] = e]
    BY <1>1, <1>3
  <2>3. PICK x \in {d, e} : http' = [http EXCEPT ![h] = x]
    BY <2>2
  <2> HIDE DEF d, e
  <2> QED BY <1>1, <1>4, <2>1, <2>3 DEF Live
<1>6. \A g \in Https : Evolves(http[g], http'[g])
  BY <1>5 DEF IInv, ObjectInv, OneTimer, Evolves, Linked
<1>7. /\ batch' \in [Loops -> SUBSET Https]
      /\ batch'[l] = batch[l] \ {h} /\ \A m \in Loops \ {l} : batch'[m] = batch[m]
  BY <1>1, <1>2
<1>8. /\ cur' \in [Loops -> Https \cup {None}] /\ phase' \in [Loops -> Phases]
      /\ \/ cur'[l] = cur[l] /\ phase'[l] = "dispatch"
         \/ cur'[l] = h /\ phase'[l] \in Busy
      /\ \A m \in Loops \ {l} : cur'[m] = cur[m] /\ phase'[m] = phase[m]
  BY <1>1, <1>2, <1>3 DEF Busy, Phases
<1>9. cur[l] = None
  BY <1>2 DEF IInv, LoopInv, Busy
<1>10. TypeOK'
  BY <1>2, <1>5, <1>7, <1>8 DEF IInv, TypeOK
<1>11. LoopInv'
  <2>1. SUFFICES ASSUME NEW m \in Loops
                 PROVE  /\ cur'[m] # None <=> phase'[m] \in Busy
                        /\ batch'[m] # {} => phase'[m] \in Busy \cup {"dispatch"}
                        /\ cur'[m] \notin batch'[m]
                        /\ \A g \in Https : g \in batch'[m] \/ cur'[m] = g
                              => http[g].life = "live" /\ http[g].loop = m
    BY <1>5 DEF LoopInv, Live
  <2>2. CASE m = l
    BY <1>1, <1>2, <1>4, <1>7, <1>8, <1>9, <2>2, ReactorAssumption DEF IInv, LoopInv, Live, Busy
  <2>3. CASE m # l
    BY <1>7, <1>8, <2>3 DEF IInv, LoopInv, Live
  <2> QED BY <2>2, <2>3
<1>12. GuardInv'
  <2>1. SUFFICES ASSUME NEW g \in Https, http[g].life = "live",
                        http[g].connectionState = "CONNECTED", cur'[http[g].loop] # g
                 PROVE  http[g].timers = 1
    BY <1>5 DEF GuardInv, Live
  <2>2. http[g].loop \in Loops
    BY <2>1 DEF IInv, ObjectInv
  <2>3. cur[http[g].loop] # g
    BY <1>8, <1>9, <2>1, <2>2, ReactorAssumption
  <2> QED BY <2>1, <2>3 DEF IInv, GuardInv, Live
<1> QED BY <1>2, <1>6, <1>10, <1>11, <1>12, KeptTables DEF IInv, ChannelsKept

(* The object in the hands of a handler. *)
LEMMA InHand ==
  ASSUME IInv, NEW l \in Loops, NEW h \in Https, cur[l] = h
  PROVE  /\ http[h] \in HttpDatas /\ sock[h] \in Socks
         /\ http[h].life = "live" /\ http[h].loop = l /\ http[h].fd \in Fds
         /\ http[h].connectionState # "DISCONNECTED" /\ Linked(http[h])
         /\ h \notin batch[l] /\ phase[l] \in Busy
<1>1. Live(h) /\ http[h].loop = l /\ h \notin batch[l]
  BY DEF IInv, LoopInv
<1>2. phase[l] \in Busy
  BY ReactorAssumption DEF IInv, LoopInv
<1>3. http[h] \in HttpDatas /\ sock[h] \in Socks
  BY DEF IInv, TypeOK
<1> QED BY <1>1, <1>2, <1>3 DEF IInv, ObjectInv, OneTimer, Linked, Live

LEMMA ReadType ==
  ASSUME NEW c \in HttpDatas, NEW k \in Socks, NEW d \in ReadOutcomes(c, k),
         c.connectionState # "DISCONNECTED", Linked(c)
  PROVE  Continues(c, d)
<1> DEFINE c1 == [c EXCEPT !.more = FALSE]
           c2 == [c1 EXCEPT !.connectionState = IF k.fin THEN "DISCONNECTING" ELSE @]
<1>1. ASSUME NEW x \in HttpDatas, Continues(c, x), NEW m \in BOOLEAN, NEW o \in BOOLEAN
      PROVE  /\ Continues(c, [x EXCEPT !.error = TRUE])
             /\ Continues(c, Finished(x, m, o))
             /\ Continues(c, [x EXCEPT !.more = FALSE])
             /\ Continues(c, [x EXCEPT !.connectionState = "DISCONNECTING"])
  <2>1. Continues(c, [x EXCEPT !.error = TRUE])
    BY <1>1 DEF Continues, Linked, HttpDatas
  <2>2. Continues(c, Finished(x, m, o))
    BY <1>1, ZenonT(40) DEF Continues, Linked, HttpDatas, Finished
  <2>3. Continues(c, [x EXCEPT !.more = FALSE])
    BY <1>1 DEF Continues, Linked, HttpDatas
  <2>4. Continues(c, [x EXCEPT !.connectionState = "DISCONNECTING"])
    BY <1>1 DEF Continues, Linked, HttpDatas, Conns
  <2> QED BY <2>1, <2>2, <2>3, <2>4
<1>2. Continues(c, c)
  BY DEF Continues
<1>3. c1 \in HttpDatas /\ Continues(c, c1)
  BY <1>1, <1>2 DEF Continues
<1>4. c2 \in HttpDatas /\ Continues(c, c2)
  <2>1. CASE k.fin
    <3>1. c2 = [c1 EXCEPT !.connectionState = "DISCONNECTING"]
      BY <2>1
    <3> HIDE DEF c1, c2
    <3> QED BY <1>1, <1>3, <3>1 DEF Continues
  <2>2. CASE ~k.fin
    <3>1. c2 = [c1 EXCEPT !.connectionState = c1.connectionState]
      BY <2>2
    <3>2. [c1 EXCEPT !.connectionState = c1.connectionState] = c1
      <4> HIDE DEF c1
      <4> QED BY <1>3 DEF HttpDatas
    <3> QED BY <1>3, <3>1, <3>2
  <2> QED BY <2>1, <2>2
<1>5. \/ d \in {c1, c2} \/ d = [c1 EXCEPT !.error = TRUE] \/ d = [c2 EXCEPT !.error = TRUE]
      \/ \E m \in BOOLEAN, o \in {c2.out, TRUE} :
           d = Finished(c2, m, o)
  <2>1. ReadOutcomes(c, k) =
          IF c.connectionState = "DISCONNECTING" THEN {c1}
          ELSE IF k.rst THEN {[c1 EXCEPT !.error = TRUE]}
          ELSE IF k.fin /\ ~k.inq THEN {c2}
          ELSE ParseAgain(c2) \cup ParseBad(c2) \cup ParseFinish(c2)
    BY Zenon DEF ReadOutcomes
  <2> HIDE DEF c1, c2
  <2>2. \/ d = c1 \/ d = [c1 EXCEPT !.error = TRUE] \/ d = c2
        \/ d \in ParseAgain(c2) \/ d \in ParseBad(c2) \/ d \in ParseFinish(c2)
    BY <2>1, Zenon
  <2>3. ASSUME d \in ParseFinish(c2)
        PROVE  \E m \in BOOLEAN, o \in {c2.out, TRUE} :
                 d = Finished(c2, m, o)
    BY <2>3 DEF ParseFinish
  <2>4. d \in ParseBad(c2) => d = [c2 EXCEPT !.error = TRUE]
    BY DEF ParseBad
  <2>5. d \in ParseAgain(c2) => d = c2
    BY DEF ParseAgain
  <2> QED BY <2>2, <2>3, <2>4, <2>5, Zenon
<1>6. {c2.out, TRUE} \subseteq BOOLEAN
  <2> HIDE DEF c2
  <2> QED BY <1>4 DEF HttpDatas
<1> HIDE DEF c1, c2
<1> QED BY <1>1, <1>3, <1>4, <1>5, <1>6

LEMMA HandleReadInv ==
  ASSUME IInv, NEW l \in Loops, NEW h \in Https, HandleRead(l, h)
  PROVE  IInv'
<1>1. cur[l] = h
  BY DEF HandleRead, HandleReadTo
<1>2. PICK c \in ReadOutcomes(http[h], sock[h]) :
        /\ http' = [http EXCEPT ![h] = c]
        /\ phase' = [phase EXCEPT ![l] = IF c.error THEN AfterRead(c) ELSE "tail"]
  BY DEF HandleRead, HandleReadTo
<1>3. Continues(http[h], c)
  BY <1>1, InHand, ReadType
<1>4. sock' \in [Https -> Socks]
  <2>1. sock' = [sock EXCEPT ![h] = Drained(sock[h])] /\ sock \in [Https -> Socks]
    BY DEF HandleRead, HandleReadTo, IInv, TypeOK
  <2>2. Drained(sock[h]) \in Socks
    BY <2>1 DEF Drained, Socks
  <2> QED BY <2>1, <2>2
<1>5. \E p \in Busy : phase' = [phase EXCEPT ![l] = p]
  BY <1>2 DEF Busy, AfterRead
<1> QED BY <1>1, <1>2, <1>3, <1>4, <1>5, HandlerStep DEF HandleRead, HandleReadTo

LEMMA ContinuesWrite ==
  ASSUME IInv, NEW l \in Loops, NEW h \in Https, cur[l] = h, NEW w \in Writes
  PROVE  /\ Continues(http[h], WriteTo(http[h], w))
         /\ Continues(http[h], http[h])
BY InHand, WriteType DEF Continues, Linked

LEMMA SpaceType ==
  ASSUME IInv, NEW h \in Https, NEW w \in Writes
  PROVE  [sock EXCEPT ![h].space = w.space] \in [Https -> Socks]
<1>1. sock \in [Https -> Socks] /\ w.space \in BOOLEAN
  BY DEF IInv, TypeOK, Writes
<1>2. [sock[h] EXCEPT !.space = w.space] \in Socks
  BY <1>1 DEF Socks
<1> QED BY <1>1, <1>2

LEMMA FinishReadInv ==
  ASSUME IInv, NEW l \in Loops, NEW h \in Https, FinishRead(l, h)
  PROVE  IInv'
<1>1. cur[l] = h
  BY DEF FinishRead, FinishReadWith
<1>2. PICK w \in Writen(sock[h], http[h].out) :
        LET c == IF http[h].out THEN WriteTo(http[h], w) ELSE http[h]
            again == ~c.error /\ c.finish /\ c.more /\ c.connectionState # "DISCONNECTING"
        IN  /\ http' = [http EXCEPT ![h] =
                          IF c.error THEN c
                          ELSE IF c.finish THEN ResetHttp(c)
                          ELSE IF c.connectionState # "DISCONNECTED"
                               THEN [c EXCEPT !.events = @ \cup {"IN"}] ELSE c]
            /\ sock' = IF http[h].out THEN [sock EXCEPT ![h].space = w.space] ELSE sock
            /\ phase' = [phase EXCEPT ![l] = IF again THEN "read" ELSE AfterRead(c)]
  BY DEF FinishRead, FinishReadWith
<1>3. w \in Writes
  BY DEF Writen
<1> DEFINE c == IF http[h].out THEN WriteTo(http[h], w) ELSE http[h]
           d == IF c.error THEN c
                ELSE IF c.finish THEN ResetHttp(c)
                ELSE IF c.connectionState # "DISCONNECTED"
                     THEN [c EXCEPT !.events = @ \cup {"IN"}] ELSE c
<1>4. Continues(http[h], c)
  BY <1>1, <1>3, ContinuesWrite
<1>5. Continues(http[h], [c EXCEPT !.events = @ \cup {"IN"}])
  <2> HIDE DEF c
  <2> QED BY <1>4 DEF Continues, Linked, HttpDatas, Masks
<1>6. Continues(http[h], ResetHttp(c))
  <2> HIDE DEF c
  <2> DEFINE e == [c EXCEPT !.finish = FALSE]
  <2>1. /\ e \in HttpDatas /\ Linked(e) /\ e.life = c.life /\ e.loop = c.loop
        /\ e.fd = c.fd /\ e.connectionState = c.connectionState
    BY <1>4 DEF Continues, Linked, HttpDatas
  <2> HIDE DEF e
  <2>2. ResetHttp(c) = SeperateTimer(e)
    BY DEF ResetHttp, e
  <2>3. /\ SeperateTimer(e) \in HttpDatas /\ SeperateTimer(e).timers = 0
        /\ ~SeperateTimer(e).linked /\ SeperateTimer(e).life = c.life
        /\ SeperateTimer(e).loop = c.loop /\ SeperateTimer(e).fd = c.fd
        /\ SeperateTimer(e).connectionState = c.connectionState
    BY <2>1, Separated
  <2> QED BY <1>4, <2>2, <2>3 DEF Continues, Linked
<1>7. Continues(http[h], d)
  <2> HIDE DEF c
  <2> QED BY <1>4, <1>5, <1>6
<1>8. sock' \in [Https -> Socks]
  BY <1>2, <1>3, SpaceType DEF IInv, TypeOK
<1>9. http' = [http EXCEPT ![h] = d] /\ \E p \in Busy : phase' = [phase EXCEPT ![l] = p]
  BY <1>2 DEF Busy, AfterRead
<1> HIDE DEF d
<1> QED BY <1>1, <1>7, <1>8, <1>9, HandlerStep DEF FinishRead, FinishReadWith

LEMMA HandleWriteInv ==
  ASSUME IInv, NEW l \in Loops, NEW h \in Https, HandleWrite(l, h)
  PROVE  IInv'
<1>1. cur[l] = h /\ phase' = [phase EXCEPT ![l] = "conn"]
  BY DEF HandleWrite, HandleWriteWith
<1>2. PICK w \in Writen(sock[h], http[h].out) :
        /\ http' = [http EXCEPT ![h] = WriteTo(http[h], w)]
        /\ \/ sock' = sock
           \/ sock' = [sock EXCEPT ![h].space = w.space]
  BY DEF HandleWrite, HandleWriteWith
<1>3. w \in Writes
  BY DEF Writen
<1>4. Continues(http[h], WriteTo(http[h], w))
  BY <1>1, <1>3, ContinuesWrite
<1>5. sock' \in [Https -> Socks]
  <2>1. [sock EXCEPT ![h].space = w.space] \in [Https -> Socks]
    BY <1>3, SpaceType
  <2>2. sock \in [Https -> Socks]
    BY DEF IInv, TypeOK
  <2> QED BY <1>2, <2>1, <2>2, Zenon
<1> QED BY <1>1, <1>2, <1>4, <1>5, HandlerStep DEF HandleWrite, HandleWriteWith, Busy

LEMMA HandleConnInv ==
  ASSUME IInv, NEW l \in Loops, NEW h \in Https, HandleConn(l, h)
  PROVE  IInv'
<1> DEFINE c == SeperateTimer(http[h])
<1>1. /\ cur[l] = h /\ phase[l] = "conn"
      /\ cur' = [cur EXCEPT ![l] = None]
      /\ phase' = [phase EXCEPT ![l] = "dispatch"]
      /\ UNCHANGED <<batch, wake>>
  BY DEF HandleConn
<1>2. /\ http[h] \in HttpDatas /\ sock[h] \in Socks
      /\ http[h].life = "live" /\ http[h].loop = l /\ http[h].fd \in Fds
      /\ http[h].connectionState # "DISCONNECTED" /\ Linked(http[h])
      /\ h \notin batch[l]
  BY <1>1, InHand
<1>3. /\ c \in HttpDatas /\ c.timers = 0 /\ c.linked = FALSE
      /\ c.life = http[h].life /\ c.loop = http[h].loop /\ c.fd = http[h].fd
      /\ c.connectionState = http[h].connectionState
      /\ c.error = http[h].error /\ c.events = http[h].events
  <2> HIDE DEF c
  <2>1. c \in HttpDatas => c.linked \in BOOLEAN
    BY DEF HttpDatas
  <2> QED BY <1>2, <2>1, Separated DEF c
<1>4. /\ sock \in [Https -> Socks] /\ batch \in [Loops -> SUBSET Https]
      /\ phase \in [Loops -> Phases] /\ cur \in [Loops -> Https \cup {None}]
  BY DEF IInv, TypeOK
<1>5. CASE Rearm(l, h)
  <2> DEFINE ev == Interest(c.events)
             d == [AddTimer(Done(c)) EXCEPT !.events = ev, !.lastEvents = ev]
  <2>1. /\ http' = [http EXCEPT ![h] = d]
        /\ \/ /\ sock' = IF ev = c.lastEvents THEN sock ELSE [sock EXCEPT ![h] = EpollCtl(@, ev)]
              /\ fd2chan' = fd2chan
           \/ /\ fd2chan' = [fd2chan EXCEPT ![l][c.fd] = None]
              /\ sock' = sock
        /\ UNCHANGED fd2http
    BY <1>5 DEF Rearm
  <2> HIDE DEF c
  <2>2. ev \in Masks
    BY <1>3 DEF HttpDatas, Interest, Masks
  <2> HIDE DEF ev
  <2>3. sock' \in [Https -> Socks]
    <3>1. EpollCtl(sock[h], ev) \in Socks
      BY <1>2, <2>2, SockTypes
    <3>2. sock' = sock \/ sock' = [sock EXCEPT ![h] = EpollCtl(sock[h], ev)]
      BY <2>1
    <3> QED BY <1>4, <3>1, <3>2
  <2>4. /\ d \in HttpDatas /\ d.timers = 1 /\ d.linked = TRUE /\ d.life = c.life
        /\ d.loop = c.loop /\ d.fd = c.fd /\ d.connectionState = c.connectionState
    <3> DEFINE e == Done(c)
               a == AddTimer(e)
    <3>1. /\ e \in HttpDatas /\ e.timers = 0 /\ e.life = c.life /\ e.loop = c.loop
          /\ e.fd = c.fd /\ e.connectionState = c.connectionState
      BY <1>3 DEF Done, HttpDatas, Reports
    <3> HIDE DEF e
    <3>2. /\ a \in HttpDatas /\ a.timers = 1 /\ a.linked = TRUE /\ a.life = c.life
          /\ a.loop = c.loop /\ a.fd = c.fd /\ a.connectionState = c.connectionState
      BY <3>1, TimerAdded
    <3>3. d = [a EXCEPT !.events = ev, !.lastEvents = ev]
      BY DEF e
    <3> HIDE DEF a, d
    <3> QED BY <2>2, <3>2, <3>3 DEF HttpDatas
  <2>5. Continues(http[h], d)
    <3> HIDE DEF d
    <3> QED BY <1>2, <1>3, <2>4 DEF Continues, Linked
  <2>6. fd2chan' \in [Loops -> [Fds -> Https \cup {None}]] /\ ChannelsKept
    <3>1. fd2chan \in [Loops -> [Fds -> Https \cup {None}]]
      BY DEF IInv, TypeOK
    <3>2. CASE fd2chan' = fd2chan
      BY <3>1, <3>2 DEF ChannelsKept
    <3>3. CASE fd2chan' = [fd2chan EXCEPT ![l][c.fd] = None]
      BY <1>2, <1>3, <3>1, <3>3 DEF ChannelsKept
    <3> QED BY <2>1, <3>2, <3>3
  <2> HIDE DEF d
  <2> QED BY <1>1, <2>1, <2>3, <2>4, <2>5, <2>6, LeaveStep
<1>6. CASE Linger(l, h)
  <2> DEFINE d == [Done(c) EXCEPT !.events = {"OUT"}]
  <2>1. /\ http' = [http EXCEPT ![h] = d] /\ c.connectionState = "DISCONNECTING"
        /\ UNCHANGED <<fd2chan, fd2http, sock>>
    BY <1>6 DEF Linger
  <2> HIDE DEF c
  <2>2. /\ d \in HttpDatas /\ d.timers = 0 /\ d.linked = FALSE /\ d.life = c.life
        /\ d.loop = c.loop /\ d.fd = c.fd /\ d.connectionState = c.connectionState
    BY <1>3 DEF Done, HttpDatas, Reports, Masks
  <2> HIDE DEF d
  <2>3. Continues(http[h], d)
    BY <1>2, <1>3, <2>2 DEF Continues, Linked
  <2>4. d.connectionState # "CONNECTED" /\ sock' \in [Https -> Socks]
    BY <1>4, <2>1, <2>2
  <2>5. fd2chan' \in [Loops -> [Fds -> Https \cup {None}]] /\ ChannelsKept
    BY <2>1 DEF IInv, TypeOK, ChannelsKept
  <2> QED BY <1>1, <2>1, <2>3, <2>4, <2>5, LeaveStep
<1>7. CASE CloseConn(l, h)
  <2> DEFINE left == [g \in Https |-> c.timers]
             D == {h}
  <2>1. CloseAll(l, D, left) /\ D \in SUBSET Https
    BY <1>7 DEF CloseConn
  <2>2. \A g \in D : Live(g) /\ http[g].loop = l /\ left[g] = 0
    <3> HIDE DEF c
    <3> QED BY <1>2, <1>3 DEF Live
  <2> HIDE DEF left, D
  <2>3. /\ fd2chan' \in [Loops -> [Fds -> Https \cup {None}]]
        /\ fd2http' \in [Loops -> [Fds -> Https \cup {None}]]
        /\ http' \in [Https -> HttpDatas]
        /\ sock' \in [Https -> Socks]
        /\ \A g \in Https : http'[g] = IF g = h THEN NewHttp ELSE http[g]
        /\ ObjectInv' /\ FdsApart' /\ EntriesLive' /\ OneTimer'
    <3>1. \A g : g \in D <=> g = h
      BY DEF D
    <3>2. /\ fd2chan' \in [Loops -> [Fds -> Https \cup {None}]]
          /\ fd2http' \in [Loops -> [Fds -> Https \cup {None}]]
          /\ http' \in [Https -> HttpDatas]
          /\ sock' \in [Https -> Socks]
          /\ \A g \in Https : http'[g] = IF g \in D THEN NewHttp ELSE http[g]
          /\ ObjectInv' /\ FdsApart' /\ EntriesLive' /\ OneTimer'
      <4> HIDE DEF c
      <4> QED BY <2>1, <2>2, CloseTables
    <3> QED BY <3>1, <3>2
  <2>4. /\ cur' \in [Loops -> Https \cup {None}] /\ phase' \in [Loops -> Phases]
        /\ cur'[l] = None /\ phase'[l] = "dispatch"
        /\ \A m \in Loops \ {l} : cur'[m] = cur[m] /\ phase'[m] = phase[m]
    BY <1>1, <1>4 DEF Phases
  <2>5. TypeOK'
    BY <1>1, <2>3, <2>4 DEF IInv, TypeOK
  <2>6. NewHttp.life = "none"
    BY DEF NewHttp
  <2>7. LoopInv'
    <3>1. SUFFICES ASSUME NEW m \in Loops
                   PROVE  /\ cur'[m] # None <=> phase'[m] \in Busy
                          /\ batch[m] # {} => phase'[m] \in Busy \cup {"dispatch"}
                          /\ cur'[m] \notin batch[m]
                          /\ \A g \in Https : g \in batch[m] \/ cur'[m] = g
                                => http'[g].life = "live" /\ http'[g].loop = m
      BY <1>1 DEF LoopInv, Live
    <3>2. CASE m = l
      <4>1. cur'[m] = None /\ phase'[m] = "dispatch" /\ "dispatch" \notin Busy
        BY <2>4, <3>2 DEF Busy
      <4>2. cur[m] = h /\ h \notin batch[m] /\ batch[m] \subseteq Https
        <5>1. cur[m] = h
          BY <1>1, <3>2
        <5>2. cur[m] \notin batch[m]
          BY DEF IInv, LoopInv
        <5>3. batch[m] \subseteq Https
          BY DEF IInv, TypeOK
        <5> QED BY <5>1, <5>2, <5>3
      <4>3. \A g \in batch[m] : http'[g] = http[g] /\ Live(g) /\ http[g].loop = m
        BY <2>3, <4>2 DEF IInv, LoopInv
      <4> QED BY <4>1, <4>2, <4>3, ReactorAssumption DEF Live
    <3>3. CASE m # l
      <4>1. cur'[m] = cur[m] /\ phase'[m] = phase[m]
        BY <2>4, <3>3
      <4>2. h \notin batch[m] /\ cur[m] # h
        BY <1>2, <3>3 DEF IInv, LoopInv
      <4>3. \A g \in Https : g \in batch[m] \/ cur[m] = g => http'[g] = http[g]
        BY <2>3, <4>2
      <4> QED BY <4>1, <4>3 DEF IInv, LoopInv, Live
    <3> QED BY <3>2, <3>3
  <2>8. GuardInv'
    <3>1. SUFFICES ASSUME NEW g \in Https, http'[g].life = "live",
                          http'[g].connectionState = "CONNECTED", cur'[http'[g].loop] # g
                   PROVE  http'[g].timers = 1
      BY DEF GuardInv, Live
    <3>2. g # h /\ http'[g] = http[g]
      BY <2>3, <2>6, <3>1
    <3>3. http[g].loop \in Loops
      BY <3>1, <3>2 DEF IInv, ObjectInv
    <3>4. cur[http[g].loop] # g
      BY <1>1, <2>4, <3>1, <3>2, <3>3
    <3> QED BY <3>1, <3>2, <3>4 DEF IInv, GuardInv, Live
  <2> QED BY <2>3, <2>5, <2>7, <2>8 DEF IInv
<1> QED BY <1>5, <1>6, <1>7 DEF HandleConn

LEMMA SwapFunctorsInv ==
  ASSUME IInv, NEW l \in Loops, SwapFunctors(l)
  PROVE  IInv'
<1>1. /\ http \in [Https -> HttpDatas] /\ phase \in [Loops -> Phases]
      /\ phase[l] = "dispatch" /\ batch[l] = {} /\ phase' = [phase EXCEPT ![l] = "pending"]
      /\ UNCHANGED <<fd2chan, fd2http, sock, batch, cur, wake>>
  BY DEF IInv, TypeOK, SwapFunctors
<1>2. \A h \in Https :
        \/ http'[h] = http[h]
        \/ http[h].life = "queued" /\ http'[h] = [http[h] EXCEPT !.life = "running"]
  BY DEF SwapFunctors
<1>3. \A h \in Https : /\ http'[h] \in HttpDatas
                       /\ http'[h].life = "live" <=> http[h].life = "live"
                       /\ http'[h].loop = http[h].loop
                       /\ http'[h].connectionState = http[h].connectionState
                       /\ http'[h].timers = http[h].timers
                       /\ Evolves(http[h], http'[h])
  <2>1. SUFFICES ASSUME NEW h \in Https
                 PROVE  /\ http'[h] \in HttpDatas
                        /\ http'[h].life = "live" <=> http[h].life = "live"
                        /\ http'[h].loop = http[h].loop
                        /\ http'[h].connectionState = http[h].connectionState
                        /\ http'[h].timers = http[h].timers
                        /\ Evolves(http[h], http'[h])
    OBVIOUS
  <2>2. http[h] \in HttpDatas
    BY <1>1
  <2>3. CASE http'[h] = http[h]
    BY <2>2, <2>3 DEF IInv, ObjectInv, OneTimer, Evolves, Linked
  <2>4. CASE http[h].life = "queued" /\ http'[h] = [http[h] EXCEPT !.life = "running"]
    <3>1. /\ http'[h] \in HttpDatas /\ http'[h].life = "running"
          /\ http'[h].loop = http[h].loop /\ http'[h].fd = http[h].fd
          /\ http'[h].connectionState = http[h].connectionState
          /\ http'[h].timers = http[h].timers /\ http'[h].linked = http[h].linked
      BY <2>2, <2>4 DEF HttpDatas, Lives
    <3> QED BY <2>4, <3>1 DEF IInv, ObjectInv, OneTimer, Evolves, Linked
  <2> QED BY <1>2, <2>3, <2>4
<1>4. TypeOK'
  <2>1. http' \in [Https -> HttpDatas]
    BY <1>3 DEF SwapFunctors
  <2>2. phase' \in [Loops -> Phases]
    BY <1>1 DEF Phases
  <2> QED BY <1>1, <2>1, <2>2 DEF IInv, TypeOK
<1>5. LoopInv'
  <2>1. phase'[l] = "pending" /\ \A m \in Loops \ {l} : phase'[m] = phase[m]
    BY <1>1
  <2>2. cur[l] = None
    BY <1>1 DEF IInv, LoopInv, Busy
  <2> QED BY <1>1, <1>3, <2>1, <2>2 DEF IInv, LoopInv, Live, Busy
<1>6. GuardInv'
  BY <1>1, <1>3 DEF IInv, GuardInv, Live
<1> QED BY <1>1, <1>3, <1>4, <1>5, <1>6, KeptTables DEF IInv, ChannelsKept

LEMMA NewEventInv ==
  ASSUME IInv, NEW l \in Loops, NEW h \in Https, NewEvent(l, h)
  PROVE  IInv'
<1> DEFINE f == http[h].fd
           ev == {"IN", "ONESHOT"}
           c == [AddTimer(http[h]) EXCEPT !.life = "live", !.events = ev, !.lastEvents = ev]
<1>1. /\ http \in [Https -> HttpDatas] /\ sock \in [Https -> Socks]
      /\ fd2chan \in [Loops -> [Fds -> Https \cup {None}]]
      /\ fd2http \in [Loops -> [Fds -> Https \cup {None}]]
  BY DEF IInv, TypeOK
<1>2. /\ http[h].life = "running" /\ http[h].loop = l /\ f \in Fds
      /\ http[h].timers = 0 /\ http[h].connectionState # "DISCONNECTED"
  BY DEF NewEvent, IInv, ObjectInv
<1>3. /\ http' = [http EXCEPT ![h] = c]
      /\ fd2http' = [fd2http EXCEPT ![l][f] = h]
      /\ \/ /\ fd2chan' = [fd2chan EXCEPT ![l][f] = h]
            /\ sock' = [sock EXCEPT ![h] = EpollCtl(sock[h], ev)]
         \/ /\ fd2chan' = [fd2chan EXCEPT ![l][f] = None]
            /\ sock' = sock
      /\ UNCHANGED <<phase, batch, cur, wake>>
  BY DEF NewEvent
<1>4. /\ c \in HttpDatas /\ c.life = "live" /\ c.loop = l /\ c.fd = f
      /\ c.timers = 1 /\ c.linked = TRUE /\ c.connectionState = http[h].connectionState
  <2> DEFINE a == AddTimer(http[h])
  <2>1. /\ a \in HttpDatas /\ a.timers = 1 /\ a.linked = TRUE /\ a.loop = l /\ a.fd = f
        /\ a.connectionState = http[h].connectionState
    BY <1>1, <1>2, TimerAdded
  <2>2. c = [a EXCEPT !.life = "live", !.events = ev, !.lastEvents = ev]
    OBVIOUS
  <2>3. ev \in Masks
    BY DEF Masks
  <2> HIDE DEF a, c, ev, f
  <2> QED BY <2>1, <2>2, <2>3 DEF HttpDatas, Lives
<1> HIDE DEF c, f
<1>5. http'[h] = c /\ \A g \in Https \ {h} : http'[g] = http[g]
  BY <1>1, <1>3
<1>6. /\ fd2chan' \in [Loops -> [Fds -> Https \cup {None}]]
      /\ fd2http' \in [Loops -> [Fds -> Https \cup {None}]]
      /\ fd2http'[l][f] = h /\ fd2chan'[l][f] \in {None, h}
      /\ \A m \in Loops, e \in Fds : m # l \/ e # f =>
           fd2http'[m][e] = fd2http[m][e] /\ fd2chan'[m][e] = fd2chan[m][e]
  <2>1. PICK x \in {None, h} : fd2chan' = [fd2chan EXCEPT ![l][f] = x]
    BY <1>3
  <2>2. /\ [fd2http[l] EXCEPT ![f] = h] \in [Fds -> Https \cup {None}]
        /\ [fd2chan[l] EXCEPT ![f] = x] \in [Fds -> Https \cup {None}]
        /\ [fd2http[l] EXCEPT ![f] = h][f] = h /\ [fd2chan[l] EXCEPT ![f] = x][f] = x
        /\ \A e \in Fds \ {f} : /\ [fd2http[l] EXCEPT ![f] = h][e] = fd2http[l][e]
                                /\ [fd2chan[l] EXCEPT ![f] = x][e] = fd2chan[l][e]
    BY <1>1, <1>2
  <2>3. /\ fd2http' = [fd2http EXCEPT ![l] = [fd2http[l] EXCEPT ![f] = h]]
        /\ fd2chan' = [fd2chan EXCEPT ![l] = [fd2chan[l] EXCEPT ![f] = x]]
    BY <1>3, <2>1
  <2> QED BY <1>1, <1>2, <2>2, <2>3
<1>7. TypeOK'
  <2>1. http' \in [Https -> HttpDatas]
    BY <1>1, <1>3, <1>4
  <2>2. sock' \in [Https -> Socks]
    <3>1. EpollCtl(sock[h], ev) \in Socks
      BY <1>1, SockTypes DEF Masks
    <3> HIDE DEF ev
    <3>2. [sock EXCEPT ![h] = EpollCtl(sock[h], ev)] \in [Https -> Socks]
      BY <1>1, <3>1
    <3> QED BY <1>1, <1>3, <3>2
  <2> QED BY <1>3, <1>6, <2>1, <2>2 DEF IInv, TypeOK
<1>8. \A g \in Https \ {h} : Open(g) => http[g].fd # f
  BY <1>2 DEF IInv, FdsApart, Open, f
<1>9. ObjectInv'
  <2>1. SUFFICES ASSUME NEW g \in Https
                 PROVE  /\ http'[g].life = "none" => http'[g] = NewHttp
                        /\ http'[g].life # "none" => /\ http'[g].loop \in Loops
                                                     /\ http'[g].fd \in Fds
                                                     /\ http'[g].connectionState # "DISCONNECTED"
                        /\ http'[g].life \in {"queued", "running"} => http'[g].timers = 0
                        /\ http'[g].life = "live" => fd2http'[http'[g].loop][http'[g].fd] = g
    BY DEF ObjectInv, Live
  <2>2. CASE g = h
    BY <1>2, <1>4, <1>5, <1>6, <2>2
  <2>3. CASE g # h
    <3>1. http'[g] = http[g] /\ (http[g].life # "none" => http[g].fd # f)
      BY <1>5, <1>8, <2>3 DEF Open
    <3> QED BY <1>6, <3>1 DEF IInv, ObjectInv, Live
  <2> QED BY <2>2, <2>3
<1>10. FdsApart'
  BY <1>4, <1>5, <1>8 DEF IInv, FdsApart, Open
<1>11. EntriesLive'
  <2>1. SUFFICES ASSUME NEW m \in Loops, NEW e \in Fds
                 PROVE  /\ fd2chan'[m][e] \in {None, fd2http'[m][e]}
                        /\ fd2http'[m][e] # None => /\ http'[fd2http'[m][e]].life = "live"
                                                    /\ http'[fd2http'[m][e]].loop = m
                                                    /\ http'[fd2http'[m][e]].fd = e
    BY DEF EntriesLive, Live
  <2>2. CASE m = l /\ e = f
    BY <1>4, <1>5, <1>6, <2>2
  <2>3. CASE ~(m = l /\ e = f)
    <3>1. fd2http'[m][e] = fd2http[m][e] /\ fd2chan'[m][e] = fd2chan[m][e]
      BY <1>6, <2>3
    <3>2. fd2http[m][e] # None => fd2http[m][e] \in Https \ {h}
      BY <1>1, <1>2 DEF IInv, EntriesLive, Live
    <3> QED BY <1>5, <3>1, <3>2 DEF IInv, EntriesLive, Live
  <2> QED BY <2>2, <2>3
<1>12. LoopInv'
  <2>1. \A m \in Loops : h \notin batch[m] /\ cur[m] # h
    BY <1>2 DEF IInv, LoopInv, Live
  <2> QED BY <1>3, <1>5, <2>1 DEF IInv, LoopInv, Live
<1>13. GuardInv'
  BY <1>3, <1>4, <1>5 DEF IInv, GuardInv, Live
<1>14. OneTimer'
  BY <1>4, <1>5 DEF IInv, OneTimer
<1> QED BY <1>7, <1>9, <1>10, <1>11, <1>12, <1>13, <1>14 DEF IInv

LEMMA FunctorsDoneInv ==
  ASSUME IInv, NEW l \in Loops, FunctorsDone(l)
  PROVE  IInv'
<1>1. /\ phase[l] = "pending" /\ phase' = [phase EXCEPT ![l] = "expire"]
      /\ UNCHANGED <<fd2chan, fd2http, http, sock, batch, cur, wake>>
  BY DEF FunctorsDone
<1>2. /\ phase' \in [Loops -> Phases]
      /\ phase'[l] = "expire" /\ \A m \in Loops \ {l} : phase'[m] = phase[m]
  BY <1>1 DEF IInv, TypeOK, Phases
<1>3. TypeOK'
  BY <1>1, <1>2 DEF IInv, TypeOK
<1>4. LoopInv'
  BY <1>1, <1>2 DEF IInv, LoopInv, Live, Busy
<1> QED BY <1>1, <1>3, <1>4 DEF IInv, ObjectInv, FdsApart, EntriesLive, GuardInv, OneTimer,
                               Open, Live

(* A node that is due holds a connection of this loop, and is its only one. *)
LEMMA ExpiredOwned ==
  ASSUME IInv, NEW l \in Loops, NEW D \in SUBSET Https,
         \A h \in D : http[h].loop = l /\ http[h].timers > 0
  PROVE  \A h \in D : Live(h) /\ http[h].loop = l /\ http[h].timers - 1 = 0
<1>1. SUFFICES ASSUME NEW h \in D
               PROVE  http[h].life = "live" /\ http[h].loop = l /\ http[h].timers = 1
  BY DEF Live
<1>2. http[h] \in HttpDatas /\ http[h].timers > 0 /\ http[h].timers <= 1
  BY <1>1 DEF IInv, TypeOK, OneTimer
<1>3. http[h].timers = 1 /\ http[h].life \in Lives
  BY <1>2 DEF HttpDatas
<1>4. http[h].life # "none"
  BY <1>3 DEF IInv, ObjectInv, NewHttp
<1>5. http[h].life \notin {"queued", "running"}
  BY <1>3 DEF IInv, ObjectInv
<1> QED BY <1>1, <1>3, <1>4, <1>5 DEF Lives

LEMMA HandleExpiredInv ==
  ASSUME IInv, NEW l \in Loops, NEW D \in SUBSET Https, HandleExpired(l, D)
  PROVE  IInv'
<1> DEFINE left == [h \in Https |-> http[h].timers - 1]
<1>1. /\ phase[l] = "expire" /\ phase' = [phase EXCEPT ![l] = "poll"]
      /\ \A h \in D : http[h].loop = l /\ http[h].timers > 0
      /\ CloseAll(l, D, left)
      /\ UNCHANGED <<batch, cur, wake>>
  BY DEF HandleExpired
<1>2. \A h \in D : Live(h) /\ http[h].loop = l /\ left[h] = 0
  BY <1>1, ExpiredOwned
<1> HIDE DEF left
<1>3. /\ fd2chan' \in [Loops -> [Fds -> Https \cup {None}]]
      /\ fd2http' \in [Loops -> [Fds -> Https \cup {None}]]
      /\ http' \in [Https -> HttpDatas]
      /\ sock' \in [Https -> Socks]
      /\ \A g \in Https : http'[g] = IF g \in D THEN NewHttp ELSE http[g]
      /\ ObjectInv' /\ FdsApart' /\ EntriesLive' /\ OneTimer'
  BY <1>1, <1>2, CloseTables
<1>4. /\ phase' \in [Loops -> Phases]
      /\ phase'[l] = "poll" /\ \A m \in Loops \ {l} : phase'[m] = phase[m]
  BY <1>1 DEF IInv, TypeOK, Phases
<1>5. TypeOK'
  BY <1>1, <1>3, <1>4 DEF IInv, TypeOK
<1>6. cur[l] = None /\ batch[l] = {}
  BY <1>1 DEF IInv, LoopInv, Busy
<1>7. \A m \in Loops, g \in Https : g \in batch[m] \/ cur[m] = g => http'[g] = http[g]
  <2>1. SUFFICES ASSUME NEW m \in Loops, NEW g \in D, g \in batch[m] \/ cur[m] = g
                 PROVE  FALSE
    BY <1>3
  <2>2. m = l
    BY <1>2, <2>1 DEF IInv, LoopInv
  <2> QED BY <1>6, <2>1, <2>2, ReactorAssumption
<1>8. LoopInv'
  BY <1>1, <1>4, <1>6, <1>7 DEF IInv, LoopInv, Live, Busy
<1>9. GuardInv'
  <2>1. NewHttp.life = "none"
    BY DEF NewHttp
  <2> QED BY <1>1, <1>3, <2>1 DEF IInv, GuardInv, Live
<1> QED BY <1>3, <1>5, <1>8, <1>9 DEF IInv

-----------------------------------------------------------------------------
(* The invariant is inductive, and what follows from it. *)

LEMMA StepInv == IInv /\ [Next]_vars => IInv'
<1> SUFFICES ASSUME IInv, [Next]_vars PROVE IInv'
  OBVIOUS
<1>1. ASSUME NEW h \in Https, Client(h) PROVE IInv'
  BY <1>1, ClientInv
<1>2. ASSUME NEW h \in Https, NEW f \in Fds, NEW l \in Loops, HandNewConn(h, f, l) PROVE IInv'
  BY <1>2, HandNewConnInv
<1>3. ASSUME NEW l \in Loops, LoopStep(l) PROVE IInv'
  <2>1. CASE Poll(l)
    BY <2>1, PollInv
  <2>2. ASSUME NEW h \in Https, Dispatch(l, h) PROVE IInv'
    BY <2>2, DispatchInv
  <2>3. ASSUME NEW h \in Https, HandleRead(l, h) PROVE IInv'
    BY <2>3, HandleReadInv
  <2>4. ASSUME NEW h \in Https, FinishRead(l, h) PROVE IInv'
    BY <2>4, FinishReadInv
  <2>5. ASSUME NEW h \in Https, HandleWrite(l, h) PROVE IInv'
    BY <2>5, HandleWriteInv
  <2>6. ASSUME NEW h \in Https, HandleConn(l, h) PROVE IInv'
    BY <2>6, HandleConnInv
  <2>7. CASE SwapFunctors(l)
    BY <2>7, SwapFunctorsInv
  <2>8. ASSUME NEW h \in Https, NewEvent(l, h) PROVE IInv'
    BY <2>8, NewEventInv
  <2>9. CASE FunctorsDone(l)
    BY <2>9, FunctorsDoneInv
  <2>10. ASSUME NEW D \in SUBSET Https, HandleExpired(l, D) PROVE IInv'
    BY <2>10, HandleExpiredInv
  <2> QED BY <1>3, <2>1, <2>2, <2>3, <2>4, <2>5, <2>6, <2>7, <2>8, <2>9, <2>10 DEF LoopStep
<1>4. CASE UNCHANGED vars
  BY <1>4 DEF vars, IInv, TypeOK, ObjectInv, FdsApart, EntriesLive, LoopInv, GuardInv, OneTimer,
              Open, Live
<1> QED BY <1>1, <1>2, <1>3, <1>4 DEF Next

(* Everything a loop knows of its connections, in every reachable state. *)
THEOREM Invariance == Spec => []IInv
<1>1. Init => IInv
  BY InitInv
<1>2. IInv /\ [Next]_vars => IInv'
  BY StepInv
<1> QED BY <1>1, <1>2, PTL DEF Spec

(* The state stays within its types: in particular the count of timer nodes *)
(* that clearing decrements never goes below zero.                          *)
THEOREM TypeCorrect == Spec => []TypeOK
<1>1. IInv => TypeOK
  BY DEF IInv
<1> QED BY <1>1, Invariance, PTL

(* A table entry always names a live object of that loop and descriptor, so *)
(* a descriptor number that accept returns again is free in every loop.     *)
THEOREM Ownership == Spec => []TablesOwned
<1>1. IInv => TablesOwned
  <2> SUFFICES ASSUME IInv, NEW l \in Loops, NEW f \in Fds, fd2http[l][f] # None
               PROVE  http[fd2http[l][f]].connectionState # "DISCONNECTED"
    BY DEF IInv, EntriesLive, TablesOwned, Live
  <2>1. fd2http[l][f] \in Https /\ http[fd2http[l][f]].life = "live"
    BY DEF IInv, TypeOK, EntriesLive, Live
  <2> QED BY <2>1 DEF IInv, ObjectInv
<1> QED BY <1>1, Invariance, PTL

(* A channel that poll() returned, or that is being handled, belongs to an  *)
(* HttpData its loop still holds: the raw this in its callbacks is valid.   *)
THEOREM CallbacksSafe == Spec => []HandlerAlive
<1>1. IInv => HandlerAlive
  BY DEF IInv, LoopInv, ObjectInv, HandlerAlive, Holds, Live
<1> QED BY <1>1, Invariance, PTL

(* At most one uncleared timer node holds an HttpData, and timer_ finds it. *)
THEOREM SingleTimer == Spec => []OneTimer
<1>1. IInv => OneTimer
  BY DEF IInv
<1> QED BY <1>1, Invariance, PTL

(* A connected client outside a handler always has a node that will close   *)
(* it, whatever epoll_ctl returned and whichever events were dropped.       *)
THEOREM Guarded == Spec => []TimerGuard
<1>1. IInv => TimerGuard
  <2> SUFFICES ASSUME IInv, NEW h \in Https, Live(h), ~Handled(h),
                      http[h].connectionState = "CONNECTED"
               PROVE  http[h].timers = 1
    BY DEF TimerGuard
  <2>1. http[h].loop \in Loops
    BY DEF IInv, ObjectInv, Live
  <2>2. cur[http[h].loop] # h
    BY <2>1 DEF Handled
  <2> QED BY <2>2 DEF IInv, GuardInv
<1> QED BY <1>1, Invariance, PTL

-----------------------------------------------------------------------------
(* What epoll watches for, in every phase of a pass.  A connection counts   *)
(* while its channel is in the table and the peer has not reset it.         *)

Tracked(h) == Live(h) /\ fd2chan[http[h].loop][http[h].fd] = h /\ ~sock[h].rst

Place(h) == IF h \in batch[http[h].loop] THEN "batch"
            ELSE IF cur[http[h].loop] = h THEN phase[http[h].loop] ELSE "idle"

(* lastEvents_ is the kernel's mask, and only the first one is one-shot.    *)
Registered(c, k) ==
  /\ k.mask = c.lastEvents
  /\ k.mask \in {{"IN", "ONESHOT"}, {"IN"}, {"OUT"}}
  /\ k.reg = "armed" \/ (k.reg = "fired" /\ "ONESHOT" \in k.mask)

(* If the socket is ready for what is asked, epoll knows. *)
Noticed(k) == /\ "IN" \in k.mask /\ (k.inq \/ k.fin) => k.listed
              /\ "OUT" \in k.mask /\ k.space => k.listed

AtRest(c, k) ==
  c.connectionState = "CONNECTED" =>
    k.reg = "armed" /\ (c.out => k.mask = {"OUT"}) /\ Noticed(k)

Reporting(c, k) == c.revents # {} /\ c.revents \subseteq k.mask \ {"ONESHOT"}

(* In a handler what was noticed before the one-shot mask is replaced does  *)
(* not matter, since EPOLL_CTL_MOD looks again; the call may be skipped for *)
(* the other two masks.                                                     *)
Handling(c, k, p) ==
  /\ c.events \subseteq {"IN", "OUT"} /\ Reporting(c, k)
  /\ k.mask = {"IN"} =>
       /\ p # "write"
       /\ p \in {"tail", "conn"} /\ ~c.error /\ c.connectionState = "CONNECTED" => Noticed(k)
  /\ k.mask = {"OUT"} =>
       /\ p \in {"write", "conn"}
       /\ p = "write" => c.events = {}
       /\ p = "conn" /\ "OUT" \in c.events /\ ~c.error => Noticed(k)
  /\ p = "conn" /\ c.out /\ ~c.error => "OUT" \in c.events

Attending(c, k, p) ==
  /\ Registered(c, k)
  /\ p = "idle" => AtRest(c, k)
  /\ p = "batch" => c.events = {} /\ Reporting(c, k)
  /\ p \in Busy => Handling(c, k, p)

(* Before newEvent there is nothing to write. *)
Watching(h) == /\ Tracked(h) => Attending(http[h], sock[h], Place(h))
               /\ http[h].life # "live" => ~http[h].out

WatchInv == \A h \in Https : Watching(h)

(* An object that a step leaves alone, in the same place of its loop. *)
LEMMA Undisturbed ==
  ASSUME IInv, WatchInv, NEW l \in Loops, NEW g \in Https,
         http'[g] = http[g], sock'[g] = sock[g],
         \A m \in Loops, f \in Fds : fd2chan'[m][f] = g => fd2chan[m][f] = g,
         \A m \in Loops \ {l} : /\ batch'[m] = batch[m] /\ cur'[m] = cur[m]
                                /\ phase'[m] = phase[m],
         g \in batch'[l] <=> g \in batch[l],
         cur'[l] = g <=> cur[l] = g, cur[l] = g => phase'[l] = phase[l]
  PROVE  Watching(g)'
<1>1. ASSUME Tracked(g)' PROVE Tracked(g) /\ Place(g)' = Place(g)
  <2>1. http[g].loop \in Loops /\ http[g].fd \in Fds
    BY <1>1 DEF Tracked, Live, IInv, ObjectInv
  <2>2. Tracked(g)
    BY <1>1, <2>1 DEF Tracked, Live
  <2>3. http[g].loop = l => Place(g)' = Place(g)
    BY DEF Place
  <2>4. http[g].loop # l => Place(g)' = Place(g)
    BY <2>1 DEF Place
  <2> QED BY <2>2, <2>3, <2>4
<1>2. Watching(g)
  BY DEF WatchInv
<1> QED BY <1>1, <1>2 DEF Watching

(* The kernel's own steps keep what was noticed. *)
LEMMA Alerted ==
  ASSUME NEW k \in Socks,
         NEW j, \/ j = Notify([k EXCEPT !.inq = TRUE], "IN")
                \/ j = Notify([k EXCEPT !.fin = TRUE], "IN")
                \/ j = Notify([k EXCEPT !.space = TRUE], "OUT")
  PROVE  /\ j.mask = k.mask /\ j.reg = k.reg /\ j.rst = k.rst
         /\ k.reg = "armed" /\ Noticed(k) => Noticed(j)
BY DEF Notify, Socks, Watched, Noticed

LEMMA Rearmed ==
  ASSUME NEW k \in Socks, NEW ev \in Masks
  PROVE  LET j == EpollCtl(k, ev) IN
         j.reg = "armed" /\ j.mask = ev /\ j.rst = k.rst /\ Noticed(j)
<1> DEFINE i == [k EXCEPT !.reg = "armed", !.mask = ev]
           j == EpollCtl(k, ev)
<1>1. /\ i.reg = "armed" /\ i.mask = ev /\ i.rst = k.rst
      /\ i.inq = k.inq /\ i.fin = k.fin /\ i.space = k.space
      /\ i \in Socks
  BY DEF Socks
<1>2. j = [i EXCEPT !.listed = @ \/ Reported(i) # {}]
  BY DEF EpollCtl
<1> HIDE DEF i, j
<1>3. /\ j.reg = "armed" /\ j.mask = ev /\ j.rst = k.rst
      /\ j.inq = k.inq /\ j.fin = k.fin /\ j.space = k.space
      /\ Reported(i) # {} => j.listed
  BY <1>1, <1>2 DEF Socks
<1>4. /\ "IN" \in ev /\ (k.inq \/ k.fin) => Reported(i) # {}
      /\ "OUT" \in ev /\ k.space => Reported(i) # {}
  <2>1. "IN" \in ev /\ (k.inq \/ k.fin) => "IN" \in Reported(i)
    BY <1>1 DEF Reported, Ready, Watched
  <2>2. "OUT" \in ev /\ k.space => "OUT" \in Reported(i)
    BY <1>1 DEF Reported, Ready, Watched
  <2> QED BY <2>1, <2>2
<1>5. Noticed(j)
  BY <1>3, <1>4 DEF Noticed
<1> QED BY <1>3, <1>5 DEF j

LEMMA ClientWatch ==
  ASSUME IInv, WatchInv, NEW h \in Https, Client(h)
  PROVE  WatchInv'
<1>1. PICK k : ClientStep(h, k) /\
        \/ k.rst
        \/ k = Notify([sock[h] EXCEPT !.inq = TRUE], "IN")
        \/ k = Notify([sock[h] EXCEPT !.fin = TRUE], "IN")
        \/ k = Notify([sock[h] EXCEPT !.space = TRUE], "OUT")
  <2>1. sock[h] \in Socks
    BY DEF IInv, TypeOK
  <2>2. Notify([sock[h] EXCEPT !.rst = TRUE], "ERR").rst
    BY <2>1 DEF Notify, Socks
  <2> QED BY <2>2 DEF Client, Send, ShutdownWrite, Reset, Drain
<1>2. /\ sock' = [sock EXCEPT ![h] = k] /\ sock \in [Https -> Socks]
      /\ UNCHANGED <<fd2chan, fd2http, http, phase, batch, cur, wake>>
  BY <1>1 DEF ClientStep, IInv, TypeOK
<1>3. Open(h) /\ http[h].loop \in Loops
  BY DEF Client, Send, ShutdownWrite, Reset, Drain, IInv, ObjectInv, Open
<1>4. SUFFICES ASSUME NEW g \in Https PROVE Watching(g)'
  BY DEF WatchInv
<1>5. CASE g # h
  BY <1>2, <1>3, <1>5, Undisturbed
<1>6. CASE g = h /\ Tracked(h)'
  <2>1. ~k.rst /\ sock'[h] = k /\ sock[h] \in Socks
    BY <1>2, <1>6 DEF Tracked
  <2>2. /\ k.mask = sock[h].mask /\ k.reg = sock[h].reg /\ k.rst = sock[h].rst
        /\ sock[h].reg = "armed" /\ Noticed(sock[h]) => Noticed(k)
    BY <1>1, <2>1, Alerted
  <2>3. Tracked(h) /\ Place(h)' = Place(h)
    BY <1>2, <1>6, <2>1, <2>2 DEF Tracked, Live, Place
  <2>4. Attending(http[h], sock[h], Place(h))
    BY <2>3 DEF WatchInv, Watching
  <2>5. Registered(http[h], k)
    BY <2>2, <2>4 DEF Attending, Registered
  <2>6. Place(h) = "idle" => AtRest(http[h], k)
    BY <2>2, <2>4 DEF Attending, AtRest
  <2>7. Reporting(http[h], sock[h]) => Reporting(http[h], k)
    BY <2>2 DEF Reporting
  <2>8. Place(h) \in Busy => Handling(http[h], k, Place(h))
    <3>1. k.mask = {"IN"} \/ k.mask = {"OUT"} => sock[h].reg = "armed"
      BY <2>2, <2>4 DEF Attending, Registered
    <3> QED BY <2>2, <2>4, <2>7, <3>1 DEF Attending, Handling
  <2>9. Attending(http[h], k, Place(h))
    BY <2>4, <2>5, <2>6, <2>7, <2>8 DEF Attending
  <2> QED BY <1>2, <1>6, <2>1, <2>3, <2>9 DEF Watching, WatchInv
<1>7. CASE g = h /\ ~Tracked(h)'
  BY <1>2, <1>7 DEF Watching, WatchInv
<1> QED BY <1>5, <1>6, <1>7

LEMMA HandNewConnWatch ==
  ASSUME IInv, WatchInv, NEW h \in Https, NEW f \in Fds, NEW l \in Loops, HandNewConn(h, f, l)
  PROVE  WatchInv'
<1> DEFINE c == [NewHttp EXCEPT !.life = "queued", !.loop = l, !.fd = f]
<1>1. c.life = "queued" /\ c.out = FALSE
  BY DEF NewHttp
<1>2. http' = [http EXCEPT ![h] = c] /\ sock' = [sock EXCEPT ![h] = NewSock]
  BY DEF HandNewConn
<1> HIDE DEF c
<1>3. /\ http'[h] = c
      /\ \A g \in Https \ {h} : http'[g] = http[g] /\ sock'[g] = sock[g]
      /\ UNCHANGED <<fd2chan, phase, batch, cur>>
  BY <1>2 DEF IInv, TypeOK, HandNewConn
<1>4. Watching(h)'
  BY <1>1, <1>3 DEF Watching, Tracked, Live
<1>5. ASSUME NEW g \in Https \ {h} PROVE Watching(g)'
  BY <1>3, Undisturbed
<1> QED BY <1>4, <1>5 DEF WatchInv

(* epoll_wait at a connection at rest: the report is what the mask asks for. *)
LEMMA Awaited ==
  ASSUME NEW c \in HttpDatas, NEW k \in Socks, ~k.rst, Registered(c, k), AtRest(c, k)
  PROVE  LET j == EpollWait(k) IN
         /\ j.rst = k.rst /\ Registered(c, j)
         /\ ~(k.listed /\ Reported(k) # {}) => AtRest(c, j)
         /\ j.mask = k.mask
<1>1. CASE ~k.listed
  BY <1>1 DEF EpollWait
<1>2. CASE k.listed /\ Reported(k) = {}
  <2> DEFINE j == [k EXCEPT !.listed = FALSE]
  <2>1. /\ j.inq = k.inq /\ j.fin = k.fin /\ j.rst = k.rst /\ j.space = k.space
        /\ j.reg = k.reg /\ j.mask = k.mask
    BY DEF Socks
  <2>2. EpollWait(k) = j
    BY <1>2 DEF EpollWait, Socks
  <2> HIDE DEF j
  <2>3. Registered(c, j)
    BY <2>1 DEF Registered
  <2>4. k.reg = "armed" => /\ ~("IN" \in k.mask /\ (k.inq \/ k.fin))
                           /\ ~("OUT" \in k.mask /\ k.space)
    <3>1. k.reg = "armed" => "IN" \notin Ready(k) \cap Watched(k)
      BY <1>2 DEF Reported
    <3>2. k.reg = "armed" => "OUT" \notin Ready(k) \cap Watched(k)
      BY <1>2 DEF Reported
    <3> QED BY <3>1, <3>2 DEF Ready, Watched
  <2>5. AtRest(c, j)
    BY <2>1, <2>4 DEF AtRest, Noticed
  <2> QED BY <2>1, <2>2, <2>3, <2>5
<1>3. CASE k.listed /\ Reported(k) # {}
  <2> DEFINE r == IF "ONESHOT" \in k.mask THEN "fired" ELSE k.reg
             j == [k EXCEPT !.listed = FALSE, !.reg = r]
  <2>1. j.rst = k.rst /\ j.reg = r /\ j.mask = k.mask
    BY DEF Socks
  <2>2. EpollWait(k) = j
    BY <1>3 DEF EpollWait
  <2>3. Registered(c, j)
    <3> HIDE DEF j
    <3> QED BY <2>1 DEF Registered
  <2> HIDE DEF j
  <2> QED BY <1>3, <2>1, <2>2, <2>3
<1> QED BY <1>1, <1>2, <1>3

LEMMA ReportAsked ==
  ASSUME NEW k \in Socks, ~k.rst
  PROVE  Reported(k) \subseteq k.mask \ {"ONESHOT"}
BY DEF Reported, Ready, Watched, Socks, Masks

LEMMA PollWatch ==
  ASSUME IInv, WatchInv, NEW l \in Loops, Poll(l)
  PROVE  WatchInv'
<1>1. /\ http \in [Https -> HttpDatas] /\ sock \in [Https -> Socks]
      /\ batch \in [Loops -> SUBSET Https] /\ phase \in [Loops -> Phases]
  BY DEF IInv, TypeOK
<1>2. /\ batch'[l] = Channels(l) /\ phase[l] = "poll"
      /\ \A m \in Loops \ {l} : batch'[m] = batch[m] /\ phase'[m] = phase[m]
      /\ UNCHANGED <<fd2chan, fd2http, cur>>
      /\ \A h \in Https : sock'[h] = IF http[h].loop = l THEN EpollWait(sock[h]) ELSE sock[h]
  BY <1>1 DEF Poll
<1>3. cur[l] = None /\ batch[l] = {}
  BY <1>2 DEF IInv, LoopInv, Busy
(* The event of a descriptor goes to the connection that has it. *)
<1>4. ASSUME NEW p \in Polled(l), NEW g \in Https, fd2chan[l][http[p].fd] = g
      PROVE  p = g /\ Live(g) /\ http[g].loop = l
  <2>1. p \in Https /\ http[p].loop = l
    BY <1>4 DEF Polled, OnLoop
  <2>2. Open(p) /\ http[p].fd \in Fds
    <3>1. http[p].life # "none"
      BY <2>1, ReactorAssumption DEF IInv, ObjectInv, NewHttp
    <3> QED BY <2>1, <3>1 DEF Open, IInv, ObjectInv
  <2>3. fd2http[l][http[p].fd] = g
    BY <1>4, <2>2, ReactorAssumption DEF IInv, EntriesLive
  <2>4. Live(g) /\ http[g].loop = l /\ http[g].fd = http[p].fd
    BY <2>2, <2>3, ReactorAssumption DEF IInv, EntriesLive
  <2>5. Open(g)
    BY <2>4 DEF Open, Live
  <2> QED BY <2>1, <2>2, <2>4, <2>5 DEF IInv, FdsApart
<1>5. ASSUME NEW g \in Https, g \in Channels(l)
      PROVE  /\ Live(g) /\ g \in Polled(l) /\ http[g].loop = l
             /\ http'[g] = [http[g] EXCEPT !.events = {}, !.revents = Reported(sock[g])]
  <2>1. PICK p \in Polled(l) : fd2chan[l][http[p].fd] = g
    BY <1>5 DEF Channels
  <2>2. {q \in Polled(l) : fd2chan[l][http[q].fd] = g} = {g}
    BY <1>4, <2>1
  <2>3. UNION {Reported(sock[h]) : h \in {g}} = Reported(sock[g])
    OBVIOUS
  <2> QED BY <1>4, <1>5, <2>1, <2>2, <2>3 DEF Poll
<1>6. ASSUME NEW g \in Https, g \notin Channels(l) PROVE http'[g] = http[g]
  BY <1>6 DEF Poll
<1>7. SUFFICES ASSUME NEW g \in Https PROVE Watching(g)'
  BY DEF WatchInv
<1>8. CASE http[g].loop # l
  <2>1. g \notin Channels(l)
    BY <1>5, <1>8
  <2> QED BY <1>2, <1>3, <1>6, <1>8, <2>1, ReactorAssumption, Undisturbed
<1>9. CASE http[g].loop = l
  <2>1. /\ http'[g].life = http[g].life /\ http'[g].loop = l /\ http'[g].fd = http[g].fd
        /\ http'[g].out = http[g].out /\ http'[g].lastEvents = http[g].lastEvents
    <3>1. http[g] \in HttpDatas
      BY <1>1
    <3>2. CASE g \in Channels(l)
      BY <1>5, <1>9, <3>1, <3>2 DEF HttpDatas
    <3>3. CASE g \notin Channels(l)
      BY <1>6, <1>9, <3>3
    <3> QED BY <3>2, <3>3
  <2>2. http[g].life # "live" => ~http'[g].out
    BY <2>1 DEF WatchInv, Watching
  <2>3. SUFFICES ASSUME Tracked(g)' PROVE Attending(http'[g], sock'[g], Place(g)')
    BY <2>1, <2>2 DEF Watching
  <2>4. sock'[g] = EpollWait(sock[g]) /\ EpollWait(sock[g]).rst = sock[g].rst
    <3>1. sock[g] \in Socks
      BY <1>1
    <3>2. EpollWait(sock[g]).rst = sock[g].rst
      BY <3>1 DEF EpollWait, Socks
    <3> QED BY <1>2, <1>9, <3>2
  <2>5. Tracked(g) /\ Place(g) = "idle"
    <3>1. Live(g) /\ fd2chan[l][http[g].fd] = g /\ ~sock[g].rst
      BY <1>2, <2>1, <2>3, <2>4 DEF Tracked, Live
    <3> QED BY <1>3, <1>9, <3>1, ReactorAssumption DEF Tracked, Place
  <2>6. Registered(http[g], sock[g]) /\ AtRest(http[g], sock[g]) /\ ~sock[g].rst
    BY <2>5 DEF WatchInv, Watching, Attending, Tracked
  <2>7. /\ Registered(http[g], sock'[g]) /\ sock'[g].mask = sock[g].mask
        /\ ~(sock[g].listed /\ Reported(sock[g]) # {}) => AtRest(http[g], sock'[g])
    BY <1>1, <2>4, <2>6, Awaited
  <2>8. CASE g \in Polled(l)
    <3>1. g \in Channels(l) /\ Reported(sock[g]) # {}
      BY <1>9, <2>5, <2>8, ReactorAssumption DEF Tracked, Channels, Polled
    <3>2. Place(g)' = "batch"
      BY <1>2, <2>1, <3>1 DEF Place
    <3>3. http'[g].events = {} /\ http'[g].revents = Reported(sock[g])
      BY <1>1, <1>5, <3>1 DEF HttpDatas
    <3>4. Reporting(http'[g], sock'[g])
      BY <1>1, <2>6, <2>7, <3>1, <3>3, ReportAsked DEF Reporting
    <3>5. Registered(http'[g], sock'[g])
      BY <2>1, <2>7 DEF Registered
    <3> QED BY <3>2, <3>3, <3>4, <3>5 DEF Attending, Busy
  <2>9. CASE g \notin Polled(l)
    <3>1. ~(sock[g].listed /\ Reported(sock[g]) # {})
      BY <1>9, <2>9 DEF Polled, OnLoop
    <3>2. g \notin Channels(l)
      BY <1>5, <2>9
    <3>3. Place(g)' = "idle"
      BY <1>2, <1>3, <2>1, <3>2, ReactorAssumption DEF Place
    <3> QED BY <1>6, <2>7, <3>1, <3>2, <3>3 DEF Attending, Busy
  <2> QED BY <2>8, <2>9
<1> QED BY <1>8, <1>9

LEMMA DispatchWatch ==
  ASSUME IInv, WatchInv, NEW l \in Loops, NEW h \in Https, Dispatch(l, h)
  PROVE  WatchInv'
<1>1. /\ http \in [Https -> HttpDatas] /\ phase \in [Loops -> Phases]
      /\ cur \in [Loops -> Https \cup {None}] /\ batch \in [Loops -> SUBSET Https]
  BY DEF IInv, TypeOK
<1>2. /\ phase[l] = "dispatch" /\ h \in batch[l]
      /\ batch' = [batch EXCEPT ![l] = @ \ {h}]
      /\ UNCHANGED <<fd2chan, fd2http, sock, wake>>
  BY DEF Dispatch
<1>3. \/ /\ Dropped(http[h].revents)
         /\ http' = [http EXCEPT ![h].events = {}, ![h].revents = {}]
         /\ UNCHANGED <<phase, cur>>
      \/ /\ ~Dropped(http[h].revents)
         /\ http' = [http EXCEPT ![h].events = {}]
         /\ cur' = [cur EXCEPT ![l] = h]
         /\ phase' = [phase EXCEPT ![l] = IF "IN" \in http[h].revents THEN "read" ELSE "write"]
  BY DEF Dispatch
<1>4. cur[l] = None /\ Live(h) /\ http[h].loop = l
  BY <1>1, <1>2 DEF IInv, LoopInv, Busy
<1>5. ASSUME NEW g \in Https \ {h} PROVE Watching(g)'
  <2>1. /\ http'[g] = http[g] /\ batch'[l] = batch[l] \ {h}
        /\ cur'[l] \in {None, h}
        /\ \A m \in Loops \ {l} : batch'[m] = batch[m] /\ cur'[m] = cur[m] /\ phase'[m] = phase[m]
    BY <1>1, <1>2, <1>3, <1>4, <1>5
  <2> QED BY <1>2, <1>4, <1>5, <2>1, ReactorAssumption, Undisturbed
<1>6. Watching(h)'
  <2>1. /\ http'[h].life = http[h].life /\ http'[h].loop = l /\ http'[h].fd = http[h].fd
        /\ http'[h].out = http[h].out /\ http'[h].lastEvents = http[h].lastEvents
        /\ http'[h].events = {}
        /\ ~Dropped(http[h].revents) => http'[h].revents = http[h].revents
    BY <1>1, <1>3, <1>4 DEF HttpDatas
  <2>2. SUFFICES ASSUME Tracked(h)' PROVE Attending(http'[h], sock[h], Place(h)')
    BY <1>2, <1>4, <2>1 DEF Watching, Live
  <2>3. Tracked(h) /\ Place(h) = "batch"
    BY <1>2, <1>4, <2>1, <2>2 DEF Tracked, Live, Place
  <2>4. Registered(http[h], sock[h]) /\ Reporting(http[h], sock[h])
    BY <2>3 DEF WatchInv, Watching, Attending
  <2>5. http[h].revents \subseteq {"IN", "OUT"}
    BY <2>4 DEF Registered, Reporting
  <2>6. ~Dropped(http[h].revents)
    BY <2>5 DEF Dropped
  <2>7. /\ batch'[l] = batch[l] \ {h} /\ cur'[l] = h
        /\ phase'[l] = IF "IN" \in http[h].revents THEN "read" ELSE "write"
    BY <1>1, <1>2, <1>3, <2>6
  <2>8. Place(h)' = IF "IN" \in http[h].revents THEN "read" ELSE "write"
    BY <2>1, <2>7 DEF Place
  <2>9. Registered(http'[h], sock[h]) /\ Reporting(http'[h], sock[h])
    BY <2>1, <2>4, <2>6 DEF Registered, Reporting
  <2>10. Handling(http'[h], sock[h], Place(h)')
    BY <2>1, <2>4, <2>8, <2>9 DEF Handling, Reporting
  <2> QED BY <2>8, <2>9, <2>10 DEF Attending
<1> QED BY <1>5, <1>6 DEF WatchInv

(* A step in the handling of h by loop l leaves the other connections alone. *)
LEMMA OnlyInHand ==
  ASSUME IInv, WatchInv, NEW l \in Loops, NEW h \in Https, cur[l] = h,
         \A g \in Https \ {h} : http'[g] = http[g] /\ sock'[g] = sock[g],
         ChannelsKept, cur'[l] \in {h, None}, UNCHANGED batch,
         \A m \in Loops \ {l} : cur'[m] = cur[m] /\ phase'[m] = phase[m],
         Watching(h)'
  PROVE  WatchInv'
<1>1. SUFFICES ASSUME NEW g \in Https \ {h} PROVE Watching(g)'
  BY DEF WatchInv
<1>2. \A m \in Loops, f \in Fds : fd2chan'[m][f] = g => fd2chan[m][f] = g
  BY ReactorAssumption DEF ChannelsKept
<1> QED BY <1>2, ReactorAssumption, Undisturbed

(* The connection that loop l handles. *)
LEMMA HandledWatch ==
  ASSUME IInv, WatchInv, NEW l \in Loops, NEW h \in Https, cur[l] = h, Tracked(h)
  PROVE  /\ Place(h) = phase[l] /\ phase[l] \in Busy
         /\ Registered(http[h], sock[h]) /\ Handling(http[h], sock[h], phase[l])
         /\ ~sock[h].rst
<1>1. http[h].loop = l /\ h \notin batch[l] /\ phase[l] \in Busy
  BY InHand
<1>2. Place(h) = phase[l]
  BY <1>1 DEF Place
<1> QED BY <1>1, <1>2 DEF WatchInv, Watching, Attending, Tracked

(* What a handler must establish when it moves h on to the phase p. *)
LEMMA HandledNext ==
  ASSUME IInv, WatchInv, NEW l \in Loops, NEW h \in Https, cur[l] = h,
         NEW c, Continues(http[h], c), http' = [http EXCEPT ![h] = c],
         c.lastEvents = http[h].lastEvents,
         NEW k, sock' = [sock EXCEPT ![h] = k],
         k.mask = sock[h].mask, k.reg = sock[h].reg, k.rst = sock[h].rst,
         NEW p \in Busy, phase' = [phase EXCEPT ![l] = p],
         UNCHANGED <<fd2chan, fd2http, batch, cur, wake>>,
         Tracked(h) => Handling(c, k, p)
  PROVE  WatchInv'
<1>1. /\ http \in [Https -> HttpDatas] /\ sock \in [Https -> Socks] /\ phase \in [Loops -> Phases]
  BY DEF IInv, TypeOK
<1>2. /\ http'[h] = c /\ sock'[h] = k /\ phase'[l] = p
      /\ \A g \in Https \ {h} : http'[g] = http[g] /\ sock'[g] = sock[g]
      /\ \A m \in Loops \ {l} : phase'[m] = phase[m]
  BY <1>1
<1>3. http[h].loop = l /\ h \notin batch[l] /\ http[h].life = "live"
  BY InHand
<1>4. c.loop = l /\ c.life = "live" /\ c.fd = http[h].fd
  BY <1>3 DEF Continues
<1>5. Watching(h)'
  <2>1. SUFFICES ASSUME Tracked(h)' PROVE Attending(c, k, Place(h)')
    BY <1>2, <1>4 DEF Watching
  <2>2. Tracked(h) /\ Place(h)' = p
    BY <1>2, <1>3, <1>4, <2>1 DEF Tracked, Live, Place
  <2>3. Registered(c, k)
    BY <2>2, HandledWatch DEF Registered
  <2> QED BY <2>2, <2>3 DEF Attending, Busy
<1> QED BY <1>2, <1>5, OnlyInHand DEF ChannelsKept

LEMMA ReadKeeps ==
  ASSUME NEW c \in HttpDatas, NEW k \in Socks, NEW d \in ReadOutcomes(c, k)
  PROVE  /\ d.events = c.events /\ d.lastEvents = c.lastEvents /\ d.revents = c.revents
         /\ ~k.rst /\ k.fin /\ ~d.error => d.connectionState # "CONNECTED"
<1> DEFINE c1 == [c EXCEPT !.more = FALSE]
           c2 == [c1 EXCEPT !.connectionState = IF k.fin THEN "DISCONNECTING" ELSE @]
<1>1. /\ c1 \in HttpDatas /\ c1.connectionState = c.connectionState
      /\ c1.events = c.events /\ c1.lastEvents = c.lastEvents /\ c1.revents = c.revents
  BY DEF HttpDatas
<1>2. /\ c2 \in HttpDatas
      /\ k.fin => c2.connectionState = "DISCONNECTING"
      /\ c2.events = c.events /\ c2.lastEvents = c.lastEvents /\ c2.revents = c.revents
  <2> HIDE DEF c1
  <2> QED BY <1>1 DEF HttpDatas, Conns
<1>3. ASSUME NEW x \in HttpDatas, NEW y,
             \/ y = x \/ y = [x EXCEPT !.error = TRUE]
             \/ \E m, o : y = Finished(x, m, o)
      PROVE  /\ y.events = x.events /\ y.lastEvents = x.lastEvents /\ y.revents = x.revents
             /\ y.connectionState = x.connectionState
  BY <1>3 DEF Finished, HttpDatas
<1>4. ReadOutcomes(c, k) =
        IF c.connectionState = "DISCONNECTING" THEN {c1}
        ELSE IF k.rst THEN {[c1 EXCEPT !.error = TRUE]}
        ELSE IF k.fin /\ ~k.inq THEN {c2}
        ELSE ParseAgain(c2) \cup ParseBad(c2) \cup ParseFinish(c2)
  BY Zenon DEF ReadOutcomes
<1> HIDE DEF c1, c2
<1>5. \/ d = c1 /\ c.connectionState = "DISCONNECTING"
      \/ d = [c1 EXCEPT !.error = TRUE] /\ k.rst
      \/ d = c2 \/ d = [c2 EXCEPT !.error = TRUE]
      \/ \E m, o : d = Finished(c2, m, o)
  <2>1. d \in ParseFinish(c2) => \E m, o : d = Finished(c2, m, o)
    BY DEF ParseFinish
  <2>2. d \in ParseBad(c2) => d = [c2 EXCEPT !.error = TRUE]
    BY DEF ParseBad
  <2>3. d \in ParseAgain(c2) => d = c2
    BY DEF ParseAgain
  <2>4. \/ d = c1 /\ c.connectionState = "DISCONNECTING"
        \/ d = [c1 EXCEPT !.error = TRUE] /\ k.rst
        \/ d = c2
        \/ d \in ParseAgain(c2) \/ d \in ParseBad(c2) \/ d \in ParseFinish(c2)
    BY <1>4, Zenon
  <2> QED BY <2>1, <2>2, <2>3, <2>4, Zenon
<1>6. CASE d = c1 /\ c.connectionState = "DISCONNECTING"
  BY <1>1, <1>6
<1>7. CASE d = [c1 EXCEPT !.error = TRUE] /\ k.rst
  <2>1. d.events = c1.events /\ d.lastEvents = c1.lastEvents /\ d.revents = c1.revents
    BY <1>1, <1>3, <1>7, Zenon
  <2> QED BY <1>1, <1>7, <2>1
<1>8. CASE \/ d = c2 \/ d = [c2 EXCEPT !.error = TRUE]
           \/ \E m, o : d = Finished(c2, m, o)
  <2>1. /\ d.events = c2.events /\ d.lastEvents = c2.lastEvents /\ d.revents = c2.revents
        /\ d.connectionState = c2.connectionState
    BY <1>2, <1>3, <1>8, Zenon
  <2> QED BY <1>2, <2>1
<1> QED BY <1>5, <1>6, <1>7, <1>8, Zenon

LEMMA HandleReadWatch ==
  ASSUME IInv, WatchInv, NEW l \in Loops, NEW h \in Https, HandleRead(l, h)
  PROVE  WatchInv'
<1> DEFINE k == Drained(sock[h])
<1>1. cur[l] = h /\ phase[l] = "read"
  BY DEF HandleRead, HandleReadTo
<1>2. PICK c \in ReadOutcomes(http[h], sock[h]) : HandleReadTo(l, h, c, k)
  BY DEF HandleRead
<1>3. /\ http[h] \in HttpDatas /\ sock[h] \in Socks
      /\ http[h].connectionState # "DISCONNECTED" /\ Linked(http[h])
  BY <1>1, InHand
<1>4. Continues(http[h], c)
  BY <1>3, ReadType
<1>5. /\ c.events = http[h].events /\ c.lastEvents = http[h].lastEvents
      /\ c.revents = http[h].revents
      /\ ~sock[h].rst /\ sock[h].fin /\ ~c.error => c.connectionState # "CONNECTED"
  BY <1>3, ReadKeeps
<1>6. /\ k.mask = sock[h].mask /\ k.reg = sock[h].reg /\ k.rst = sock[h].rst
      /\ k.inq = FALSE /\ k.fin = sock[h].fin
  BY <1>3 DEF Drained, Socks
<1> DEFINE p == IF c.error THEN AfterRead(c) ELSE "tail"
<1>7. /\ http' = [http EXCEPT ![h] = c] /\ sock' = [sock EXCEPT ![h] = k]
      /\ phase' = [phase EXCEPT ![l] = p]
      /\ UNCHANGED <<fd2chan, fd2http, batch, cur, wake>>
  BY <1>2 DEF HandleReadTo
<1> HIDE DEF k
<1>8. p \in Busy
  BY DEF Busy, AfterRead
<1>9. ASSUME Tracked(h) PROVE Handling(c, k, p)
  <2>1. /\ Registered(http[h], sock[h]) /\ Handling(http[h], sock[h], "read") /\ ~sock[h].rst
    BY <1>1, <1>9, HandledWatch
  <2>2. sock[h].mask \in {{"IN", "ONESHOT"}, {"IN"}}
    BY <2>1 DEF Registered, Handling
  <2>3. "OUT" \notin c.revents
    BY <1>5, <2>1, <2>2 DEF Handling, Reporting
  <2>4. p = IF c.error THEN "conn" ELSE "tail"
    BY <2>3 DEF AfterRead
  <2>5. k.mask = {"IN"} /\ ~c.error /\ c.connectionState = "CONNECTED" => Noticed(k)
    BY <1>5, <1>6, <2>1 DEF Noticed
  <2>6. c.events \subseteq {"IN", "OUT"} /\ Reporting(c, k)
    BY <1>5, <1>6, <2>1 DEF Handling, Reporting
  <2> HIDE DEF p
  <2> QED BY <1>6, <2>2, <2>4, <2>5, <2>6 DEF Handling
<1> HIDE DEF p
<1> QED BY <1>1, <1>4, <1>5, <1>6, <1>7, <1>8, <1>9, HandledNext

(* handleWrite asks for EPOLLOUT exactly when it stopped for want of room. *)
LEMMA WriteKeeps ==
  ASSUME NEW c \in HttpDatas, NEW k \in Socks, ~k.rst, NEW w \in Writen(k, c.out)
  PROVE  LET d == WriteTo(c, w) IN
         /\ d.lastEvents = c.lastEvents /\ d.revents = c.revents /\ d.finish = c.finish
         /\ Skips(c) => d = c
         /\ ~Skips(c) => /\ ~d.error
                         /\ d.out => ~w.space
                         /\ d.out = w.out
                         /\ d.events = c.events \cup (IF w.out THEN {"OUT"} ELSE {})
<1> DEFINE d == WriteTo(c, w)
<1>1. w \in Writes /\ ~w.error /\ (w.out => ~w.space)
  <2>1. w \in Writes /\ ~w.error
    BY DEF Writen, Socks
  <2>2. CASE ~c.out
    <3>1. w.out = c.out
      BY <2>2 DEF Writen
    <3> QED BY <2>1, <2>2, <3>1
  <2>3. CASE c.out
    <3>1. IF k.space THEN w.out => ~w.space ELSE w.out /\ ~w.space
      BY <2>3 DEF Writen
    <3> QED BY <2>1, <3>1
  <2> QED BY <2>2, <2>3, <2>1
<1>2. CASE Skips(c)
  <2>1. d = c
    BY <1>2 DEF WriteTo
  <2> QED BY <1>2, <2>1
<1>3. CASE ~Skips(c)
  <2> DEFINE ev == c.events \cup (IF w.out THEN {"OUT"} ELSE {})
  <2>1. d = [c EXCEPT !.out = w.out, !.error = w.error, !.events = ev]
    BY <1>1, <1>3 DEF WriteTo
  <2> HIDE DEF ev
  <2>2. /\ d.lastEvents = c.lastEvents /\ d.revents = c.revents /\ d.finish = c.finish
        /\ d.error = w.error /\ d.out = w.out /\ d.events = ev
    BY <2>1 DEF HttpDatas
  <2> QED BY <1>1, <1>3, <2>2 DEF ev
<1> QED BY <1>2, <1>3

LEMMA FinishReadWatch ==
  ASSUME IInv, WatchInv, NEW l \in Loops, NEW h \in Https, FinishRead(l, h)
  PROVE  WatchInv'
<1>1. cur[l] = h /\ phase[l] = "tail"
  BY DEF FinishRead, FinishReadWith
<1>2. PICK w \in Writen(sock[h], http[h].out) : FinishReadWith(l, h, w)
  BY DEF FinishRead
<1> DEFINE c == IF http[h].out THEN WriteTo(http[h], w) ELSE http[h]
           again == ~c.error /\ c.finish /\ c.more /\ c.connectionState # "DISCONNECTING"
           d == IF c.error THEN c
                ELSE IF c.finish THEN ResetHttp(c)
                ELSE [c EXCEPT !.events = @ \cup {"IN"}]
           k == IF http[h].out THEN [sock[h] EXCEPT !.space = w.space] ELSE sock[h]
           p == IF again THEN "read" ELSE AfterRead(c)
<1>3. /\ http[h] \in HttpDatas /\ sock[h] \in Socks /\ sock \in [Https -> Socks]
      /\ http[h].connectionState # "DISCONNECTED" /\ Linked(http[h])
      /\ Continues(http[h], http[h])
  BY <1>1, InHand DEF IInv, TypeOK, Continues
<1>4. w \in Writes
  BY DEF Writen
<1>5. Continues(http[h], c)
  BY <1>1, <1>4, ContinuesWrite
<1>6. /\ http' = [http EXCEPT ![h] = d]
      /\ sock' = [sock EXCEPT ![h] = k]
      /\ phase' = [phase EXCEPT ![l] = p]
      /\ UNCHANGED <<fd2chan, fd2http, batch, cur, wake>>
  <2>1. /\ http' = [http EXCEPT ![h] =
                      IF c.error THEN c
                      ELSE IF c.finish THEN ResetHttp(c)
                      ELSE IF c.connectionState # "DISCONNECTED"
                           THEN [c EXCEPT !.events = @ \cup {"IN"}] ELSE c]
        /\ sock' = IF http[h].out THEN [sock EXCEPT ![h].space = w.space] ELSE sock
        /\ phase' = [phase EXCEPT ![l] = IF again THEN "read" ELSE AfterRead(c)]
        /\ UNCHANGED <<fd2chan, fd2http, batch, cur, wake>>
    BY <1>2 DEF FinishReadWith
  <2>2. c.connectionState # "DISCONNECTED"
    BY <1>5 DEF Continues
  <2>3. sock = [sock EXCEPT ![h] = sock[h]]
    BY <1>3
  <2> HIDE DEF c
  <2> QED BY <2>1, <2>2, <2>3
<1>7. /\ k.mask = sock[h].mask /\ k.reg = sock[h].reg /\ k.rst = sock[h].rst
      /\ k.inq = sock[h].inq /\ k.fin = sock[h].fin /\ k.listed = sock[h].listed
  BY <1>3 DEF Socks
(* What reset or the re-arming for input leave of c. *)
<1>8. /\ Continues(http[h], d)
      /\ d.lastEvents = c.lastEvents /\ d.revents = c.revents /\ d.out = c.out
      /\ d.error = c.error /\ d.connectionState = c.connectionState
      /\ d.events = c.events \/ d.events = c.events \cup {"IN"}
  <2>1. c \in HttpDatas /\ Linked(c)
    BY <1>5 DEF Continues
  <2> HIDE DEF c
  <2>2. CASE c.error
    BY <1>5, <2>2
  <2>3. CASE ~c.error /\ c.finish
    <3> DEFINE e == [c EXCEPT !.finish = FALSE]
    <3>1. /\ e \in HttpDatas /\ Linked(e) /\ e.life = c.life /\ e.loop = c.loop
          /\ e.fd = c.fd /\ e.connectionState = c.connectionState
          /\ e.lastEvents = c.lastEvents /\ e.revents = c.revents /\ e.out = c.out
          /\ e.error = c.error /\ e.events = c.events
      BY <2>1 DEF Linked, HttpDatas
    <3>2. d = SeperateTimer(e)
      BY <2>3 DEF ResetHttp
    <3> HIDE DEF e, d
    <3>3. /\ d \in HttpDatas /\ Linked(d) /\ d.life = e.life /\ d.loop = e.loop
          /\ d.fd = e.fd /\ d.connectionState = e.connectionState
      <4>1. /\ d \in HttpDatas /\ d.timers = 0 /\ ~d.linked /\ d.life = e.life
            /\ d.loop = e.loop /\ d.fd = e.fd /\ d.connectionState = e.connectionState
        BY <3>1, <3>2, Separated
      <4> QED BY <4>1 DEF Linked
    <3>4. /\ d.lastEvents = e.lastEvents /\ d.revents = e.revents /\ d.out = e.out
          /\ d.error = e.error /\ d.events = e.events
      BY <3>1, <3>2 DEF SeperateTimer, HttpDatas
    <3> QED BY <1>5, <3>1, <3>3, <3>4 DEF Continues
  <2>4. CASE ~c.error /\ ~c.finish
    <3>1. d = [c EXCEPT !.events = @ \cup {"IN"}]
      BY <2>4
    <3> HIDE DEF d
    <3>2. /\ d \in HttpDatas /\ Linked(d) /\ d.life = c.life /\ d.loop = c.loop
          /\ d.fd = c.fd /\ d.connectionState = c.connectionState
      BY <2>1, <3>1 DEF Linked, HttpDatas, Masks
    <3>3. /\ d.lastEvents = c.lastEvents /\ d.revents = c.revents /\ d.out = c.out
          /\ d.error = c.error /\ d.events = c.events \cup {"IN"}
      BY <2>1, <3>1 DEF HttpDatas
    <3> QED BY <1>5, <3>2, <3>3 DEF Continues
  <2> QED BY <2>2, <2>3, <2>4
<1>9. p \in Busy
  BY DEF Busy, AfterRead
<1>10. c.lastEvents = http[h].lastEvents
  <2>1. WriteTo(http[h], w).lastEvents = http[h].lastEvents
    BY <1>3, <1>4, ZenonT(40) DEF WriteTo, HttpDatas, Skips
  <2> QED BY <2>1
<1>11. ~sock[h].rst /\ ~Skips(http[h]) =>
         /\ WriteTo(http[h], w).revents = http[h].revents
         /\ WriteTo(http[h], w).out = w.out
         /\ WriteTo(http[h], w).events
              = http[h].events \cup (IF w.out THEN {"OUT"} ELSE {})
  <2> HIDE DEF c, again, d, k, p
  <2> QED BY <1>3, WriteKeeps
<1>12. ASSUME Tracked(h) PROVE Handling(d, k, p)
  <2>1. /\ Registered(http[h], sock[h]) /\ Handling(http[h], sock[h], "tail") /\ ~sock[h].rst
    BY <1>1, <1>12, HandledWatch
  <2>2. sock[h].mask \in {{"IN", "ONESHOT"}, {"IN"}}
    BY <2>1 DEF Registered, Handling
  <2>3. /\ c.revents = http[h].revents
        /\ c.events = http[h].events \/ c.events = http[h].events \cup {"OUT"}
        /\ ~c.error => ~http[h].error
        /\ ~c.error /\ c.out => "OUT" \in c.events
    <3>1. CASE ~http[h].out
      BY <3>1
    <3>2. CASE http[h].out /\ Skips(http[h])
      <4>1. c = http[h] /\ http[h].error
        BY <1>3, <3>2 DEF WriteTo, Skips
      <4> HIDE DEF c
      <4> QED BY <4>1
    <3>3. CASE http[h].out /\ ~Skips(http[h])
      <4>1. c = WriteTo(http[h], w) /\ ~http[h].error
        BY <3>3 DEF Skips
      <4> HIDE DEF c
      <4> QED BY <1>11, <2>1, <3>3, <4>1
    <3> QED BY <3>1, <3>2, <3>3
  <2> HIDE DEF c, d, k
  <2>4. "OUT" \notin c.revents
    BY <2>1, <2>2, <2>3 DEF Handling, Reporting
  <2>5. p \in {"read", "conn"}
    BY <2>4 DEF AfterRead
  <2>6. c.connectionState = http[h].connectionState
    BY <1>3, <1>4, WriteType DEF c
  <2>7. k.mask = {"IN"} /\ ~d.error /\ d.connectionState = "CONNECTED" => Noticed(k)
    BY <1>7, <1>8, <2>1, <2>3, <2>6 DEF Handling, Noticed
  <2>8. d.events \subseteq {"IN", "OUT"} /\ Reporting(d, k)
    BY <1>7, <1>8, <2>1, <2>3 DEF Handling, Reporting
  <2> HIDE DEF p
  <2> QED BY <1>7, <1>8, <2>2, <2>3, <2>5, <2>7, <2>8 DEF Handling
<1> HIDE DEF c, d, k, p
<1> QED BY <1>1, <1>6, <1>7, <1>8, <1>9, <1>10, <1>12, HandledNext

LEMMA HandleWriteWatch ==
  ASSUME IInv, WatchInv, NEW l \in Loops, NEW h \in Https, HandleWrite(l, h)
  PROVE  WatchInv'
<1>1. cur[l] = h /\ phase[l] = "write"
  BY DEF HandleWrite, HandleWriteWith
<1>2. PICK w \in Writen(sock[h], http[h].out) : HandleWriteWith(l, h, w)
  BY DEF HandleWrite
<1> DEFINE c == WriteTo(http[h], w)
           k == IF Skips(http[h]) THEN sock[h] ELSE [sock[h] EXCEPT !.space = w.space]
<1>3. http[h] \in HttpDatas /\ sock[h] \in Socks /\ sock \in [Https -> Socks]
  BY <1>1, InHand DEF IInv, TypeOK
<1>4. w \in Writes
  BY DEF Writen
<1>5. Continues(http[h], c)
  BY <1>1, <1>4, ContinuesWrite
<1>6. /\ http' = [http EXCEPT ![h] = c]
      /\ sock' = [sock EXCEPT ![h] = k]
      /\ phase' = [phase EXCEPT ![l] = "conn"]
      /\ UNCHANGED <<fd2chan, fd2http, batch, cur, wake>>
  BY <1>2, <1>3 DEF HandleWriteWith
<1>7. /\ k.mask = sock[h].mask /\ k.reg = sock[h].reg /\ k.rst = sock[h].rst
      /\ ~Skips(http[h]) => k.space = w.space
  BY <1>3, <1>4 DEF Socks
<1>8. c.lastEvents = http[h].lastEvents
  BY <1>3, <1>4, ZenonT(40) DEF WriteTo, HttpDatas, Skips
<1>9. ASSUME Tracked(h) PROVE Handling(c, k, "conn")
  <2>1. /\ Registered(http[h], sock[h]) /\ Handling(http[h], sock[h], "write") /\ ~sock[h].rst
    BY <1>1, <1>9, HandledWatch
  <2>2. /\ sock[h].mask \in {{"IN", "ONESHOT"}, {"OUT"}}
        /\ sock[h].mask = {"OUT"} => http[h].events = {}
    BY <2>1 DEF Registered, Handling
  <2>3. /\ c.revents = http[h].revents
        /\ Skips(http[h]) => c = http[h] /\ http[h].error
        /\ ~Skips(http[h]) => /\ c.out => ~w.space
                              /\ c.events = http[h].events \cup (IF c.out THEN {"OUT"} ELSE {})
    BY <1>1, <1>3, <2>1, WriteKeeps, InHand DEF Skips
  <2> HIDE DEF c, k
  <2>4. k.mask = {"OUT"} /\ "OUT" \in c.events /\ ~c.error => Noticed(k)
    BY <1>7, <2>2, <2>3 DEF Noticed
  <2>5. c.events \subseteq {"IN", "OUT"} /\ Reporting(c, k)
    BY <1>7, <2>1, <2>3 DEF Handling, Reporting
  <2>6. c.out /\ ~c.error => "OUT" \in c.events
    BY <2>3
  <2> QED BY <1>7, <2>2, <2>4, <2>5, <2>6 DEF Handling
<1> HIDE DEF c, k
<1> QED BY <1>1, <1>5, <1>6, <1>7, <1>8, <1>9, HandledNext DEF Busy

(* What a close leaves of the channels and the other sockets. *)
LEMMA CloseFrame ==
  ASSUME IInv, NEW l \in Loops, NEW D \in SUBSET Https, NEW left,
         \A h \in D : left[h] = 0, CloseAll(l, D, left)
  PROVE  /\ ChannelsKept
         /\ \A g \in Https : http'[g] = IF g \in D THEN NewHttp ELSE http[g]
         /\ \A g \in Https \ D : sock'[g] = sock[g]
<1> DEFINE gone == {http[h].fd : h \in D}
<1>1. /\ fd2chan' = [fd2chan EXCEPT ![l] = Forget(fd2chan[l], gone)]
      /\ \A f \in Fds : Forget(fd2chan[l], gone)[f] \in {None, fd2chan[l][f]}
  BY DEF CloseAll, Forget
<1>2. ChannelsKept
  <2> HIDE DEF gone
  <2> QED BY <1>1 DEF ChannelsKept, IInv, TypeOK
<1>3. /\ \A g \in Https : http'[g] = IF g \in D THEN NewHttp ELSE http[g]
      /\ \A g \in Https \ D : sock'[g] = sock[g]
  BY DEF CloseAll
<1> QED BY <1>2, <1>3

LEMMA HandleConnWatch ==
  ASSUME IInv, WatchInv, NEW l \in Loops, NEW h \in Https, HandleConn(l, h)
  PROVE  WatchInv'
<1> DEFINE c == SeperateTimer(http[h])
<1>1. /\ cur[l] = h /\ phase[l] = "conn" /\ cur'[l] = None /\ UNCHANGED batch
      /\ \A m \in Loops \ {l} : cur'[m] = cur[m] /\ phase'[m] = phase[m]
  BY DEF HandleConn, IInv, TypeOK
<1>2. /\ http[h] \in HttpDatas /\ sock[h] \in Socks /\ sock \in [Https -> Socks]
      /\ http \in [Https -> HttpDatas] /\ fd2chan \in [Loops -> [Fds -> Https \cup {None}]]
      /\ http[h].life = "live" /\ http[h].loop = l /\ http[h].fd \in Fds
      /\ Linked(http[h]) /\ h \notin batch[l]
  BY <1>1, InHand DEF IInv, TypeOK
<1>3. /\ c \in HttpDatas /\ c.timers = 0
      /\ c.life = "live" /\ c.loop = l /\ c.fd = http[h].fd
      /\ c.connectionState = http[h].connectionState
      /\ c.error = http[h].error /\ c.events = http[h].events
  <2> HIDE DEF c
  <2> QED BY <1>2, Separated DEF c
<1>4. c.out = http[h].out /\ c.lastEvents = http[h].lastEvents
  BY <1>2 DEF SeperateTimer, HttpDatas
<1> HIDE DEF c
<1>5. CASE Rearm(l, h)
  <2> DEFINE ev == Interest(c.events)
             d == [AddTimer(Done(c)) EXCEPT !.events = ev, !.lastEvents = ev]
  <2>1. /\ ~c.error /\ c.connectionState = "CONNECTED"
        /\ http' = [http EXCEPT ![h] = d]
        /\ \/ /\ sock' = IF ev = c.lastEvents THEN sock ELSE [sock EXCEPT ![h] = EpollCtl(@, ev)]
              /\ fd2chan' = fd2chan
           \/ /\ fd2chan' = [fd2chan EXCEPT ![l][c.fd] = None]
              /\ sock' = sock
    BY <1>5 DEF Rearm, c
  <2>2. ev \in Masks
    BY <1>3 DEF HttpDatas, Interest, Masks
  <2>3. /\ d.life = "live" /\ d.loop = l /\ d.fd = http[h].fd
        /\ d.out = http[h].out /\ d.events = ev /\ d.lastEvents = ev
    <3> DEFINE e == Done(c)
               a == AddTimer(e)
    <3>1. /\ e \in HttpDatas /\ e.life = "live" /\ e.loop = l /\ e.fd = http[h].fd
          /\ e.out = http[h].out
      BY <1>3, <1>4 DEF Done, HttpDatas, Reports
    <3> HIDE DEF e
    <3>2. /\ a.life = "live" /\ a.loop = l /\ a.fd = http[h].fd
          /\ a.out = http[h].out
          /\ a = [e EXCEPT !.timers = @ + 1, !.linked = TRUE]
      BY <3>1 DEF AddTimer, HttpDatas
    <3>3. d = [[e EXCEPT !.timers = @ + 1, !.linked = TRUE] EXCEPT !.events = ev, !.lastEvents = ev]
      BY DEF e, AddTimer
    <3> HIDE DEF ev, d, a
    <3> QED BY <3>1, <3>2, <3>3 DEF HttpDatas
  <2> HIDE DEF d
  <2>4. \A g \in Https \ {h} : http'[g] = http[g] /\ sock'[g] = sock[g]
    BY <1>2, <2>1
  <2>5. ChannelsKept
    <3>1. CASE fd2chan' = fd2chan
      BY <3>1 DEF ChannelsKept
    <3>2. CASE fd2chan' = [fd2chan EXCEPT ![l][c.fd] = None]
      BY <1>2, <1>3, <3>2 DEF ChannelsKept
    <3> QED BY <2>1, <3>1, <3>2
  <2>6. http'[h] = d
    BY <1>2, <2>1
  <2>7. Watching(h)'
    <3>1. SUFFICES ASSUME Tracked(h)' PROVE Attending(d, sock'[h], Place(h)')
      BY <2>3, <2>6 DEF Watching
    <3>2. fd2chan'[l][c.fd] = h
      BY <1>3, <2>3, <2>6, <3>1 DEF Tracked
    <3>3. fd2chan' = fd2chan
      BY <1>2, <1>3, <2>1, <3>2, ReactorAssumption
    <3>4. sock'[h] = IF ev = c.lastEvents THEN sock[h] ELSE EpollCtl(sock[h], ev)
      <4>1. fd2chan' = [fd2chan EXCEPT ![l][c.fd] = None] => FALSE
        BY <1>2, <1>3, <3>2, ReactorAssumption
      <4> QED BY <1>2, <2>1, <4>1
    <3>5. EpollCtl(sock[h], ev).rst = sock[h].rst
      BY <1>2, <2>2, Rearmed
    <3>6. Tracked(h)
      BY <1>2, <1>3, <2>3, <2>6, <3>1, <3>2, <3>3, <3>4, <3>5 DEF Tracked, Live
    <3>7. Registered(http[h], sock[h]) /\ Handling(http[h], sock[h], "conn")
      BY <1>1, <3>6, HandledWatch
    <3>8. /\ ev = {"IN"} \/ (ev = {"OUT"} /\ "OUT" \in http[h].events)
          /\ "OUT" \in http[h].events => ev = {"OUT"}
      BY <1>3, <3>7 DEF Handling, Interest
    <3>9. d.out => ev = {"OUT"}
      BY <1>3, <2>1, <2>3, <3>7, <3>8 DEF Handling
    <3>10. sock'[h].mask = ev /\ sock'[h].reg = "armed" /\ Noticed(sock'[h])
      <4>1. CASE ev = c.lastEvents
        BY <1>3, <1>4, <2>1, <3>4, <3>7, <3>8, <4>1 DEF Registered, Handling
      <4>2. CASE ev # c.lastEvents
        BY <1>2, <2>2, <3>4, <4>2, Rearmed
      <4> QED BY <4>1, <4>2
    <3>11. Place(h)' = "idle"
      BY <1>1, <1>2, <2>3, <2>6, ReactorAssumption DEF Place
    <3>12. Registered(d, sock'[h])
      BY <2>3, <3>8, <3>10 DEF Registered
    <3>13. AtRest(d, sock'[h])
      BY <3>9, <3>10 DEF AtRest
    <3> QED BY <3>11, <3>12, <3>13 DEF Attending, Busy
  <2> QED BY <1>1, <2>4, <2>5, <2>7, OnlyInHand
<1>6. CASE Linger(l, h)
  <2> DEFINE d == [Done(c) EXCEPT !.events = {"OUT"}]
  <2>1. /\ http' = [http EXCEPT ![h] = d] /\ c.connectionState = "DISCONNECTING"
        /\ UNCHANGED <<fd2chan, fd2http, sock>>
    BY <1>6 DEF Linger, c
  <2>2. /\ d.life = "live" /\ d.loop = l /\ d.fd = http[h].fd
        /\ d.out = http[h].out /\ d.lastEvents = http[h].lastEvents
        /\ d.connectionState = "DISCONNECTING"
    BY <1>3, <1>4, <2>1 DEF Done, HttpDatas, Reports
  <2> HIDE DEF d
  <2>3. http'[h] = d /\ \A g \in Https \ {h} : http'[g] = http[g]
    BY <1>2, <2>1
  <2>4. Watching(h)'
    <3>1. SUFFICES ASSUME Tracked(h)' PROVE Attending(d, sock[h], Place(h)')
      BY <2>1, <2>2, <2>3 DEF Watching
    <3>2. Tracked(h)
      BY <1>2, <2>1, <2>2, <2>3, <3>1 DEF Tracked, Live
    <3>3. Registered(d, sock[h])
      BY <1>1, <2>2, <3>2, HandledWatch DEF Registered
    <3>4. Place(h)' = "idle"
      BY <1>1, <1>2, <2>2, <2>3, ReactorAssumption DEF Place
    <3>5. AtRest(d, sock[h])
      BY <2>2 DEF AtRest
    <3> QED BY <3>3, <3>4, <3>5 DEF Attending, Busy
  <2> QED BY <1>1, <2>1, <2>3, <2>4, OnlyInHand DEF ChannelsKept
<1>7. CASE CloseConn(l, h)
  <2> DEFINE left == [g \in Https |-> c.timers]
             D == {h}
  <2>1. CloseAll(l, D, left) /\ D \in SUBSET Https
    BY <1>7 DEF CloseConn, c
  <2>2. \A g \in D : Live(g) /\ http[g].loop = l /\ left[g] = 0
    BY <1>2, <1>3 DEF Live
  <2> HIDE DEF left
  <2>3. /\ ChannelsKept
        /\ \A g \in Https : http'[g] = IF g \in D THEN NewHttp ELSE http[g]
        /\ \A g \in Https \ D : sock'[g] = sock[g]
    <3> HIDE DEF D
    <3> QED BY <2>1, <2>2, CloseFrame
  <2>4. Watching(h)'
    BY <2>3 DEF Watching, Tracked, Live, NewHttp
  <2> QED BY <1>1, <2>3, <2>4, OnlyInHand
<1> QED BY <1>5, <1>6, <1>7 DEF HandleConn

(* The steps of a loop outside its handlers. *)
LEMMA SwapFunctorsWatch ==
  ASSUME IInv, WatchInv, NEW l \in Loops, SwapFunctors(l)
  PROVE  WatchInv'
<1>1. /\ http \in [Https -> HttpDatas] /\ phase \in [Loops -> Phases]
      /\ phase[l] = "dispatch" /\ phase' = [phase EXCEPT ![l] = "pending"]
      /\ UNCHANGED <<fd2chan, fd2http, sock, batch, cur, wake>>
  BY DEF IInv, TypeOK, SwapFunctors
<1>2. cur[l] = None
  BY <1>1 DEF IInv, LoopInv, Busy
<1>3. ASSUME NEW g \in Https PROVE Watching(g)'
  <2>1. CASE http'[g] = http[g]
    BY <1>1, <1>2, <2>1, ReactorAssumption, Undisturbed
  <2>2. CASE http'[g] # http[g]
    <3>1. http[g].life = "queued" /\ http'[g] = [http[g] EXCEPT !.life = "running"]
      BY <2>2 DEF SwapFunctors
    <3>2. http'[g].life = "running" /\ http'[g].out = http[g].out /\ ~http[g].out
      BY <1>1, <3>1 DEF HttpDatas, WatchInv, Watching
    <3> QED BY <3>2 DEF Watching, Tracked, Live
  <2> QED BY <2>1, <2>2
<1> QED BY <1>3 DEF WatchInv

LEMMA NewEventWatch ==
  ASSUME IInv, WatchInv, NEW l \in Loops, NEW h \in Https, NewEvent(l, h)
  PROVE  WatchInv'
<1> DEFINE f == http[h].fd
           ev == {"IN", "ONESHOT"}
           c == [AddTimer(http[h]) EXCEPT !.life = "live", !.events = ev, !.lastEvents = ev]
<1>1. /\ http \in [Https -> HttpDatas] /\ sock \in [Https -> Socks]
      /\ fd2chan \in [Loops -> [Fds -> Https \cup {None}]]
  BY DEF IInv, TypeOK
<1>2. http[h].life = "running" /\ http[h].loop = l /\ f \in Fds /\ ~http[h].out
  BY DEF NewEvent, IInv, ObjectInv, WatchInv, Watching
<1>3. /\ http' = [http EXCEPT ![h] = c]
      /\ \/ /\ fd2chan' = [fd2chan EXCEPT ![l][f] = h]
            /\ sock' = [sock EXCEPT ![h] = EpollCtl(sock[h], ev)]
         \/ /\ fd2chan' = [fd2chan EXCEPT ![l][f] = None]
            /\ sock' = sock
      /\ UNCHANGED <<phase, batch, cur, wake>>
  BY DEF NewEvent
<1>4. /\ c.life = "live" /\ c.loop = l /\ c.fd = f /\ c.lastEvents = ev
      /\ c.out = http[h].out
  <2>1. /\ http[h] \in HttpDatas
        /\ c = [[http[h] EXCEPT !.timers = @ + 1, !.linked = TRUE]
                  EXCEPT !.life = "live", !.events = ev, !.lastEvents = ev]
    BY <1>1 DEF AddTimer
  <2> HIDE DEF c, ev
  <2> QED BY <1>2, <2>1 DEF HttpDatas
<1> HIDE DEF c, f
<1>5. /\ http'[h] = c
      /\ \A g \in Https \ {h} : http'[g] = http[g] /\ sock'[g] = sock[g]
  BY <1>1, <1>3
<1>6. \A m \in Loops, e \in Fds : fd2chan'[m][e] \in {None, h, fd2chan[m][e]}
  BY <1>1, <1>2, <1>3
<1>7. Watching(h)'
  <2>1. SUFFICES ASSUME Tracked(h)' PROVE Attending(c, sock'[h], Place(h)')
    BY <1>4, <1>5 DEF Watching
  <2>2. fd2chan'[l][f] = h
    BY <1>4, <1>5, <2>1 DEF Tracked
  <2>3. fd2chan' # [fd2chan EXCEPT ![l][f] = None]
    BY <1>1, <1>2, <2>2, ReactorAssumption
  <2>4. sock'[h] = EpollCtl(sock[h], ev)
    BY <1>1, <1>3, <2>3
  <2>5. sock'[h].mask = ev /\ sock'[h].reg = "armed" /\ Noticed(sock'[h])
    BY <1>1, <2>4, Rearmed DEF Masks
  <2>6. Place(h)' = "idle"
    <3>1. h \notin batch[l] /\ cur[l] # h
      BY <1>2 DEF IInv, LoopInv, Live
    <3> QED BY <1>3, <1>4, <1>5, <3>1 DEF Place
  <2>7. Registered(c, sock'[h])
    BY <1>4, <2>5 DEF Registered
  <2>8. AtRest(c, sock'[h])
    BY <1>2, <1>4, <2>5 DEF AtRest
  <2> QED BY <2>6, <2>7, <2>8 DEF Attending, Busy
<1>8. ASSUME NEW g \in Https \ {h} PROVE Watching(g)'
  <2>1. \A m \in Loops, e \in Fds : fd2chan'[m][e] = g => fd2chan[m][e] = g
    BY <1>6, ReactorAssumption
  <2> QED BY <1>3, <1>5, <2>1, Undisturbed
<1> QED BY <1>7, <1>8 DEF WatchInv

LEMMA FunctorsDoneWatch ==
  ASSUME IInv, WatchInv, NEW l \in Loops, FunctorsDone(l)
  PROVE  WatchInv'
<1>1. /\ phase[l] = "pending" /\ phase \in [Loops -> Phases]
      /\ phase' = [phase EXCEPT ![l] = "expire"]
      /\ UNCHANGED <<fd2chan, fd2http, http, sock, batch, cur, wake>>
  BY DEF FunctorsDone, IInv, TypeOK
<1>2. cur[l] = None
  BY <1>1 DEF IInv, LoopInv, Busy
<1>3. ASSUME NEW g \in Https PROVE Watching(g)'
  BY <1>1, <1>2, ReactorAssumption, Undisturbed
<1> QED BY <1>3 DEF WatchInv

LEMMA HandleExpiredWatch ==
  ASSUME IInv, WatchInv, NEW l \in Loops, NEW D \in SUBSET Https, HandleExpired(l, D)
  PROVE  WatchInv'
<1> DEFINE left == [h \in Https |-> http[h].timers - 1]
<1>1. /\ phase[l] = "expire" /\ phase \in [Loops -> Phases]
      /\ phase' = [phase EXCEPT ![l] = "poll"]
      /\ \A h \in D : Live(h) /\ http[h].loop = l /\ left[h] = 0
      /\ CloseAll(l, D, left)
      /\ UNCHANGED <<batch, cur, wake>>
  <2>1. \A h \in D : http[h].loop = l /\ http[h].timers > 0
    BY DEF HandleExpired
  <2>2. \A h \in D : Live(h) /\ http[h].loop = l /\ left[h] = 0
    BY <2>1, ExpiredOwned
  <2>3. phase \in [Loops -> Phases]
    BY DEF IInv, TypeOK
  <2> QED BY <2>2, <2>3 DEF HandleExpired
<1> HIDE DEF left
<1>2. /\ ChannelsKept
      /\ \A g \in Https : http'[g] = IF g \in D THEN NewHttp ELSE http[g]
      /\ \A g \in Https \ D : sock'[g] = sock[g]
  BY <1>1, CloseFrame
<1>3. cur[l] = None
  BY <1>1 DEF IInv, LoopInv, Busy
<1>4. ASSUME NEW g \in D PROVE Watching(g)'
  BY <1>2 DEF Watching, Tracked, Live, NewHttp
<1>5. ASSUME NEW g \in Https \ D PROVE Watching(g)'
  <2>1. \A m \in Loops, f \in Fds : fd2chan'[m][f] = g => fd2chan[m][f] = g
    BY <1>2, ReactorAssumption DEF ChannelsKept
  <2> QED BY <1>1, <1>2, <1>3, <2>1, ReactorAssumption, Undisturbed
<1> QED BY <1>4, <1>5 DEF WatchInv

LEMMA StepWatch == IInv /\ WatchInv /\ [Next]_vars => WatchInv'
<1> SUFFICES ASSUME IInv, WatchInv, [Next]_vars PROVE WatchInv'
  OBVIOUS
<1>1. ASSUME NEW h \in Https, Client(h) PROVE WatchInv'
  BY <1>1, ClientWatch
<1>2. ASSUME NEW h \in Https, NEW f \in Fds, NEW l \in Loops, HandNewConn(h, f, l)
      PROVE  WatchInv'
  BY <1>2, HandNewConnWatch
<1>3. ASSUME NEW l \in Loops, LoopStep(l) PROVE WatchInv'
  <2>1. CASE Poll(l)
    BY <2>1, PollWatch
  <2>2. ASSUME NEW h \in Https, Dispatch(l, h) PROVE WatchInv'
    BY <2>2, DispatchWatch
  <2>3. ASSUME NEW h \in Https, HandleRead(l, h) PROVE WatchInv'
    BY <2>3, HandleReadWatch
  <2>4. ASSUME NEW h \in Https, FinishRead(l, h) PROVE WatchInv'
    BY <2>4, FinishReadWatch
  <2>5. ASSUME NEW h \in Https, HandleWrite(l, h) PROVE WatchInv'
    BY <2>5, HandleWriteWatch
  <2>6. ASSUME NEW h \in Https, HandleConn(l, h) PROVE WatchInv'
    BY <2>6, HandleConnWatch
  <2>7. CASE SwapFunctors(l)
    BY <2>7, SwapFunctorsWatch
  <2>8. ASSUME NEW h \in Https, NewEvent(l, h) PROVE WatchInv'
    BY <2>8, NewEventWatch
  <2>9. CASE FunctorsDone(l)
    BY <2>9, FunctorsDoneWatch
  <2>10. ASSUME NEW D \in SUBSET Https, HandleExpired(l, D) PROVE WatchInv'
    BY <2>10, HandleExpiredWatch
  <2> QED BY <1>3, <2>1, <2>2, <2>3, <2>4, <2>5, <2>6, <2>7, <2>8, <2>9, <2>10 DEF LoopStep
<1>4. CASE UNCHANGED vars
  BY <1>4 DEF vars, WatchInv, Watching, Tracked, Live, Place
<1> QED BY <1>1, <1>2, <1>3, <1>4 DEF Next

(* In every reachable state the registration of each connection in a table  *)
(* fits what its handlers will do with it, in every phase of a pass.        *)
THEOREM WatchKept == Spec => []WatchInv
<1>1. Init => WatchInv
  BY DEF Init, WatchInv, Watching, Tracked, Live, NewHttp
<1>2. IInv /\ WatchInv /\ [Next]_vars => WatchInv'
  BY StepWatch
<1> QED BY <1>1, <1>2, Invariance, PTL DEF Spec

LEMMA IdleAtRest ==
  ASSUME IInv, WatchInv, NEW l \in Loops, NEW h \in Https, Idle(l, h)
  PROVE  /\ Registered(http[h], sock[h]) /\ AtRest(http[h], sock[h])
         /\ sock[h] \in Socks /\ ~sock[h].rst
<1>1. Tracked(h) /\ Place(h) = "idle"
  BY DEF Idle, Tracked, Place, Handled, Live
<1> QED BY <1>1 DEF WatchInv, Watching, Attending, Tracked, IInv, TypeOK

(* An idle connection is armed in epoll, for writing as long as a response  *)
(* is pending, although epoll_mod skips the call when lastEvents_ agrees.   *)
THEOREM AlwaysAttended == Spec => []Attended
<1>1. IInv /\ WatchInv => Attended
  <2> SUFFICES ASSUME IInv, WatchInv, NEW l \in Loops, NEW h \in Https, Idle(l, h),
                      http[h].connectionState = "CONNECTED"
               PROVE  /\ sock[h].reg = "armed"
                      /\ sock[h].mask \ {"ONESHOT"}
                           \in IF http[h].out THEN {{"OUT"}} ELSE {{"IN"}, {"OUT"}}
    BY DEF Attended
  <2>1. Registered(http[h], sock[h]) /\ AtRest(http[h], sock[h])
    BY IdleAtRest
  <2>2. sock[h].mask \ {"ONESHOT"} \in {{"IN"}, {"OUT"}}
    BY <2>1 DEF Registered
  <2>3. http[h].out => sock[h].mask \ {"ONESHOT"} = {"OUT"}
    BY <2>1 DEF AtRest
  <2> QED BY <2>1, <2>2, <2>3 DEF AtRest
<1> QED BY <1>1, Invariance, WatchKept, PTL

(* No edge is lost: an idle connection that is ready for what it waits for  *)
(* is on the ready list of its epoll instance.                              *)
THEOREM EdgesKept == Spec => []NoLostEdge
<1>1. IInv /\ WatchInv => NoLostEdge
  <2> SUFFICES ASSUME IInv, WatchInv, NEW l \in Loops, NEW h \in Https, Idle(l, h),
                      http[h].connectionState = "CONNECTED", Reported(sock[h]) # {}
               PROVE  sock[h].listed
    BY DEF NoLostEdge
  <2>1. AtRest(http[h], sock[h]) /\ sock[h] \in Socks /\ ~sock[h].rst
    BY IdleAtRest
  <2>2. \/ "IN" \in sock[h].mask /\ (sock[h].inq \/ sock[h].fin)
        \/ "OUT" \in sock[h].mask /\ sock[h].space
    <3>1. PICK e : e \in Ready(sock[h]) \cap Watched(sock[h])
      BY DEF Reported
    <3> QED BY <2>1, <3>1 DEF Ready, Watched
  <2> QED BY <2>1, <2>2 DEF AtRest, Noticed
<1> QED BY <1>1, Invariance, WatchKept, PTL

-----------------------------------------------------------------------------
(* A connection that has not failed comes to handleConn with EPOLLOUT in     *)
(* events_ if output is left, whether handleRead or handleWrite tried last.  *)

OutputAsked ==
  \A l \in Loops, h \in Https :
    phase[l] = "conn" /\ cur[l] = h /\ http[h].out /\ ~http[h].error
      => "OUT" \in http[h].events

(* A step of loop l that does not touch what other loops handle. *)
LEMMA AskedElsewhere ==
  ASSUME IInv, OutputAsked, NEW l \in Loops,
         \A m \in Loops \ {l} : cur'[m] = cur[m] /\ phase'[m] = phase[m],
         \A g \in Https : Live(g) /\ http[g].loop # l => http'[g] = http[g],
         \A h \in Https : phase'[l] = "conn" /\ cur'[l] = h /\ http'[h].out /\ ~http'[h].error
                            => "OUT" \in http'[h].events
  PROVE  OutputAsked'
<1>1. SUFFICES ASSUME NEW m \in Loops \ {l}, NEW h \in Https, phase[m] = "conn", cur[m] = h,
                      http'[h].out, ~http'[h].error
               PROVE  "OUT" \in http'[h].events
  BY DEF OutputAsked
<1>2. http'[h] = http[h]
  BY <1>1 DEF IInv, LoopInv
<1> QED BY <1>1, <1>2 DEF OutputAsked

LEMMA WriteAsks ==
  ASSUME NEW c \in HttpDatas, NEW w \in Writes, c.connectionState # "DISCONNECTED",
         WriteTo(c, w).out, ~WriteTo(c, w).error
  PROVE  "OUT" \in WriteTo(c, w).events
<1>1. CASE Skips(c)
  BY <1>1 DEF Skips, WriteTo
<1>2. CASE ~Skips(c)
  <2> DEFINE ev == (IF w.error THEN {} ELSE c.events) \cup (IF w.out THEN {"OUT"} ELSE {})
  <2>1. WriteTo(c, w) = [c EXCEPT !.out = w.out, !.error = w.error, !.events = ev]
    BY <1>2 DEF WriteTo
  <2> HIDE DEF ev
  <2>2. WriteTo(c, w).out = w.out /\ WriteTo(c, w).events = ev
    BY <2>1 DEF HttpDatas
  <2> QED BY <2>2 DEF ev
<1> QED BY <1>1, <1>2

LEMMA HandlersAsk ==
  ASSUME IInv, OutputAsked, NEW l \in Loops, NEW h \in Https,
         HandleRead(l, h) \/ FinishRead(l, h) \/ HandleWrite(l, h)
  PROVE  OutputAsked'
<1>1. /\ http \in [Https -> HttpDatas] /\ phase \in [Loops -> Phases] /\ cur[l] = h
  BY DEF IInv, TypeOK, HandleRead, HandleReadTo, FinishRead, FinishReadWith,
         HandleWrite, HandleWriteWith
<1>2. /\ http[h] \in HttpDatas /\ http[h].loop = l /\ http[h].connectionState # "DISCONNECTED"
  BY <1>1, InHand
<1>3. ASSUME NEW c, NEW p, http' = [http EXCEPT ![h] = c], phase' = [phase EXCEPT ![l] = p],
             cur' = cur, p = "conn" /\ c.out /\ ~c.error => "OUT" \in c.events
      PROVE  OutputAsked'
  <2>1. /\ http'[h] = c /\ \A g \in Https \ {h} : http'[g] = http[g]
        /\ phase'[l] = p /\ \A m \in Loops \ {l} : phase'[m] = phase[m]
    BY <1>1, <1>3
  <2> QED BY <1>1, <1>2, <1>3, <2>1, AskedElsewhere
<1>4. CASE HandleRead(l, h)
  <2>1. PICK c : /\ http' = [http EXCEPT ![h] = c] /\ cur' = cur
                 /\ phase' = [phase EXCEPT ![l] = IF c.error THEN AfterRead(c) ELSE "tail"]
    BY <1>4 DEF HandleRead, HandleReadTo
  <2> QED BY <1>3, <2>1
<1>5. CASE FinishRead(l, h)
  <2>1. PICK w \in Writen(sock[h], http[h].out) : FinishReadWith(l, h, w)
    BY <1>5 DEF FinishRead
  <2> DEFINE c == IF http[h].out THEN WriteTo(http[h], w) ELSE http[h]
             again == ~c.error /\ c.finish /\ c.more /\ c.connectionState # "DISCONNECTING"
             d == IF c.error THEN c
                  ELSE IF c.finish THEN ResetHttp(c)
                  ELSE IF c.connectionState # "DISCONNECTED"
                       THEN [c EXCEPT !.events = @ \cup {"IN"}] ELSE c
             p == IF again THEN "read" ELSE AfterRead(c)
  <2>2. http' = [http EXCEPT ![h] = d] /\ phase' = [phase EXCEPT ![l] = p] /\ cur' = cur
    BY <2>1 DEF FinishReadWith
  <2>3. w \in Writes
    BY DEF Writen
  <2>4. c \in HttpDatas
    BY <1>1, <2>3, ContinuesWrite DEF Continues
  <2>5. c.out /\ ~c.error => "OUT" \in c.events
    <3>1. CASE ~http[h].out
      BY <3>1
    <3>2. CASE http[h].out
      <4>1. c = WriteTo(http[h], w)
        BY <3>2
      <4> HIDE DEF c
      <4> QED BY <1>2, <2>3, <4>1, WriteAsks
    <3> QED BY <3>1, <3>2
  <2> HIDE DEF c
  <2>6. d.out = c.out /\ d.error = c.error /\ c.events \subseteq d.events
    BY <2>4 DEF ResetHttp, SeperateTimer, HttpDatas
  <2> HIDE DEF d, p
  <2> QED BY <1>3, <2>2, <2>5, <2>6
<1>6. CASE HandleWrite(l, h)
  <2>1. PICK w \in Writen(sock[h], http[h].out) :
          /\ http' = [http EXCEPT ![h] = WriteTo(http[h], w)] /\ cur' = cur
          /\ phase' = [phase EXCEPT ![l] = "conn"]
    BY <1>6 DEF HandleWrite, HandleWriteWith
  <2>2. w \in Writes
    BY DEF Writen
  <2>3. WriteTo(http[h], w).out /\ ~WriteTo(http[h], w).error
          => "OUT" \in WriteTo(http[h], w).events
    BY <1>2, <2>2, WriteAsks
  <2> QED BY <1>3, <2>1, <2>3
<1> QED BY <1>4, <1>5, <1>6

LEMMA StepAsked == IInv /\ OutputAsked /\ [Next]_vars => OutputAsked'
<1> SUFFICES ASSUME IInv, OutputAsked, [Next]_vars PROVE OutputAsked'
  OBVIOUS
<1>1. /\ http \in [Https -> HttpDatas] /\ phase \in [Loops -> Phases]
      /\ cur \in [Loops -> Https \cup {None}] /\ batch \in [Loops -> SUBSET Https]
  BY DEF IInv, TypeOK
<1>2. ASSUME NEW h \in Https, Client(h) PROVE OutputAsked'
  BY <1>2 DEF Client, Send, ShutdownWrite, Reset, Drain, ClientStep, OutputAsked
<1>3. ASSUME NEW h \in Https, NEW f \in Fds, NEW l \in Loops, HandNewConn(h, f, l)
      PROVE  OutputAsked'
  <2>1. /\ ~Live(h) /\ UNCHANGED <<phase, cur>>
        /\ \A g \in Https \ {h} : http'[g] = http[g]
    BY <1>1, <1>3 DEF HandNewConn, Open, Live
  <2>2. \A m \in Loops : cur[m] # h
    BY <2>1 DEF IInv, LoopInv
  <2> QED BY <2>1, <2>2 DEF OutputAsked
<1>4. ASSUME NEW l \in Loops, LoopStep(l) PROVE OutputAsked'
  <2>1. CASE Poll(l)
    <3>1. \A g \in Https : http[g].loop # l => http'[g] = http[g]
      BY <2>1, PolledOwned DEF Poll
    <3> QED BY <1>1, <2>1, <3>1, AskedElsewhere DEF Poll
  <2>2. ASSUME NEW h \in Https, Dispatch(l, h) PROVE OutputAsked'
    <3>1. /\ http[h].loop = l /\ phase'[l] # "conn"
          /\ \A g \in Https \ {h} : http'[g] = http[g]
          /\ \A m \in Loops \ {l} : cur'[m] = cur[m] /\ phase'[m] = phase[m]
      BY <1>1, <2>2 DEF Dispatch, IInv, LoopInv
    <3> QED BY <3>1, AskedElsewhere
  <2>3. ASSUME NEW h \in Https, HandleRead(l, h) PROVE OutputAsked'
    BY <2>3, HandlersAsk
  <2>4. ASSUME NEW h \in Https, FinishRead(l, h) PROVE OutputAsked'
    BY <2>4, HandlersAsk
  <2>5. ASSUME NEW h \in Https, HandleWrite(l, h) PROVE OutputAsked'
    BY <2>5, HandlersAsk
  <2>6. ASSUME NEW h \in Https, HandleConn(l, h) PROVE OutputAsked'
    <3>1. /\ http[h].loop = l /\ phase'[l] # "conn"
          /\ \A m \in Loops \ {l} : cur'[m] = cur[m] /\ phase'[m] = phase[m]
      BY <1>1, <2>6 DEF HandleConn, IInv, LoopInv
    <3>2. \A g \in Https \ {h} : http'[g] = http[g]
      BY <1>1, <2>6 DEF HandleConn, Rearm, Linger, CloseConn, CloseAll
    <3> QED BY <3>1, <3>2, AskedElsewhere
  <2>7. CASE SwapFunctors(l)
    <3>1. \A g \in Https : Live(g) => http'[g] = http[g]
      BY <2>7 DEF SwapFunctors, Live
    <3> QED BY <1>1, <2>7, <3>1, AskedElsewhere DEF SwapFunctors
  <2>8. ASSUME NEW h \in Https, NewEvent(l, h) PROVE OutputAsked'
    <3>1. http[h].loop = l /\ \A g \in Https \ {h} : http'[g] = http[g]
      BY <1>1, <2>8 DEF NewEvent
    <3> QED BY <2>8, <3>1, AskedElsewhere DEF NewEvent
  <2>9. CASE FunctorsDone(l)
    BY <1>1, <2>9, AskedElsewhere DEF FunctorsDone
  <2>10. ASSUME NEW D \in SUBSET Https, HandleExpired(l, D) PROVE OutputAsked'
    <3>1. \A g \in Https : http[g].loop # l => http'[g] = http[g]
      BY <2>10 DEF HandleExpired, CloseAll
    <3> QED BY <1>1, <2>10, <3>1, AskedElsewhere DEF HandleExpired
  <2> QED BY <1>4, <2>1, <2>2, <2>3, <2>4, <2>5, <2>6, <2>7, <2>8, <2>9, <2>10 DEF LoopStep
<1>5. CASE UNCHANGED vars
  BY <1>5 DEF vars, OutputAsked
<1> QED BY <1>2, <1>3, <1>4, <1>5 DEF Next

(* Only handleClose at the end of handleConn destroys a connection in a      *)
(* handler.                                                                  *)
LEMMA DestroyedInConn ==
  ASSUME IInv, Next, NEW l \in Loops, NEW h \in Https, phase[l] = "conn", cur[l] = h,
         http'[h].life = "none"
  PROVE  CloseConn(l, h)
<1>1. /\ http \in [Https -> HttpDatas] /\ http[h].life = "live" /\ http[h].loop = l
      /\ Linked(http[h])
  BY InHand DEF IInv, TypeOK
<1>2. \A m \in Loops, g \in Https : cur[m] = g => g # h \/ m = l
  BY <1>1 DEF IInv, LoopInv
<1>3. ASSUME NEW g \in Https, Client(g) PROVE FALSE
  BY <1>1, <1>3 DEF Client, Send, ShutdownWrite, Reset, Drain, ClientStep
<1>4. ASSUME NEW g \in Https, NEW f \in Fds, NEW m \in Loops, HandNewConn(g, f, m) PROVE FALSE
  BY <1>1, <1>4 DEF HandNewConn, Open
<1>5. ASSUME NEW m \in Loops, LoopStep(m) PROVE CloseConn(l, h)
  <2>1. ASSUME Poll(m) PROVE FALSE
    <3>1. phase[m] = "poll" /\ m # l
      BY <2>1 DEF Poll
    <3>2. http'[h] = http[h]
      BY <1>1, <2>1, <3>1, PolledOwned DEF Poll
    <3> QED BY <1>1, <3>2
  <2>2. ASSUME NEW g \in Https, Dispatch(m, g) PROVE FALSE
    <3>1. g # h
      BY <2>2, <1>1 DEF Dispatch, IInv, LoopInv
    <3> QED BY <1>1, <2>2, <3>1 DEF Dispatch
  <2>3. ASSUME NEW g \in Https, HandleRead(m, g) \/ FinishRead(m, g) \/ HandleWrite(m, g)
        PROVE  FALSE
    <3>1. cur[m] = g /\ phase[m] # "conn"
      BY <2>3 DEF HandleRead, HandleReadTo, FinishRead, FinishReadWith, HandleWrite, HandleWriteWith
    <3>2. g # h
      BY <1>2, <3>1
    <3>3. \E c : http' = [http EXCEPT ![g] = c]
      BY <2>3 DEF HandleRead, HandleReadTo, FinishRead, FinishReadWith, HandleWrite, HandleWriteWith
    <3> QED BY <1>1, <3>2, <3>3
  <2>4. ASSUME NEW g \in Https, HandleConn(m, g) PROVE CloseConn(l, h)
    <3>1. cur[m] = g
      BY <2>4 DEF HandleConn
    <3>2. CASE g # h
      BY <1>1, <2>4, <3>2 DEF HandleConn, Rearm, Linger, CloseConn, CloseAll
    <3>3. CASE g = h
      <4>1. m = l
        BY <1>2, <3>1, <3>3
      <4>2. SeperateTimer(http[h]) \in HttpDatas /\ SeperateTimer(http[h]).life = "live"
        BY <1>1, Separated
      <4> DEFINE c == SeperateTimer(http[h])
      <4>3. ASSUME NEW d, http' = [http EXCEPT ![h] = d], d.life = c.life PROVE FALSE
        BY <1>1, <4>2, <4>3
      <4>4. ASSUME Rearm(l, h) PROVE FALSE
        <5> DEFINE ev == Interest(c.events)
                   d == [AddTimer(Done(c)) EXCEPT !.events = ev, !.lastEvents = ev]
        <5>1. http' = [http EXCEPT ![h] = d]
          BY <4>4 DEF Rearm
        <5>2. d.life = c.life
          <6> HIDE DEF c
          <6> QED BY <4>2 DEF c, AddTimer, Done, HttpDatas
        <5> HIDE DEF c, d
        <5> QED BY <4>3, <5>1, <5>2
      <4>5. ASSUME Linger(l, h) PROVE FALSE
        <5> DEFINE d == [Done(c) EXCEPT !.events = {"OUT"}]
        <5>1. http' = [http EXCEPT ![h] = d]
          BY <4>5 DEF Linger
        <5>2. d.life = c.life
          <6> HIDE DEF c
          <6> QED BY <4>2 DEF c, Done, HttpDatas
        <5> HIDE DEF c, d
        <5> QED BY <4>3, <5>1, <5>2
      <4> QED BY <2>4, <3>3, <4>1, <4>4, <4>5 DEF HandleConn
    <3> QED BY <3>2, <3>3
  <2>5. ASSUME SwapFunctors(m) PROVE FALSE
    BY <1>1, <2>5 DEF SwapFunctors
  <2>6. ASSUME NEW g \in Https, NewEvent(m, g) PROVE FALSE
    <3>1. g # h
      BY <1>1, <2>6 DEF NewEvent
    <3> QED BY <1>1, <2>6, <3>1 DEF NewEvent
  <2>7. ASSUME FunctorsDone(m) PROVE FALSE
    BY <1>1, <2>7 DEF FunctorsDone
  <2>8. ASSUME NEW D \in SUBSET Https, HandleExpired(m, D) PROVE FALSE
    <3>1. m # l
      BY <2>8 DEF HandleExpired
    <3>2. http'[h] = http[h]
      BY <1>1, <2>8, <3>1 DEF HandleExpired, CloseAll
    <3> QED BY <1>1, <3>2
  <2> QED BY <1>5, <2>1, <2>2, <2>3, <2>4, <2>5, <2>6, <2>7, <2>8 DEF LoopStep
<1> QED BY <1>3, <1>4, <1>5 DEF Next

(* A connection that is closed at the end of handleConn with output left is *)
(* one that failed: a client that shuts down early still gets its response, *)
(* or at least the loop does not throw it away.                             *)
THEOREM ResponsesWhole == Spec => NoCutResponse
<1>1. Init => OutputAsked
  BY DEF Init, OutputAsked
<1>2. IInv /\ OutputAsked /\ [Next]_vars => OutputAsked'
  BY StepAsked
<1>3. ASSUME IInv, OutputAsked, [Next]_vars, NEW l \in Loops, NEW h \in Https,
             phase[l] = "conn", cur[l] = h, http[h].out, http'[h].life = "none"
      PROVE  http[h].error
  <2>1. /\ http[h] \in HttpDatas /\ http[h].connectionState # "DISCONNECTED"
        /\ http[h].life = "live" /\ Linked(http[h])
    BY <1>3, InHand
  <2>2. Next
    BY <1>3, <2>1 DEF vars
  <2>3. CloseConn(l, h)
    BY <1>3, <2>2, DestroyedInConn
  <2>4. LET c == SeperateTimer(http[h])
        IN  /\ c.connectionState = http[h].connectionState
            /\ c.error = http[h].error /\ c.events = http[h].events
    BY <2>1, Separated
  <2>5. ~http[h].error => "OUT" \in http[h].events
    BY <1>3 DEF OutputAsked
  <2>6. http[h].connectionState \in {"CONNECTED", "DISCONNECTING"}
    BY <2>1 DEF HttpDatas, Conns
  <2> QED BY <2>3, <2>4, <2>5, <2>6 DEF CloseConn
<1>4. IInv /\ OutputAsked /\ [Next]_vars =>
        [\A l \in Loops, h \in Https :
           phase[l] = "conn" /\ cur[l] = h /\ http[h].out /\ http'[h].life = "none"
             => http[h].error]_vars
  BY <1>3
<1> QED BY <1>1, <1>2, <1>4, Invariance, PTL DEF Spec, NoCutResponse
==============================================================================
