--------------------------- MODULE LiveSpansProofs ---------------------------
(***************************************************************************)
(* Proofs about LiveSpans, for any spans, connections, delays and faults.  *)
(***************************************************************************)
EXTENDS LiveSpans, FiniteSetTheorems, TLAPS

\* Callbacks are of the newest generation only on a stream that is not closed.
FreshIsLive == \A c \in Conns : conn[c].fresh => Live(c)

LiveInv == TypeOK /\ FreshIsLive /\ OneStream /\ LiveMeansConnected

-----------------------------------------------------------------------------
(* Connections.                                                            *)

LEMMA UnusedType == Unused \in Connection
  BY DEF Unused, Connection

\* Tidying touches what is closed or cut only, and revives nothing.
LEMMA TidyKeeps ==
    ASSUME NEW r \in Connection
    PROVE  /\ Tidy(r) \in Connection
           /\ r.es # "closed" => Tidy(r).es = r.es /\ Tidy(r).fresh = r.fresh
           /\ r.es = "closed" => Tidy(r).es \in {"closed", "unused"}
           /\ Tidy(r).fresh => r.fresh
  <1> DEFINE w == [r EXCEPT !.wire = << >>]
             v == [w EXCEPT !.sent = {}]
             t == [v EXCEPT !.cut = @ /\ r.es # "closed"]
  <1>0. << >> \in Seq(Hex)
    OBVIOUS
  <1>1. w \in Connection /\ w.es = r.es /\ w.fresh = r.fresh
    BY <1>0 DEF Connection
  <1>2. t = [r EXCEPT !.wire = << >>, !.sent = {}, !.cut = @ /\ r.es # "closed"]
    BY DEF Connection
  <1> HIDE DEF w
  <1>3. v \in Connection /\ v.es = w.es /\ v.fresh = w.fresh
    BY <1>1 DEF Connection
  <1> HIDE DEF v
  <1>4. t \in Connection /\ t.es = v.es /\ t.fresh = v.fresh
    BY <1>3 DEF Connection
  <1> HIDE DEF t
  <1>5. Unused.es = "unused" /\ ~Unused.fresh
    BY DEF Unused
  <1>6. Tidy(r) = r \/ Tidy(r) = t \/ (Tidy(r) = Unused /\ r.es = "closed")
    BY <1>2 DEF Tidy
  <1> QED BY <1>1, <1>3, <1>4, <1>5, <1>6, UnusedType

\* What every change of one connection other than OnOpen, OnError and Connect
\* leaves alone.
Quiet(cs) ==
    /\ cs \in [Conns -> Connection]
    /\ \A c \in Conns :
          /\ conn[c].es # "closed" => cs[c].es = conn[c].es /\ cs[c].fresh = conn[c].fresh
          /\ conn[c].es = "closed" => cs[c].es \in {"closed", "unused"}
          /\ cs[c].fresh => conn[c].fresh

LEMMA ChangeIsQuiet ==
    ASSUME TypeOK, NEW c \in Conns, NEW r \in Connection, Change(c, r),
           r.es = conn[c].es, r.fresh = conn[c].fresh
    PROVE  Quiet(conn')
  BY TidyKeeps DEF Change, Quiet, TypeOK

\* Quiet changes of the connections keep the invariant.
LEMMA QuietStep ==
    ASSUME LiveInv, Quiet(conn'), UNCHANGED <<page, hook>>
    PROVE  (FreshIsLive /\ OneStream /\ LiveMeansConnected)'
  BY DEF LiveInv, TypeOK, Quiet, FreshIsLive, OneStream, LiveMeansConnected, Live, hook

\* The connections after a new generation has begun and the stream was closed.
LEMMA AllClosed ==
    ASSUME LiveInv, NEW c \in Conns \cup {None}, c = stream
    PROVE  /\ Closed(Outdated(conn), c) \in [Conns -> Connection]
           /\ \A d \in Conns :
                 /\ Closed(Outdated(conn), c)[d].es \in {"unused", "closed"}
                 /\ ~Closed(Outdated(conn), c)[d].fresh
  <1>0. conn \in [Conns -> Connection]
    BY DEF LiveInv, TypeOK
  <1> DEFINE out == Outdated(conn)
  <1>1. \A d \in Conns : /\ [conn[d] EXCEPT !.fresh = FALSE] \in Connection
                         /\ [conn[d] EXCEPT !.fresh = FALSE].es = conn[d].es
                         /\ ~[conn[d] EXCEPT !.fresh = FALSE].fresh
    BY <1>0 DEF Connection
  <1>2. /\ out \in [Conns -> Connection]
        /\ \A d \in Conns : out[d].es = conn[d].es /\ ~out[d].fresh
    BY <1>1 DEF Outdated
  <1>3. \A d \in Conns : d # c => out[d].es \in {"unused", "closed"}
    <2> SUFFICES ASSUME NEW d \in Conns, d # c PROVE conn[d].es \in {"unused", "closed"}
      BY <1>2
    <2>1. ~Live(d)
      BY DEF LiveInv, OneStream
    <2> QED BY <1>0, <2>1 DEF Live, Connection
  <1> HIDE DEF out
  <1>4. /\ Closed(out, c) \in [Conns -> Connection]
        /\ \A d \in Conns :
              Closed(out, c)[d].es \in {"unused", "closed"} /\ ~Closed(out, c)[d].fresh
    <2>1. CASE c = None
      <3>1. Closed(out, c) = out /\ c \notin Conns
        BY <2>1, LiveAssumption DEF Closed
      <3> QED BY <3>1, <1>2, <1>3
    <2>2. CASE c # None
      <3>0. c \in Conns /\ out[c] \in Connection /\ ~out[c].fresh
        BY <1>2, <2>2
      <3> DEFINE r == [out[c] EXCEPT !.es = "closed"]
      <3>1. r \in Connection /\ r.es = "closed" /\ ~r.fresh
        BY <3>0 DEF Connection
      <3>2. Closed(out, c) = [out EXCEPT ![c] = Tidy(r)]
        BY <2>2 DEF Closed
      <3> HIDE DEF r
      <3>3. Tidy(r) \in Connection /\ Tidy(r).es \in {"closed", "unused"} /\ ~Tidy(r).fresh
        BY <3>1, TidyKeeps
      <3> QED BY <1>2, <1>3, <3>0, <3>2, <3>3
    <2> QED BY <2>1, <2>2
  <1> QED BY <1>4 DEF out

\* connect(): one new stream, of the newest generation.
LEMMA Connected ==
    ASSUME NEW cs \in [Conns -> Connection], Connect(cs),
           \A d \in Conns : cs[d].es \in {"unused", "closed"} /\ ~cs[d].fresh
    PROVE  /\ conn' \in [Conns -> Connection]
           /\ stream' \in Conns /\ connState' = "connecting"
           /\ conn'[stream'].es = "connecting" /\ conn'[stream'].fresh
           /\ \A d \in Conns \ {stream'} :
                 conn'[d].es \in {"unused", "closed"} /\ ~conn'[d].fresh
  <1> DEFINE r == [Unused EXCEPT !.es = "connecting", !.fresh = TRUE]
  <1>1. NewOne(cs) \in Conns
    BY DEF Connect, NewOne
  <1>2. r \in Connection /\ r.es = "connecting" /\ r.fresh
    BY UnusedType DEF Connection, Unused
  <1>3. conn' = [cs EXCEPT ![NewOne(cs)] = r] /\ stream' = NewOne(cs)
        /\ connState' = "connecting"
    BY DEF Connect
  <1> HIDE DEF r
  <1> QED BY <1>1, <1>2, <1>3

\* The route, Redis and the network leave the browser's end and what is on its
\* way alone, except that they may cut it off.
Alike(r, old) ==
    /\ r.es = old.es /\ r.fresh = old.fresh
    /\ r.wire = old.wire /\ r.sent = old.sent
    /\ old.cut => r.cut

LEMMA RouteChange ==
    ASSUME TypeOK, NEW c \in Conns, OfRoute(c) \/ RedisDrops(c) \/ GiveUp(c) \/ Cut(c)
    PROVE  \E r \in Connection : Change(c, r) /\ Alike(r, conn[c])
  <1>0. conn[c] \in Connection
    BY DEF TypeOK
  <1>1. CASE Arrive(c)
    <2> DEFINE r == IF Admitted
                    THEN [conn[c] EXCEPT !.controller = "open",
                             !.subscriber = "offline", !.queued = {"subscribe"}]
                    ELSE [conn[c] EXCEPT !.controller = "refused"]
    <2>1. r \in Connection /\ Alike(r, conn[c])
      BY <1>0 DEF Connection, Alike
    <2> QED BY <1>1, <2>1 DEF Arrive
  <1>2. CASE Abort(c)
    <2> DEFINE r == [Cleanup(conn[c]) EXCEPT !.controller = "closed"]
    <2>1. r \in Connection /\ Alike(r, conn[c])
      BY <1>0 DEF Connection, Alike, Cleanup
    <2> QED BY <1>2, <2>1 DEF Abort
  <1>3. CASE Answered(c)
    <2> DEFINE r == IF "quit" \in conn[c].queued
                    THEN [conn[c] EXCEPT !.subscriber = "ended", !.subscribed = FALSE,
                                         !.queued = {}]
                    ELSE [conn[c] EXCEPT !.subscriber = "online", !.queued = {},
                             !.subscribed = @ \/ "subscribe" \in conn[c].queued]
    <2>1. r \in Connection /\ Alike(r, conn[c])
      BY <1>0 DEF Connection, Alike
    <2> QED BY <1>3, <2>1 DEF Answered
  <1>4. CASE RedisDrops(c)
    <2> DEFINE r == [conn[c] EXCEPT !.subscriber = "offline"]
    <2>1. r \in Connection /\ Alike(r, conn[c])
      BY <1>0 DEF Connection, Alike
    <2> QED BY <1>4, <2>1 DEF RedisDrops
  <1>5. CASE GiveUp(c)
    <2> DEFINE r == IF "subscribe" \in conn[c].queued
                    THEN [Cleanup([conn[c] EXCEPT !.queued = {}])
                             EXCEPT !.controller = "closed"]
                    ELSE [conn[c] EXCEPT !.queued = {}, !.rejected = TRUE]
    <2>1. r \in Connection /\ Alike(r, conn[c])
      BY <1>0 DEF Connection, Alike, Cleanup
    <2> QED BY <1>5, <2>1 DEF GiveUp
  <1>6. CASE Cut(c)
    <2> DEFINE r == [conn[c] EXCEPT !.cut = TRUE,
                        !.controller = IF @ = "none" THEN "refused" ELSE @]
    <2>1. r \in Connection /\ Alike(r, conn[c])
      BY <1>0 DEF Connection, Alike
    <2> QED BY <1>6, <2>1 DEF Cut
  <1> QED BY <1>1, <1>2, <1>3, <1>4, <1>5, <1>6 DEF OfRoute

-----------------------------------------------------------------------------
(* Types.                                                                  *)

LEMMA LiveStart == Init => LiveInv
  <1> SUFFICES ASSUME Init PROVE LiveInv
    OBVIOUS
  <1>1. faults \in [FaultKinds -> Nat] /\ conn \in [Conns -> Connection]
    BY UnusedType DEF Init
  <1>2. TypeOK
    <2>1. /\ spans \in Seq(Hex) /\ delay \in INIT_DELAY .. MAX_DELAY
          /\ stored \in [Spans -> Nat] /\ rows \in Rows /\ fetched \in Rows
      BY LiveAssumption DEF Init, Rows, NoRows
    <2> QED BY <1>1, <2>1 DEF Init, TypeOK
  <1>3. \A c \in Conns : ~Live(c) /\ ~conn[c].fresh
    BY DEF Init, Unused, Live
  <1> QED BY <1>2, <1>3 DEF Init, LiveInv, FreshIsLive, OneStream, LiveMeansConnected

LEMMA FaultType ==
    ASSUME TypeOK, NEW kind \in FaultKinds, Fault(kind)
    PROVE  faults' \in [FaultKinds -> Nat]
  BY DEF TypeOK, Fault

LEMMA HexType == \A s \in Spans : Row(s) \in Hex /\ Frame(s) \in Hex
  BY DEF Row, Frame, Hex

LEMMA RowsType ==
    ASSUME TypeOK
    PROVE  /\ Found \in Rows /\ NoRows \in Rows
           /\ \A s \in Spans : Found[Row(s)] = stored[s] /\ NoRows[Row(s)] = 0
  <1>1. \A x \in Hex : x.span \in Spans
    BY DEF Hex
  <1>2. \A s \in Spans : Row(s).span = s /\ Row(s).case = "upper"
    BY DEF Row
  <1> QED BY <1>1, <1>2, HexType DEF TypeOK, Rows, Found, NoRows

\* Steps of the world and of the page that touch no connection.
LEMMA PageStep ==
    ASSUME LiveInv,
           \/ \E s \in Spans : Store(s) \/ StoreAgain(s)
           \/ SessionEnds \/ SignIn \/ Load \/ Refresh \/ Refreshed
    PROVE  LiveInv'
  <1>0. TypeOK /\ Found \in Rows /\ NoRows \in Rows
    BY RowsType DEF LiveInv
  <1>1. ASSUME NEW s \in Spans, Store(s) \/ StoreAgain(s) PROVE LiveInv'
    <2>1. stored' \in [Spans -> Nat]
      BY <1>0, <1>1 DEF Store, StoreAgain, TypeOK
    <2>2. faults' \in [FaultKinds -> Nat]
      BY <1>0, <1>1, FaultType DEF Store, StoreAgain, FaultKinds, TypeOK
    <2> QED BY <1>1, <2>1, <2>2 DEF Store, StoreAgain, view, hook, LiveInv, TypeOK,
                                    FreshIsLive, OneStream, LiveMeansConnected, Live
  <1>2. CASE SessionEnds
    <2>1. faults' \in [FaultKinds -> Nat]
      BY <1>0, <1>2, FaultType DEF SessionEnds, FaultKinds
    <2> QED BY <1>2, <2>1 DEF SessionEnds, view, hook, LiveInv, TypeOK, FreshIsLive,
                              OneStream, LiveMeansConnected, Live
  <1>3. CASE SignIn
    BY <1>3 DEF SignIn, view, hook, LiveInv, TypeOK, FreshIsLive, OneStream,
                LiveMeansConnected, Live
  <1>4. CASE Load
    BY <1>0, <1>4 DEF Load, world, hook, LiveInv, TypeOK, FreshIsLive, OneStream,
                      LiveMeansConnected, Live
  <1>5. CASE Refresh
    BY <1>0, <1>5 DEF Refresh, world, hook, LiveInv, TypeOK, FreshIsLive, OneStream,
                      LiveMeansConnected, Live
  <1>6. CASE Refreshed
    BY <1>0, <1>6 DEF Refreshed, world, hook, LiveInv, TypeOK, FreshIsLive, OneStream,
                LiveMeansConnected, Live
  <1> QED BY <1>1, <1>2, <1>3, <1>4, <1>5, <1>6

\* The page is mounted, left, loses its stream, and connects again.
LEMMA HookStep ==
    ASSUME LiveInv, Mount \/ Unmount \/ TimerFires \/ \E c \in Conns : OnError(c)
    PROVE  LiveInv'
  <1>0. /\ TypeOK /\ None \notin Conns
        /\ stream \in Conns \cup {None}
        /\ INIT_DELAY \in INIT_DELAY .. MAX_DELAY
    BY LiveAssumption DEF LiveInv, TypeOK
  <1> DEFINE none == Closed(Outdated(conn), stream)
  <1>1. /\ none \in [Conns -> Connection]
        /\ \A d \in Conns : none[d].es \in {"unused", "closed"} /\ ~none[d].fresh
    BY <1>0, AllClosed
  <1> HIDE DEF none
  <1>2. CASE Mount
    <2>1. Connect(none)
      BY <1>2 DEF Mount, none
    <2>2. /\ conn' \in [Conns -> Connection]
          /\ stream' \in Conns /\ connState' = "connecting"
          /\ conn'[stream'].es = "connecting" /\ conn'[stream'].fresh
          /\ \A d \in Conns \ {stream'} :
                conn'[d].es \in {"unused", "closed"} /\ ~conn'[d].fresh
      BY <1>1, <2>1, Connected
    <2>3. TypeOK'
      BY <1>0, <1>2, <2>2 DEF Mount, world, TypeOK
    <2> QED BY <1>0, <1>2, <2>2, <2>3 DEF Mount, LiveInv, FreshIsLive, OneStream,
                                    LiveMeansConnected, Live
  <1>3. CASE Unmount
    <2>1. conn' = none /\ page' = "none" /\ timer' = "none"
      BY <1>3 DEF Unmount, none
    <2>2. spans' \in Seq(Hex) /\ NoRows \in Rows
      BY <1>0, <1>3, RowsType DEF Unmount
    <2>3. TypeOK'
      BY <1>0, <1>1, <1>3, <2>1, <2>2 DEF Unmount, world, TypeOK
    <2> QED BY <1>1, <2>1, <2>3 DEF LiveInv, FreshIsLive, OneStream, LiveMeansConnected, Live
  <1>4. ASSUME NEW c \in Conns, OnError(c) PROVE LiveInv'
    <2>1. c = stream /\ page = "mounted"
      BY <1>4 DEF OnError, Failed, LiveInv, OneStream
    <2>2. conn' = none /\ stream' = None /\ timer' = "fresh" /\ page' = "mounted"
          /\ connState' = "disconnected"
      BY <1>4, <2>1 DEF OnError, none, view
    <2>3. Least(delay * 2, MAX_DELAY) \in INIT_DELAY .. MAX_DELAY
      BY <1>0, LiveAssumption DEF Least, TypeOK
    <2>4. TypeOK'
      BY <1>0, <1>1, <1>4, <2>2, <2>3 DEF OnError, world, view, TypeOK
    <2> QED BY <1>1, <2>2, <2>4 DEF LiveInv, FreshIsLive, OneStream, LiveMeansConnected, Live
  <1>5. CASE TimerFires
    <2>1. timer = "fresh" /\ page = "mounted" /\ \A d \in Conns : ~Live(d)
      BY <1>5 DEF TimerFires, LiveInv, OneStream
    <2>2. /\ conn \in [Conns -> Connection]
          /\ \A d \in Conns : conn[d].es \in {"unused", "closed"} /\ ~conn[d].fresh
      BY <1>0, <2>1 DEF LiveInv, FreshIsLive, TypeOK, Live, Connection
    <2>3. Connect(conn) /\ timer' = "none" /\ page' = "mounted"
      BY <1>5, <2>1 DEF TimerFires, view
    <2>4. /\ conn' \in [Conns -> Connection]
          /\ stream' \in Conns /\ connState' = "connecting"
          /\ conn'[stream'].es = "connecting" /\ conn'[stream'].fresh
          /\ \A d \in Conns \ {stream'} :
                conn'[d].es \in {"unused", "closed"} /\ ~conn'[d].fresh
      BY <2>2, <2>3, Connected
    <2>5. TypeOK'
      BY <1>0, <1>5, <2>3, <2>4 DEF TimerFires, world, view, TypeOK
    <2> QED BY <1>0, <2>3, <2>4, <2>5 DEF LiveInv, FreshIsLive, OneStream,
                                    LiveMeansConnected, Live
  <1> QED BY <1>2, <1>3, <1>4, <1>5

\* Events of a stream.
LEMMA StreamStep ==
    ASSUME LiveInv, NEW c \in Conns, OnOpen(c) \/ OnMessage(c)
    PROVE  LiveInv'
  <1>0. TypeOK /\ conn[c] \in Connection /\ INIT_DELAY \in INIT_DELAY .. MAX_DELAY
    BY LiveAssumption DEF LiveInv, TypeOK
  <1>1. CASE OnOpen(c)
    <2>1. c = stream /\ page = "mounted" /\ timer = "none" /\ conn[c].fresh
      BY <1>1 DEF OnOpen, LiveInv, OneStream, Live
    <2> DEFINE r == [conn[c] EXCEPT !.es = "open"]
    <2>2. r \in Connection /\ r.es = "open" /\ r.fresh
      BY <1>0, <2>1 DEF Connection
    <2>3. /\ Change(c, r) /\ connState' = "open" /\ delay' = INIT_DELAY
          /\ UNCHANGED <<world, view, stream, timer, faults>>
      BY <1>1, <2>1 DEF OnOpen
    <2> HIDE DEF r
    <2>4. Tidy(r) \in Connection /\ Tidy(r).es = "open" /\ Tidy(r).fresh
      BY <2>2, TidyKeeps
    <2>5. conn' = [conn EXCEPT ![c] = Tidy(r)]
      BY <2>3 DEF Change
    <2>6. TypeOK'
      BY <1>0, <2>3, <2>4, <2>5 DEF world, view, TypeOK
    <2> QED BY <1>0, <2>1, <2>3, <2>4, <2>5, <2>6
            DEF view, LiveInv, TypeOK, FreshIsLive, OneStream, LiveMeansConnected, Live
  <1>2. CASE OnMessage(c)
    <2> DEFINE r == [conn[c] EXCEPT !.wire = Tail(@)]
    <2>1. conn[c].wire \in Seq(Hex) /\ conn[c].wire # << >>
      BY <1>0, <1>2 DEF OnMessage, Connection
    <2>2. Head(conn[c].wire) \in Hex /\ Tail(conn[c].wire) \in Seq(Hex)
      BY <2>1
    <2>3. r \in Connection /\ r.es = conn[c].es /\ r.fresh = conn[c].fresh
      BY <1>0, <2>2 DEF Connection
    <2>4. Change(c, r) /\ UNCHANGED <<page, hook>>
      BY <1>2 DEF OnMessage
    <2> HIDE DEF r
    <2>5. Quiet(conn')
      BY <1>0, <2>3, <2>4, ChangeIsQuiet
    <2>6. spans' \in Seq(Hex)
      BY <1>0, <1>2, <2>2 DEF OnMessage, Collected, TypeOK
    <2>7. TypeOK'
      BY <1>0, <1>2, <2>5, <2>6 DEF OnMessage, world, hook, Quiet, TypeOK
    <2> QED BY <2>4, <2>5, <2>7, QuietStep DEF LiveInv
  <1> QED BY <1>1, <1>2

\* What happens at the route and between the two ends.
LEMMA RouteStep ==
    ASSUME LiveInv,
           \/ \E s \in Spans : Announce(s)
           \/ \E c \in Conns : OfRoute(c) \/ RedisDrops(c) \/ GiveUp(c) \/ Cut(c)
    PROVE  LiveInv'
  <1>0. TypeOK /\ \A c \in Conns : conn[c] \in Connection
    BY DEF LiveInv, TypeOK
  <1>1. ASSUME NEW s \in Spans, Announce(s) PROVE LiveInv'
    <2>1. \A c \in Conns : /\ Relayed(conn[c], s) \in Connection
                           /\ Relayed(conn[c], s).es = conn[c].es
                           /\ Relayed(conn[c], s).fresh = conn[c].fresh
      <3> SUFFICES ASSUME NEW c \in Conns
                   PROVE  /\ Relayed(conn[c], s) \in Connection
                          /\ Relayed(conn[c], s).es = conn[c].es
                          /\ Relayed(conn[c], s).fresh = conn[c].fresh
        OBVIOUS
      <3>1. Append(conn[c].wire, Frame(s)) \in Seq(Hex) /\ conn[c].sent \cup {s} \subseteq Spans
        BY <1>0, HexType DEF Connection
      <3> QED BY <1>0, <3>1 DEF Relayed, Connection
    <2>2. Quiet(conn')
      BY <1>0, <1>1, <2>1 DEF Announce, Quiet, Connection
    <2>3. TypeOK'
      BY <1>0, <1>1, <2>2 DEF Announce, world, view, hook, Quiet, TypeOK
    <2> QED BY <1>1, <2>2, <2>3, QuietStep DEF Announce, view, LiveInv
  <1>2. ASSUME NEW c \in Conns, NEW r \in Connection, Change(c, r),
               r.es = conn[c].es, r.fresh = conn[c].fresh,
               UNCHANGED <<world, view, hook>>, faults' \in [FaultKinds -> Nat]
        PROVE  LiveInv'
    <2>1. Quiet(conn')
      BY <1>0, <1>2, ChangeIsQuiet
    <2>2. TypeOK'
      BY <1>0, <1>2, <2>1 DEF world, view, hook, Quiet, TypeOK
    <2> QED BY <1>2, <2>1, <2>2, QuietStep DEF view, LiveInv
  <1>3. ASSUME NEW c \in Conns, OfRoute(c) \/ RedisDrops(c) \/ GiveUp(c) \/ Cut(c)
        PROVE  LiveInv'
    <2>1. UNCHANGED <<world, view, hook>> /\ faults' \in [FaultKinds -> Nat]
      BY <1>0, <1>3, FaultType
      DEF OfRoute, Arrive, Abort, Answered, RedisDrops, GiveUp, Cut, FaultKinds, TypeOK
    <2>2. PICK r \in Connection : Change(c, r) /\ Alike(r, conn[c])
      BY <1>0, <1>3, RouteChange
    <2> QED BY <1>2, <2>1, <2>2 DEF Alike
  <1> QED BY <1>1, <1>3

LEMMA LiveKeeps == LiveInv /\ [Next]_vars => LiveInv'
  <1> SUFFICES ASSUME LiveInv, [Next]_vars PROVE LiveInv'
    OBVIOUS
  <1>1. CASE UNCHANGED vars
    BY <1>1 DEF vars, world, view, hook, LiveInv, TypeOK, FreshIsLive, OneStream,
                LiveMeansConnected, Live
  <1>2. CASE Next
    BY <1>2, PageStep, HookStep, StreamStep, RouteStep DEF Next, OfBrowser
  <1> QED BY <1>1, <1>2

-----------------------------------------------------------------------------
(* What follows from it.                                                   *)

\* Types, callbacks and streams, for any number of connections and faults.
THEOREM LiveSafe == Spec => []LiveInv
  BY LiveStart, LiveKeeps, PTL DEF Spec

\* A page has one stream or one retry, and a page that was left has neither,
\* however its events, timers and failures interleave.
THEOREM PageHasOneStream == Spec => []OneStream
  <1>1. LiveInv => OneStream
    BY DEF LiveInv
  <1> QED BY <1>1, LiveSafe, PTL

\* The badge says Live over an open stream only, with the delay reset.
THEOREM BadgeIsTrue == Spec => []LiveMeansConnected
  <1>1. LiveInv => LiveMeansConnected
    BY DEF LiveInv
  <1> QED BY <1>1, LiveSafe, PTL

-----------------------------------------------------------------------------
(* What the connections carry and the page shows.                          *)

\* Only what the ingester publishes is on a wire and in the list, ...
AllFrames ==
    /\ \A c \in Conns : \A i \in DOMAIN conn[c].wire : conn[c].wire[i].case = "lower"
    /\ \A i \in DOMAIN spans : spans[i].case = "lower"

\* ... where nothing is twice, ...
NoRepeats == \A i, j \in DOMAIN spans : spans[i] = spans[j] => i = j

\* ... and rows are what a query found, which finds what an earlier one found.
RowsAreStored ==
    /\ \A s \in Spans : rows[Row(s)] <= stored[s] /\ fetched[Row(s)] <= stored[s]
    /\ fetching => page = "mounted" /\ \A s \in Spans : rows[Row(s)] <= fetched[Row(s)]

PageInv == LiveInv /\ AllFrames /\ NoRepeats /\ RowsAreStored /\ NothingSentIsLost

\* A connection carries on, or has lost what was on its way along with the
\* account of it.
Carries(r, old) ==
    \/ r.wire = << >> /\ r.sent = {}
    \/ /\ r.wire = old.wire /\ r.sent = old.sent
       /\ r.es \in {"connecting", "open"} => old.es \in {"connecting", "open"}
       /\ old.cut => r.cut

LEMMA TidyCarries ==
    ASSUME NEW r \in Connection, NEW old, Carries(r, old)
    PROVE  Carries(Tidy(r), old)
  <1>1. Unused.wire = << >> /\ Unused.sent = {}
    BY DEF Unused
  <1>2. LET t == [r EXCEPT !.wire = << >>, !.sent = {}, !.cut = @ /\ r.es # "closed"]
        IN  t.wire = << >> /\ t.sent = {}
    BY DEF Connection
  <1> QED BY <1>1, <1>2 DEF Tidy, Carries

LEMMA ClosedCarries ==
    ASSUME TypeOK, NEW c \in Conns \cup {None}, NEW d \in Conns
    PROVE  Carries(Closed(Outdated(conn), c)[d], conn[d])
  <1> DEFINE o == [conn[d] EXCEPT !.fresh = FALSE]
             r == [o EXCEPT !.es = "closed"]
  <1>0. conn \in [Conns -> Connection] /\ conn[d] \in Connection
    BY DEF TypeOK
  <1>1. o \in Connection /\ Carries(o, conn[d])
    BY <1>0 DEF Connection, Carries
  <1>2. Outdated(conn)[d] = o
    BY DEF Outdated
  <1> HIDE DEF o
  <1>3. r \in Connection /\ Carries(r, conn[d])
    BY <1>1 DEF Connection, Carries
  <1>4. Closed(Outdated(conn), c)[d] = o \/ Closed(Outdated(conn), c)[d] = Tidy(r)
    BY <1>2 DEF Closed, Outdated
  <1> HIDE DEF r
  <1> QED BY <1>1, <1>3, <1>4, TidyCarries

\* A new connection begins with nothing.
LEMMA ConnectCarries ==
    ASSUME NEW cs, Connect(cs), cs \in [Conns -> Connection], NEW d \in Conns, NEW old,
           Carries(cs[d], old)
    PROVE  Carries(conn'[d], old)
  <1> DEFINE r == [Unused EXCEPT !.es = "connecting", !.fresh = TRUE]
  <1>1. r.wire = << >> /\ r.sent = {}
    BY DEF Unused
  <1>2. conn' = [cs EXCEPT ![NewOne(cs)] = r]
    BY DEF Connect
  <1> HIDE DEF r
  <1> QED BY <1>1, <1>2 DEF Carries

LEMMA ChangeCarries ==
    ASSUME TypeOK, NEW c \in Conns, NEW r \in Connection, Change(c, r),
           Carries(r, conn[c]), NEW d \in Conns
    PROVE  Carries(conn'[d], conn[d])
  <1>1. conn'[d] = conn[d] \/ (d = c /\ conn'[d] = Tidy(r))
    BY DEF Change, TypeOK
  <1>2. Carries(conn[d], conn[d])
    BY DEF Carries
  <1> QED BY <1>1, <1>2, TidyCarries

\* What a connection carries changes when a frame is sent or read only.
LEMMA WireEffect ==
    ASSUME LiveInv, [Next]_vars, NEW d \in Conns
    PROVE  \/ Carries(conn'[d], conn[d])
           \/ OnMessage(d)
           \/ \E s \in Spans : Announce(s)
  <1>0. /\ TypeOK /\ conn \in [Conns -> Connection] /\ conn[d] \in Connection
        /\ stream \in Conns \cup {None}
    BY DEF LiveInv, TypeOK
  <1>1. ASSUME conn' = conn PROVE Carries(conn'[d], conn[d])
    BY <1>1 DEF Carries
  <1>2. CASE \/ UNCHANGED vars \/ SessionEnds \/ SignIn \/ Load \/ Refresh \/ Refreshed
             \/ \E s \in Spans : Store(s) \/ StoreAgain(s)
    BY <1>1, <1>2 DEF vars, SessionEnds, SignIn, Load, Refresh, Refreshed, Store, StoreAgain
  <1>3. CASE Mount
    <2>1. Closed(Outdated(conn), stream) \in [Conns -> Connection]
      BY <1>0, AllClosed
    <2> QED BY <1>0, <1>3, <2>1, ClosedCarries, ConnectCarries DEF Mount
  <1>4. CASE Unmount
    BY <1>0, <1>4, ClosedCarries DEF Unmount
  <1>5. CASE TimerFires
    <2>1. Carries(conn[d], conn[d])
      BY DEF Carries
    <2>2. CASE timer = "fresh"
      BY <1>0, <1>5, <2>1, <2>2, ConnectCarries DEF TimerFires
    <2> QED BY <1>1, <1>5, <2>2 DEF TimerFires
  <1>6. ASSUME NEW c \in Conns, OnError(c) PROVE Carries(conn'[d], conn[d])
    BY <1>0, <1>6, ClosedCarries DEF OnError
  <1>7. ASSUME NEW c \in Conns, OnMessage(c), d # c PROVE Carries(conn'[d], conn[d])
    <2>1. conn'[d] = conn[d]
      BY <1>0, <1>7 DEF OnMessage, Change
    <2> QED BY <2>1 DEF Carries
  <1>8. ASSUME NEW c \in Conns, OnOpen(c) PROVE Carries(conn'[d], conn[d])
    <2>1. PICK es \in {"open", "closed"} : Change(c, [conn[c] EXCEPT !.es = es])
      BY <1>8 DEF OnOpen
    <2>2. [conn[c] EXCEPT !.es = es] \in Connection
      BY <1>0 DEF Connection
    <2>3. Carries([conn[c] EXCEPT !.es = es], conn[c])
      BY <1>0, <1>8 DEF Connection, Carries, OnOpen
    <2> QED BY <1>0, <2>1, <2>2, <2>3, ChangeCarries
  <1>9. ASSUME NEW c \in Conns, OfRoute(c) \/ RedisDrops(c) \/ GiveUp(c) \/ Cut(c)
        PROVE  Carries(conn'[d], conn[d])
    <2>1. PICK r \in Connection : Change(c, r) /\ Alike(r, conn[c])
      BY <1>0, <1>9, RouteChange
    <2>2. Carries(r, conn[c])
      BY <2>1 DEF Alike, Carries
    <2> QED BY <1>0, <2>1, <2>2, ChangeCarries
  <1> QED BY <1>2, <1>3, <1>4, <1>5, <1>6, <1>7, <1>8, <1>9 DEF Next, OfBrowser

\* The list only gets the frame at the head of the stream's wire, and starts
\* again with the page.
LEMMA SpansEffect ==
    ASSUME LiveInv, [Next]_vars
    PROVE  \/ spans' = spans
           \/ spans' = << >> /\ page' # "mounted"
           \/ \E c \in Conns : /\ OnMessage(c) /\ c = stream /\ UNCHANGED rows
                               /\ spans' = Collected(Head(conn[c].wire))
  <1>1. CASE Unmount
    BY <1>1 DEF Unmount
  <1>2. ASSUME NEW c \in Conns, OnMessage(c)
        PROVE  /\ c = stream /\ UNCHANGED rows
               /\ spans' = Collected(Head(conn[c].wire))
    <2>1. c = stream /\ conn[c].fresh
      BY <1>2 DEF OnMessage, LiveInv, OneStream, Live
    <2> QED BY <1>2, <2>1 DEF OnMessage
  <1>3. ASSUME NEW c \in Conns, OfBrowser(c) \/ OfRoute(c) \/ RedisDrops(c) \/ GiveUp(c) \/ Cut(c)
        PROVE  OnMessage(c) \/ spans' = spans
    BY <1>3 DEF OfBrowser, OnOpen, OnError, OfRoute, Arrive, Abort, Answered, RedisDrops,
                GiveUp, Cut, view
  <1>4. CASE \/ UNCHANGED vars \/ SessionEnds \/ SignIn \/ Mount \/ Refresh \/ Refreshed
             \/ Load \/ TimerFires \/ \E s \in Spans : Store(s) \/ StoreAgain(s) \/ Announce(s)
    BY <1>4 DEF vars, SessionEnds, SignIn, Load, Mount, Refresh, Refreshed, TimerFires, Store,
                StoreAgain, Announce, view
  <1> QED BY <1>1, <1>2, <1>3, <1>4 DEF Next

LEMMA CollectedType ==
    ASSUME spans \in Seq(Hex), NoRepeats, NEW x \in Hex
    PROVE  LET new == Collected(x) IN
           /\ new \in Seq(Hex)
           /\ \A i \in DOMAIN spans : i \in DOMAIN new /\ new[i] = spans[i]
           /\ \E i \in DOMAIN new : new[i] = x
           /\ \A i \in DOMAIN new : new[i] = x \/ (i \in DOMAIN spans /\ new[i] = spans[i])
           /\ \A i, j \in DOMAIN new : new[i] = new[j] => i = j
  <1>1. CASE \E i \in DOMAIN spans : spans[i] = x
    BY <1>1 DEF Collected, NoRepeats
  <1>2. CASE ~\E i \in DOMAIN spans : spans[i] = x
    <2>1. Collected(x) = Append(spans, x)
      BY <1>2 DEF Collected
    <2>2. /\ Append(spans, x) \in Seq(Hex)
          /\ DOMAIN spans = 1 .. Len(spans) /\ Len(spans) \in Nat
          /\ DOMAIN Append(spans, x) = 1 .. Len(spans) + 1
          /\ \A i \in 1 .. Len(spans) : Append(spans, x)[i] = spans[i]
          /\ Append(spans, x)[Len(spans) + 1] = x
      OBVIOUS
    <2> QED BY <1>2, <2>1, <2>2 DEF NoRepeats
  <1> QED BY <1>1, <1>2

LEMMA ReadFrame ==
    ASSUME LiveInv, AllFrames, NEW c \in Conns, OnMessage(c)
    PROVE  /\ conn[c].wire \in Seq(Hex) /\ conn[c].wire # << >>
           /\ Head(conn[c].wire) = Frame(Head(conn[c].wire).span)
           /\ Head(conn[c].wire) \in Hex
           /\ \/ conn'[c].wire = << >> /\ conn'[c].sent = {}
              \/ conn'[c].wire = Tail(conn[c].wire) /\ conn'[c].sent = conn[c].sent
  <1> DEFINE r == [conn[c] EXCEPT !.wire = Tail(@)]
  <1>0. conn[c] \in Connection /\ conn \in [Conns -> Connection]
    BY DEF LiveInv, TypeOK
  <1>1. conn[c].wire \in Seq(Hex) /\ conn[c].wire # << >>
    BY <1>0 DEF OnMessage, Connection
  <1>2. /\ Head(conn[c].wire) = conn[c].wire[1] /\ 1 \in DOMAIN conn[c].wire
        /\ Head(conn[c].wire) \in Hex /\ Tail(conn[c].wire) \in Seq(Hex)
    BY <1>1
  <1>3. Head(conn[c].wire) = Frame(Head(conn[c].wire).span)
    BY <1>2 DEF AllFrames, Hex, Frame
  <1>4. /\ r \in Connection /\ r.wire = Tail(conn[c].wire) /\ r.sent = conn[c].sent
        /\ Carries(r, r)
    BY <1>0, <1>2 DEF Connection, Carries
  <1>5. conn'[c] = Tidy(r)
    BY <1>0 DEF OnMessage, Change
  <1> HIDE DEF r
  <1>6. Carries(Tidy(r), r)
    BY <1>4, TidyCarries
  <1> QED BY <1>1, <1>2, <1>3, <1>4, <1>5, <1>6 DEF Carries

LEMMA Relays ==
    ASSUME LiveInv, NEW s \in Spans, Announce(s), NEW c \in Conns
    PROVE  \/ conn'[c] = conn[c]
           \/ /\ conn'[c].wire = Append(conn[c].wire, Frame(s))
              /\ conn'[c].sent = conn[c].sent \cup {s}
              /\ conn'[c].es = conn[c].es /\ conn'[c].cut = conn[c].cut
              /\ conn[c].wire \in Seq(Hex)
  <1>0. conn[c] \in Connection
    BY DEF LiveInv, TypeOK
  <1>1. conn'[c] = Relayed(conn[c], s)
    BY DEF Announce
  <1>2. CASE Relayed(conn[c], s) = conn[c]
    BY <1>1, <1>2
  <1>3. CASE Relayed(conn[c], s) = [conn[c] EXCEPT !.wire = Append(@, Frame(s)),
                                                  !.sent = @ \cup {s}]
    BY <1>0, <1>1, <1>3 DEF Connection
  <1> QED BY <1>2, <1>3 DEF Relayed

LEMMA FramesKeep ==
    ASSUME LiveInv, AllFrames, NoRepeats, [Next]_vars
    PROVE  AllFrames' /\ NoRepeats'
  <1>0. /\ spans \in Seq(Hex) /\ conn \in [Conns -> Connection]
    BY DEF LiveInv, TypeOK
  <1>1. ASSUME NEW d \in Conns PROVE \A i \in DOMAIN conn'[d].wire : conn'[d].wire[i].case = "lower"
    <2>0. \A i \in DOMAIN conn[d].wire : conn[d].wire[i].case = "lower"
      BY DEF AllFrames
    <2>1. CASE Carries(conn'[d], conn[d])
      BY <2>0, <2>1 DEF Carries
    <2>2. CASE OnMessage(d)
      <3>1. /\ conn[d].wire \in Seq(Hex) /\ conn[d].wire # << >>
            /\ conn'[d].wire = << >> \/ conn'[d].wire = Tail(conn[d].wire)
        BY <2>2, ReadFrame
      <3>2. CASE conn'[d].wire = Tail(conn[d].wire)
        <4>1. \A i \in DOMAIN conn'[d].wire :
                 i + 1 \in DOMAIN conn[d].wire /\ conn'[d].wire[i] = conn[d].wire[i + 1]
          BY <3>1, <3>2
        <4> QED BY <2>0, <4>1
      <3> QED BY <3>1, <3>2
    <2>3. ASSUME NEW s \in Spans, Announce(s)
          PROVE  \A i \in DOMAIN conn'[d].wire : conn'[d].wire[i].case = "lower"
      <3>1. CASE conn'[d] = conn[d]
        BY <2>0, <3>1
      <3>2. CASE conn'[d].wire = Append(conn[d].wire, Frame(s)) /\ conn[d].wire \in Seq(Hex)
        <4>1. \A i \in DOMAIN conn'[d].wire :
                 \/ conn'[d].wire[i] = Frame(s)
                 \/ i \in DOMAIN conn[d].wire /\ conn'[d].wire[i] = conn[d].wire[i]
          BY <3>2
        <4> QED BY <2>0, <4>1 DEF Frame
      <3> QED BY <2>3, <3>1, <3>2, Relays
    <2> QED BY <2>1, <2>2, <2>3, WireEffect
  <1>2. /\ \A i \in DOMAIN spans' : spans'[i].case = "lower"
        /\ \A i, j \in DOMAIN spans' : spans'[i] = spans'[j] => i = j
    <2>1. CASE spans' = spans \/ spans' = << >>
      BY <2>1 DEF AllFrames, NoRepeats
    <2>2. ASSUME NEW c \in Conns, OnMessage(c), spans' = Collected(Head(conn[c].wire))
          PROVE  /\ \A i \in DOMAIN spans' : spans'[i].case = "lower"
                 /\ \A i, j \in DOMAIN spans' : spans'[i] = spans'[j] => i = j
      <3> DEFINE x == Head(conn[c].wire)
      <3>1. x \in Hex /\ x = Frame(x.span)
        BY <2>2, ReadFrame
      <3>2. x.case = "lower"
        BY <3>1 DEF Frame
      <3> HIDE DEF x
      <3>3. /\ \A i \in DOMAIN spans' : spans'[i] = x \/ (i \in DOMAIN spans /\ spans'[i] = spans[i])
            /\ \A i, j \in DOMAIN spans' : spans'[i] = spans'[j] => i = j
        BY <1>0, <2>2, <3>1, CollectedType DEF x
      <3> QED BY <3>2, <3>3 DEF AllFrames
    <2> QED BY <2>1, <2>2, SpansEffect
  <1> QED BY <1>1, <1>2 DEF AllFrames, NoRepeats

LEMMA RowsKeep ==
    ASSUME LiveInv, RowsAreStored, [Next]_vars
    PROVE  RowsAreStored'
  <1>0. /\ TypeOK /\ \A s \in Spans : Row(s) \in Hex
        /\ \A s \in Spans : stored[s] \in Nat /\ rows[Row(s)] \in Nat /\ fetched[Row(s)] \in Nat
        /\ \A s \in Spans : Found[Row(s)] = stored[s] /\ NoRows[Row(s)] = 0
    BY HexType, RowsType DEF LiveInv, TypeOK, Rows
  <1>1. CASE UNCHANGED <<stored, page, rows, fetching, fetched>>
    BY <1>1 DEF RowsAreStored, Row
  <1>2. CASE Load \/ Unmount \/ Refresh \/ Refreshed
    <2>1. stored' = stored
      BY <1>2 DEF Load, Unmount, Refresh, Refreshed, world
    <2>2. CASE Load
      BY <1>0, <2>1, <2>2 DEF Load, RowsAreStored, Row
    <2>3. CASE Unmount
      BY <1>0, <2>1, <2>3 DEF Unmount, RowsAreStored, Row
    <2>4. CASE Refresh
      BY <1>0, <2>1, <2>4 DEF Refresh, RowsAreStored, Row
    <2>5. CASE Refreshed
      BY <1>0, <2>1, <2>5 DEF Refreshed, RowsAreStored, Row
    <2> QED BY <1>2, <2>2, <2>3, <2>4, <2>5
  <1>3. CASE Mount
    BY <1>3 DEF Mount, world, RowsAreStored, Row
  <1>4. ASSUME NEW s \in Spans, Store(s) \/ StoreAgain(s) PROVE RowsAreStored'
    <2>0. stored \in [Spans -> Nat]
      BY <1>0 DEF TypeOK
    <2>1. \A u \in Spans : stored'[u] >= stored[u] /\ stored'[u] \in Nat
      <3>1. CASE Store(s)
        BY <2>0, <3>1 DEF Store
      <3>2. CASE StoreAgain(s)
        BY <2>0, <3>2 DEF StoreAgain
      <3> QED BY <1>4, <3>1, <3>2
    <2>2. UNCHANGED view
      BY <1>4 DEF Store, StoreAgain
    <2> QED BY <1>0, <2>1, <2>2 DEF view, RowsAreStored, Row
  <1>5. CASE \/ UNCHANGED vars \/ SessionEnds \/ SignIn \/ TimerFires
             \/ \E s \in Spans : Announce(s)
    BY <1>1, <1>5 DEF vars, SessionEnds, SignIn, TimerFires, Announce, world, view
  <1>6. ASSUME NEW c \in Conns, OfBrowser(c) \/ OfRoute(c) \/ RedisDrops(c) \/ GiveUp(c) \/ Cut(c)
        PROVE  RowsAreStored'
    BY <1>1, <1>6 DEF OfBrowser, OnOpen, OnMessage, OnError, OfRoute, Arrive, Abort,
                      Answered, RedisDrops, GiveUp, Cut, world, view
  <1> QED BY <1>2, <1>3, <1>4, <1>5, <1>6 DEF Next

\* The list keeps what it has until the page is left.
LEMMA ListGrows ==
    ASSUME LiveInv, AllFrames, NoRepeats, [Next]_vars, page' = "mounted", NEW s \in Spans,
           Listed(s)
    PROVE  Listed(s)'
  <1>1. PICK i \in DOMAIN spans : spans[i] = Frame(s)
    BY DEF Listed
  <1>2. i \in DOMAIN spans' /\ spans'[i] = spans[i]
    <2>1. ASSUME NEW c \in Conns, OnMessage(c), spans' = Collected(Head(conn[c].wire))
          PROVE  i \in DOMAIN spans' /\ spans'[i] = spans[i]
      <3>1. Head(conn[c].wire) \in Hex /\ spans \in Seq(Hex)
        BY <2>1, ReadFrame DEF LiveInv, TypeOK
      <3> QED BY <2>1, <3>1, CollectedType
    <2> QED BY <2>1, SpansEffect
  <1> QED BY <1>1, <1>2 DEF Listed, Frame

LEMMA TailHas ==
    ASSUME NEW S, NEW w \in Seq(S), w # << >>
    PROVE  \A i \in DOMAIN w : \/ w[i] = Head(w)
                               \/ i - 1 \in DOMAIN Tail(w) /\ Tail(w)[i - 1] = w[i]
  OBVIOUS

LEMMA AppendHas ==
    ASSUME NEW S, NEW w \in Seq(S), NEW x \in S
    PROVE  /\ \A i \in DOMAIN w : i \in DOMAIN Append(w, x) /\ Append(w, x)[i] = w[i]
           /\ Len(w) + 1 \in DOMAIN Append(w, x) /\ Append(w, x)[Len(w) + 1] = x
  OBVIOUS

LEMMA SentKeeps ==
    ASSUME LiveInv, LiveInv', AllFrames, NoRepeats, [Next]_vars, NothingSentIsLost
    PROVE  NothingSentIsLost'
  <1> DEFINE Coming(c, s) == \E i \in DOMAIN conn[c].wire : conn[c].wire[i] = Frame(s)
             ComingNext(c, s) == \E i \in DOMAIN conn'[c].wire : conn'[c].wire[i] = Frame(s)
  <1> SUFFICES ASSUME NEW c \in Conns, Live(c)', ~conn'[c].cut, NEW s \in conn'[c].sent
               PROVE  Listed(s)' \/ ComingNext(c, s)
    BY DEF NothingSentIsLost, Frame
  <1>0. /\ page' = "mounted" /\ s \in Spans
        /\ spans \in Seq(Hex) /\ conn \in [Conns -> Connection]
    BY DEF LiveInv, TypeOK, OneStream, Connection
  <1>1. ASSUME Live(c), ~conn[c].cut, s \in conn[c].sent
        PROVE  Listed(s)' \/ Coming(c, s)
    BY <1>0, <1>1, ListGrows DEF NothingSentIsLost
  <1>2. CASE Carries(conn'[c], conn[c])
    <2>1. conn'[c].wire = conn[c].wire /\ Live(c) /\ ~conn[c].cut /\ s \in conn[c].sent
      BY <1>2 DEF Carries, Live
    <2> QED BY <1>1, <2>1
  <1>3. CASE OnMessage(c)
    <2> DEFINE x == Head(conn[c].wire)
    <2>1. /\ conn[c].wire \in Seq(Hex) /\ conn[c].wire # << >> /\ x \in Hex
          /\ conn'[c].wire = Tail(conn[c].wire) /\ s \in conn[c].sent
      BY <1>3, ReadFrame
    <2>2. Live(c) /\ ~conn[c].cut
      <3> DEFINE r == [conn[c] EXCEPT !.wire = Tail(@)]
      <3>0. conn[c] \in Connection
        BY <1>0
      <3>1. conn'[c] = Tidy(r) /\ conn[c].es = "open"
        BY <1>0, <1>3 DEF OnMessage, Change
      <3>2. r.cut = conn[c].cut /\ r.es = "open"
        BY <3>0, <3>1 DEF Connection
      <3>3. r.cut => Tidy(r).cut \/ Tidy(r) = Unused
        <4>1. r.cut => [r EXCEPT !.wire = << >>, !.sent = {},
                                 !.cut = @ /\ r.es # "closed"].cut
          BY <3>0, <3>2 DEF Connection
        <4> QED BY <4>1 DEF Tidy
      <3>4. Unused.es = "unused"
        BY DEF Unused
      <3> QED BY <3>1, <3>2, <3>3, <3>4 DEF Live
    <2>3. CASE Coming(c, s) /\ x # Frame(s)
      <3>1. PICK i \in DOMAIN conn[c].wire : conn[c].wire[i] = Frame(s)
        BY <2>3
      <3>2. i - 1 \in DOMAIN conn'[c].wire /\ conn'[c].wire[i - 1] = conn[c].wire[i]
        BY <2>1, <2>3, <3>1, TailHas
      <3> QED BY <3>1, <3>2
    <2>4. CASE x = Frame(s)
      <3>1. spans' = Collected(x)
        <4>1. c = stream /\ conn[c].fresh
          BY <1>3 DEF OnMessage, LiveInv, OneStream, Live
        <4> QED BY <1>3, <4>1 DEF OnMessage
      <3>2. \E i \in DOMAIN spans' : spans'[i] = x
        BY <1>0, <2>1, <3>1, CollectedType
      <3> QED BY <2>4, <3>2 DEF Listed, Frame
    <2> QED BY <1>1, <2>1, <2>2, <2>3, <2>4
  <1>4. ASSUME NEW u \in Spans, Announce(u) PROVE Listed(s)' \/ ComingNext(c, s)
    <2>1. CASE conn'[c] = conn[c]
      BY <1>1, <2>1 DEF Live
    <2>2. CASE /\ conn'[c].wire = Append(conn[c].wire, Frame(u))
               /\ conn'[c].sent = conn[c].sent \cup {u}
               /\ conn'[c].es = conn[c].es /\ conn'[c].cut = conn[c].cut
               /\ conn[c].wire \in Seq(Hex)
      <3>1. /\ \A i \in DOMAIN conn[c].wire :
                  i \in DOMAIN conn'[c].wire /\ conn'[c].wire[i] = conn[c].wire[i]
            /\ \E i \in DOMAIN conn'[c].wire : conn'[c].wire[i] = Frame(u)
        BY <2>2, HexType, AppendHas
      <3>2. CASE s = u
        BY <3>1, <3>2
      <3>3. CASE s # u
        <4>1. Live(c) /\ ~conn[c].cut /\ s \in conn[c].sent
          BY <2>2, <3>3 DEF Live
        <4> QED BY <1>1, <3>1, <4>1
      <3> QED BY <3>2, <3>3
    <2> QED BY <1>4, <2>1, <2>2, Relays
  <1> QED BY <1>2, <1>3, <1>4, WireEffect

LEMMA PageStart == Init => PageInv
  <1> SUFFICES ASSUME Init PROVE PageInv
    OBVIOUS
  <1>1. AllFrames /\ NoRepeats /\ NothingSentIsLost
    BY DEF Init, Unused, AllFrames, NoRepeats, NothingSentIsLost
  <1>2. RowsAreStored
    BY HexType DEF Init, RowsAreStored, NoRows
  <1> QED BY <1>1, <1>2, LiveStart DEF PageInv

LEMMA PageKeeps == PageInv /\ [Next]_vars => PageInv'
  BY LiveKeeps, FramesKeep, RowsKeep, SentKeeps DEF PageInv

LEMMA PageShowsOnce == PageInv => ShownOncePerCopy
  <1> SUFFICES ASSUME PageInv, NEW s \in Spans
               PROVE  /\ rows[Row(s)] <= stored[s]
                      /\ Cardinality({i \in DOMAIN spans : spans[i].span = s /\ New(spans[i])})
                            <= IF rows[Row(s)] > 0 THEN 0 ELSE 1
    BY DEF ShownOncePerCopy
  <1> DEFINE L == {i \in DOMAIN spans : spans[i].span = s /\ New(spans[i])}
  <1>1. rows[Row(s)] <= stored[s] /\ rows[Row(s)] \in Nat
    BY HexType DEF PageInv, RowsAreStored, LiveInv, TypeOK, Rows
  <1>2. \A i \in DOMAIN spans : spans[i].span = s =>
           spans[i] = Frame(s) /\ ToUpperCase(spans[i]) = Row(s)
    <2> SUFFICES ASSUME NEW i \in DOMAIN spans, spans[i].span = s
                 PROVE  spans[i] = Frame(s) /\ ToUpperCase(spans[i]) = Row(s)
      OBVIOUS
    <2>1. spans[i] \in Hex /\ spans[i].case = "lower"
      BY DEF PageInv, LiveInv, TypeOK, AllFrames
    <2>2. spans[i] = Frame(s)
      BY <2>1 DEF Hex, Frame
    <2>3. ToUpperCase(Frame(s)) = Row(s)
      BY DEF ToUpperCase, Frame, Row
    <2> QED BY <2>2, <2>3
  <1>3. L = {} \/ \E i : L = {i}
    BY <1>2 DEF PageInv, NoRepeats
  <1>4. rows[Row(s)] > 0 => L = {}
    BY <1>1, <1>2 DEF New
  <1>5. \A y : Cardinality({y}) = 1
    BY FS_Singleton
  <1>6. Cardinality({}) = 0
    BY FS_EmptySet
  <1> HIDE DEF L
  <1>7. L = {} => Cardinality(L) = 0
    BY <1>6
  <1>8. Cardinality(L) \in {0, 1}
    BY <1>3, <1>5, <1>6
  <1>9. Cardinality(L) <= IF rows[Row(s)] > 0 THEN 0 ELSE 1
    BY <1>4, <1>7, <1>8
  <1> QED BY <1>1, <1>9 DEF L

LEMMA ShownStays ==
    ASSUME PageInv, [Next]_vars, page = "mounted", page' = "mounted",
           NEW s \in Spans, Visible(s)
    PROVE  Visible(s)'
  <1>1. CASE Listed(s)
    <2>1. Listed(s)'
      BY <1>1, ListGrows DEF PageInv
    <2> QED BY <2>1 DEF Listed, Visible
  <1>2. CASE rows[Row(s)] > 0
    <2>1. rows'[Row(s)] >= rows[Row(s)]
      <3>0. rows[Row(s)] \in Nat /\ fetched[Row(s)] \in Nat
        BY HexType DEF PageInv, LiveInv, TypeOK, Rows
      <3>1. CASE rows' = rows \/ Refreshed
        BY <3>0, <3>1 DEF Refreshed, PageInv, RowsAreStored
      <3>2. CASE \/ UNCHANGED vars \/ SessionEnds \/ SignIn \/ Mount \/ Refresh \/ TimerFires
                 \/ \E u \in Spans : Store(u) \/ StoreAgain(u) \/ Announce(u)
        BY <3>1, <3>2 DEF vars, SessionEnds, SignIn, Mount, Refresh, TimerFires, Store,
                          StoreAgain, Announce, view
      <3>3. ASSUME NEW c \in Conns,
                   OfBrowser(c) \/ OfRoute(c) \/ RedisDrops(c) \/ GiveUp(c) \/ Cut(c)
            PROVE  rows' = rows
        BY <3>3 DEF OfBrowser, OnOpen, OnMessage, OnError, OfRoute, Arrive, Abort, Answered,
                    RedisDrops, GiveUp, Cut, view
      <3> QED BY <3>0, <3>1, <3>2, <3>3 DEF Next, Load, Unmount
    <2>2. rows'[Row(s)] > 0
      <3>1. PageInv' /\ Row(s) \in Hex
        BY PageKeeps, HexType
      <3>2. rows[Row(s)] \in Nat /\ rows'[Row(s)] \in Nat
        BY <3>1 DEF PageInv, LiveInv, TypeOK, Rows
      <3> QED BY <1>2, <2>1, <3>2
    <2> QED BY <2>2 DEF Visible, Row
  <1> QED BY <1>1, <1>2 DEF Listed, Visible

\* The page's invariant with what its connections carry.
THEOREM PageSafe == Spec => []PageInv
  BY PageStart, PageKeeps, PTL DEF Spec

\* A frame of a connection that was not cut is on the page or on its way:
\* none falls between the route, the wire and the callbacks.
THEOREM SentIsNotLost == Spec => []NothingSentIsLost
  <1>1. PageInv => NothingSentIsLost
    BY DEF PageInv
  <1> QED BY <1>1, PageSafe, PTL

\* However often spans are published and the page rendered, a span has at most
\* one row for each stored copy, and the live list adds none to them, though
\* rows and frames write it differently.
THEOREM ShownOnce == Spec => []ShownOncePerCopy
  BY PageSafe, PageShowsOnce, PTL

\* A span stays on an open page over reconnects, and over a refresh whose
\* query is older than the span.
THEOREM ShownSpansStay == Spec => VisibleStays
  <1>1. PageInv /\ [Next]_vars =>
           [page = "mounted" /\ page' = "mounted" =>
               \A s \in Spans : Visible(s) => Visible(s)']_vars
    BY ShownStays
  <1> QED BY <1>1, PageSafe, PTL DEF Spec, VisibleStays

=============================================================================
