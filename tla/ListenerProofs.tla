--------------------------- MODULE ListenerProofs ---------------------------
(***************************************************************************)
(* Listener keeps its promises for any number of associations, addresses   *)
(* and connection IDs, any queue sizes, and any interleaving of the read   *)
(* loop, Accept, Close and the goroutines of the connections.              *)
(***************************************************************************)
EXTENDS ListenerSteps, FiniteSetTheorems, TLAPS

USE ZenonT(30)

(***************************************************************************)
(* What the inductive invariant implies.                                   *)
(***************************************************************************)
\* The inductive invariant holds in every reachable state.
THEOREM ListenerInvariant == ListenerSpec => []LInv
  BY InitHolds, NextKeeps, PTL DEF ListenerSpec

\* A connection that failed or was closed keeps no traffic secrets once the
\* calls that end it have returned, for any number of connections and any race
\* of the handshake, failConnection and Close.
THEOREM SecretsAreCleared == ListenerSpec => []SecretsCleared
<1>1. LInv => SecretsCleared
  BY DEF LInv, ConnsOK, ConnOK, SecretsCleared, Ended, Handshaking
<1> QED
  BY <1>1, ListenerInvariant, PTL

\* A closed session holds no datagram, wherever its close falls between the
\* read loop's send and its look at the closed flag (enqueue).
THEOREM QueuesAreReleased == ListenerSpec => []QueuesReleased
<1>1. LInv => QueuesReleased
  BY DEF LInv, SessionsOK
<1> QED
  BY <1>1, ListenerInvariant, PTL

\* The tables of an open Listener name no dead association, but for the two
\* exceptions RoutesAreLive names: removeSession, rebindSession and Accept
\* leave nothing else behind.
THEOREM RoutesStayLive == ListenerSpec => []RoutesAreLive
<1>1. LInv => RoutesAreLive
  BY DEF LInv, EntriesOK, Live, RoutesAreLive
<1> QED
  BY <1>1, ListenerInvariant, PTL

\* Close of the Listener leaves no association open: each one is in its list,
\* or is about to be closed by the connection that replaced it.
THEOREM ShutdownIsComplete == ListenerSpec => []ShutdownClosesAll
<1>1. LInv => ShutdownClosesAll
  BY DEF LInv, OpenOK, ShutdownClosesAll, Replaced
<1> QED
  BY <1>1, ListenerInvariant, PTL

LEMMA FewerIDs ==
    ASSUME PrefixFree, \A c \in CIDs : table'.cids[c] # Nil => table.cids[c] # Nil
    PROVE  PrefixFree'
  BY DEF PrefixFree, Registered

LEMMA RegisterKeepsPrefixFree ==
    ASSUME LInv, PrefixFree, NEW s \in Sessions, NEW c \in CIDs, canRegister(table, s, c),
           table' = addCIDs(table, s, {c})
    PROVE  PrefixFree'
<1>1. \A d \in CIDs : d # c => table'.cids[d] = table.cids[d]
  BY DEF LInv, TablesOK, addCIDs
<1>2. \A d \in CIDs : table.cids[d] # Nil /\ (PrefixRelated(c, d) \/ PrefixRelated(d, c)) => d = c
  <2>1. \A d : PrefixRelated(d, c) => PrefixRelated(c, d)
    BY DEF PrefixRelated
  <2> QED
    BY <2>1 DEF canRegister, Registered
<1>3. ASSUME NEW d \in CIDs, NEW e \in CIDs, table'.cids[d] # Nil, table'.cids[e] # Nil,
             PrefixRelated(d, e)
      PROVE  d = e
  BY <1>1, <1>2, <1>3 DEF PrefixFree, Registered
<1> QED
  BY <1>3 DEF PrefixFree, Registered

\* What each step leaves of the tables of addresses and of connection IDs.
LEMMA TableSteps ==
    ASSUME LInv, [ListenerNext]_listenerVars
    PROVE  \/ UNCHANGED table
           \/ shutdown
           \/ \E s \in Sessions : RemoveSession(s) \/ connectionValidated(s) \/ DispatchRebinds(s)
           \/ \E c \in CIDs : /\ acceptor \in Sessions /\ canRegister(table, acceptor, c)
                              /\ table' = addCIDs(table, acceptor, {c})
           \/ \E a \in Addresses : \E where \in {"sessions", "pending"} :
                 /\ where = "sessions" => table.sessions[a] = Nil
                 /\ table' = [table EXCEPT ![where][a] = NextSession]
<1>1. CASE UNCHANGED listenerVars
  BY <1>1 DEF listenerVars
<1>2. ASSUME NEW a \in Addresses, readLoop(a)
      PROVE  \/ UNCHANGED table
             \/ \E where \in {"sessions", "pending"} :
                   /\ where = "sessions" => table.sessions[a] = Nil
                   /\ table' = [table EXCEPT ![where][a] = NextSession]
  <2>1. ASSUME NEW bytes, RouteCID(a, bytes) PROVE UNCHANGED table
    BY <2>1 DEF RouteCID
  <2>2. CASE RouteExisting(a)
    BY <2>2 DEF RouteExisting
  <2>3. ASSUME NEW where \in {"sessions", "pending"}, NewSession(a, where)
        PROVE  UNCHANGED table \/ table' = [table EXCEPT ![where][a] = NextSession]
    BY <2>3 DEF NewSession
  <2>4. CASE RouteInitial(a)
    BY <2>2, <2>3, <2>4 DEF RouteInitial, Unclaimed
  <2> QED
    BY <1>2, <2>1, <2>2, <2>4 DEF readLoop
<1>3. CASE Push \/ AfterPush
  BY <1>3 DEF Push, AfterPush
<1>4. CASE AcceptStep
  <2>1. CASE AcceptTakes
    BY <2>1 DEF AcceptTakes
  <2>2. CASE AcceptIdentifies
    <3>1. acceptor \in Sessions
      BY <2>2, NilIsNoSession DEF AcceptIdentifies, LInv, AcceptOK
    <3> QED
      BY <2>2, <3>1 DEF AcceptIdentifies, Refused, Accepted
  <2> QED
    BY <1>4, <2>1, <2>2 DEF AcceptStep
<1>5. ASSUME NEW s \in Sessions, ShutdownCloses(s) PROVE UNCHANGED table
  BY <1>5 DEF ShutdownCloses
<1>6. ASSUME NEW s \in Sessions, HandshakeStep(s)
      PROVE  UNCHANGED table \/ connectionValidated(s)
  BY <1>6 DEF HandshakeStep, StartHandshake, HandshakeReads, InstallKeys, CloseOld,
     completeHandshake
<1>7. ASSUME NEW s \in Sessions, ReaderStep(s)
      PROVE  UNCHANGED table \/ DispatchRebinds(s)
  BY <1>7 DEF ReaderStep, startRecordReader, ReadRecord, Dispatch, DispatchFails,
     finishRecordReader
<1>8. ASSUME NEW s \in Sessions, EndStep(s) \/ Close(s)
      PROVE  UNCHANGED table \/ RemoveSession(s)
  BY <1>8 DEF EndStep, TimerFails, FailClears, FailCloses, CloseClears,
     CloseTransport, Close
<1> QED
  BY <1>1, <1>2, <1>3, <1>4, <1>5, <1>6, <1>7, <1>8 DEF ListenerNext

\* The facts of <1>2 and <1>4 of RebindsKeeps.
LEMMA RebindTables ==
    ASSUME LInv, NEW s \in Sessions, DispatchRebinds(s)
    PROVE  LET a == sess[s].remote
               b == conn[s].from
           IN  /\ a \in Addresses /\ b \in Addresses /\ a # b /\ sess[s].validated
               /\ table.sessions[b] # s
               /\ table' = rebindTable(table, s, a, b)
               /\ sess'[s].remote = b /\ sess'[s].validated = sess[s].validated
<1> DEFINE a == sess[s].remote
           b == conn[s].from
<1>1. SessionOK(s, sess[s]) /\ DOMAIN sess = Sessions /\ ConnOK(conn[s]) /\ DOMAIN conn = Sessions
  BY SessionTyped
<1>2. conn[s].hs = "done" /\ ~conn[s].err /\ b \in Addresses /\ a # b
  BY <1>1 DEF DispatchRebinds, ConnOK, Handshaking, Ended
<1>3. sess[s].state # "unused" /\ sess[s].validated /\ a \in Addresses
  BY <1>1, <1>2 DEF LInv, StagesOK, StageOK, SessionOK, Proved
<1>4. table.sessions[b] # s
  BY <1>2, NilIsNoSession DEF LInv, PlacesOK
<1>5. /\ table' = rebindTable(table, s, a, b)
      /\ sess'[s] = [sess[s] EXCEPT !.remote = b, !.late = @ \/ sess[s].state = "closed"]
  BY <1>1 DEF DispatchRebinds, rebindSession
<1>6. sess'[s].remote = b
  BY <1>1, <1>5 DEF SessionOK, SessionFields
<1>7. sess'[s].validated = sess[s].validated
  BY <1>1, <1>5 DEF SessionOK, SessionFields
<1> QED
  BY <1>2, <1>3, <1>4, <1>5, <1>6, <1>7

LEMMA NextKeepsPrefixFree ==
    ASSUME LInv, PrefixFree, [ListenerNext]_listenerVars
    PROVE  PrefixFree'
<1>1. CASE UNCHANGED table
  BY <1>1, FewerIDs
<1>2. CASE shutdown
  <2>1. \A c \in CIDs : table'.cids[c] = Nil
    BY <1>2 DEF shutdown, EmptyTable
  <2> QED
    BY <2>1, FewerIDs
<1>3. ASSUME NEW s \in Sessions, RemoveSession(s) PROVE PrefixFree'
  <2>1. \A c \in CIDs : table'.cids[c] = IF table.cids[c] = s THEN Nil ELSE table.cids[c]
    BY <1>3 DEF RemoveSession, removeSession, LInv, TablesOK
  <2> QED
    BY <2>1, FewerIDs
<1>4. ASSUME NEW s \in Sessions, connectionValidated(s) PROVE PrefixFree'
  <2>1. table'.cids = table.cids
    BY <1>4 DEF connectionValidated, LInv, TablesOK
  <2> QED
    BY <2>1, FewerIDs
<1>5. ASSUME NEW s \in Sessions, DispatchRebinds(s) PROVE PrefixFree'
  <2>1. \A c \in CIDs : table'.cids[c] # Nil => table.cids[c] # Nil
    BY SMTT(30), <1>5, RebindTables, RebindShape DEF LInv
  <2> QED
    BY <2>1, FewerIDs
<1>6. ASSUME NEW a \in Addresses, NEW where \in {"sessions", "pending"},
             table' = [table EXCEPT ![where][a] = NextSession]
      PROVE  PrefixFree'
  <2>1. table'.cids = table.cids
    BY <1>6 DEF LInv, TablesOK
  <2> QED
    BY <2>1, FewerIDs
<1> QED
  BY <1>1, <1>2, <1>3, <1>4, <1>5, <1>6, TableSteps, RegisterKeepsPrefixFree

\* The registered connection IDs are prefix-free whatever IDs GetConnectionID
\* returns: registerSessionCID refuses the others.
THEOREM IDsArePrefixFree == ListenerSpec => []PrefixFree
<1>1. ASSUME ListenerInit PROVE PrefixFree
  <2>1. PICK i \in DOMAIN Worlds :
          IF Worlds[i].established THEN Established(Worlds[i].address, Worlds[i]) ELSE Unused
    BY <1>1 DEF ListenerInit
  <2>2. CASE Unused
    BY <2>2 DEF Unused, EmptyTable, PrefixFree, Registered
  <2>3. CASE Established(Worlds[i].address, Worlds[i])
    <3> DEFINE cs == Range(Worlds[i].cid)
    <3>1. table = addCIDs([EmptyTable EXCEPT !.sessions[Worlds[i].address] = 1], 1, cs)
      BY <2>3 DEF Established
    <3>2. \A c, d \in cs : c = d
      BY WorldsAssumption
    <3> HIDE DEF cs
    <3>3. \A c \in CIDs : table.cids[c] # Nil => c \in cs
      BY <3>1 DEF addCIDs, EmptyTable
    <3> QED
      BY <3>2, <3>3 DEF PrefixFree, Registered
  <2> QED
    BY <2>1, <2>2, <2>3
<1> QED
  BY <1>1, NextKeepsPrefixFree, ListenerInvariant, PTL DEF ListenerSpec

\* An open association is never replaced at its address by a ClientHello:
\* only an association that proved its handshake or its path takes it over.
THEOREM OnlyValidatedReplace == ListenerSpec => ReplacedByValidated
<1> DEFINE A == \A a \in Addresses :
                   LET s == table.sessions[a]
                       new == table'.sessions[a]
                   IN  s # Nil /\ sess[s].state = "open" /\ new # s =>
                         \/ new = Nil /\ (sess'[s].remote # a \/ sess'[s].state = "closed" \/ listener'.closed)
                         \/ new # Nil /\ sess'[new].validated
<1>1. ASSUME LInv, [ListenerNext]_listenerVars PROVE A
  <2> SUFFICES ASSUME NEW a \in Addresses, table.sessions[a] # Nil,
                      sess[table.sessions[a]].state = "open",
                      table'.sessions[a] # table.sessions[a]
               PROVE  \/ /\ table'.sessions[a] = Nil
                         /\ \/ sess'[table.sessions[a]].remote # a
                            \/ sess'[table.sessions[a]].state = "closed"
                            \/ listener'.closed
                      \/ table'.sessions[a] # Nil /\ sess'[table'.sessions[a]].validated
    OBVIOUS
  <2>1. table.sessions[a] \in Sessions /\ sess[table.sessions[a]].remote = a
    BY <1>1, PlacesTyped DEF LInv, PlacesOK
  <2>2. CASE shutdown
    <3>1. table'.sessions[a] = Nil
      BY <2>2 DEF shutdown, EmptyTable
    <3>2. listener'.closed
      BY <1>1, <2>2 DEF shutdown, LInv, AcceptOK
    <3> QED
      BY <3>1, <3>2
  <2>3. ASSUME NEW s \in Sessions, RemoveSession(s) PROVE FALSE
    <3>1. table'.sessions[a] = IF table.sessions[a] = s THEN Nil ELSE table.sessions[a]
      BY <1>1, <2>3 DEF RemoveSession, removeSession, LInv, TablesOK
    <3>2. sess[s].state = "closed"
      BY <1>1, <2>3 DEF RemoveSession, LInv, SessionsOK
    <3> QED
      BY <3>1, <3>2
  <2>4. ASSUME NEW s \in Sessions, connectionValidated(s)
        PROVE  table'.sessions[a] = s /\ sess'[s].validated
    <3>1. table'.sessions[a] = s
      BY <1>1, <2>4 DEF connectionValidated, LInv, TablesOK
    <3>2. sess'[s].validated
      BY <1>1, <2>4 DEF connectionValidated, LInv, SessionsOK, SessionFields
    <3> QED
      BY <3>1, <3>2
  <2>5. ASSUME NEW s \in Sessions, DispatchRebinds(s)
        PROVE  \/ table'.sessions[a] = s /\ sess'[s].validated
               \/ table'.sessions[a] = Nil /\ table.sessions[a] = s /\ sess'[s].remote # a
    <3> DEFINE o == sess[s].remote
               b == conn[s].from
    <3>1. /\ o \in Addresses /\ b \in Addresses /\ o # b /\ sess[s].validated
          /\ table.sessions[b] # s /\ table' = rebindTable(table, s, o, b)
          /\ sess'[s].remote = b /\ sess'[s].validated = sess[s].validated
      BY <1>1, <2>5, RebindTables
    <3> HIDE DEF o, b
    <3>2. table'.sessions[a] = IF a = b THEN s
                               ELSE IF a = o /\ table.sessions[o] = s THEN Nil
                               ELSE table.sessions[a]
      BY SMTT(30), <1>1, <3>1, RebindShape DEF LInv
    <3> QED
      BY <3>1, <3>2
  <2>6. ASSUME NEW c, table' = addCIDs(table, acceptor, {c}) PROVE FALSE
    BY <1>1, <2>6 DEF addCIDs, LInv, TablesOK
  <2>7. ASSUME NEW b \in Addresses, NEW where \in {"sessions", "pending"},
               where = "sessions" => table.sessions[b] = Nil,
               table' = [table EXCEPT ![where][b] = NextSession]
        PROVE  FALSE
    BY <1>1, <2>7 DEF LInv, TablesOK
  <2>8. table' # table
    OBVIOUS
  <2> QED
    BY <1>1, <2>1, <2>2, <2>3, <2>4, <2>5, <2>6, <2>7, <2>8, TableSteps,
       NilIsNoSession
<1> QED
  BY <1>1, ListenerInvariant, PTL DEF ListenerSpec, ReplacedByValidated

(***************************************************************************)
(* The capacities.  A step adds to a queue only when there is room, closes *)
(* what it replaces, and starts an association only when the tables, and   *)
(* so the open associations in them, are fewer than MaxPendingConnections. *)
(***************************************************************************)
Current == {s \in Sessions : sess[s].state = "open"} \ Replaced
CapacityOK ==
    /\ table \in TableType
    /\ \A s \in Sessions : Fits(sess[s])
    /\ listener.world \in DOMAIN Worlds
    /\ Len(listener.accept) <= World.max
    /\ Cardinality(Current) <= World.max

LEMMA ImageOfFinite ==
    ASSUME NEW S, IsFiniteSet(S), NEW f
    PROVE  LET T == {f[x] : x \in S}
           IN  IsFiniteSet(T) /\ Cardinality(T) <= Cardinality(S)
<1> DEFINE T == {f[x] : x \in S}
           g == [x \in S |-> f[x]]
<1>1. g \in Surjection(S, T)
  BY DEF Surjection
<1> QED
  BY <1>1, FS_Surjection

LEMMA SessionsFinite == IsFiniteSet(Sessions)
  BY SMT, FS_Interval, ListenerAssumption DEF Sessions

\* A table of addresses names as many sessions as it has entries.
LEMMA TableSizes ==
    ASSUME LInv
    PROVE  LET A == {a \in Addresses : table.sessions[a] # Nil}
               P == {a \in Addresses : table.pending[a] # Nil}
           IN  /\ Cardinality(A) \in Nat /\ Cardinality(P) \in Nat
               /\ IsFiniteSet(InTables(table))
               /\ Cardinality(InTables(table)) <= Cardinality(A) + Cardinality(P)
<1> DEFINE A == {a \in Addresses : table.sessions[a] # Nil}
           P == {a \in Addresses : table.pending[a] # Nil}
           R == [s \in Sessions |-> sess[s].remote]
           T == {R[s] : s \in Sessions}
           SA == {table.sessions[a] : a \in A}
           SP == {table.pending[a] : a \in P}
<1>1. IsFiniteSet(T)
  BY SessionsFinite, ImageOfFinite
<1>2. A \subseteq T /\ P \subseteq T
  BY SMT, PlacesTyped DEF LInv, PlacesOK
<1>3. IsFiniteSet(A) /\ IsFiniteSet(P)
  <2> HIDE DEF A, P, T
  <2> QED
    BY <1>1, <1>2, FS_Subset
<1>4. InTables(table) = SA \cup SP
  BY DEF InTables
<1>5. /\ IsFiniteSet(SA) /\ Cardinality(SA) <= Cardinality(A)
      /\ IsFiniteSet(SP) /\ Cardinality(SP) <= Cardinality(P)
  <2> HIDE DEF A, P
  <2> QED
    BY <1>3, ImageOfFinite
<1> HIDE DEF A, P, SA, SP
<1>6. /\ IsFiniteSet(SA \cup SP) /\ IsFiniteSet(SA \cap SP)
      /\ Cardinality(SA \cup SP) = Cardinality(SA) + Cardinality(SP) - Cardinality(SA \cap SP)
  BY <1>5, FS_Union, FS_Intersection
<1>7. /\ Cardinality(A) \in Nat /\ Cardinality(P) \in Nat /\ Cardinality(SA) \in Nat
      /\ Cardinality(SP) \in Nat /\ Cardinality(SA \cap SP) \in Nat
  BY <1>3, <1>5, <1>6, FS_CardinalityType
<1>8. Cardinality(SA \cup SP) <= Cardinality(A) + Cardinality(P)
  BY SMT, <1>5, <1>6, <1>7
<1> QED
  BY <1>4, <1>6, <1>7, <1>8 DEF A, P

\* The read loop starts an association only below the limit.
LEMMA RoomIsRoom ==
    ASSUME LInv, listener.world \in DOMAIN Worlds, HasRoom(table)
    PROVE  IsFiniteSet(Current) /\ Cardinality(Current) \in Nat /\ Cardinality(Current) < World.max
<1>1. Current \subseteq InTables(table)
  <2> SUFFICES ASSUME NEW s \in Sessions, sess[s].state = "open", s \notin Replaced
               PROVE  s \in InTables(table)
    BY DEF Current
  <2>1. ~listener.closed
    BY DEF HasRoom
  <2>2. listener.closing = {}
    BY <2>1 DEF LInv, OpenOK
  <2> QED
    BY <2>1, <2>2 DEF LInv, OpenOK, Replaced
<1> DEFINE A == {a \in Addresses : table.sessions[a] # Nil}
           P == {a \in Addresses : table.pending[a] # Nil}
<1>2. /\ Cardinality(A) \in Nat /\ Cardinality(P) \in Nat
      /\ IsFiniteSet(InTables(table))
      /\ Cardinality(InTables(table)) <= Cardinality(A) + Cardinality(P)
  BY TableSizes
<1>3. Cardinality(A) + Cardinality(P) < World.max /\ World.max \in Nat
  BY WorldsAssumption DEF HasRoom, Size, World
<1> HIDE DEF A, P
<1>4. /\ IsFiniteSet(Current) /\ Cardinality(Current) <= Cardinality(InTables(table))
      /\ Cardinality(Current) \in Nat /\ Cardinality(InTables(table)) \in Nat
  BY <1>1, <1>2, FS_Subset, FS_CardinalityType
<1> QED
  BY SMT, <1>2, <1>3, <1>4

\* A session starts, open and in a table or, when the accept channel is full,
\* closed.
Starts ==
    /\ HasRoom(table) /\ Offered /\ UNCHANGED conn
    /\ listener' = [listener EXCEPT !.accept = Append(@, NextSession)]
    /\ \A y \in Sessions : y # NextSession => sess'[y] = sess[y]
    /\ Fits(sess'[NextSession])

LEMMA ReadLoopShrinks ==
    ASSUME LInv, NEW a \in Addresses, readLoop(a)
    PROVE  Starts \/ (UNCHANGED listener /\ \A y \in Sessions : Shrinks(sess[y], sess'[y]))
<1>1. DOMAIN sess = Sessions
  BY DEF LInv, SessionsOK
<1>2. CASE UNCHANGED <<sess, listener>>
  BY <1>2 DEF Shrinks
<1>3. ASSUME NEW where, NewSession(a, where)
      PROVE  Starts \/ (UNCHANGED listener /\ \A y \in Sessions : Shrinks(sess[y], sess'[y]))
  <2> DEFINE s == NextSession
             x == newPacketSession(a)
             z == closeWithoutCallback(newPacketSession(a))
  <2>1. HasRoom(table)
    BY <1>3 DEF NewSession
  <2>2. s \in Sessions
    BY <2>1, FreshSession
  <2>3. /\ x.in = <<>> /\ x.remote = a
        /\ z.in = <<>> /\ z.remote = a /\ z.state = "closed"
    BY DEF newPacketSession, closeWithoutCallback, NoSession
  <2> HIDE DEF x, z
  <2>4. Fits(x) /\ Fits(z)
    BY SMTT(30), <2>3, ListenerAssumption DEF Fits
  <2>5. CASE Offered
    <3>1. /\ SessionChanges(s, x) /\ UNCHANGED conn
          /\ listener' = [listener EXCEPT !.accept = Append(@, NextSession)]
      BY <1>3, <2>5 DEF NewSession, SessionChanges, x
    <3> HIDE DEF s
    <3>2. sess'[s] = x /\ \A y \in Sessions : y # s => sess'[y] = sess[y]
      BY <1>1, <2>2, <3>1 DEF SessionChanges
    <3> QED
      BY <2>1, <2>4, <2>5, <3>1, <3>2 DEF Starts, s
  <2>6. CASE ~Offered
    <3>1. SessionChanges(s, z) /\ UNCHANGED listener
      BY <1>3, <2>6 DEF NewSession, SessionChanges, z
    <3> HIDE DEF s
    <3>2. Shrinks(sess[s], z)
      BY <2>3, <2>4 DEF Shrinks
    <3> QED
      BY <3>1, <3>2, OneShrinks
  <2> QED
    BY <2>5, <2>6
<1>4. ASSUME NEW bytes, RouteCID(a, bytes) PROVE UNCHANGED <<sess, listener>>
  BY <1>4 DEF RouteCID
<1>5. CASE RouteExisting(a)
  BY <1>2, <1>5 DEF RouteExisting
<1>6. CASE RouteInitial(a)
  BY <1>3, <1>5, <1>6 DEF RouteInitial
<1> QED
  BY <1>2, <1>4, <1>5, <1>6 DEF readLoop

LEMMA StartsOrShrinks ==
    ASSUME LInv, [ListenerNext]_listenerVars
    PROVE  \/ Starts
           \/ /\ \A y \in Sessions : Shrinks(sess[y], sess'[y])
              /\ listener'.world = listener.world
              /\ Len(listener'.accept) \in Nat /\ Len(listener'.accept) <= Len(listener.accept)
<1> DEFINE Same == /\ listener'.world = listener.world
                   /\ Len(listener'.accept) \in Nat
                   /\ Len(listener'.accept) <= Len(listener.accept)
           Less == \A y \in Sessions : Shrinks(sess[y], sess'[y])
<1> SUFFICES Starts \/ (Same /\ Less)
  OBVIOUS
<1>1. listener.accept \in Seq(Sessions) /\ DOMAIN listener = {"closed", "accept", "closing", "world"}
  BY DEF LInv, AcceptOK
<1>2. ASSUME UNCHANGED listener PROVE Same
  BY SMTT(30), <1>1, <1>2
<1>3. CASE shutdown
  <2>1. Same
    BY SMTT(30), <1>1, <1>3 DEF shutdown
  <2>2. UNCHANGED sess
    BY <1>3 DEF shutdown
  <2> QED
    BY <2>1, <2>2 DEF Shrinks
<1>4. ASSUME NEW s \in Sessions, ShutdownCloses(s) PROVE Same /\ Less
  <2>1. Same
    BY SMTT(30), <1>1, <1>4 DEF ShutdownCloses
  <2> QED
    BY <1>4, <2>1, EndShrinks
<1>5. CASE AcceptStep
  <2>1. ASSUME AcceptTakes PROVE Same
    <3>1. listener.accept # <<>> /\ listener' = [listener EXCEPT !.accept = Tail(@)]
      BY <2>1 DEF AcceptTakes
    <3>2. listener'.world = listener.world /\ listener'.accept = Tail(listener.accept)
      BY <1>1, <3>1
    <3> QED
      BY SMTT(30), <1>1, <3>1, <3>2
  <2>2. ASSUME AcceptIdentifies PROVE Same
    <3>1. UNCHANGED listener
      BY <2>2 DEF AcceptIdentifies, Accepted, Refused
    <3> QED
      BY <1>2, <3>1
  <2>3. Same
    BY <1>5, <2>1, <2>2 DEF AcceptStep
  <2> QED
    BY <1>5, <2>3, AcceptShrinks
<1>6. ASSUME NEW a \in Addresses, readLoop(a) PROVE Starts \/ (Same /\ Less)
  BY <1>2, <1>6, ReadLoopShrinks
<1>7. CASE Push \/ AfterPush
  <2>1. UNCHANGED listener
    BY <1>7 DEF Push, AfterPush
  <2> QED
    BY <1>2, <1>7, <2>1, QueueShrinks
<1>8. ASSUME NEW s \in Sessions, HandshakeStep(s) PROVE Same /\ Less
  <2>1. UNCHANGED listener
    BY <1>8 DEF HandshakeStep, StartHandshake, HandshakeReads, InstallKeys,
       connectionValidated, CloseOld, completeHandshake
  <2> QED
    BY <1>2, <1>8, <2>1, HandshakeShrinks
<1>9. ASSUME NEW s \in Sessions, ReaderStep(s) PROVE Same /\ Less
  <2>1. UNCHANGED listener
    BY <1>9 DEF ReaderStep, startRecordReader, ReadRecord, Dispatch, DispatchRebinds,
       DispatchFails, finishRecordReader
  <2> QED
    BY <1>2, <1>9, <2>1, ReaderShrinks
<1>10. ASSUME NEW s \in Sessions, EndStep(s) \/ Close(s) PROVE Same /\ Less
  <2>1. UNCHANGED listener
    BY <1>10 DEF EndStep, TimerFails, FailClears, FailCloses, CloseClears,
       CloseTransport, RemoveSession, Close
  <2> QED
    BY <1>2, <1>10, <2>1, EndShrinks
<1>11. CASE UNCHANGED listenerVars
  <2>1. UNCHANGED sess /\ UNCHANGED listener
    BY <1>11 DEF listenerVars
  <2> QED
    BY <1>2, <2>1 DEF Shrinks
<1> HIDE DEF Same, Less
<1> QED
  BY <1>3, <1>4, <1>5, <1>6, <1>7, <1>8, <1>9, <1>10, <1>11 DEF ListenerNext

LEMMA TableStaysTyped ==
    ASSUME LInv, [ListenerNext]_listenerVars, table \in TableType
    PROVE  table' \in TableType
<1>1. Nil \in SessionOrNil /\ Sessions \subseteq SessionOrNil
  BY NilIsNoSession
<1>2. CASE UNCHANGED table
  BY <1>2
<1>3. CASE shutdown
  BY <1>1, <1>3 DEF shutdown, EmptyTable, TableType
<1>4. ASSUME NEW s \in Sessions, RemoveSession(s) PROVE table' \in TableType
  BY <1>1, <1>4, TableOperations DEF RemoveSession
<1>5. ASSUME NEW s \in Sessions, connectionValidated(s) PROVE table' \in TableType
  <2> DEFINE a == sess[s].remote
  <2>1. table' = table \/ table' = [table EXCEPT !.sessions[a] = s, !.pending[a] = Nil]
    BY <1>5 DEF connectionValidated
  <2>2. a \in Addresses
    <3>1. conn[s].hs # "none"
      BY <1>5 DEF connectionValidated
    <3> QED
      BY <3>1 DEF LInv, StagesOK, StageOK, SessionsOK
  <2> HIDE DEF a
  <2>3. [table EXCEPT !.sessions[a] = s, !.pending[a] = Nil] \in TableType
    BY <1>1, <2>2 DEF TableType
  <2> QED
    BY <2>1, <2>3
<1>6. ASSUME NEW s \in Sessions, DispatchRebinds(s) PROVE table' \in TableType
  BY SMTT(30), <1>6, RebindTables, RebindTyped
<1>7. ASSUME NEW c \in CIDs, acceptor \in Sessions, table' = addCIDs(table, acceptor, {c})
      PROVE  table' \in TableType
  BY <1>1, <1>7, TableOperations
<1>8. ASSUME NEW a \in Addresses, NEW where \in {"sessions", "pending"},
             table' = [table EXCEPT ![where][a] = NextSession]
      PROVE  table' \in TableType
  BY <1>8, NextKeeps DEF TableType, TablesOK, LInv
<1> QED
  BY <1>2, <1>3, <1>4, <1>5, <1>6, <1>7, <1>8, TableSteps

LEMMA CapacityKept ==
    ASSUME LInv, CapacityOK, [ListenerNext]_listenerVars
    PROVE  CapacityOK'
<1>1. LInv' /\ table' \in TableType
  BY NextKeeps, TableStaysTyped DEF CapacityOK
<1>2. Len(listener.accept) \in Nat /\ World.max \in Nat
  BY SMTT(30), WorldsAssumption DEF LInv, AcceptOK, CapacityOK, World
<1>3. \A x \in Sessions : OldKept(x)
  BY OldsKept
<1>4. CASE Starts
  <2> DEFINE n == NextSession
  <2>1. HasRoom(table) /\ Offered /\ UNCHANGED conn
    BY <1>4 DEF Starts
  <2>2. listener'.world = listener.world /\ listener'.accept = Append(listener.accept, n)
    BY <1>4 DEF Starts, LInv, AcceptOK
  <2>3. World' = World
    BY <2>2 DEF World
  <2>4. Len(listener'.accept) <= World.max
    BY SMTT(30), <1>2, <2>1, <2>2 DEF Offered, LInv, AcceptOK
  <2>5. \A s \in Sessions : Fits(sess'[s])
    BY <1>4 DEF Starts, CapacityOK
  <2>6. Replaced' = Replaced
    BY <2>1 DEF Replaced
  <2>7. \A s \in Sessions : s # n => sess'[s] = sess[s]
    BY <1>4 DEF Starts
  <2> HIDE DEF n
  <2>8. Current' \subseteq Current \cup {n}
    BY <2>6, <2>7 DEF Current
  <2>9. IsFiniteSet(Current) /\ Cardinality(Current) \in Nat /\ Cardinality(Current) < World.max
    BY <2>1, RoomIsRoom DEF CapacityOK
  <2>10. /\ IsFiniteSet(Current \cup {n})
         /\ Cardinality(Current \cup {n}) <= Cardinality(Current) + 1
         /\ Cardinality(Current \cup {n}) \in Nat
    <3>1. /\ IsFiniteSet(Current \cup {n})
          /\ Cardinality(Current \cup {n}) =
                IF n \in Current THEN Cardinality(Current) ELSE Cardinality(Current) + 1
      BY <2>9, FS_AddElement
    <3> QED
      BY SMT, <2>9, <3>1
  <2>11. Cardinality(Current') <= Cardinality(Current \cup {n}) /\ Cardinality(Current') \in Nat
    BY <2>8, <2>10, FS_Subset, FS_CardinalityType
  <2>12. Cardinality(Current') <= World.max
    BY SMT, <1>2, <2>9, <2>10, <2>11
  <2> QED
    BY <1>1, <2>2, <2>3, <2>4, <2>5, <2>12 DEF CapacityOK, Fits
<1>5. CASE ~Starts
  <2>1. /\ \A y \in Sessions : Shrinks(sess[y], sess'[y])
        /\ listener'.world = listener.world
        /\ Len(listener'.accept) \in Nat /\ Len(listener'.accept) <= Len(listener.accept)
    BY <1>5, StartsOrShrinks
  <2>2. World' = World
    BY <2>1 DEF World
  <2>3. Len(listener'.accept) <= World.max
    BY SMTT(30), <1>2, <2>1 DEF CapacityOK
  <2>4. \A s \in Sessions : Fits(sess'[s])
    BY <2>1 DEF Shrinks, CapacityOK
  <2>5. Current' \subseteq Current
    <3> SUFFICES ASSUME NEW s \in Sessions, sess'[s].state = "open", s \notin Replaced'
                 PROVE  sess[s].state = "open" /\ s \notin Replaced
      BY DEF Current
    <3>1. sess[s].state = "open"
      BY <2>1 DEF Shrinks
    <3>2. \A x \in Sessions : conn'[x].old # s
      BY DEF Replaced
    <3>3. \A x \in Sessions : conn[x].old # s
      BY <1>3, <3>2, NilIsNoSession DEF OldKept
    <3> QED
      BY <3>1, <3>3 DEF Replaced
  <2>6. IsFiniteSet(Current)
    BY SessionsFinite, FS_Subset DEF Current
  <2>7. /\ Cardinality(Current') <= Cardinality(Current)
        /\ Cardinality(Current') \in Nat /\ Cardinality(Current) \in Nat
    BY <2>5, <2>6, FS_Subset, FS_CardinalityType
  <2>8. Cardinality(Current') <= World.max
    BY SMT, <1>2, <2>7 DEF CapacityOK
  <2> QED
    BY <1>1, <2>1, <2>2, <2>3, <2>4, <2>8 DEF CapacityOK, Fits
<1> QED
  BY <1>4, <1>5

LEMMA CapacityInit == ASSUME ListenerInit PROVE CapacityOK
<1>1. PICK i \in DOMAIN Worlds :
        /\ listener = [closed |-> FALSE, accept |-> <<>>, closing |-> {}, world |-> i]
        /\ IF Worlds[i].established THEN Established(Worlds[i].address, Worlds[i]) ELSE Unused
  BY DEF ListenerInit
<1>2. listener.world = i /\ listener.accept = <<>>
  BY <1>1
<1>3. World.max \in Nat /\ 1 <= World.max /\ 0 <= QueueSize /\ Worlds[i].address \in Addresses
  BY SMT, <1>2, WorldsAssumption, ListenerAssumption DEF World
<1>4. Len(listener.accept) <= World.max
  BY SMTT(30), <1>2, <1>3
<1>5. LInv
  BY InitHolds
<1>6. NoSession.in = <<>> /\ NoSession.remote = NoAddress /\ NoSession.state = "unused"
  BY DEF NoSession
<1>7. Fits(NoSession)
  BY <1>3, <1>6 DEF Fits
<1>8. /\ table \in TableType /\ \A s \in Sessions : Fits(sess[s])
      /\ \A s \in Sessions : sess[s].state = "open" => s = 1
  <2>1. CASE Unused
    <3>1. table \in TableType
      BY <2>1, NilIsNoSession DEF Unused, EmptyTable, TableType
    <3> QED
      BY <1>6, <1>7, <2>1, <3>1 DEF Unused
  <2>2. CASE Established(Worlds[i].address, Worlds[i])
    <3> DEFINE a == Worlds[i].address
               x == [newPacketSession(a) EXCEPT !.validated = TRUE, !.cid = Worlds[i].cid]
    <3>1. /\ table = addCIDs([EmptyTable EXCEPT !.sessions[a] = 1], 1, Range(Worlds[i].cid))
          /\ sess = [s \in Sessions |-> IF s = 1 THEN x ELSE NoSession]
      BY <2>2 DEF Established
    <3>2. x.in = <<>> /\ x.remote = a
      BY DEF newPacketSession, NoSession
    <3> HIDE DEF x
    <3>3. Fits(x)
      BY <1>3, <3>2 DEF Fits
    <3>4. table \in TableType
      <4>1. EmptyTable \in TableType /\ 1 \in SessionOrNil
        BY SMTT(30), NilIsNoSession, ListenerAssumption DEF EmptyTable, TableType,
           Sessions
      <4>2. [EmptyTable EXCEPT !.sessions[a] = 1] \in TableType
        BY <1>3, <4>1, TableOperations
      <4> QED
        BY <3>1, <4>1, <4>2, TableOperations
    <3> QED
      BY <1>6, <1>7, <3>1, <3>3, <3>4
  <2> QED
    BY <1>1, <2>1, <2>2
<1>9. Current \subseteq {1}
  BY <1>8 DEF Current
<1>10. Cardinality(Current) <= World.max
  <2>1. IsFiniteSet({1}) /\ Cardinality({1}) = 1
    BY FS_Singleton
  <2>2. Cardinality(Current) <= 1 /\ Cardinality(Current) \in Nat
    BY <1>9, <2>1, FS_Subset, FS_CardinalityType
  <2> QED
    BY SMT, <1>3, <2>2
<1> QED
  BY <1>2, <1>4, <1>8, <1>10 DEF CapacityOK

\* Whatever the peers send, the tables are well-formed, no queue and no accept
\* channel is over its capacity, and at most MaxPendingConnections associations
\* are open at once beside those their replacement is about to close.
THEOREM LimitsAreKept == ListenerSpec => []ListenerTypeOK
<1>1. LInv /\ CapacityOK => ListenerTypeOK
  BY DEF LInv, SessionsOK, CapacityOK, ListenerTypeOK, TableType, Fits, Current
<1> QED
  BY <1>1, CapacityInit, CapacityKept, ListenerInvariant, PTL DEF ListenerSpec
=============================================================================
