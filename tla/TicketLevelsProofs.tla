------------------------- MODULE TicketLevelsProofs -------------------------
(***************************************************************************)
(* Proofs about chunk tickets, for every set of positions, every choice of *)
(* level constants, distances and timeouts, and any number of operations.  *)
(* Two arguments.  The levels of a propagation that has treated some of    *)
(* the ticket sources are the strongest those sources give; one more       *)
(* source, in whatever order they come, keeps this.  And the operations in *)
(* the queue lead, one by one, from the tickets the manager holds to the   *)
(* tickets its owners want: the worker takes the first, owners add the     *)
(* last.                                                                   *)
(***************************************************************************)
EXTENDS TicketLevels, FiniteSetTheorems, TLAPS

\* An operation in the queue.
Operations == [kind : {"add", "remove"}, positions : SUBSET Positions, ticket : Tickets]

\* What a manager may hold.
TicketCounts == [Positions -> [Tickets -> Nat]]

\* l is the strongest of the levels L.
IsStrongest(l, L) ==
    IF L = {} THEN l = NoLevel ELSE l \in L /\ \A m \in L : l <= m

\* The levels the tickets of source s give p, for a field of a ticket that is
\* spread up to a limit.
Reach(s, p, field, limit) ==
    {t[field] + Distance(s, p) : t \in
        {k \in TicketsAt(s) : /\ k[field] # NoLevel
                              /\ Distance(s, p) <= Monus(limit, k[field])}}

\* The levels all sources but the rest give p.
ReachedBut(rest, p, field, limit) ==
    UNION {Reach(s, p, field, limit) : s \in Positions \ rest}

\* The levels are those of all sources but the rest.
PropagatedBut(rest) ==
    \A p \in Positions :
        /\ IsStrongest(levels[p], ReachedBut(rest, p, "load", MaxLevel))
        /\ IsStrongest(simulation[p], ReachedBut(rest, p, "simulation", BlockTicking))

\* The variables have their types.
ManagerTypes ==
    /\ TicketTypes
    /\ timed \in [TimedKinds -> [Positions -> Int]]
    /\ oldLevels \in [Positions -> Levels \cup {NoLevel}]
    /\ oldSimulation \in [Positions -> (0 .. FullChunk) \cup {NoLevel}]

\* Where the epoch is.
EpochShape ==
    /\ step # "apply" => taken = 0
    /\ step # "ready" => changes = {}
    /\ step \in {"spread", "ready"} => ~dirty

\* The holders follow the levels of the last committed propagation: the
\* current ones, the old ones while new ones are computed, or the current ones
\* but for the changes about to be committed.
HolderInv ==
    /\ step \in {"idle", "apply"} =>
          \A p \in Positions : Follows(p, levels[p], simulation[p])
    /\ step = "spread" =>
          \A p \in Positions : Follows(p, oldLevels[p], oldSimulation[p])
    /\ step = "ready" =>
          /\ \A c \in changes : c = Change(c.pos, levels[c.pos], simulation[c.pos])
          /\ \A p \in Positions :
                (\A c \in changes : c.pos # p) => Follows(p, levels[p], simulation[p])
    /\ \A p \in Positions : held[p][1] = NoLevel => held[p] = <<NoLevel, NoLevel>>

\* Simulation stays within loading.
SimulationInv ==
    \A p \in Positions :
        simulation[p] # NoLevel => levels[p] # NoLevel /\ levels[p] <= simulation[p]

\* Clean levels are those of the tickets; in the loop over the sources, those
\* of the sources already spread.
LevelInv ==
    /\ (~dirty /\ step # "spread") => PropagatedBut({})
    /\ step = "spread" => PropagatedBut(sources) /\ \A s \in sources : TicketsAt(s) # {}

\* Applying the operations to T one after the other gives U.
Path(T, ops, U) ==
    \E S \in [0 .. Len(ops) -> TicketCounts] :
        /\ S[0] = T /\ S[Len(ops)] = U
        /\ \A i \in 1 .. Len(ops) : S[i] = ApplyOperation(S[i - 1], ops[i])

\* The handles of requests Q that want ticket t at p.
RequestsFor(Q, p, t) ==
    {h \in Handles : /\ Q[h] # NoRequest
                     /\ p \in Q[h].positions
                     /\ Loading(Q[h].level) = t}

\* Whether the view V wants ticket t at p.
ViewWants(V, p, t) == V # NoView /\ V.center = p /\ PlayerTicket(V.distance) = t

\* Whether a timed ticket of a kind, with ticks left as in M, wants it.
TimedWants(M, kind, p, t) == M[kind][p] # Expired /\ TimedTicket(kind) = t

\* What the view V, the timed tickets M and the requests Q want.
OwedFor(V, M, Q) ==
    [p \in Positions |-> [t \in Tickets |->
        One(ViewWants(V, p, t))
        + One(TimedWants(M, "portal", p, t)) + One(TimedWants(M, "pearl", p, t))
        + Cardinality(RequestsFor(Q, p, t))]]

\* What the owners want.
OwedTickets == OwedFor(trackingView, timed, requests)

\* The operations not yet applied lead from the tickets to what is owed.
BalanceInv == Path(tickets, queue, OwedTickets)

\* The inductive invariant.
TicketInv ==
    /\ ManagerTypes /\ EpochShape /\ HolderInv /\ SimulationInv /\ LevelInv
    /\ BalanceInv

-----------------------------------------------------------------------------
(* Levels.                                                                 *)

\* The levels are natural numbers, in order.
LEMMA LevelOrder ==
    /\ EntityTicking \in Nat /\ BlockTicking \in Nat /\ FullChunk \in Nat /\ MaxLevel \in Nat
    /\ EntityTicking + 1 = BlockTicking /\ BlockTicking + 1 = FullChunk
    /\ FullChunk <= MaxLevel /\ Levels = 0 .. MaxLevel
  BY DistanceAssumption DEF BlockTicking, FullChunk, MaxLevel, Levels

\* Each ticket an owner uses has levels in range, and never simulates more than
\* it loads.
LEMMA TicketShape ==
    ASSUME NEW t \in Tickets
    PROVE  /\ t.load \in Levels
           /\ t.simulation \in (0 .. FullChunk) \cup {NoLevel}
           /\ t.simulation # NoLevel => t.load <= t.simulation
<1>1. CASE \E d \in ViewDistances : t = PlayerTicket(d)
  <2>1. PICK d \in ViewDistances : t = PlayerTicket(d)
    BY Zenon, <1>1
  <2>2. d \in 0 .. EntityTicking
    BY Zenon, DistanceAssumption
  <2> QED
    BY <2>1, <2>2, LevelOrder, DistanceAssumption
    DEF PlayerTicket, ForEntityTickingRadius, Monus
<1>2. CASE \E k \in TimedKinds : t = TimedTicket(k)
  <2>1. PICK k \in TimedKinds : t = TimedTicket(k)
    BY Zenon, <1>2
  <2>2. PICK r \in Nat : t = SimulatedFullChunks(r)
    BY Zenon, <2>1, DistanceAssumption DEF TimedTicket
  <2> QED
    BY <2>2, LevelOrder DEF SimulatedFullChunks, ForFullChunkRadius, Monus
<1>3. CASE \E l \in RequestLevels : t = Loading(l)
  <2>1. PICK l \in RequestLevels : t = Loading(l)
    BY Zenon, <1>3
  <2>2. l \in FullChunk .. MaxLevel
    BY Zenon, DistanceAssumption
  <2> QED
    BY <2>1, <2>2, LevelOrder DEF Loading
<1> QED
  BY Zenon, <1>1, <1>2, <1>3 DEF Tickets

\* Distances are natural numbers.
LEMMA DistanceType ==
    ASSUME NEW p \in Positions, NEW q \in Positions
    PROVE  Distance(p, q) \in Nat
<1>1. /\ p[1] \in Int /\ p[2] \in Int /\ q[1] \in Int /\ q[2] \in Int
  BY Zenon, DistanceAssumption
<1> QED
  BY <1>1 DEF Distance, Monus

\* A set of levels has a strongest one.
LEMMA StrongestIs ==
    ASSUME NEW L, L \subseteq Nat \cup {NoLevel}
    PROVE  IsStrongest(Strongest(L), L \ {NoLevel})
<1> DEFINE T == L \ {NoLevel}
<1>1. CASE T = {}
  BY Zenon, <1>1 DEF IsStrongest, Strongest
<1>2. CASE T # {}
  <2>1. T \subseteq Nat
    BY ZenonT(40)
  <2> HIDE DEF T
  <2>2. \E n \in T : \A m \in T : n <= m
    <3> DEFINE R == OpToRel(<, Nat)
    <3>1. \A a, b \in Nat : a < b => <<a, b>> \in R
      BY Zenon DEF OpToRel
    <3>2. IsWellFoundedOn(R, Nat)
      BY NatLessThanWellFounded, Zenon
    <3> HIDE DEF R
    <3>3. PICK n \in T : \A m \in T : ~(<<m, n>> \in R)
      BY <1>2, <2>1, <3>2, WFMin, Zenon
    <3>4. ASSUME NEW m \in T PROVE n <= m
      <4>1. m \in Nat /\ n \in Nat
        BY Zenon, <2>1
      <4>2. ~(m < n)
        BY Zenon, <3>1, <3>3, <4>1
      <4> QED
        BY <4>1, <4>2
    <3> QED
      BY <3>4, Zenon
  <2> DEFINE l == CHOOSE n \in T : \A m \in T : n <= m
  <2>3. l \in T /\ \A m \in T : l <= m
    BY <2>2, Zenon
  <2>4. Strongest(L) = l
    BY <1>2, Zenon DEF Strongest, T
  <2> HIDE DEF l
  <2>5. IsStrongest(l, T)
    BY <1>2, <2>3, Zenon DEF IsStrongest
  <2> QED
    BY <2>4, <2>5, Zenon DEF T
<1> QED
  BY <1>1, <1>2, Zenon

\* There is only one strongest level.
LEMMA StrongestUnique ==
    ASSUME NEW L \in SUBSET Nat, NEW l, IsStrongest(l, L)
    PROVE  l = Strongest(L)
<1>1. L \ {NoLevel} = L
  BY Zenon, NoneAssumption
<1> DEFINE m == Strongest(L)
<1>2. IsStrongest(m, L)
  BY Zenon, <1>1, StrongestIs
<1> HIDE DEF m
<1>3. CASE L = {}
  BY Zenon, <1>2, <1>3 DEF IsStrongest, m
<1>4. CASE L # {}
  <2>1. l \in Nat /\ m \in Nat /\ l <= m /\ m <= l
    BY Zenon, <1>2, <1>4 DEF IsStrongest
  <2> QED
    BY <2>1 DEF m
<1> QED
  BY Zenon, <1>3, <1>4

\* The strongest of two sets is the stronger of their strongest.
LEMMA StrongestOfTwo ==
    ASSUME NEW A \in SUBSET Nat, NEW B \in SUBSET Nat, NEW a, NEW b,
           IsStrongest(a, A), IsStrongest(b, B)
    PROVE  IsStrongest(Strongest({a, b}), A \cup B)
<1>1. a \in Nat \cup {NoLevel} /\ b \in Nat \cup {NoLevel}
  BY Zenon DEF IsStrongest
<1>2. IsStrongest(Strongest({a, b}), {a, b} \ {NoLevel})
  BY Zenon, <1>1, StrongestIs
<1> DEFINE m == Strongest({a, b})
<1> HIDE DEF m
<1>3. IsStrongest(m, {a, b} \ {NoLevel})
  BY Zenon, <1>2 DEF m
<1>4. CASE A = {} /\ B = {}
  BY Zenon, <1>3, <1>4 DEF IsStrongest, m
<1>5. CASE A = {} /\ B # {}
  <2>1. a = NoLevel /\ b \in B /\ b # NoLevel
    BY Zenon, <1>5, NoneAssumption DEF IsStrongest
  <2>2. m = b
    BY Zenon, <1>3, <2>1 DEF IsStrongest
  <2> QED
    BY Zenon, <1>5, <2>2 DEF IsStrongest, m
<1>6. CASE A # {} /\ B = {}
  <2>1. b = NoLevel /\ a \in A /\ a # NoLevel
    BY Zenon, <1>6, NoneAssumption DEF IsStrongest
  <2>2. m = a
    BY Zenon, <1>3, <2>1 DEF IsStrongest
  <2> QED
    BY Zenon, <1>6, <2>2 DEF IsStrongest, m
<1>7. CASE A # {} /\ B # {}
  <2>1. a \in A /\ b \in B /\ a # NoLevel /\ b # NoLevel
        /\ (\A x \in A : a <= x) /\ (\A x \in B : b <= x)
    BY Zenon, <1>7, NoneAssumption DEF IsStrongest
  <2>2. m \in {a, b} /\ m <= a /\ m <= b
    BY Zenon, <1>3, <2>1 DEF IsStrongest
  <2>3. \A x \in A \cup B : m <= x
    BY <2>1, <2>2
  <2> QED
    BY Zenon, <1>7, <2>1, <2>2, <2>3 DEF IsStrongest, m
<1> QED
  BY Zenon, <1>4, <1>5, <1>6, <1>7

\* The strongest ticket of a source reaches as far as any of its tickets and
\* gives the strongest level there.
LEMMA SourceReach ==
    ASSUME ManagerTypes, NEW s \in Positions, NEW p \in Positions,
           NEW field \in {"load", "simulation"}, NEW limit \in Nat, NEW l,
           l = Strongest({t[field] : t \in TicketsAt(s)})
    PROVE  /\ Reach(s, p, field, limit) \subseteq Nat
           /\ IF l # NoLevel /\ Distance(s, p) <= Monus(limit, l)
              THEN IsStrongest(l + Distance(s, p), Reach(s, p, field, limit))
              ELSE Reach(s, p, field, limit) = {}
<1> DEFINE F == {t[field] : t \in TicketsAt(s)}
           d == Distance(s, p)
<1>1. d \in Nat
  BY Zenon, DistanceType
<1>2. \A t \in TicketsAt(s) : t[field] \in Nat \cup {NoLevel}
  <2>1. \A t \in TicketsAt(s) : t \in Tickets
    BY Zenon DEF TicketsAt
  <2>2. \A t \in Tickets : t.load \in Nat /\ t.simulation \in Nat \cup {NoLevel}
    BY TicketShape, LevelOrder
  <2> QED
    BY Zenon, <2>1, <2>2
<1>3. F \subseteq Nat \cup {NoLevel}
  BY Zenon, <1>2
<1>4. IsStrongest(l, F \ {NoLevel})
  BY Zenon, <1>3, StrongestIs
<1> HIDE DEF d
<1>5. Reach(s, p, field, limit) =
        {t[field] + d : t \in {k \in TicketsAt(s) : k[field] # NoLevel
                                                  /\ d <= Monus(limit, k[field])}}
  BY Zenon DEF Reach, d
<1>6. Reach(s, p, field, limit) \subseteq Nat
  BY <1>1, <1>2, <1>5
<1>7. \A t \in TicketsAt(s) : t[field] # NoLevel =>
          t[field] \in Nat /\ l \in Nat /\ l # NoLevel /\ l <= t[field]
  BY <1>2, <1>4, NoneAssumption DEF IsStrongest
<1>8. CASE l # NoLevel /\ d <= Monus(limit, l)
  <2>1. PICK t \in TicketsAt(s) : t[field] = l
    BY Zenon, <1>4, <1>8 DEF IsStrongest
  <2>2. l + d \in Reach(s, p, field, limit)
    BY Zenon, <1>5, <1>8, <2>1
  <2>3. \A x \in Reach(s, p, field, limit) : l + d <= x
    BY <1>1, <1>5, <1>7
  <2> QED
    BY Zenon, <1>6, <1>8, <2>2, <2>3 DEF IsStrongest, d
<1>9. CASE ~(l # NoLevel /\ d <= Monus(limit, l))
  <2>1. ASSUME NEW t \in TicketsAt(s), t[field] # NoLevel, d <= Monus(limit, t[field])
        PROVE  FALSE
    BY <1>1, <1>7, <1>9, <2>1 DEF Monus
  <2> QED
    BY Zenon, <1>5, <1>6, <1>9, <2>1 DEF d
<1> QED
  BY Zenon, <1>8, <1>9 DEF d

-----------------------------------------------------------------------------
(* Paths of operations.                                                    *)

\* An operation leads from tickets to tickets.
LEMMA ApplyType ==
    ASSUME NEW T \in TicketCounts, NEW op \in Operations
    PROVE  ApplyOperation(T, op) \in TicketCounts
  BY DEF TicketCounts, ApplyOperation, AddTicket, RemoveTicket, Monus

\* No operations lead nowhere.
LEMMA PathNone ==
    ASSUME NEW T \in TicketCounts, NEW U
    PROVE  Path(T, << >>, U) <=> T = U
<1>1. Len(<< >>) = 0
  BY Zenon
<1>2. ASSUME Path(T, << >>, U) PROVE T = U
  BY Zenon, <1>1, <1>2 DEF Path
<1>3. ASSUME T = U PROVE Path(T, << >>, U)
  <2> DEFINE S == [i \in 0 .. 0 |-> T]
  <2>1. S \in [0 .. 0 -> TicketCounts] /\ S[0] = T
    OBVIOUS
  <2> HIDE DEF S
  <2> QED
    BY <1>1, <1>3, <2>1 DEF Path
<1> QED
  BY Zenon, <1>2, <1>3

\* An operation queued at the end is applied to where the path led.
LEMMA PathAppend ==
    ASSUME NEW T, NEW ops \in Seq(Operations), NEW U, Path(T, ops, U),
           NEW op \in Operations
    PROVE  Path(T, Append(ops, op), ApplyOperation(U, op))
<1> DEFINE n == Len(ops)
           V == ApplyOperation(U, op)
<1>1. PICK S \in [0 .. n -> TicketCounts] :
          /\ S[0] = T /\ S[n] = U
          /\ \A i \in 1 .. n : S[i] = ApplyOperation(S[i - 1], ops[i])
  BY Zenon DEF Path
<1>2. n \in Nat /\ Len(Append(ops, op)) = n + 1
  OBVIOUS
<1>3. U \in TicketCounts
  BY <1>1, <1>2
<1>4. V \in TicketCounts
  BY Zenon, <1>3, ApplyType
<1>5. /\ \A i \in 1 .. n : Append(ops, op)[i] = ops[i]
      /\ Append(ops, op)[n + 1] = op
  OBVIOUS
<1> HIDE DEF n, V
<1> DEFINE R == [i \in 0 .. n + 1 |-> IF i = n + 1 THEN V ELSE S[i]]
<1>6. R \in [0 .. n + 1 -> TicketCounts]
  BY <1>2, <1>4
<1>7. R[0] = T /\ R[n + 1] = V
  BY <1>1, <1>2
<1>8. ASSUME NEW i \in 1 .. n + 1
      PROVE  R[i] = ApplyOperation(R[i - 1], Append(ops, op)[i])
  <2>1. CASE i = n + 1
    <3>1. R[i - 1] = U /\ R[i] = V /\ Append(ops, op)[i] = op
      BY <1>1, <1>2, <1>5, <2>1
    <3> QED
      BY <3>1, Zenon DEF V
  <2>2. CASE i \in 1 .. n
    <3>1. R[i - 1] = S[i - 1] /\ R[i] = S[i] /\ Append(ops, op)[i] = ops[i]
      BY <1>2, <1>5, <2>2
    <3> QED
      BY <1>1, <2>2, <3>1, Zenon
  <2> QED
    BY <1>2, <2>1, <2>2
<1> HIDE DEF R
<1>9. \E Q \in [0 .. n + 1 -> TicketCounts] :
         /\ Q[0] = T /\ Q[n + 1] = V
         /\ \A i \in 1 .. n + 1 : Q[i] = ApplyOperation(Q[i - 1], Append(ops, op)[i])
  BY <1>6, <1>7, <1>8, Zenon
<1> QED
  BY <1>2, <1>9, Zenon DEF Path, V

\* Applying the first operation leaves the path of the others.
LEMMA PathTail ==
    ASSUME NEW T, NEW ops \in Seq(Operations), ops # << >>, NEW U, Path(T, ops, U)
    PROVE  Path(ApplyOperation(T, Head(ops)), Tail(ops), U)
<1> DEFINE n == Len(ops)
<1>1. PICK S \in [0 .. n -> TicketCounts] :
          /\ S[0] = T /\ S[n] = U
          /\ \A i \in 1 .. n : S[i] = ApplyOperation(S[i - 1], ops[i])
  BY Zenon DEF Path
<1>2. /\ n \in Nat \ {0} /\ Len(Tail(ops)) = n - 1 /\ Head(ops) = ops[1]
      /\ \A i \in 1 .. n - 1 : Tail(ops)[i] = ops[i + 1]
  OBVIOUS
<1> HIDE DEF n
<1> DEFINE R == [i \in 0 .. n - 1 |-> S[i + 1]]
<1>3. R \in [0 .. n - 1 -> TicketCounts] /\ R[n - 1] = U
  BY <1>1, <1>2
<1>4. R[0] = ApplyOperation(T, Head(ops))
  <2>1. R[0] = S[1] /\ S[1] = ApplyOperation(S[0], ops[1])
    BY <1>1, <1>2
  <2> QED
    BY <1>1, <1>2, <2>1, Zenon
<1>5. ASSUME NEW i \in 1 .. n - 1
      PROVE  R[i] = ApplyOperation(R[i - 1], Tail(ops)[i])
  <2>1. R[i] = S[i + 1] /\ R[i - 1] = S[i] /\ Tail(ops)[i] = ops[i + 1]
    BY <1>2
  <2>2. S[i + 1] = ApplyOperation(S[i], ops[i + 1])
    <3>1. i + 1 \in 1 .. n /\ (i + 1) - 1 = i
      BY <1>2
    <3> QED
      BY Zenon, <1>1, <3>1
  <2> QED
    BY <2>1, <2>2, Zenon
<1> HIDE DEF R
<1> QED
  BY <1>2, <1>3, <1>4, <1>5, Zenon DEF Path

-----------------------------------------------------------------------------
(* What is owed.                                                           *)

\* The requests for a ticket are finitely many.
LEMMA RequestsFinite ==
    ASSUME NEW Q, NEW p, NEW t
    PROVE  IsFiniteSet(RequestsFor(Q, p, t)) /\ Cardinality(RequestsFor(Q, p, t)) \in Nat
<1>1. IsFiniteSet(Handles) /\ RequestsFor(Q, p, t) \subseteq Handles
  BY Zenon, DistanceAssumption DEF RequestsFor
<1>2. IsFiniteSet(RequestsFor(Q, p, t))
  BY <1>1, FS_Subset, Zenon
<1> QED
  BY <1>2, FS_CardinalityType, Zenon

\* What is owed is a number of tickets.
LEMMA OwedType ==
    ASSUME NEW V, NEW M, NEW Q
    PROVE  OwedFor(V, M, Q) \in TicketCounts
<1>1. \A b : One(b) \in Nat
  BY Zenon DEF One
<1>2. \A p, t : Cardinality(RequestsFor(Q, p, t)) \in Nat
  BY RequestsFinite, Zenon
<1>3. \A p, t : One(ViewWants(V, p, t))
                + One(TimedWants(M, "portal", p, t)) + One(TimedWants(M, "pearl", p, t))
                + Cardinality(RequestsFor(Q, p, t)) \in Nat
  BY <1>1, <1>2
<1> QED
  BY <1>3, Zenon DEF OwedFor, TicketCounts

\* Tickets that differ from others as an operation says are its outcome.
LEMMA OutcomeIs ==
    ASSUME NEW T \in TicketCounts, NEW U \in TicketCounts, NEW op \in Operations,
           \A p \in Positions, t \in Tickets :
              U[p][t] = IF p \in op.positions /\ t = op.ticket
                        THEN IF op.kind = "add" THEN T[p][t] + 1 ELSE Monus(T[p][t], 1)
                        ELSE T[p][t]
    PROVE  U = ApplyOperation(T, op)
<1> DEFINE V == ApplyOperation(T, op)
<1>1. V \in TicketCounts
  BY Zenon, ApplyType
<1>2. \A p \in Positions, t \in Tickets : V[p][t] = U[p][t]
  BY Zenon DEF ApplyOperation, AddTicket, RemoveTicket
<1> HIDE DEF V
<1>3. \A p \in Positions : V[p] = U[p]
  BY <1>1, <1>2 DEF TicketCounts
<1>4. V = U
  BY <1>1, <1>3 DEF TicketCounts
<1> QED
  BY Zenon, <1>4 DEF V

\* The tickets T are the tickets U with one ticket k more at P.
OneMoreThan(T, U, P, k) ==
    /\ AddOp(P, k) \in Operations /\ RemoveOp(P, k) \in Operations
    /\ T = ApplyOperation(U, AddOp(P, k))
    /\ U = ApplyOperation(T, RemoveOp(P, k))

\* Counts that differ by one ticket k at P.
LEMMA OneMore ==
    ASSUME NEW T \in TicketCounts, NEW U \in TicketCounts,
           NEW P \in SUBSET Positions, NEW k \in Tickets,
           \A p \in Positions, t \in Tickets :
              T[p][t] = U[p][t] + One(p \in P /\ t = k)
    PROVE  OneMoreThan(T, U, P, k)
<1>1. AddOp(P, k) \in Operations /\ RemoveOp(P, k) \in Operations
  BY Zenon DEF AddOp, RemoveOp, Operations
<1>2. \A p \in Positions, t \in Tickets : T[p][t] \in Nat /\ U[p][t] \in Nat
  BY Zenon DEF TicketCounts
<1>3. T = ApplyOperation(U, AddOp(P, k))
  <2> DEFINE op == AddOp(P, k)
  <2>1. op.positions = P /\ op.ticket = k /\ op.kind = "add"
    BY Zenon DEF AddOp
  <2> HIDE DEF op
  <2>2. \A p \in Positions, t \in Tickets :
              T[p][t] = IF p \in op.positions /\ t = op.ticket
                        THEN IF op.kind = "add" THEN U[p][t] + 1 ELSE Monus(U[p][t], 1)
                        ELSE U[p][t]
    BY <1>2, <2>1 DEF One
  <2>3. op \in Operations
    BY Zenon, <1>1 DEF op
  <2>4. T = ApplyOperation(U, op)
    BY <2>2, <2>3, OutcomeIs, ZenonT(40)
  <2> QED
    BY Zenon, <2>4 DEF op
<1>4. U = ApplyOperation(T, RemoveOp(P, k))
  <2> DEFINE op == RemoveOp(P, k)
  <2>1. op.positions = P /\ op.ticket = k /\ op.kind = "remove"
    BY Zenon DEF RemoveOp
  <2> HIDE DEF op
  <2>2. \A p \in Positions, t \in Tickets :
              U[p][t] = IF p \in op.positions /\ t = op.ticket
                        THEN IF op.kind = "add" THEN T[p][t] + 1 ELSE Monus(T[p][t], 1)
                        ELSE T[p][t]
    BY <1>2, <2>1 DEF One, Monus
  <2>3. op \in Operations
    BY Zenon, <1>1 DEF op
  <2>4. U = ApplyOperation(T, op)
    BY <2>2, <2>3, OutcomeIs, ZenonT(40)
  <2> QED
    BY Zenon, <2>4 DEF op
<1> QED
  BY <1>1, <1>3, <1>4, Zenon DEF OneMoreThan

\* The tickets the owners use are tickets.
LEMMA OwnersUseTickets ==
    /\ \A d \in ViewDistances : PlayerTicket(d) \in Tickets
    /\ \A k \in TimedKinds : TimedTicket(k) \in Tickets
    /\ \A l \in RequestLevels : Loading(l) \in Tickets
  BY Zenon DEF Tickets

\* A view is owed one ticket at its centre.
LEMMA ViewOwed ==
    ASSUME NEW V \in TrackingViews, NEW M, NEW Q
    PROVE  OneMoreThan(OwedFor(V, M, Q), OwedFor(NoView, M, Q), {V.center}, PlayerTicket(V.distance))
<1> DEFINE P == {V.center}
           k == PlayerTicket(V.distance)
<1>0. P = {V.center} /\ k = PlayerTicket(V.distance)
  BY Zenon
<1> HIDE DEF P, k
<1>1. P \in SUBSET Positions /\ k \in Tickets
  BY Zenon, <1>0, OwnersUseTickets DEF TrackingViews
<1>2. \A p \in Positions, t \in Tickets : /\ ViewWants(V, p, t) <=> p \in P /\ t = k
                                         /\ ~ViewWants(NoView, p, t)
  BY Zenon, <1>0, NoneAssumption DEF ViewWants
<1>3. \A p \in Positions, t \in Tickets :
         /\ One(ViewWants(V, p, t)) = One(p \in P /\ t = k)
         /\ One(ViewWants(NoView, p, t)) = 0
  BY Zenon, <1>2 DEF One
<1>4. \A b : One(b) \in Nat
  BY Zenon DEF One
<1>5. \A p, t : Cardinality(RequestsFor(Q, p, t)) \in Nat
  BY RequestsFinite, Zenon
<1>6. \A p \in Positions, t \in Tickets :
         OwedFor(V, M, Q)[p][t] = OwedFor(NoView, M, Q)[p][t] + One(p \in P /\ t = k)
  BY <1>3, <1>4, <1>5 DEF OwedFor
<1> DEFINE T == OwedFor(V, M, Q)
           U == OwedFor(NoView, M, Q)
<1>7. T \in TicketCounts /\ U \in TicketCounts
  BY Zenon, OwedType
<1>8. \A p \in Positions, t \in Tickets : T[p][t] = U[p][t] + One(p \in P /\ t = k)
  BY Zenon, <1>6
<1> HIDE DEF T, U
<1>9. OneMoreThan(T, U, P, k)
  BY Zenon, <1>1, <1>7, <1>8, OneMore
<1> QED
  BY <1>0, <1>9, Zenon DEF T, U

\* The timed tickets N are M but for those of a kind at P, which have expired.
ExpiredAt(M, N, kind, P) ==
    /\ \A p \in P : M[kind][p] # Expired /\ N[kind][p] = Expired
    /\ \A p \in Positions \ P : M[kind][p] = Expired <=> N[kind][p] = Expired
    /\ \A other \in TimedKinds \ {kind}, p \in Positions :
          M[other][p] = Expired <=> N[other][p] = Expired

\* A timed ticket of a kind is owed once at each position where it has not
\* expired.
LEMMA TimedOwed ==
    ASSUME NEW V, NEW M, NEW N, NEW Q, NEW kind \in TimedKinds, NEW P \in SUBSET Positions,
           ExpiredAt(M, N, kind, P)
    PROVE  OneMoreThan(OwedFor(V, M, Q), OwedFor(V, N, Q), P, TimedTicket(kind))
<1> DEFINE k == TimedTicket(kind)
<1>0. k = TimedTicket(kind)
  BY Zenon
<1> HIDE DEF k
<1>1. k \in Tickets
  BY Zenon, <1>0, OwnersUseTickets
<1>2. \A p \in Positions, t \in Tickets :
         One(TimedWants(M, kind, p, t)) = One(TimedWants(N, kind, p, t))
                                          + One(p \in P /\ t = k)
  BY <1>0 DEF ExpiredAt, TimedWants, One
<1>3. \A other \in TimedKinds \ {kind}, p \in Positions, t \in Tickets :
         One(TimedWants(M, other, p, t)) = One(TimedWants(N, other, p, t))
  BY Zenon DEF ExpiredAt, TimedWants, One
<1>4. \A b : One(b) \in Nat
  BY Zenon DEF One
<1>5. \A p, t : Cardinality(RequestsFor(Q, p, t)) \in Nat
  BY RequestsFinite, Zenon
<1>6. \A p \in Positions, t \in Tickets :
         One(TimedWants(M, "portal", p, t)) + One(TimedWants(M, "pearl", p, t))
         = One(TimedWants(N, "portal", p, t)) + One(TimedWants(N, "pearl", p, t))
           + One(p \in P /\ t = k)
  <2>1. CASE kind = "portal"
    BY <1>2, <1>3, <1>4, <2>1 DEF TimedKinds
  <2>2. CASE kind = "pearl"
    BY <1>2, <1>3, <1>4, <2>2 DEF TimedKinds
  <2> QED
    BY Zenon, <2>1, <2>2 DEF TimedKinds
<1> DEFINE T == OwedFor(V, M, Q)
           U == OwedFor(V, N, Q)
<1>7. T \in TicketCounts /\ U \in TicketCounts
  BY Zenon, OwedType
<1>8. \A p \in Positions, t \in Tickets : T[p][t] = U[p][t] + One(p \in P /\ t = k)
  BY SMTT(40), <1>4, <1>5, <1>6 DEF OwedFor
<1> HIDE DEF T, U
<1>9. OneMoreThan(T, U, P, k)
  BY Zenon, <1>1, <1>7, <1>8, OneMore
<1> QED
  BY <1>0, <1>9, Zenon DEF T, U

\* Only whether a timed ticket has expired counts, not how many ticks it has
\* left.
LEMMA TimedSame ==
    ASSUME NEW V, NEW M, NEW N, NEW Q,
           \A kind \in TimedKinds, p \in Positions : M[kind][p] = Expired <=> N[kind][p] = Expired
    PROVE  OwedFor(V, M, Q) = OwedFor(V, N, Q)
<1>1. \A p \in Positions, t \in Tickets :
         /\ One(TimedWants(M, "portal", p, t)) = One(TimedWants(N, "portal", p, t))
         /\ One(TimedWants(M, "pearl", p, t)) = One(TimedWants(N, "pearl", p, t))
  BY Zenon DEF TimedWants, One, TimedKinds
<1>2. \A p \in Positions, t \in Tickets : OwedFor(V, M, Q)[p][t] = OwedFor(V, N, Q)[p][t]
  BY <1>1, Zenon DEF OwedFor
<1>3. OwedFor(V, M, Q) \in TicketCounts /\ OwedFor(V, N, Q) \in TicketCounts
  BY Zenon, OwedType
<1> DEFINE T == OwedFor(V, M, Q)
           U == OwedFor(V, N, Q)
<1>4. T \in TicketCounts /\ U \in TicketCounts
      /\ \A p \in Positions, t \in Tickets : T[p][t] = U[p][t]
  BY Zenon, <1>2, <1>3
<1> HIDE DEF T, U
<1>5. \A p \in Positions : T[p] = U[p]
  BY <1>4 DEF TicketCounts
<1>6. T = U
  BY <1>4, <1>5 DEF TicketCounts
<1> QED
  BY Zenon, <1>6 DEF T, U

\* A request is owed one ticket at each of its positions.
LEMMA RequestOwed ==
    ASSUME NEW V, NEW M, NEW Q, NEW R, NEW h \in Handles, NEW r \in Requests,
           Q[h] = r, R[h] = NoRequest, \A g \in Handles \ {h} : Q[g] = R[g]
    PROVE  OneMoreThan(OwedFor(V, M, Q), OwedFor(V, M, R), r.positions, Loading(r.level))
<1> DEFINE P == r.positions
           k == Loading(r.level)
<1>0. P = r.positions /\ k = Loading(r.level)
  BY Zenon
<1> HIDE DEF P, k
<1>1. P \in SUBSET Positions /\ k \in Tickets /\ r # NoRequest
  BY Zenon, <1>0, OwnersUseTickets, DistanceAssumption, NoneAssumption DEF Requests
<1>2. \A p, t : IsFiniteSet(RequestsFor(R, p, t)) /\ Cardinality(RequestsFor(R, p, t)) \in Nat
  BY RequestsFinite, Zenon
<1>3. ASSUME NEW p \in Positions, NEW t \in Tickets
      PROVE  Cardinality(RequestsFor(Q, p, t)) = Cardinality(RequestsFor(R, p, t))
                                                 + One(p \in P /\ t = k)
  <2>1. h \notin RequestsFor(R, p, t)
    BY Zenon DEF RequestsFor
  <2>2. CASE p \in P /\ t = k
    <3>1. RequestsFor(Q, p, t) = RequestsFor(R, p, t) \cup {h}
      BY <1>0, <1>1, <2>2 DEF RequestsFor
    <3>2. Cardinality(RequestsFor(R, p, t) \cup {h}) = Cardinality(RequestsFor(R, p, t)) + 1
      BY <1>2, <2>1, FS_AddElement, Zenon
    <3> QED
      BY Zenon, <2>2, <3>1, <3>2 DEF One
  <2>3. CASE ~(p \in P /\ t = k)
    <3>1. RequestsFor(Q, p, t) = RequestsFor(R, p, t)
      BY <1>0, <1>1, <2>3 DEF RequestsFor
    <3> QED
      BY <1>2, <2>3, <3>1 DEF One
  <2> QED
    BY Zenon, <2>2, <2>3
<1>4. \A b : One(b) \in Nat
  BY Zenon DEF One
<1> DEFINE T == OwedFor(V, M, Q)
           U == OwedFor(V, M, R)
<1>7. T \in TicketCounts /\ U \in TicketCounts
  BY Zenon, OwedType
<1>8. \A p \in Positions, t \in Tickets : T[p][t] = U[p][t] + One(p \in P /\ t = k)
  BY <1>2, <1>3, <1>4 DEF OwedFor
<1> HIDE DEF T, U
<1>9. OneMoreThan(T, U, P, k)
  BY Zenon, <1>1, <1>7, <1>8, OneMore
<1> QED
  BY <1>0, <1>9, Zenon DEF T, U

-----------------------------------------------------------------------------
(* The owners.                                                             *)

\* At most one more operation leads from U to W.
LeadsTo(more, U, W) ==
    \/ more = << >> /\ W = U
    \/ \E op \in Operations : more = <<op>> /\ W = ApplyOperation(U, op)

\* Queueing at most one operation extends the path.
LEMMA PathQueue ==
    ASSUME NEW T, NEW ops \in Seq(Operations), NEW U, Path(T, ops, U),
           NEW more, NEW W, LeadsTo(more, U, W)
    PROVE  ops \o more \in Seq(Operations) /\ Path(T, ops \o more, W)
<1>1. CASE more = << >> /\ W = U
  <2>1. ops \o << >> = ops
    OBVIOUS
  <2> QED
    BY <1>1, <2>1, Zenon
<1>2. CASE \E op \in Operations : more = <<op>> /\ W = ApplyOperation(U, op)
  <2>1. PICK op \in Operations : more = <<op>> /\ W = ApplyOperation(U, op)
    BY Zenon, <1>2
  <2>2. ops \o <<op>> = Append(ops, op) /\ Append(ops, op) \in Seq(Operations)
    OBVIOUS
  <2>3. Path(T, Append(ops, op), ApplyOperation(U, op))
    BY PathAppend, Zenon
  <2> QED
    BY <2>1, <2>2, <2>3, Zenon
<1> QED
  BY Zenon, <1>1, <1>2 DEF LeadsTo

\* What an owner queues at most.
LEMMA LeadsToType ==
    ASSUME NEW more, NEW U, NEW W, LeadsTo(more, U, W)
    PROVE  more \in Seq(Operations)
<1>1. CASE more = << >>
  BY <1>1
<1>2. CASE \E op \in Operations : more = <<op>>
  BY <1>2
<1> QED
  BY <1>1, <1>2, Zenon DEF LeadsTo

\* Queueing two times.
LEMMA PathQueueTwice ==
    ASSUME NEW T, NEW ops \in Seq(Operations), NEW U, Path(T, ops, U),
           NEW first, NEW V, LeadsTo(first, U, V),
           NEW second, NEW W, LeadsTo(second, V, W)
    PROVE  /\ ops \o (first \o second) \in Seq(Operations)
           /\ Path(T, ops \o (first \o second), W)
<1>1. first \in Seq(Operations) /\ second \in Seq(Operations)
  BY LeadsToType, Zenon
<1>2. ops \o (first \o second) = (ops \o first) \o second
  BY <1>1
<1>3. ops \o first \in Seq(Operations) /\ Path(T, ops \o first, V)
  BY PathQueue, Zenon
<1>4. (ops \o first) \o second \in Seq(Operations) /\ Path(T, (ops \o first) \o second, W)
  BY <1>3, PathQueue, Zenon
<1> QED
  BY <1>2, <1>4, Zenon

\* What the tickets give depends on the tickets alone.
LEMMA SameTickets ==
    ASSUME UNCHANGED <<tickets, levels, simulation>>
    PROVE  /\ \A s : TicketsAt(s)' = TicketsAt(s)
           /\ \A rest : PropagatedBut(rest)' <=> PropagatedBut(rest)
<1>1. \A s : TicketsAt(s)' = TicketsAt(s)
  BY Zenon DEF TicketsAt
<1>2. \A s, p, field, limit : Reach(s, p, field, limit)' = Reach(s, p, field, limit)
  BY <1>1, Zenon DEF Reach
<1>3. \A rest, p, field, limit :
         ReachedBut(rest, p, field, limit)' = ReachedBut(rest, p, field, limit)
  BY <1>2, Zenon DEF ReachedBut
<1> QED
  BY <1>1, <1>3, Zenon DEF PropagatedBut

\* An owner's step leaves the manager, the operations taken and the holders
\* alone.
LEMMA OwnerKeeps ==
    ASSUME TicketInv, UNCHANGED <<manager, taken, chunkMap>>,
           NEW more \in Seq(Operations), queue' = queue \o more,
           timed' \in [TimedKinds -> [Positions -> Int]],
           \A kind \in TimedKinds, p \in Positions :
              timed'[kind][p] \in Expired .. Timeout(kind),
           trackingView' \in TrackingViews \cup {NoView},
           requests' \in [Handles -> Requests \cup {NoRequest}],
           saved' \in [Positions -> Expired .. PortalTimeout]
    PROVE  ManagerTypes' /\ EpochShape' /\ HolderInv' /\ SimulationInv' /\ LevelInv'
<1>1. /\ ManagerTypes /\ EpochShape /\ HolderInv /\ SimulationInv /\ LevelInv
      /\ queue \in Seq(Operations) /\ taken \in 0 .. Len(queue)
  BY Zenon DEF TicketInv, ManagerTypes, TicketTypes, Operations
<1>2. UNCHANGED <<tickets, dirty, changes, step, levels, simulation, sources,
                  oldLevels, oldSimulation, taken, held, unloading, revivals>>
  BY Zenon DEF manager, updates, chunkMap
<1>3. queue' \in Seq(Operations) /\ taken' \in 0 .. Len(queue')
  BY <1>1, <1>2
<1>4. ManagerTypes'
  BY <1>1, <1>2, <1>3, Zenon DEF ManagerTypes, TicketTypes, Operations
<1>5. EpochShape' /\ HolderInv' /\ SimulationInv'
  BY <1>1, <1>2, Zenon DEF EpochShape, HolderInv, SimulationInv, Follows
<1>6. LevelInv'
  BY <1>1, <1>2, SameTickets, Zenon DEF LevelInv
<1> QED
  BY Zenon, <1>4, <1>5, <1>6

\* The balance before an owner's step.
LEMMA BalanceBefore ==
    ASSUME TicketInv
    PROVE  /\ queue \in Seq(Operations) /\ tickets \in TicketCounts
           /\ Path(tickets, queue, OwedTickets)
           /\ trackingView \in TrackingViews \cup {NoView}
           /\ requests \in [Handles -> Requests \cup {NoRequest}]
           /\ saved \in [Positions -> Expired .. PortalTimeout]
           /\ timed \in [TimedKinds -> [Positions -> Int]]
           /\ \A kind \in TimedKinds, p \in Positions :
                 timed[kind][p] \in Expired .. Timeout(kind)
  BY Zenon DEF TicketInv, ManagerTypes, TicketTypes, Operations, BalanceInv, TicketCounts

\* Moving a view queues the removal of its ticket before the addition of the
\* new one.
LEMMA UpdatePlayerStatusKeeps ==
    ASSUME TicketInv, NEW new \in TrackingViews, UpdatePlayerStatus(new)
    PROVE  TicketInv'
<1> DEFINE first == IF trackingView = NoView THEN <<>>
                    ELSE <<RemoveOp({trackingView.center}, ViewTicket)>>
           second == <<AddOp({new.center}, PlayerTicket(new.distance))>>
           none == OwedFor(NoView, timed, requests)
<1>1. /\ queue' = queue \o (first \o second)
      /\ trackingView' = new
      /\ UNCHANGED <<manager, taken, timed, requests, chunkMap, saved>>
  BY Zenon DEF UpdatePlayerStatus, Queue
<1>2. LeadsTo(first, OwedTickets, none)
  <2>1. CASE trackingView = NoView
    BY <2>1, Zenon DEF LeadsTo, OwedTickets
  <2>2. CASE trackingView # NoView
    <3>1. trackingView \in TrackingViews
      BY Zenon, <2>2, BalanceBefore
    <3>2. OneMoreThan(OwedTickets, none, {trackingView.center}, ViewTicket)
      BY <3>1, ViewOwed, Zenon DEF OwedTickets, ViewTicket
    <3> QED
      BY <2>2, <3>2, Zenon DEF LeadsTo, OneMoreThan
  <2> QED
    BY Zenon, <2>1, <2>2
<1>3. LeadsTo(second, none, OwedTickets')
  <2>1. OwedTickets' = OwedFor(new, timed, requests)
    BY <1>1, Zenon DEF OwedTickets
  <2>2. OneMoreThan(OwedFor(new, timed, requests), none, {new.center},
                    PlayerTicket(new.distance))
    BY ViewOwed, Zenon
  <2> QED
    BY <2>1, <2>2, Zenon DEF LeadsTo, OneMoreThan
<1> HIDE DEF first, second, none
<1>4. /\ Path(tickets, queue', OwedTickets')
      /\ first \in Seq(Operations) /\ second \in Seq(Operations)
  BY <1>1, <1>2, <1>3, BalanceBefore, PathQueueTwice, LeadsToType, Zenon
<1>5. BalanceInv'
  <2>1. tickets' = tickets
    BY <1>1, Zenon DEF manager
  <2> QED
    BY <1>4, <2>1, Zenon DEF BalanceInv
<1>6. first \o second \in Seq(Operations)
  BY <1>4
<1>7. ManagerTypes' /\ EpochShape' /\ HolderInv' /\ SimulationInv' /\ LevelInv'
  <2>1. /\ timed' = timed /\ requests' = requests /\ saved' = saved
        /\ UNCHANGED <<manager, taken, chunkMap>>
    BY <1>1, Zenon
  <2> QED
    BY <1>1, <1>6, <2>1, BalanceBefore, OwnerKeeps, Zenon
<1> QED
  BY <1>5, <1>7, Zenon DEF TicketInv

\* A view that goes takes its ticket with it.
LEMMA RemoveViewKeeps ==
    ASSUME TicketInv, RemoveView
    PROVE  TicketInv'
<1> DEFINE more == <<RemoveOp({trackingView.center}, ViewTicket)>>
<1>1. /\ queue' = queue \o more /\ trackingView # NoView /\ trackingView' = NoView
      /\ UNCHANGED <<manager, taken, timed, requests, chunkMap, saved>>
  BY Zenon DEF RemoveView, Queue
<1>2. LeadsTo(more, OwedTickets, OwedTickets')
  <2>1. OwedTickets' = OwedFor(NoView, timed, requests)
    BY <1>1, Zenon DEF OwedTickets
  <2>2. trackingView \in TrackingViews
    BY Zenon, <1>1, BalanceBefore
  <2>3. OneMoreThan(OwedTickets, OwedFor(NoView, timed, requests),
                    {trackingView.center}, ViewTicket)
    BY <2>2, ViewOwed, Zenon DEF OwedTickets, ViewTicket
  <2> QED
    BY <2>1, <2>3, Zenon DEF LeadsTo, OneMoreThan
<1> HIDE DEF more
<1>3. Path(tickets, queue', OwedTickets') /\ more \in Seq(Operations)
  BY <1>1, <1>2, BalanceBefore, PathQueue, LeadsToType, Zenon
<1>4. /\ timed' = timed /\ requests' = requests /\ saved' = saved /\ tickets' = tickets
      /\ UNCHANGED <<manager, taken, chunkMap>> /\ trackingView' \in TrackingViews \cup {NoView}
  BY <1>1, Zenon DEF manager
<1>5. BalanceInv'
  BY <1>3, <1>4, Zenon DEF BalanceInv
<1>6. ManagerTypes' /\ EpochShape' /\ HolderInv' /\ SimulationInv' /\ LevelInv'
  BY <1>1, <1>3, <1>4, BalanceBefore, OwnerKeeps, Zenon
<1> QED
  BY <1>5, <1>6, Zenon DEF TicketInv

\* A request brings its tickets.
LEMMA RequestKeeps ==
    ASSUME TicketInv, NEW h \in Handles, NEW r \in Requests, Request(h, r)
    PROVE  TicketInv'
<1> DEFINE more == <<AddOp(r.positions, Loading(r.level))>>
<1>1. /\ queue' = queue \o more /\ requests[h] = NoRequest
      /\ requests' = [requests EXCEPT ![h] = r]
      /\ UNCHANGED <<manager, taken, timed, trackingView, chunkMap, saved>>
  BY Zenon DEF Request, Queue
<1>2. /\ requests' \in [Handles -> Requests \cup {NoRequest}]
      /\ requests'[h] = r /\ \A g \in Handles \ {h} : requests'[g] = requests[g]
  BY Zenon, <1>1, BalanceBefore
<1>3. LeadsTo(more, OwedTickets, OwedTickets')
  <2>1. OwedTickets' = OwedFor(trackingView, timed, requests')
    BY <1>1, Zenon DEF OwedTickets
  <2> DEFINE Q == requests'
             R == requests
  <2>2. Q[h] = r /\ R[h] = NoRequest /\ \A g \in Handles \ {h} : Q[g] = R[g]
    BY Zenon, <1>1, <1>2
  <2> HIDE DEF Q, R
  <2>3. OneMoreThan(OwedFor(trackingView, timed, Q), OwedFor(trackingView, timed, R),
                    r.positions, Loading(r.level))
    BY Zenon, <1>2, <2>2, RequestOwed
  <2>4. OneMoreThan(OwedTickets', OwedTickets, r.positions, Loading(r.level))
    BY <2>1, <2>3, Zenon DEF OwedTickets, Q, R
  <2> QED
    BY <2>4, Zenon DEF LeadsTo, OneMoreThan
<1> HIDE DEF more
<1>4. Path(tickets, queue', OwedTickets') /\ more \in Seq(Operations)
  BY <1>1, <1>3, BalanceBefore, PathQueue, LeadsToType, Zenon
<1>5. /\ timed' = timed /\ trackingView' = trackingView /\ saved' = saved
      /\ tickets' = tickets /\ UNCHANGED <<manager, taken, chunkMap>>
  BY <1>1, Zenon DEF manager
<1>6. BalanceInv'
  BY <1>4, <1>5, Zenon DEF BalanceInv
<1>7. ManagerTypes' /\ EpochShape' /\ HolderInv' /\ SimulationInv' /\ LevelInv'
  BY <1>1, <1>2, <1>4, <1>5, BalanceBefore, OwnerKeeps, Zenon
<1> QED
  BY <1>6, <1>7, Zenon DEF TicketInv

\* A request released takes back the tickets it brought.
LEMMA ReleaseRequestKeeps ==
    ASSUME TicketInv, NEW h \in Handles, ReleaseRequest(h)
    PROVE  TicketInv'
<1> DEFINE r == requests[h]
           more == <<RemoveOp(r.positions, Loading(r.level))>>
<1>1. /\ queue' = queue \o more /\ r # NoRequest
      /\ requests' = [requests EXCEPT ![h] = NoRequest]
      /\ UNCHANGED <<manager, taken, timed, trackingView, chunkMap, saved>>
  BY Zenon DEF ReleaseRequest, Queue
<1>2. /\ requests' \in [Handles -> Requests \cup {NoRequest}] /\ r \in Requests
      /\ requests'[h] = NoRequest /\ \A g \in Handles \ {h} : requests[g] = requests'[g]
  BY Zenon, <1>1, BalanceBefore
<1>3. LeadsTo(more, OwedTickets, OwedTickets')
  <2>1. OwedTickets' = OwedFor(trackingView, timed, requests')
    BY <1>1, Zenon DEF OwedTickets
  <2> DEFINE Q == requests
             R == requests'
  <2>2. Q[h] = r /\ R[h] = NoRequest /\ \A g \in Handles \ {h} : Q[g] = R[g]
    BY Zenon, <1>1, <1>2
  <2> HIDE DEF Q, R
  <2>3. OneMoreThan(OwedFor(trackingView, timed, Q), OwedFor(trackingView, timed, R),
                    r.positions, Loading(r.level))
    BY Zenon, <1>2, <2>2, RequestOwed
  <2>4. OneMoreThan(OwedTickets, OwedTickets', r.positions, Loading(r.level))
    BY <2>1, <2>3, Zenon DEF OwedTickets, Q, R
  <2> QED
    BY <2>4, Zenon DEF LeadsTo, OneMoreThan
<1> HIDE DEF more
<1>4. Path(tickets, queue', OwedTickets') /\ more \in Seq(Operations)
  BY <1>1, <1>3, BalanceBefore, PathQueue, LeadsToType, Zenon
<1>5. /\ timed' = timed /\ trackingView' = trackingView /\ saved' = saved
      /\ tickets' = tickets /\ UNCHANGED <<manager, taken, chunkMap>>
  BY <1>1, Zenon DEF manager
<1>6. BalanceInv'
  BY <1>4, <1>5, Zenon DEF BalanceInv
<1>7. ManagerTypes' /\ EpochShape' /\ HolderInv' /\ SimulationInv' /\ LevelInv'
  BY <1>1, <1>2, <1>4, <1>5, BalanceBefore, OwnerKeeps, Zenon
<1> QED
  BY <1>6, <1>7, Zenon DEF TicketInv

\* A timed ticket is brought when it is placed, not when it is refreshed.
LEMMA PlaceTimedKeeps ==
    ASSUME TicketInv, NEW kind \in TimedKinds, NEW p \in Positions, PlaceTimed(kind, p)
    PROVE  TicketInv'
<1> DEFINE more == IF timed[kind][p] = Expired
                   THEN <<AddOp({p}, TimedTicket(kind))>> ELSE <<>>
<1>1. /\ queue' = queue \o more
      /\ timed' = [timed EXCEPT ![kind][p] = Timeout(kind)]
      /\ UNCHANGED <<manager, taken, trackingView, requests, chunkMap, saved>>
  BY Zenon DEF PlaceTimed, Queue
<1>2. Timeout(kind) \in Nat /\ Expired = -1
  BY Zenon, DistanceAssumption DEF Timeout, Expired
<1>3. /\ timed' \in [TimedKinds -> [Positions -> Int]]
      /\ \A k \in TimedKinds, q \in Positions : timed'[k][q] \in Expired .. Timeout(k)
      /\ timed'[kind][p] # Expired
      /\ \A q \in Positions \ {p} : timed'[kind][q] = timed[kind][q]
      /\ \A k \in TimedKinds \ {kind}, q \in Positions : timed'[k][q] = timed[k][q]
  BY <1>1, <1>2, BalanceBefore
<1>4. LeadsTo(more, OwedTickets, OwedTickets')
  <2> DEFINE M == timed'
             N == timed
  <2>1. /\ OwedTickets = OwedFor(trackingView, N, requests)
        /\ OwedTickets' = OwedFor(trackingView, M, requests)
    BY <1>1, Zenon DEF OwedTickets
  <2>2. /\ M[kind][p] # Expired
        /\ \A q \in Positions \ {p} : M[kind][q] = N[kind][q]
        /\ \A k \in TimedKinds \ {kind}, q \in Positions : M[k][q] = N[k][q]
    BY Zenon, <1>3
  <2>3. CASE timed[kind][p] = Expired
    <3>1. N[kind][p] = Expired /\ more = <<AddOp({p}, TimedTicket(kind))>>
      BY Zenon, <2>3
    <3> HIDE DEF M, N, more
    <3>2. ExpiredAt(M, N, kind, {p}) /\ {p} \in SUBSET Positions
      BY Zenon, <2>2, <3>1 DEF ExpiredAt
    <3>3. OneMoreThan(OwedFor(trackingView, M, requests),
                      OwedFor(trackingView, N, requests), {p}, TimedTicket(kind))
      BY <3>2, TimedOwed, Zenon
    <3> QED
      BY <2>1, <3>1, <3>3, Zenon DEF LeadsTo, OneMoreThan
  <2>4. CASE timed[kind][p] # Expired
    <3>1. N[kind][p] # Expired /\ more = <<>>
      BY Zenon, <2>4
    <3> HIDE DEF M, N, more
    <3>2. \A k \in TimedKinds, q \in Positions : M[k][q] = Expired <=> N[k][q] = Expired
      BY Zenon, <2>2, <3>1
    <3>3. OwedFor(trackingView, M, requests) = OwedFor(trackingView, N, requests)
      BY <3>2, TimedSame, Zenon
    <3> QED
      BY <2>1, <3>1, <3>3, Zenon DEF LeadsTo
  <2> QED
    BY Zenon, <2>3, <2>4
<1> HIDE DEF more
<1>5. Path(tickets, queue', OwedTickets') /\ more \in Seq(Operations)
  BY <1>1, <1>4, BalanceBefore, PathQueue, LeadsToType, Zenon
<1>6. /\ requests' = requests /\ trackingView' = trackingView /\ saved' = saved
      /\ tickets' = tickets /\ UNCHANGED <<manager, taken, chunkMap>>
  BY <1>1, Zenon DEF manager
<1>7. BalanceInv'
  BY <1>5, <1>6, Zenon DEF BalanceInv
<1>8. ManagerTypes' /\ EpochShape' /\ HolderInv' /\ SimulationInv' /\ LevelInv'
  BY <1>1, <1>3, <1>5, <1>6, BalanceBefore, OwnerKeeps, Zenon
<1> QED
  BY <1>7, <1>8, Zenon DEF TicketInv

\* The tickets of a kind that run out together are removed together.
LEMMA ExpiryLeads ==
    ASSUME NEW V, NEW M, NEW N, NEW Q, NEW kind \in TimedKinds, NEW D \in SUBSET Positions,
           ExpiredAt(M, N, kind, D)
    PROVE  LeadsTo(IF D = {} THEN <<>> ELSE <<RemoveOp(D, TimedTicket(kind))>>,
                   OwedFor(V, M, Q), OwedFor(V, N, Q))
<1>1. CASE D = {}
  <2>1. \A k \in TimedKinds, p \in Positions : M[k][p] = Expired <=> N[k][p] = Expired
    BY Zenon, <1>1 DEF ExpiredAt
  <2>2. OwedFor(V, M, Q) = OwedFor(V, N, Q)
    BY Zenon, <2>1, TimedSame
  <2> QED
    BY <1>1, <2>2, Zenon DEF LeadsTo
<1>2. CASE D # {}
  <2>1. OneMoreThan(OwedFor(V, M, Q), OwedFor(V, N, Q), D, TimedTicket(kind))
    BY TimedOwed, Zenon
  <2> QED
    BY <1>2, <2>1, Zenon DEF LeadsTo, OneMoreThan
<1> QED
  BY Zenon, <1>1, <1>2

\* A tick removes the timed tickets that run out, and no others.
LEMMA TickTimedKeeps ==
    ASSUME TicketInv, NEW busy \in SUBSET Positions, TickTimed(busy)
    PROVE  TicketInv'
<1> DEFINE D(kind) == {p \in Positions \ busy : timed[kind][p] = 0}
           removals(kind) == IF D(kind) = {} THEN <<>>
                             ELSE <<RemoveOp(D(kind), TimedTicket(kind))>>
           M == timed
           N == timed'
           mid == [kind \in TimedKinds |-> IF kind = "portal" THEN N[kind] ELSE M[kind]]
<1>1. /\ queue' = queue \o (removals("portal") \o removals("pearl"))
      /\ timed' = [kind \in TimedKinds |-> [p \in Positions |->
                      IF p \in busy \/ timed[kind][p] = Expired
                      THEN timed[kind][p] ELSE timed[kind][p] - 1]]
      /\ UNCHANGED <<manager, taken, trackingView, requests, chunkMap, saved, operations>>
  BY Zenon DEF TickTimed, Queue
<1>2. ASSUME NEW kind \in TimedKinds, NEW p \in Positions
      PROVE  /\ N[kind][p] \in Expired .. Timeout(kind)
             /\ p \in D(kind) => M[kind][p] # Expired /\ N[kind][p] = Expired
             /\ p \notin D(kind) => (M[kind][p] = Expired <=> N[kind][p] = Expired)
  <2>1. N[kind][p] = IF p \in busy \/ M[kind][p] = Expired THEN M[kind][p] ELSE M[kind][p] - 1
    BY Zenon, <1>1
  <2>2. M[kind][p] \in Expired .. Timeout(kind) /\ Timeout(kind) \in Nat /\ Expired = -1
    BY Zenon, BalanceBefore, DistanceAssumption DEF Timeout, Expired
  <2>3. p \in D(kind) <=> p \notin busy /\ M[kind][p] = 0
    BY Zenon
  <2> HIDE DEF D, M, N
  <2> QED
    BY <2>1, <2>2, <2>3
<1>3. timed' \in [TimedKinds -> [Positions -> Int]]
  <2>1. \A kind \in TimedKinds, p \in Positions : timed[kind][p] \in Int
    BY Zenon, BalanceBefore
  <2> QED
    BY <1>1, <2>1
<1>4. /\ OwedTickets = OwedFor(trackingView, M, requests)
      /\ OwedTickets' = OwedFor(trackingView, N, requests)
  BY <1>1, Zenon DEF OwedTickets
<1>5. mid["portal"] = N["portal"] /\ mid["pearl"] = M["pearl"]
      /\ TimedKinds = {"portal", "pearl"}
  BY Zenon DEF TimedKinds
<1>6. D("portal") \in SUBSET Positions /\ D("pearl") \in SUBSET Positions
  BY Zenon
<1> HIDE DEF D, M, N, mid
<1>7. LeadsTo(removals("portal"), OwedFor(trackingView, M, requests),
                                  OwedFor(trackingView, mid, requests))
  <2>1. ExpiredAt(M, mid, "portal", D("portal")) /\ "portal" \in TimedKinds
    BY Zenon, <1>2, <1>5, <1>6 DEF ExpiredAt
  <2> QED
    BY <1>6, <2>1, ExpiryLeads, Zenon
<1>8. LeadsTo(removals("pearl"), OwedFor(trackingView, mid, requests),
                                 OwedFor(trackingView, N, requests))
  <2>1. ExpiredAt(mid, N, "pearl", D("pearl")) /\ "pearl" \in TimedKinds
    BY Zenon, <1>2, <1>5, <1>6 DEF ExpiredAt
  <2> QED
    BY <1>6, <2>1, ExpiryLeads, Zenon
<1> DEFINE first == removals("portal")
           second == removals("pearl")
           V == OwedFor(trackingView, mid, requests)
<1>9. /\ LeadsTo(first, OwedTickets, V) /\ LeadsTo(second, V, OwedTickets')
      /\ queue' = queue \o (first \o second)
  BY <1>1, <1>4, <1>7, <1>8, Zenon
<1> HIDE DEF first, second, V
<1>10. /\ Path(tickets, queue', OwedTickets')
       /\ first \in Seq(Operations) /\ second \in Seq(Operations)
  BY <1>9, BalanceBefore, PathQueueTwice, LeadsToType, Zenon
<1>11. first \o second \in Seq(Operations)
  BY <1>10
<1>12. /\ requests' = requests /\ trackingView' = trackingView /\ saved' = saved
       /\ tickets' = tickets /\ UNCHANGED <<manager, taken, chunkMap>>
  BY <1>1, Zenon DEF manager
<1>13. BalanceInv'
  BY <1>10, <1>12, Zenon DEF BalanceInv
<1>14. ManagerTypes' /\ EpochShape' /\ HolderInv' /\ SimulationInv' /\ LevelInv'
  <2>1. \A kind \in TimedKinds, p \in Positions : timed'[kind][p] \in Expired .. Timeout(kind)
    BY <1>2, Zenon DEF N
  <2> QED
    BY <1>3, <1>9, <1>11, <1>12, <2>1, BalanceBefore, OwnerKeeps, Zenon
<1> QED
  BY <1>13, <1>14, Zenon DEF TicketInv

-----------------------------------------------------------------------------
(* Starting.                                                               *)

\* The timed tickets a server starts with: the portal tickets of the file.
StartTimed(file) ==
    [kind \in TimedKinds |-> IF kind = "portal" THEN file ELSE NothingTimed]

\* One ticket at each position of the file.
StartTickets(file) ==
    [p \in Positions |-> [t \in Tickets |->
        IF t = TimedTicket("portal") /\ file[p] # Expired THEN 1 ELSE 0]]

\* No handle has a request.
NoRequests == [h \in Handles |-> NoRequest]

\* A server that starts owes the portal tickets of the file, once each.
LEMMA StartOwed ==
    ASSUME NEW file
    PROVE  OwedFor(NoView, StartTimed(file), NoRequests) = StartTickets(file)
<1> DEFINE M == StartTimed(file)
           Q == NoRequests
<1>1. M["portal"] = file /\ \A p \in Positions : M["pearl"][p] = Expired
  BY Zenon DEF TimedKinds, NothingTimed, StartTimed
<1>2. ASSUME NEW p \in Positions, NEW t \in Tickets
      PROVE  One(ViewWants(NoView, p, t))
             + One(TimedWants(M, "portal", p, t)) + One(TimedWants(M, "pearl", p, t))
             + Cardinality(RequestsFor(Q, p, t))
             = IF t = TimedTicket("portal") /\ file[p] # Expired THEN 1 ELSE 0
  <2>1. One(ViewWants(NoView, p, t)) = 0
    BY Zenon DEF One, ViewWants
  <2>2. One(TimedWants(M, "pearl", p, t)) = 0
    BY Zenon, <1>1 DEF One, TimedWants
  <2>3. One(TimedWants(M, "portal", p, t))
           = IF t = TimedTicket("portal") /\ file[p] # Expired THEN 1 ELSE 0
    BY Zenon, <1>1 DEF One, TimedWants
  <2>4. Cardinality(RequestsFor(Q, p, t)) = 0
    <3>1. RequestsFor(Q, p, t) = {}
      BY Zenon DEF RequestsFor, NoRequests
    <3> QED
      BY <3>1, FS_EmptySet, Zenon
  <2> QED
    BY <2>1, <2>2, <2>3, <2>4
<1> QED
  BY <1>2, Zenon DEF OwedFor, StartTickets

\* Without tickets nothing is propagated.
LEMMA NothingReached ==
    ASSUME NEW rest, \A s \in Positions \ rest : TicketsAt(s) = {}
    PROVE  \A p, field, limit : ReachedBut(rest, p, field, limit) = {}
<1>1. \A s \in Positions \ rest : \A p, field, limit : Reach(s, p, field, limit) = {}
  BY Zenon DEF Reach
<1> QED
  BY <1>1, Zenon DEF ReachedBut

\* A server starts with the tickets of the file and no levels.
LEMMA BootKeeps ==
    ASSUME NEW file \in [Positions -> Expired .. PortalTimeout], Boot(file),
           saved' \in [Positions -> Expired .. PortalTimeout]
    PROVE  TicketInv'
<1>1. /\ timed' = [kind \in TimedKinds |->
                      IF kind = "portal" THEN file ELSE NothingTimed]
      /\ tickets' = [p \in Positions |-> [t \in Tickets |->
                      IF t = TimedTicket("portal") /\ file[p] # Expired
                      THEN 1 ELSE 0]]
      /\ dirty' = (\E p \in Positions : file[p] # Expired)
      /\ levels' = NoLevels /\ simulation' = NoLevels /\ changes' = {}
      /\ step' = "idle" /\ sources' = {}
      /\ oldLevels' = NoLevels /\ oldSimulation' = NoLevels
      /\ queue' = <<>> /\ taken' = 0
      /\ trackingView' = NoView
      /\ requests' = [h \in Handles |-> NoRequest]
      /\ held' = [p \in Positions |-> <<NoLevel, NoLevel>>]
      /\ unloading' = {} /\ revivals' = {}
  BY Zenon DEF Boot
<1>2. tickets' \in [Positions -> [Tickets -> Nat]]
  BY Zenon, <1>1
<1>3. /\ timed' \in [TimedKinds -> [Positions -> Int]]
      /\ \A kind \in TimedKinds, p \in Positions : timed'[kind][p] \in Expired .. Timeout(kind)
  BY <1>1, DistanceAssumption DEF TimedKinds, NothingTimed, Timeout, Expired
<1>4. NoLevels \in [Positions -> Levels \cup {NoLevel}]
      /\ NoLevels \in [Positions -> (0 .. FullChunk) \cup {NoLevel}]
  BY Zenon DEF NoLevels
<1>5. TicketTypes'
  <2>1. held' \in [Positions -> (Levels \cup {NoLevel}) \X (Levels \cup {NoLevel})]
        /\ requests' \in [Handles -> Requests \cup {NoRequest}]
        /\ trackingView' \in TrackingViews \cup {NoView}
        /\ dirty' \in BOOLEAN
    BY Zenon, <1>1
  <2>2. /\ queue' \in Seq([kind : {"add", "remove"}, positions : SUBSET Positions,
                           ticket : Tickets])
        /\ taken' \in 0 .. Len(queue')
    BY <1>1
  <2> QED
    BY Zenon, <1>1, <1>2, <1>3, <1>4, <2>1, <2>2 DEF TicketTypes
<1>6. ManagerTypes'
  BY <1>1, <1>3, <1>4, <1>5, Zenon DEF ManagerTypes
<1>7. EpochShape'
  BY Zenon, <1>1 DEF EpochShape
<1>8. HolderInv' /\ SimulationInv'
  BY Zenon, <1>1 DEF HolderInv, SimulationInv, NoLevels, Follows
<1>9. LevelInv'
  <2> SUFFICES ASSUME ~dirty' PROVE PropagatedBut({})'
    BY Zenon, <1>1 DEF LevelInv
  <2>1. \A s \in Positions : TicketsAt(s)' = {}
    BY <1>1 DEF TicketsAt
  <2>2. \A s \in Positions : \A p, field, limit : Reach(s, p, field, limit)' = {}
    BY Zenon, <2>1 DEF Reach
  <2>3. \A p, field, limit : ReachedBut({}, p, field, limit)' = {}
    BY <2>2, ZenonT(40) DEF ReachedBut
  <2> QED
    BY Zenon, <1>1, <2>3 DEF PropagatedBut, IsStrongest, NoLevels
<1>10. BalanceInv'
  <2>1. OwedTickets' = tickets'
    <3>1. timed' = StartTimed(file) /\ requests' = NoRequests /\ tickets' = StartTickets(file)
      BY <1>1, Zenon DEF StartTimed, NoRequests, StartTickets
    <3> QED
      BY <1>1, <3>1, StartOwed, Zenon DEF OwedTickets
  <2> QED
    BY <1>1, <1>2, <2>1, PathNone, Zenon DEF BalanceInv, TicketCounts
<1> QED
  BY <1>6, <1>7, <1>8, <1>9, <1>10, Zenon DEF TicketInv

\* A server that starts for the first time has no tickets.
LEMMA TicketInitInv ==
    ASSUME TicketInit
    PROVE  TicketInv
<1>1. /\ tickets = NoTickets /\ dirty = FALSE
      /\ levels = NoLevels /\ simulation = NoLevels /\ changes = {}
      /\ step = "idle" /\ sources = {}
      /\ oldLevels = NoLevels /\ oldSimulation = NoLevels
      /\ queue = <<>> /\ taken = 0
      /\ timed = [kind \in TimedKinds |-> NothingTimed]
      /\ trackingView = NoView
      /\ requests = [h \in Handles |-> NoRequest]
      /\ held = [p \in Positions |-> <<NoLevel, NoLevel>>]
      /\ unloading = {} /\ revivals = {}
      /\ saved = NothingTimed
  BY Zenon DEF TicketInit
<1>2. tickets \in [Positions -> [Tickets -> Nat]]
  BY Zenon, <1>1 DEF NoTickets
<1>3. /\ timed \in [TimedKinds -> [Positions -> Int]]
      /\ \A kind \in TimedKinds, p \in Positions : timed[kind][p] \in Expired .. Timeout(kind)
      /\ saved \in [Positions -> Expired .. PortalTimeout]
  BY <1>1, DistanceAssumption DEF TimedKinds, NothingTimed, Timeout, Expired
<1>4. NoLevels \in [Positions -> Levels \cup {NoLevel}]
      /\ NoLevels \in [Positions -> (0 .. FullChunk) \cup {NoLevel}]
  BY Zenon DEF NoLevels
<1>5. TicketTypes
  <2>1. held \in [Positions -> (Levels \cup {NoLevel}) \X (Levels \cup {NoLevel})]
        /\ requests \in [Handles -> Requests \cup {NoRequest}]
        /\ trackingView \in TrackingViews \cup {NoView}
        /\ dirty \in BOOLEAN
    BY Zenon, <1>1
  <2>2. /\ queue \in Seq([kind : {"add", "remove"}, positions : SUBSET Positions,
                          ticket : Tickets])
        /\ taken \in 0 .. Len(queue)
    BY <1>1
  <2> QED
    BY Zenon, <1>1, <1>2, <1>3, <1>4, <2>1, <2>2 DEF TicketTypes
<1>6. ManagerTypes
  BY <1>1, <1>3, <1>4, <1>5, Zenon DEF ManagerTypes
<1>7. EpochShape
  BY Zenon, <1>1 DEF EpochShape
<1>8. HolderInv /\ SimulationInv
  BY Zenon, <1>1 DEF HolderInv, SimulationInv, NoLevels, Follows
<1>9. LevelInv
  <2>1. \A s \in Positions \ {} : TicketsAt(s) = {}
    BY <1>1 DEF TicketsAt, NoTickets
  <2>2. \A p, field, limit : ReachedBut({}, p, field, limit) = {}
    BY <2>1, NothingReached, Zenon
  <2> QED
    BY Zenon, <1>1, <2>2 DEF LevelInv, PropagatedBut, IsStrongest, NoLevels
<1>10. BalanceInv
  <2>1. timed = StartTimed(NothingTimed) /\ requests = NoRequests
    BY Zenon, <1>1 DEF StartTimed, NoRequests
  <2>2. tickets = StartTickets(NothingTimed)
    BY Zenon, <1>1 DEF StartTickets, NoTickets, NothingTimed
  <2>3. OwedTickets = tickets
    BY <1>1, <2>1, <2>2, StartOwed, Zenon DEF OwedTickets
  <2> QED
    BY <1>1, <1>2, <2>3, PathNone, Zenon DEF BalanceInv, TicketCounts
<1> QED
  BY <1>6, <1>7, <1>8, <1>9, <1>10, Zenon DEF TicketInv

-----------------------------------------------------------------------------
(* The manager.                                                            *)

\* The owners are owed the same.
LEMMA SameOwners ==
    ASSUME UNCHANGED <<timed, trackingView, requests>>
    PROVE  OwedTickets' = OwedTickets
  BY Zenon DEF OwedTickets

\* A step that leaves the tickets, the queue and the owners alone keeps the
\* balance.
LEMMA BalanceKeeps ==
    ASSUME BalanceInv, UNCHANGED <<tickets, queue, timed, trackingView, requests>>
    PROVE  BalanceInv'
<1>1. tickets' = tickets /\ queue' = queue /\ OwedTickets' = OwedTickets
  BY SameOwners, Zenon
<1> QED
  BY <1>1, Zenon DEF BalanceInv

\* The worker takes what is queued.
LEMMA TakeOperationsKeeps ==
    ASSUME TicketInv, TakeOperations
    PROVE  TicketInv'
<1>1. /\ step = "idle" /\ step' = "apply" /\ taken' = Len(queue)
      /\ UNCHANGED <<tickets, dirty, changes, levels, simulation, sources, oldLevels,
                     oldSimulation, queue, timed, trackingView, requests, held,
                     unloading, revivals, saved>>
  BY Zenon DEF TakeOperations, updates, chunkMap
<1>2. /\ ManagerTypes /\ EpochShape /\ HolderInv /\ SimulationInv /\ LevelInv /\ BalanceInv
      /\ queue \in Seq(Operations)
  BY BalanceBefore, Zenon DEF TicketInv
<1>3. taken' \in 0 .. Len(queue')
  BY <1>1, <1>2
<1>4. ManagerTypes'
  BY Zenon, <1>1, <1>2, <1>3 DEF ManagerTypes, TicketTypes
<1>5. EpochShape' /\ HolderInv' /\ SimulationInv'
  BY Zenon, <1>1, <1>2 DEF EpochShape, HolderInv, SimulationInv, Follows
<1>6. LevelInv'
  BY Zenon, <1>1, <1>2, SameTickets DEF LevelInv
<1>7. BalanceInv'
  BY <1>1, <1>2, BalanceKeeps, Zenon
<1> QED
  BY <1>4, <1>5, <1>6, <1>7, Zenon DEF TicketInv

\* Applying an operation moves the tickets one step along the path; levels
\* that were clean stay so only when no ticket changed.
LEMMA ApplyNextKeeps ==
    ASSUME TicketInv, ApplyNext
    PROVE  TicketInv'
<1>1. /\ step = "apply" /\ taken > 0 /\ step' = step
      /\ tickets' = ApplyOperation(tickets, Head(queue))
      /\ dirty' = (dirty \/ tickets' # tickets)
      /\ queue' = Tail(queue) /\ taken' = taken - 1
      /\ UNCHANGED <<changes, levels, simulation, sources, oldLevels, oldSimulation,
                     timed, trackingView, requests, held, unloading, revivals, saved>>
  BY Zenon DEF ApplyNext, updates, chunkMap
<1>2. /\ ManagerTypes /\ EpochShape /\ HolderInv /\ SimulationInv /\ LevelInv
      /\ queue \in Seq(Operations) /\ tickets \in TicketCounts
      /\ Path(tickets, queue, OwedTickets)
  BY BalanceBefore, Zenon DEF TicketInv
<1>3. taken \in 0 .. Len(queue)
  BY Zenon, <1>2 DEF ManagerTypes, TicketTypes
<1>4. /\ queue # << >> /\ Head(queue) \in Operations /\ Tail(queue) \in Seq(Operations)
      /\ taken' \in 0 .. Len(queue')
  BY <1>1, <1>2, <1>3
<1>5. tickets' \in TicketCounts
  BY Zenon, <1>1, <1>2, <1>4, ApplyType
<1>6. ManagerTypes'
  <2>1. dirty' \in BOOLEAN
    BY Zenon, <1>1, <1>2 DEF ManagerTypes, TicketTypes
  <2> QED
    BY <1>1, <1>2, <1>4, <1>5, <2>1, Zenon
    DEF ManagerTypes, TicketTypes, Operations, TicketCounts
<1>7. EpochShape' /\ HolderInv' /\ SimulationInv'
  BY ZenonT(40), <1>1, <1>2 DEF EpochShape, HolderInv, SimulationInv, Follows
<1>8. LevelInv'
  <2> SUFFICES ASSUME ~dirty' PROVE PropagatedBut({})'
    BY Zenon, <1>1 DEF LevelInv
  <2>1. ~dirty /\ tickets' = tickets
    BY Zenon, <1>1
  <2>2. PropagatedBut({})
    BY Zenon, <1>1, <1>2, <2>1 DEF LevelInv
  <2> QED
    BY <1>1, <2>1, <2>2, SameTickets, Zenon
<1>9. BalanceInv'
  <2>1. Path(tickets', queue', OwedTickets)
    BY <1>1, <1>2, <1>4, PathTail, Zenon
  <2>2. OwedTickets' = OwedTickets
    BY <1>1, SameOwners, Zenon
  <2> QED
    BY <2>1, <2>2, Zenon DEF BalanceInv
<1> QED
  BY <1>6, <1>7, <1>8, <1>9, Zenon DEF TicketInv

\* process_unloads keeps every holder that is to be revived.
LEMMA UnloadsKeep ==
    ASSUME ManagerTypes, NEW list, ProcessUnloads(list), held' = held, revivals' = revivals
    PROVE  /\ unloading' \subseteq Positions
           /\ \A p \in Positions : \A load, sim : Follows(p, load, sim) => Follows(p, load, sim)'
<1> DEFINE staged == {c.pos : c \in {d \in list \cup revivals : d.level # NoLevel}}
<1>1. PICK finalized \in SUBSET (unloading \ staged) : unloading' = unloading \ finalized
  BY Zenon DEF ProcessUnloads
<1>2. unloading \subseteq Positions
  BY Zenon DEF ManagerTypes, TicketTypes
<1>3. ASSUME NEW r \in revivals, r.pos \in unloading
      PROVE  r.pos \in unloading'
  <2>1. r.level \in Levels
    BY Zenon DEF ManagerTypes, TicketTypes
  <2>2. r.level # NoLevel
    BY <2>1, LevelOrder, NoneAssumption
  <2>3. r.pos \in staged
    BY <2>2, Zenon
  <2> QED
    BY <1>1, <1>3, <2>3, Zenon
<1> QED
  BY <1>1, <1>2, <1>3, Zenon DEF Follows

\* Without changes the epoch is prepared; otherwise the levels start empty, and a
\* position that is not a source has no ticket.
LEMMA BeginUpdatesKeeps ==
    ASSUME TicketInv, BeginUpdates
    PROVE  TicketInv'
<1>1. /\ step = "apply" /\ taken = 0 /\ dirty' = FALSE
      /\ UNCHANGED <<tickets, changes, queue, taken, timed, trackingView, requests,
                     held, revivals, saved>>
      /\ \/ /\ ~dirty /\ step' = "ready" /\ ProcessUnloads({})
            /\ UNCHANGED <<levels, simulation, sources, oldLevels, oldSimulation>>
         \/ /\ dirty /\ step' = "spread"
            /\ oldLevels' = levels /\ oldSimulation' = simulation
            /\ levels' = NoLevels /\ simulation' = NoLevels
            /\ sources' = {s \in Positions : TicketsAt(s) # {}}
            /\ unloading' = unloading
  BY Zenon DEF BeginUpdates, updates
<1>2. ManagerTypes /\ EpochShape /\ HolderInv /\ SimulationInv /\ LevelInv /\ BalanceInv
  BY Zenon DEF TicketInv
<1>3. BalanceInv'
  BY <1>1, <1>2, BalanceKeeps, Zenon
<1>4. CASE ~dirty /\ step' = "ready" /\ ProcessUnloads({})
           /\ UNCHANGED <<levels, simulation, sources, oldLevels, oldSimulation>>
  <2>0. /\ unloading' \subseteq Positions
        /\ \A p \in Positions : \A load, sim : Follows(p, load, sim) => Follows(p, load, sim)'
    BY <1>1, <1>2, <1>4, UnloadsKeep, Zenon
  <2>1. ManagerTypes'
    BY Zenon, <1>1, <1>2, <1>4, <2>0 DEF ManagerTypes, TicketTypes
  <2>2. EpochShape' /\ SimulationInv'
    BY ZenonT(40), <1>1, <1>2, <1>4 DEF EpochShape, SimulationInv
  <2>4. HolderInv'
    <3>1. changes' = {}
      BY <1>1, <1>2, Zenon DEF EpochShape
    <3>2. \A p \in Positions : Follows(p, levels[p], simulation[p])'
      BY <1>1, <1>2, <1>4, <2>0, Zenon DEF HolderInv
    <3> QED
      BY <1>1, <1>2, <1>4, <3>1, <3>2, Zenon DEF HolderInv
  <2>3. LevelInv'
    <3>1. PropagatedBut({})
      BY Zenon, <1>1, <1>2, <1>4 DEF LevelInv
    <3>2. PropagatedBut({})'
      BY <1>1, <1>4, <3>1, SameTickets, Zenon
    <3> QED
      BY Zenon, <1>4, <3>2 DEF LevelInv
  <2> QED
    BY <1>3, <2>1, <2>2, <2>3, <2>4, Zenon DEF TicketInv
<1>5. CASE /\ dirty /\ step' = "spread"
           /\ oldLevels' = levels /\ oldSimulation' = simulation
           /\ levels' = NoLevels /\ simulation' = NoLevels
           /\ sources' = {s \in Positions : TicketsAt(s) # {}}
           /\ unloading' = unloading
  <2>1. /\ NoLevels \in [Positions -> Levels \cup {NoLevel}]
        /\ NoLevels \in [Positions -> (0 .. FullChunk) \cup {NoLevel}]
        /\ sources' \subseteq Positions
    BY Zenon, <1>5 DEF NoLevels
  <2>2. ManagerTypes'
    BY Zenon, <1>1, <1>2, <1>5, <2>1 DEF ManagerTypes, TicketTypes
  <2>3. EpochShape' /\ HolderInv' /\ SimulationInv'
    BY ZenonT(40), <1>1, <1>2, <1>5 DEF EpochShape, HolderInv, SimulationInv, NoLevels, Follows
  <2>4. \A s : TicketsAt(s)' = TicketsAt(s)
    BY ZenonT(40), <1>1 DEF TicketsAt
  <2>5. \A s \in Positions \ sources' : TicketsAt(s)' = {}
    BY Zenon, <1>5, <2>4
  <2>6. \A s \in Positions \ sources' : \A p, field, limit : Reach(s, p, field, limit)' = {}
    BY Zenon, <2>5 DEF Reach
  <2>7. \A p, field, limit : ReachedBut(sources, p, field, limit)' = {}
    BY <2>6, Zenon DEF ReachedBut
  <2>8. PropagatedBut(sources)'
    BY ZenonT(40), <1>5, <2>7 DEF PropagatedBut, IsStrongest, NoLevels
  <2>9. \A s \in sources' : TicketsAt(s)' # {}
    BY Zenon, <1>5, <2>4
  <2>10. LevelInv'
    BY Zenon, <1>5, <2>8, <2>9 DEF LevelInv
  <2> QED
    BY <1>3, <2>2, <2>3, <2>10, Zenon DEF TicketInv
<1> QED
  BY <1>1, <1>4, <1>5, Zenon

\* The level old of p with what source s, of level l, adds to it.
Added(new, old, s, p, field, limit, l) ==
    /\ IsStrongest(new, ReachedBut(sources \ {s}, p, field, limit))
    /\ \/ new \in {old, NoLevel}
       \/ Distance(s, p) <= Monus(limit, l) /\ new = l + Distance(s, p)

\* Spreading the strongest ticket of one source adds what that source gives.
LEMMA SpreadAdds ==
    ASSUME ManagerTypes, NEW s \in sources, NEW p \in Positions,
           NEW field \in {"load", "simulation"}, NEW limit \in Nat, NEW acc, NEW l \in Nat,
           l = Strongest({t[field] : t \in TicketsAt(s)}),
           l <= MaxLevel, limit <= MaxLevel,
           IsStrongest(acc[p], ReachedBut(sources, p, field, limit))
    PROVE  Added(Spread(acc, s, l, Monus(limit, l))[p], acc[p], s, p, field, limit, l)
<1> DEFINE d == Distance(s, p)
           reach == Monus(limit, l)
           A == ReachedBut(sources, p, field, limit)
           B == Reach(s, p, field, limit)
<1>1. s \in Positions
  BY ZenonT(40) DEF ManagerTypes, TicketTypes
<1>2. d \in Nat /\ reach \in Nat /\ l # NoLevel
  BY <1>1, DistanceType, NoneAssumption DEF Monus
<1>3. A \subseteq Nat
  <2>1. \A q \in Positions : Reach(q, p, field, limit) \subseteq Nat
    BY SourceReach, Zenon
  <2> QED
    BY <2>1, Zenon DEF ReachedBut
<1>4. ReachedBut(sources \ {s}, p, field, limit) = A \cup B
  BY <1>1, Zenon DEF ReachedBut
<1>5. B \subseteq Nat /\ IF l # NoLevel /\ d <= reach THEN IsStrongest(l + d, B) ELSE B = {}
  BY <1>1, SourceReach, ZenonT(40)
<1>6. Spread(acc, s, l, reach)[p] = IF d <= reach THEN Strongest({acc[p], WithDistance(l, d)})
                                   ELSE acc[p]
  BY Zenon DEF Spread
<1>7. d <= reach => WithDistance(l, d) = l + d
  BY SMTT(40), <1>2, LevelOrder DEF WithDistance, Monus
<1>8. IsStrongest(acc[p], A)
  BY ZenonT(40)
<1> HIDE DEF d, reach, A, B
<1>9. CASE d <= reach
  <2>1. IsStrongest(Strongest({acc[p], l + d}), A \cup B)
    BY <1>2, <1>3, <1>5, <1>8, <1>9, StrongestOfTwo, Zenon
  <2>2. Spread(acc, s, l, reach)[p] = Strongest({acc[p], l + d})
    BY <1>6, <1>7, <1>9, Zenon
  <2>3. Strongest({acc[p], l + d}) \in {acc[p], l + d, NoLevel}
    <3>1. {acc[p], l + d} \subseteq Nat \cup {NoLevel}
      <4>1. l + d \in Nat
        BY <1>2
      <4>2. acc[p] = NoLevel \/ acc[p] \in A
        BY <1>8, ZenonT(40) DEF IsStrongest
      <4>3. acc[p] \in Nat \cup {NoLevel}
        BY <1>3, <4>2, Zenon
      <4> QED
        BY <4>1, <4>3, Zenon
    <3>2. IsStrongest(Strongest({acc[p], l + d}), {acc[p], l + d} \ {NoLevel})
      BY <3>1, StrongestIs, Zenon
    <3> QED
      BY <3>2, Zenon DEF IsStrongest
  <2> QED
    BY <1>4, <1>9, <2>1, <2>2, <2>3, Zenon DEF Added, d, reach, A, B
<1>10. CASE ~(d <= reach)
  <2>1. B = {} /\ A \cup B = A /\ Spread(acc, s, l, reach)[p] = acc[p]
    BY Zenon, <1>5, <1>6, <1>10
  <2> QED
    BY <1>4, <1>8, <2>1, Zenon DEF Added, d, reach, A, B
<1> QED
  BY <1>9, <1>10, Zenon

\* Without a simulating ticket a source adds no simulation.
LEMMA NoneAdds ==
    ASSUME ManagerTypes, NEW s \in sources, NEW p \in Positions,
           NEW field \in {"load", "simulation"}, NEW limit \in Nat,
           Strongest({t[field] : t \in TicketsAt(s)}) = NoLevel
    PROVE  ReachedBut(sources \ {s}, p, field, limit) = ReachedBut(sources, p, field, limit)
<1>1. s \in Positions
  BY ZenonT(40) DEF ManagerTypes, TicketTypes
<1>2. Reach(s, p, field, limit) = {}
  BY <1>1, SourceReach, Zenon
<1> QED
  BY <1>1, <1>2, Zenon DEF ReachedBut

\* Levels that tickets give simulate only where they load, and no stronger.
LEMMA SimulationWithin ==
    ASSUME ManagerTypes, NEW rest, NEW p \in Positions, NEW load, NEW sim,
           IsStrongest(load, ReachedBut(rest, p, "load", MaxLevel)),
           IsStrongest(sim, ReachedBut(rest, p, "simulation", BlockTicking)),
           sim # NoLevel
    PROVE  load # NoLevel /\ load <= sim
<1> DEFINE L == ReachedBut(rest, p, "load", MaxLevel)
           S == ReachedBut(rest, p, "simulation", BlockTicking)
<1>1. sim \in S
  BY Zenon DEF IsStrongest
<1>2. PICK s \in Positions \ rest : sim \in Reach(s, p, "simulation", BlockTicking)
  BY Zenon, <1>1 DEF ReachedBut
<1>3. PICK t \in TicketsAt(s) : /\ t.simulation # NoLevel
                                /\ Distance(s, p) <= Monus(BlockTicking, t.simulation)
                                /\ sim = t.simulation + Distance(s, p)
  BY ZenonT(40), <1>2 DEF Reach
<1>4. t \in Tickets
  BY ZenonT(40) DEF TicketsAt
<1>5. /\ t.load \in Levels /\ t.simulation \in 0 .. FullChunk /\ t.load <= t.simulation
      /\ Distance(s, p) \in Nat
  BY Zenon, <1>3, <1>4, TicketShape, DistanceType
<1>6. Distance(s, p) <= Monus(MaxLevel, t.load) /\ t.load # NoLevel
      /\ t.load + Distance(s, p) <= sim
  BY SMTT(40), <1>3, <1>5, LevelOrder, NoneAssumption DEF Monus
<1>7. t.load + Distance(s, p) \in Reach(s, p, "load", MaxLevel)
  BY ZenonT(40), <1>6 DEF Reach
<1>8. t.load + Distance(s, p) \in L
  BY <1>7, Zenon DEF ReachedBut
<1>9. L \subseteq Nat
  <2>1. MaxLevel \in Nat
    BY Zenon, LevelOrder
  <2>2. \A q \in Positions : Reach(q, p, "load", MaxLevel) \subseteq Nat
    BY <2>1, SourceReach, Zenon
  <2> QED
    BY <2>2, Zenon DEF ReachedBut
<1>10. load \in L /\ load <= t.load + Distance(s, p)
  BY Zenon, <1>8 DEF IsStrongest
<1> HIDE DEF L, S
<1>11. load \in Nat /\ load # NoLevel
  BY Zenon, <1>9, <1>10, NoneAssumption
<1> QED
  BY <1>3, <1>5, <1>6, <1>10, <1>11, LevelOrder

\* A source is spread.
LEMMA SpreadSourceKeeps ==
    ASSUME TicketInv, NEW s \in Positions, SpreadSource(s)
    PROVE  TicketInv'
<1> DEFINE load == LoadLevel(s)
           sim == SimulationLevel(s)
           rest == sources \ {s}
<1>1. /\ step = "spread" /\ step' = step /\ s \in sources /\ sources' = rest
      /\ levels' = Spread(levels, s, load, MaxLevel - load)
      /\ simulation' = IF sim = NoLevel THEN simulation
                       ELSE Spread(simulation, s, sim, Monus(BlockTicking, sim))
      /\ UNCHANGED <<tickets, dirty, changes, oldLevels, oldSimulation, queue, taken,
                     timed, trackingView, requests, held, unloading, revivals, saved>>
  BY Zenon DEF SpreadSource, chunkMap
<1>2. ManagerTypes /\ EpochShape /\ HolderInv /\ LevelInv /\ BalanceInv
  BY ZenonT(40) DEF TicketInv
<1>3. /\ TicketsAt(s) # {} /\ PropagatedBut(sources)
      /\ sources \subseteq Positions
      /\ levels \in [Positions -> Levels \cup {NoLevel}]
      /\ simulation \in [Positions -> (0 .. FullChunk) \cup {NoLevel}]
  BY Zenon, <1>1, <1>2 DEF LevelInv, ManagerTypes, TicketTypes
<1>4. load \in Levels /\ sim \in (0 .. FullChunk) \cup {NoLevel}
  <2> DEFINE A == {t.load : t \in TicketsAt(s)}
             B == {t.simulation : t \in TicketsAt(s)}
  <2>1. \A t \in TicketsAt(s) : /\ t.load \in Levels
                               /\ t.simulation \in (0 .. FullChunk) \cup {NoLevel}
    BY ZenonT(40), TicketShape DEF TicketsAt
  <2>2. /\ A \subseteq Levels /\ A # {} /\ B \subseteq (0 .. FullChunk) \cup {NoLevel}
    BY Zenon, <1>3, <2>1
  <2> HIDE DEF A, B
  <2>3. /\ A \subseteq Nat \cup {NoLevel} /\ B \subseteq Nat \cup {NoLevel}
        /\ A \ {NoLevel} = A
    <3>1. Levels \subseteq Nat /\ 0 .. FullChunk \subseteq Nat /\ NoLevel \notin Levels
      BY LevelOrder, NoneAssumption
    <3> QED
      BY <2>2, <3>1, Zenon
  <2>4. IsStrongest(Strongest(A), A) /\ IsStrongest(Strongest(B), B \ {NoLevel})
    BY Zenon, <2>3, StrongestIs
  <2>5. Strongest(A) \in Levels /\ Strongest(B) \in (0 .. FullChunk) \cup {NoLevel}
    BY Zenon, <2>2, <2>4 DEF IsStrongest
  <2> QED
    BY <2>5, ZenonT(40) DEF LoadLevel, SimulationLevel, A, B
<1>5. load \in Nat /\ load <= MaxLevel /\ MaxLevel - load = Monus(MaxLevel, load)
  BY <1>4, LevelOrder DEF Monus
<1>6. load = Strongest({t["load"] : t \in TicketsAt(s)})
      /\ sim = Strongest({t["simulation"] : t \in TicketsAt(s)})
  BY Zenon DEF LoadLevel, SimulationLevel
<1>7. MaxLevel \in Nat /\ BlockTicking \in Nat /\ FullChunk \in Nat /\ BlockTicking <= MaxLevel
      /\ FullChunk <= MaxLevel /\ BlockTicking + 1 = FullChunk /\ Levels = 0 .. MaxLevel
  BY LevelOrder
<1> HIDE DEF load, sim, rest
<1>8. ASSUME NEW p \in Positions
      PROVE  /\ IsStrongest(levels'[p], ReachedBut(rest, p, "load", MaxLevel))
             /\ levels'[p] \in Levels \cup {NoLevel}
  <2>1. IsStrongest(levels[p], ReachedBut(sources, p, "load", MaxLevel))
    BY <1>3, Zenon DEF PropagatedBut
  <2>2. levels' = Spread(levels, s, load, Monus(MaxLevel, load))
    BY Zenon, <1>1, <1>5
  <2>3. /\ IsStrongest(levels'[p], ReachedBut(sources \ {s}, p, "load", MaxLevel))
        /\ \/ levels'[p] \in {levels[p], NoLevel}
           \/ /\ Distance(s, p) <= Monus(MaxLevel, load)
              /\ levels'[p] = load + Distance(s, p)
    <3>1. MaxLevel <= MaxLevel /\ "load" \in {"load", "simulation"}
      BY <1>7
    <3>2. Added(Spread(levels, s, load, Monus(MaxLevel, load))[p], levels[p], s, p,
                "load", MaxLevel, load)
      BY <1>1, <1>2, <1>5, <1>6, <1>7, <2>1, <3>1, SpreadAdds, ZenonT(40)
    <3> QED
      BY <2>2, <3>2, Zenon DEF Added
  <2>4. Distance(s, p) \in Nat
    BY Zenon, DistanceType
  <2>5. levels'[p] \in Levels \cup {NoLevel}
    BY <1>3, <1>5, <1>7, <2>3, <2>4 DEF Monus
  <2> QED
    BY <2>3, <2>5, Zenon DEF rest
<1>9. ASSUME NEW p \in Positions
      PROVE  /\ IsStrongest(simulation'[p], ReachedBut(rest, p, "simulation", BlockTicking))
             /\ simulation'[p] \in (0 .. FullChunk) \cup {NoLevel}
  <2>0. "simulation" \in {"load", "simulation"}
    BY Zenon
  <2>1. IsStrongest(simulation[p], ReachedBut(sources, p, "simulation", BlockTicking))
    BY <1>3, Zenon DEF PropagatedBut
  <2>2. CASE sim = NoLevel
    <3>1. simulation' = simulation
      BY Zenon, <1>1, <2>2
    <3>2. ReachedBut(rest, p, "simulation", BlockTicking) =
             ReachedBut(sources, p, "simulation", BlockTicking)
      <4>1. Strongest({t["simulation"] : t \in TicketsAt(s)}) = NoLevel
        BY <1>6, <2>2, Zenon
      <4>2. s \in sources /\ ManagerTypes /\ BlockTicking \in Nat
        BY <1>1, <1>2, <1>7, Zenon
      <4> QED
        BY <2>0, <4>1, <4>2, NoneAdds, ZenonT(90) DEF rest
    <3> QED
      BY Zenon, <1>3, <2>1, <3>1, <3>2
  <2>3. CASE sim # NoLevel
    <3>1. simulation' = Spread(simulation, s, sim, Monus(BlockTicking, sim))
          /\ sim \in Nat /\ sim <= MaxLevel /\ sim <= FullChunk
      BY <1>1, <1>4, <1>7, <2>3
    <3>2. /\ IsStrongest(simulation'[p],
                         ReachedBut(sources \ {s}, p, "simulation", BlockTicking))
          /\ \/ simulation'[p] \in {simulation[p], NoLevel}
             \/ /\ Distance(s, p) <= Monus(BlockTicking, sim)
                /\ simulation'[p] = sim + Distance(s, p)
      <4>1. Added(Spread(simulation, s, sim, Monus(BlockTicking, sim))[p], simulation[p],
                  s, p, "simulation", BlockTicking, sim)
        BY <1>1, <1>2, <1>6, <1>7, <2>0, <2>1, <3>1, SpreadAdds, ZenonT(40)
      <4> QED
        BY <3>1, <4>1, Zenon DEF Added
    <3>3. Distance(s, p) \in Nat
      BY Zenon, DistanceType
    <3>4. simulation'[p] \in (0 .. FullChunk) \cup {NoLevel}
      BY <1>3, <1>7, <3>1, <3>2, <3>3 DEF Monus
    <3> QED
      BY <3>2, <3>4, Zenon DEF rest
  <2> QED
    BY <2>2, <2>3, Zenon
<1>10. levels' \in [Positions -> Levels \cup {NoLevel}]
  BY ZenonT(40), <1>1, <1>8 DEF Spread
<1>11. simulation' \in [Positions -> (0 .. FullChunk) \cup {NoLevel}]
  BY ZenonT(40), <1>1, <1>3, <1>9 DEF Spread
<1>12. ManagerTypes'
  <2>1. sources' \subseteq Positions
    BY ZenonT(40), <1>1, <1>3 DEF rest
  <2> QED
    BY <1>1, <1>2, <1>10, <1>11, <2>1, Zenon DEF ManagerTypes, TicketTypes
<1>13. EpochShape' /\ HolderInv'
  BY ZenonT(40), <1>1, <1>2 DEF EpochShape, HolderInv, Follows
<1>14. SimulationInv'
  <2> SUFFICES ASSUME NEW p \in Positions, simulation'[p] # NoLevel
               PROVE  levels'[p] # NoLevel /\ levels'[p] <= simulation'[p]
    BY Zenon DEF SimulationInv
  <2> QED
    BY <1>2, <1>8, <1>9, SimulationWithin, Zenon
<1>15. LevelInv'
  <2>1. \A q : TicketsAt(q)' = TicketsAt(q)
    BY <1>1 DEF TicketsAt
  <2>2. \A q, p, field, limit : Reach(q, p, field, limit)' = Reach(q, p, field, limit)
    BY <2>1, Zenon DEF Reach
  <2>3. \A p, field, limit :
           ReachedBut(sources, p, field, limit)' = ReachedBut(rest, p, field, limit)
    BY <1>1, <2>2, Zenon DEF ReachedBut
  <2>4. PropagatedBut(sources)'
    BY <1>8, <1>9, <2>3, ZenonT(40) DEF PropagatedBut
  <2>5. \A q \in sources' : TicketsAt(q)' # {}
    BY Zenon, <1>1, <1>2, <2>1 DEF LevelInv, rest
  <2> QED
    BY Zenon, <1>1, <2>4, <2>5 DEF LevelInv
<1>16. BalanceInv'
  BY <1>1, <1>2, BalanceKeeps, Zenon
<1> QED
  BY <1>12, <1>13, <1>14, <1>15, <1>16, Zenon DEF TicketInv

\* The list of changes has every position where a level differs from the
\* holder's, with the new levels.
LEMMA RecordChangesKeeps ==
    ASSUME TicketInv, RecordChanges
    PROVE  TicketInv'
<1>1. /\ step = "spread" /\ sources = {} /\ changes' = LevelChanges
      /\ oldLevels' = NoLevels /\ oldSimulation' = NoLevels /\ step' = "ready"
      /\ UNCHANGED <<tickets, dirty, levels, simulation, sources, queue, taken, timed,
                     trackingView, requests, held, revivals, saved>>
      /\ ProcessUnloads(LevelChanges)
  BY Zenon DEF RecordChanges
<1>2. ManagerTypes /\ EpochShape /\ HolderInv /\ SimulationInv /\ LevelInv /\ BalanceInv
  BY Zenon DEF TicketInv
<1>3. /\ levels \in [Positions -> Levels \cup {NoLevel}]
      /\ simulation \in [Positions -> (0 .. FullChunk) \cup {NoLevel}]
      /\ 0 .. FullChunk \subseteq Levels
  BY <1>2, LevelOrder DEF ManagerTypes, TicketTypes
<1>4. ASSUME NEW c \in LevelChanges
      PROVE  /\ c.pos \in Positions /\ c = Change(c.pos, levels[c.pos], simulation[c.pos])
  <2>1. PICK p \in Positions : \/ c = Change(p, levels[p], IF levels[p] = NoLevel THEN NoLevel
                                                          ELSE simulation[p])
                               \/ c = Change(p, levels[p], simulation[p])
    BY Zenon DEF LevelChanges, SimulationOnlyChanges
  <2>2. levels[p] = NoLevel => simulation[p] = NoLevel
    BY Zenon, <1>2 DEF SimulationInv
  <2>3. c = Change(p, levels[p], simulation[p])
    BY <2>1, <2>2, Zenon
  <2>4. c.pos = p
    BY Zenon, <2>3 DEF Change
  <2> QED
    BY <2>3, <2>4, Zenon
<1>5. changes' \subseteq [pos : Positions, level : Levels \cup {NoLevel},
                          simulation : Levels \cup {NoLevel}]
  <2> SUFFICES ASSUME NEW c \in LevelChanges
               PROVE  c \in [pos : Positions, level : Levels \cup {NoLevel},
                             simulation : Levels \cup {NoLevel}]
    BY <1>1, Zenon
  <2> QED
    BY <1>3, <1>4 DEF Change
<1>6. ASSUME NEW p \in Positions, \A c \in LevelChanges : c.pos # p
      PROVE  oldLevels[p] = levels[p] /\ oldSimulation[p] = simulation[p]
  <2> DEFINE sim == IF levels[p] = NoLevel THEN NoLevel ELSE simulation[p]
  <2>1. Change(p, levels[p], sim).pos = p /\ Change(p, levels[p], simulation[p]).pos = p
    BY ZenonT(40) DEF Change
  <2>2. oldLevels[p] # levels[p] => Change(p, levels[p], sim) \in LevelChanges
    BY Zenon DEF LevelChanges
  <2>3. oldLevels[p] = levels[p] /\ oldSimulation[p] # simulation[p] =>
           Change(p, levels[p], simulation[p]) \in LevelChanges
    BY Zenon DEF LevelChanges, SimulationOnlyChanges
  <2> HIDE DEF sim
  <2> QED
    BY <1>6, <2>1, <2>2, <2>3, ZenonT(40)
<1>7. ManagerTypes'
  <2>1. /\ NoLevels \in [Positions -> Levels \cup {NoLevel}]
        /\ NoLevels \in [Positions -> (0 .. FullChunk) \cup {NoLevel}]
    BY Zenon DEF NoLevels
  <2>2. step' \in {"idle", "apply", "spread", "ready"}
    BY Zenon, <1>1
  <2>3. unloading' \subseteq Positions
    BY <1>1, <1>2, UnloadsKeep, Zenon
  <2> QED
    BY <1>1, <1>2, <1>5, <2>1, <2>2, <2>3, Zenon DEF ManagerTypes, TicketTypes
<1>8. EpochShape' /\ SimulationInv'
  BY ZenonT(40), <1>1, <1>2 DEF EpochShape, SimulationInv
<1>9. HolderInv'
  <2>1. \A c \in changes' : c = Change(c.pos, levels'[c.pos], simulation'[c.pos])
    BY <1>1, <1>4, Zenon
  <2>2. ASSUME NEW p \in Positions, \A c \in changes' : c.pos # p
        PROVE  Follows(p, levels[p], simulation[p])'
    <3>1. Follows(p, oldLevels[p], oldSimulation[p])
      BY <1>1, <1>2, Zenon DEF HolderInv
    <3>2. oldLevels[p] = levels[p] /\ oldSimulation[p] = simulation[p]
      BY <1>1, <1>6, <2>2, Zenon
    <3>3. \A load, sim : Follows(p, load, sim) => Follows(p, load, sim)'
      BY <1>1, <1>2, UnloadsKeep, Zenon
    <3>4. Follows(p, levels[p], simulation[p])
      BY <3>1, <3>2, Zenon
    <3>5. levels' = levels /\ simulation' = simulation
      BY <1>1, Zenon
    <3> QED
      BY <3>3, <3>4, <3>5, Zenon
  <2> QED
    BY ZenonT(40), <1>1, <1>2, <2>1, <2>2 DEF HolderInv
<1>10. LevelInv'
  <2>1. PropagatedBut({})
    BY <1>1, <1>2, Zenon DEF LevelInv
  <2>2. PropagatedBut({})'
    BY <1>1, <2>1, SameTickets, Zenon
  <2> QED
    BY Zenon, <1>1, <2>2 DEF LevelInv
<1>11. BalanceInv'
  BY <1>1, <1>2, BalanceKeeps, Zenon
<1> QED
  BY <1>7, <1>8, <1>9, <1>10, <1>11, Zenon DEF TicketInv

\* The boundary gives every holder the new levels or defers its revival with
\* them.
LEMMA CommitChangesKeeps ==
    ASSUME TicketInv, CommitChanges
    PROVE  TicketInv'
<1> DEFINE list == MergeRevivals(changes, revivals)
           returning == {c \in list : /\ held[c.pos][1] = NoLevel /\ c.level # NoLevel
                                      /\ c.pos \in unloading}
           demoted == {c \in list : held[c.pos][1] # NoLevel /\ c.level = NoLevel}
<1>0. PICK refused \in SUBSET returning :
        /\ held' = [p \in Positions |->
                      IF \E c \in list \ refused : c.pos = p
                      THEN LET c == CHOOSE c \in list \ refused : c.pos = p
                           IN  <<c.level, c.simulation>>
                      ELSE held[p]]
        /\ revivals' = refused
        /\ unloading' = (unloading \ {c.pos : c \in returning \ refused})
                         \cup {c.pos : c \in demoted}
  BY Zenon DEF CommitChanges
<1>1. /\ step = "ready" /\ changes' = {} /\ step' = "idle"
      /\ UNCHANGED <<tickets, dirty, levels, simulation, sources, oldLevels,
                     oldSimulation, queue, taken, timed, trackingView, requests, saved>>
  BY Zenon DEF CommitChanges, updates
<1>2. ManagerTypes /\ EpochShape /\ HolderInv /\ SimulationInv /\ LevelInv /\ BalanceInv
  BY Zenon DEF TicketInv
<1>a. /\ changes \subseteq [pos : Positions, level : Levels \cup {NoLevel},
                            simulation : Levels \cup {NoLevel}]
      /\ revivals \subseteq [pos : Positions, level : Levels,
                             simulation : Levels \cup {NoLevel}]
      /\ unloading \subseteq Positions
  BY <1>2, Zenon DEF ManagerTypes, TicketTypes
<1>b. ASSUME NEW c \in list
      PROVE  /\ c.pos \in Positions /\ c = Change(c.pos, levels[c.pos], simulation[c.pos])
             /\ c.level \in Levels \cup {NoLevel} /\ c.simulation \in Levels \cup {NoLevel}
             /\ c = [pos |-> c.pos, level |-> c.level, simulation |-> c.simulation]
  <2>1. CASE c \in changes
    <3>1. c \in [pos : Positions, level : Levels \cup {NoLevel},
                 simulation : Levels \cup {NoLevel}]
      BY <1>a, <2>1, Zenon
    <3>2. c = Change(c.pos, levels[c.pos], simulation[c.pos])
      BY <1>1, <1>2, <2>1, Zenon DEF HolderInv
    <3> QED
      BY <3>1, <3>2
  <2>2. CASE c \in revivals /\ \A d \in changes : d.pos # c.pos
    <3>1. c \in [pos : Positions, level : Levels, simulation : Levels \cup {NoLevel}]
      BY <1>a, <2>2, Zenon
    <3>2. c.pos \in Positions
      BY <3>1
    <3>3. Follows(c.pos, levels[c.pos], simulation[c.pos])
      BY <1>1, <1>2, <2>2, <3>2, Zenon DEF HolderInv
    <3>4. c = Change(c.pos, levels[c.pos], simulation[c.pos])
      BY <2>2, <3>3, Zenon DEF Follows
    <3> QED
      BY <3>1, <3>4
  <2> QED
    BY <2>1, <2>2, Zenon DEF MergeRevivals
<1>c. \A c, d \in list : c.pos = d.pos => c = d
  BY <1>b, Zenon
<1>d. list \ refused \subseteq list /\ refused \subseteq list /\ returning \subseteq list
  BY <1>0, Zenon
<1>3. ASSUME NEW p \in Positions
      PROVE  /\ Follows(p, levels[p], simulation[p])'
             /\ held'[p] \in {<<levels[p], simulation[p]>>, held[p]}
  <2>0. levels' = levels /\ simulation' = simulation
    BY <1>1, Zenon
  <2> HIDE DEF list, returning, demoted
  <2>1. CASE \E c \in refused : c.pos = p
    <3>1. PICK c \in refused : c.pos = p
      BY <2>1, Zenon
    <3>2. c \in returning /\ c \in list
      BY <1>0, <1>d, <3>1, Zenon
    <3>3. ~\E d \in list \ refused : d.pos = p
      BY <1>c, <1>d, <3>1, <3>2, Zenon
    <3>4. held'[p] = held[p]
      BY <1>0, <3>3, Zenon
    <3>5. held[p][1] = NoLevel /\ p \in unloading
      BY <3>1, <3>2, Zenon DEF returning
    <3>6. held[p] = <<NoLevel, NoLevel>>
      BY <1>2, <3>5, Zenon DEF HolderInv
    <3>7. p \notin {d.pos : d \in returning \ refused}
      BY <1>c, <1>d, <3>1, <3>2, Zenon
    <3>8. p \in unloading'
      BY <1>0, <3>5, <3>7, Zenon
    <3>9. \A r \in revivals' : r.pos = p => r = Change(p, levels[p], simulation[p])
      BY <1>0, <1>b, <1>d, Zenon
    <3>10. \E r \in revivals' : r.pos = p
      BY <1>0, <3>1, Zenon
    <3> QED
      BY <2>0, <3>4, <3>6, <3>8, <3>9, <3>10, Zenon DEF Follows
  <2>2. CASE (\E c \in list \ refused : c.pos = p) /\ ~\E c \in refused : c.pos = p
    <3> DEFINE c == CHOOSE e \in list \ refused : e.pos = p
    <3>1. held'[p] = <<c.level, c.simulation>>
      BY ZenonT(40), <1>0, <2>2
    <3>2. c \in list /\ c.pos = p
      BY <2>2, Zenon
    <3> HIDE DEF c
    <3>3. c = Change(p, levels[p], simulation[p])
      BY <1>b, <3>2, Zenon
    <3>4. held'[p] = <<levels[p], simulation[p]>>
      BY Zenon, <3>1, <3>3 DEF Change
    <3>5. ~\E r \in revivals' : r.pos = p
      BY <1>0, <2>2, Zenon
    <3> QED
      BY <2>0, <3>4, <3>5, Zenon DEF Follows
  <2>3. CASE ~\E c \in list : c.pos = p
    <3>1. held'[p] = held[p]
      BY Zenon, <1>0, <2>3
    <3>2. (\A c \in changes : c.pos # p) /\ ~\E r \in revivals : r.pos = p
      BY <2>3, Zenon DEF list, MergeRevivals
    <3>3. held[p] = <<levels[p], simulation[p]>>
      BY <1>1, <1>2, <3>2, Zenon DEF HolderInv, Follows
    <3>4. ~\E r \in revivals' : r.pos = p
      BY <1>0, <1>d, <2>3, Zenon
    <3> QED
      BY <2>0, <3>1, <3>3, <3>4, Zenon DEF Follows
  <2> QED
    BY <2>1, <2>2, <2>3, <1>d, Zenon
<1>4. held' \in [Positions -> (Levels \cup {NoLevel}) \X (Levels \cup {NoLevel})]
  <2>1. /\ levels \in [Positions -> Levels \cup {NoLevel}]
        /\ simulation \in [Positions -> (0 .. FullChunk) \cup {NoLevel}]
        /\ held \in [Positions -> (Levels \cup {NoLevel}) \X (Levels \cup {NoLevel})]
        /\ 0 .. FullChunk \subseteq Levels
    BY <1>2, LevelOrder DEF ManagerTypes, TicketTypes
  <2>2. ASSUME NEW p \in Positions
        PROVE  held'[p] \in (Levels \cup {NoLevel}) \X (Levels \cup {NoLevel})
    <3>1. levels[p] \in Levels \cup {NoLevel} /\ simulation[p] \in Levels \cup {NoLevel}
      BY Zenon, <2>1
    <3>2. <<levels[p], simulation[p]>> \in (Levels \cup {NoLevel}) \X (Levels \cup {NoLevel})
      BY <3>1, Zenon
    <3> QED
      BY <1>3, <2>1, <3>2, Zenon
  <2> HIDE DEF list
  <2> QED
    BY ZenonT(40), <1>0, <2>2
<1>e. /\ unloading' \subseteq Positions
      /\ revivals' \subseteq [pos : Positions, level : Levels,
                              simulation : Levels \cup {NoLevel}]
  <2> HIDE DEF list
  <2>0. {c.pos : c \in demoted} \subseteq Positions
    BY <1>b, Zenon
  <2>1. unloading' \subseteq Positions
    <3> HIDE DEF returning, demoted
    <3> QED
      BY <1>0, <1>a, <2>0, Zenon
  <2>2. ASSUME NEW c \in refused
        PROVE  c \in [pos : Positions, level : Levels, simulation : Levels \cup {NoLevel}]
    <3>1. c \in list /\ c.level # NoLevel
      BY <1>0, <1>d, Zenon
    <3>2. /\ c.pos \in Positions /\ c.level \in Levels /\ c.simulation \in Levels \cup {NoLevel}
          /\ c = [pos |-> c.pos, level |-> c.level, simulation |-> c.simulation]
      BY <1>b, <3>1, Zenon
    <3> QED
      BY <3>2
  <2> QED
    BY <1>0, <2>1, <2>2, Zenon
<1>5. ManagerTypes'
  <2>1. /\ changes' \subseteq [pos : Positions, level : Levels \cup {NoLevel},
                               simulation : Levels \cup {NoLevel}]
        /\ step' \in {"idle", "apply", "spread", "ready"}
    BY Zenon, <1>1
  <2> QED
    BY <1>1, <1>2, <1>4, <1>e, <2>1, Zenon DEF ManagerTypes, TicketTypes
<1>6. EpochShape' /\ SimulationInv'
  BY ZenonT(40), <1>1, <1>2 DEF EpochShape, SimulationInv
<1>7. HolderInv'
  <2>1. \A p \in Positions : Follows(p, levels[p], simulation[p])'
    BY <1>3, Zenon
  <2>2. ASSUME NEW p \in Positions, held'[p][1] = NoLevel
        PROVE  held'[p] = <<NoLevel, NoLevel>>
    <3>1. CASE held'[p] = held[p]
      BY <1>2, <2>2, <3>1, Zenon DEF HolderInv
    <3>2. CASE held'[p] = <<levels[p], simulation[p]>>
      <4>1. levels[p] = NoLevel
        BY <2>2, <3>2
      <4>2. simulation[p] = NoLevel
        BY <1>2, <4>1, Zenon DEF SimulationInv
      <4> QED
        BY <3>2, <4>1, <4>2, Zenon
    <3> QED
      BY <1>3, <3>1, <3>2, Zenon
  <2> QED
    BY ZenonT(40), <1>1, <2>1, <2>2 DEF HolderInv
<1>8. LevelInv'
  BY ZenonT(40), <1>1, <1>2, SameTickets DEF LevelInv
<1>9. BalanceInv'
  BY <1>1, <1>2, BalanceKeeps, Zenon
<1> QED
  BY <1>5, <1>6, <1>7, <1>8, <1>9, Zenon DEF TicketInv

-----------------------------------------------------------------------------
(* The theorems.                                                           *)

\* Stuttering.
LEMMA StutterKeeps ==
    ASSUME TicketInv, UNCHANGED ticketVars
    PROVE  TicketInv'
<1>1. UNCHANGED <<tickets, dirty, changes, step, levels, simulation, sources, oldLevels,
                  oldSimulation, queue, taken, timed, trackingView, requests, held,
                  unloading, revivals, saved>>
  BY Zenon DEF ticketVars, manager, updates, chunkMap
<1>2. ManagerTypes /\ EpochShape /\ HolderInv /\ SimulationInv /\ LevelInv /\ BalanceInv
  BY Zenon DEF TicketInv
<1>3. ManagerTypes' /\ EpochShape' /\ HolderInv' /\ SimulationInv'
  BY <1>1, <1>2, Zenon DEF ManagerTypes, TicketTypes, EpochShape, HolderInv, SimulationInv, Follows
<1>4. LevelInv'
  BY <1>1, <1>2, SameTickets, Zenon DEF LevelInv
<1>5. BalanceInv'
  BY <1>1, <1>2, BalanceKeeps, Zenon
<1> QED
  BY <1>3, <1>4, <1>5, Zenon DEF TicketInv

\* Stopping and starting.
LEMMA RestartsKeep ==
    ASSUME TicketInv, StopAndStart \/ RestartFromFile
    PROVE  TicketInv'
<1>1. saved \in [Positions -> Expired .. PortalTimeout]
  BY BalanceBefore, Zenon
<1>2. ToPersistent \in [Positions -> Expired .. PortalTimeout]
  <2>1. /\ "portal" \in TimedKinds /\ Timeout("portal") = PortalTimeout
    BY Zenon DEF TimedKinds, Timeout
  <2>2. /\ timed["portal"] \in [Positions -> Int]
        /\ \A p \in Positions : timed["portal"][p] \in Expired .. PortalTimeout
    BY Zenon, <2>1, BalanceBefore
  <2> QED
    BY Zenon, <2>2 DEF ToPersistent
<1>3. CASE StopAndStart
  BY <1>2, <1>3, BootKeeps, Zenon DEF StopAndStart
<1>4. CASE RestartFromFile
  BY <1>1, <1>4, BootKeeps, Zenon DEF RestartFromFile
<1> QED
  BY Zenon, <1>3, <1>4

\* Every step of owners, worker and boundary keeps the invariant, for every
\* set of positions, view distances, radii and timeouts.
THEOREM TicketInvariant == TicketSpec => []TicketInv
<1>1. TicketInit => TicketInv
  BY Zenon, TicketInitInv
<1>2. TicketInv /\ [TicketNext]_ticketVars => TicketInv'
  <2> SUFFICES ASSUME TicketInv, [TicketNext]_ticketVars PROVE TicketInv'
    BY Zenon
  <2>1. CASE TakeOperations
    BY <2>1, TakeOperationsKeeps, Zenon
  <2>2. CASE ApplyNext
    BY <2>2, ApplyNextKeeps, Zenon
  <2>3. CASE BeginUpdates
    BY <2>3, BeginUpdatesKeeps, Zenon
  <2>4. CASE \E s \in Positions : SpreadSource(s)
    BY <2>4, SpreadSourceKeeps, Zenon
  <2>5. CASE RecordChanges
    BY <2>5, RecordChangesKeeps, Zenon
  <2>6. CASE CommitChanges
    BY <2>6, CommitChangesKeeps, Zenon
  <2>7. CASE \E new \in TrackingViews : UpdatePlayerStatus(new)
    BY <2>7, UpdatePlayerStatusKeeps, Zenon
  <2>8. CASE RemoveView
    BY <2>8, RemoveViewKeeps, Zenon
  <2>9. CASE \E h \in Handles, r \in Requests : Request(h, r)
    BY <2>9, RequestKeeps, Zenon
  <2>10. CASE \E h \in Handles : ReleaseRequest(h)
    BY <2>10, ReleaseRequestKeeps, Zenon
  <2>11. CASE \E kind \in TimedKinds, p \in Positions : PlaceTimed(kind, p)
    BY <2>11, PlaceTimedKeeps, Zenon
  <2>12. CASE \E busy \in SUBSET Positions : TickTimed(busy)
    BY <2>12, TickTimedKeeps, Zenon
  <2>13. CASE StopAndStart \/ RestartFromFile
    BY <2>13, RestartsKeep, Zenon
  <2>14. CASE UNCHANGED ticketVars
    BY <2>14, StutterKeeps, Zenon
  <2> QED
    BY ZenonT(40), <2>1, <2>2, <2>3, <2>4, <2>5, <2>6, <2>7, <2>8, <2>9, <2>10, <2>11, <2>12, <2>13,
       <2>14, Zenon DEF TicketNext
<1> QED
  BY <1>1, <1>2, PTL DEF TicketSpec

\* The levels run_all_updates computes, source by source and in any order, are
\* the strongest any single ticket gives.
THEOREM StrongestTicket == TicketSpec => []StrongestTicketWins
<1>1. TicketInv => StrongestTicketWins
  <2> SUFFICES ASSUME TicketInv, ~dirty, step # "spread", NEW p \in Positions
               PROVE  /\ levels[p] = Strongest(UNION {{t["load"] + Distance(s, p) : t \in
                            {k \in TicketsAt(s) :
                                /\ k["load"] # NoLevel
                                /\ Distance(s, p) <= Monus(MaxLevel, k["load"])}} :
                            s \in Positions})
                      /\ simulation[p] = Strongest(UNION {{t["simulation"] + Distance(s, p) : t \in
                            {k \in TicketsAt(s) :
                                /\ k["simulation"] # NoLevel
                                /\ Distance(s, p) <= Monus(BlockTicking, k["simulation"])}} :
                            s \in Positions})
    BY Zenon DEF StrongestTicketWins
  <2>1. ManagerTypes /\ PropagatedBut({})
    BY Zenon DEF TicketInv, LevelInv
  <2>2. /\ IsStrongest(levels[p], ReachedBut({}, p, "load", MaxLevel))
        /\ IsStrongest(simulation[p], ReachedBut({}, p, "simulation", BlockTicking))
    BY <2>1, Zenon DEF PropagatedBut
  <2>3. MaxLevel \in Nat /\ BlockTicking \in Nat
        /\ "load" \in {"load", "simulation"} /\ "simulation" \in {"load", "simulation"}
    BY Zenon, LevelOrder
  <2>4. ASSUME NEW field \in {"load", "simulation"}, NEW limit \in Nat
        PROVE  ReachedBut({}, p, field, limit) \in SUBSET Nat
    <3>1. \A s \in Positions : Reach(s, p, field, limit) \subseteq Nat
      BY <2>1, SourceReach, Zenon
    <3> QED
      BY <3>1, Zenon DEF ReachedBut
  <2>5. /\ levels[p] = Strongest(ReachedBut({}, p, "load", MaxLevel))
        /\ simulation[p] = Strongest(ReachedBut({}, p, "simulation", BlockTicking))
    BY <2>2, <2>3, <2>4, StrongestUnique, Zenon
  <2>6. Positions \ {} = Positions
    BY Zenon
  <2> QED
    BY <2>5, <2>6, Zenon DEF ReachedBut, Reach
<1> QED
  BY <1>1, TicketInvariant, PTL

\* Every committed list of changes leaves each holder with exactly the levels
\* of the manager, or in unloading_chunks with a deferred revival that has them.
THEOREM HoldersFollow == TicketSpec => []HoldersFollowManager
<1>1. TicketInv => HoldersFollowManager
  <2> SUFFICES ASSUME TicketInv PROVE HoldersFollowManager
    BY Zenon
  <2>1. TicketTypes /\ EpochShape /\ HolderInv /\ SimulationInv
    BY Zenon DEF TicketInv, ManagerTypes
  <2>2. \A c, d \in changes : c.pos = d.pos => c = d
    <3>1. CASE step = "ready"
      BY <2>1, <3>1, Zenon DEF HolderInv
    <3>2. CASE step # "ready"
      BY <2>1, <3>2, Zenon DEF EpochShape
    <3> QED
      BY Zenon, <3>1, <3>2
  <2>3. step \in {"idle", "apply"} =>
           \A p \in Positions : Follows(p, levels[p], simulation[p])
    BY <2>1, Zenon DEF HolderInv
  <2> QED
    BY <2>1, <2>2, <2>3, Zenon DEF HoldersFollowManager, SimulationInv
<1> QED
  BY <1>1, TicketInvariant, PTL

\* With the queue applied the manager holds exactly what its owners want.
LEMMA Balanced ==
    ASSUME TicketInv, queue = << >>, NEW p \in Positions, NEW t \in Tickets
    PROVE  tickets[p][t] = OwedCount(p, t)
<1>1. Path(tickets, << >>, OwedTickets) /\ tickets \in TicketCounts
  BY BalanceBefore, Zenon
<1>2. tickets = OwedTickets
  BY <1>1, PathNone, Zenon
<1>3. OwedTickets[p][t] = OwedCount(p, t)
  BY Zenon DEF OwedTickets, OwedFor, OwedCount, ViewWants, ViewTicket, TimedWants, RequestsFor
<1> QED
  BY <1>2, <1>3, Zenon

\* No sequence of moves, requests, releases, expiries and restarts leaks a
\* ticket or takes one that another owner still wants.
THEOREM NoTicketLeaks == TicketSpec => []TicketsBalance
<1>1. TicketInv => TicketsBalance
  BY Balanced, Zenon DEF TicketsBalance
<1> QED
  BY <1>1, TicketInvariant, PTL

\* A player's area is loaded as far as the view distance and the moat ask.
THEOREM AreaLoaded == TicketSpec => []PlayerAreaLoaded
<1>1. TicketInv => PlayerAreaLoaded
  <2> DEFINE center == trackingView.center
             distance == trackingView.distance
             t == PlayerTicket(distance)
  <2> SUFFICES ASSUME TicketInv, trackingView # NoView, queue = <<>>, ~dirty, step = "idle",
                      NEW p \in Positions, NEW d, d = Distance(center, p)
               PROVE  /\ d <= distance => LoadedAt(p, EntityTicking)
                      /\ d <= distance + 1 => LoadedAt(p, BlockTicking)
                      /\ d <= distance + 2 => LoadedAt(p, FullChunk)
    BY Zenon DEF PlayerAreaLoaded
  <2>1. /\ ManagerTypes /\ PropagatedBut({}) /\ HolderInv
        /\ trackingView \in TrackingViews
    BY Zenon, BalanceBefore DEF TicketInv, LevelInv
  <2>2. center \in Positions /\ distance \in ViewDistances /\ distance \in 0 .. EntityTicking
    BY Zenon, <2>1, DistanceAssumption DEF TrackingViews
  <2>3. t \in Tickets
    BY <2>2, OwnersUseTickets, Zenon
  <2>4. t \in TicketsAt(center)
    <3>1. tickets[center][t] = OwedCount(center, t)
      BY <2>2, <2>3, Balanced, Zenon
    <3>2. OwedCount(center, t) =
             1 + One(timed["portal"][center] # Expired /\ TimedTicket("portal") = t)
               + One(timed["pearl"][center] # Expired /\ TimedTicket("pearl") = t)
               + Cardinality(RequestsFor(requests, center, t))
      <4>1. One(trackingView # NoView /\ trackingView.center = center /\ ViewTicket = t) = 1
        BY Zenon DEF One, ViewTicket
      <4> QED
        BY <4>1, Zenon DEF OwedCount, RequestsFor
    <3>3. Cardinality(RequestsFor(requests, center, t)) \in Nat
      BY RequestsFinite, Zenon
    <3>4. tickets[center][t] > 0
      BY <3>1, <3>2, <3>3 DEF One
    <3> QED
      BY <2>3, <3>4, Zenon DEF TicketsAt
  <2>5. t.load = EntityTicking - distance
    BY <2>2, LevelOrder DEF PlayerTicket, ForEntityTickingRadius, Monus
  <2>6. d \in Nat
    BY Zenon, <2>2, DistanceType
  <2>7. ASSUME NEW level, levels[p] # NoLevel, levels[p] <= level
        PROVE  LoadedAt(p, level)
    <3>1. Follows(p, levels[p], simulation[p])
      BY <2>1, Zenon DEF HolderInv
    <3>2. CASE \E r \in revivals : r.pos = p
      <4>1. PICK r \in revivals : r.pos = p
        BY <3>2, Zenon
      <4>2. p \in unloading /\ r = Change(p, levels[p], simulation[p])
        BY <3>1, <4>1, Zenon DEF Follows
      <4>3. r.level = levels[p]
        BY <4>2, Zenon DEF Change
      <4> QED
        BY <2>7, <4>1, <4>2, <4>3, Zenon DEF LoadedAt
    <3>3. CASE ~\E r \in revivals : r.pos = p
      <4>1. held[p] = <<levels[p], simulation[p]>>
        BY <3>1, <3>3, Zenon DEF Follows
      <4>2. held[p][1] = levels[p]
        BY <4>1
      <4> QED
        BY <2>7, <4>2, Zenon DEF LoadedAt
    <3> QED
      BY <3>2, <3>3, Zenon
  <2>8. IsStrongest(levels[p], ReachedBut({}, p, "load", MaxLevel))
    BY <2>1, Zenon DEF PropagatedBut
  <2> HIDE DEF center, distance, t
  <2>9. ASSUME d <= distance + 2
        PROVE  levels[p] # NoLevel /\ levels[p] \in Nat /\ levels[p] <= EntityTicking - distance + d
    <3>1. t.load \in Nat /\ d <= Monus(MaxLevel, t.load) /\ t.load # NoLevel
      BY SMTT(40), <2>2, <2>5, <2>6, <2>9, LevelOrder, NoneAssumption DEF Monus
    <3>2. t.load + d \in Reach(center, p, "load", MaxLevel)
      BY ZenonT(40), <2>4, <3>1 DEF Reach
    <3>3. t.load + d \in ReachedBut({}, p, "load", MaxLevel)
      BY Zenon, <2>2, <3>2 DEF ReachedBut
    <3>4. levels[p] \in ReachedBut({}, p, "load", MaxLevel) /\ levels[p] <= t.load + d
      BY <2>8, <3>3, Zenon DEF IsStrongest
    <3>5. ReachedBut({}, p, "load", MaxLevel) \subseteq Nat
      <4>1. MaxLevel \in Nat /\ "load" \in {"load", "simulation"}
        BY Zenon, LevelOrder
      <4>2. \A s \in Positions : Reach(s, p, "load", MaxLevel) \subseteq Nat
        BY <2>1, <4>1, SourceReach, Zenon
      <4> QED
        BY <4>2, Zenon DEF ReachedBut
    <3>6. levels[p] \in Nat
      BY Zenon, <3>4, <3>5
    <3> QED
      BY Zenon, <2>5, <3>4, <3>6, NoneAssumption
  <2>10. /\ d <= distance => levels[p] # NoLevel /\ levels[p] <= EntityTicking
         /\ d <= distance + 1 => levels[p] # NoLevel /\ levels[p] <= BlockTicking
         /\ d <= distance + 2 => levels[p] # NoLevel /\ levels[p] <= FullChunk
    BY <2>2, <2>6, <2>9, LevelOrder
  <2> QED
    BY <2>7, <2>10, Zenon
<1> QED
  BY <1>1, TicketInvariant, PTL
=============================================================================
