---------------------- MODULE BalanceProjectionProofs ----------------------
(***************************************************************************)
(* Proofs about the event store, its racing writers and its read model.    *)
(*                                                                         *)
(* A stream is replayed by a recursive function; what it computes is       *)
(* proved by induction, in the form that a set of naturals that is not     *)
(* empty has a least element.  The inductive invariant has two halves:     *)
(* StoreInv is about the log and its writers alone, the rest is about the  *)
(* runner that follows them.                                               *)
(***************************************************************************)
EXTENDS BalanceProjection, WellFoundedInduction, TLAPS

(* Induction on the numbers *)

\* Every set of naturals that is not empty has a least element: the form in
\* which the inductions below are made.
LEMMA LeastNumber ==
    ASSUME NEW T \in SUBSET Nat, T # {}
    PROVE  \E m \in T : \A n \in T : m <= n
<1>1. PICK m \in T : \A n \in T : ~(<<n, m>> \in OpToRel(<, Nat))
  BY NatLessThanWellFounded, WFMin, Zenon
<1>2. ASSUME NEW n \in T, n < m
      PROVE  FALSE
  <2>1. <<n, m>> \in OpToRel(<, Nat)
    BY <1>2 DEF OpToRel
  <2>. QED  BY <1>1, <2>1
<1>. QED  BY <1>2

\* A set of naturals that has 0 and every successor of its elements has them all.
LEMMA AllNumbers ==
    ASSUME NEW S, 0 \in S, \A n \in Nat : n \in S => n + 1 \in S
    PROVE  Nat \subseteq S
<1>1. SUFFICES ASSUME Nat \ S # {}
               PROVE  FALSE
  OBVIOUS
<1>2. PICK m \in Nat \ S : \A n \in Nat \ S : m <= n
  BY <1>1, LeastNumber
<1>3. m - 1 \in Nat /\ m - 1 \in S
  BY <1>2
<1>. QED  BY <1>2, <1>3

-----------------------------------------------------------------------------
(* replay *)

\* The first n accounts of a replay.
Prefix(events, n, g) ==
    g = [k \in 0..n |-> IF k = 0 THEN Fresh ELSE Follow(g[k - 1], events, k)]

LEMMA PrefixValue ==
    ASSUME NEW events, NEW n \in Nat, NEW g, Prefix(events, n, g), NEW k \in 0..n
    PROVE  g[k] = IF k = 0 THEN Fresh ELSE Follow(g[k - 1], events, k)
  BY Zenon DEF Prefix

\* Prefixes exist.
LEMMA PrefixExists ==
    ASSUME NEW events, NEW n \in Nat
    PROVE  \E g : Prefix(events, n, g)
<1> DEFINE S == {k \in Nat : \E g : Prefix(events, k, g)}
<1>1. 0 \in S
  <2>. DEFINE f == [k \in 0..0 |-> Fresh]
  <2>1. Prefix(events, 0, f)
    BY DEF Prefix
  <2>. QED  BY <2>1, Zenon
<1>2. ASSUME NEW k \in Nat, k \in S
      PROVE  k + 1 \in S
  <2>1. PICK g : Prefix(events, k, g)
    BY <1>2
  <2>. DEFINE h == [i \in 0..(k + 1) |-> IF i = 0 THEN Fresh ELSE Follow(g[i - 1], events, i)]
  <2>2. ASSUME NEW i \in 0..k
        PROVE  h[i] = g[i]
    <3>1. g[i] = IF i = 0 THEN Fresh ELSE Follow(g[i - 1], events, i)
      BY <2>1, PrefixValue, Zenon
    <3>2. i \in 0..(k + 1)
      OBVIOUS
    <3>. QED  BY <3>1, <3>2
  <2>3. \A i \in 0..(k + 1) : i # 0 => h[i - 1] = g[i - 1]
    BY <2>2
  <2>4. Prefix(events, k + 1, h)
    BY <2>3 DEF Prefix
  <2>. QED  BY <2>4
<1>. HIDE DEF S
<1>3. Nat \subseteq S
  BY <1>1, <1>2, AllNumbers
<1>. QED  BY <1>3 DEF S

\* Prefixes agree where they overlap.
LEMMA PrefixUnique ==
    ASSUME NEW events, NEW m \in Nat, NEW n \in Nat, NEW g, NEW h,
           Prefix(events, m, g), Prefix(events, n, h)
    PROVE  \A k \in Nat : k <= m /\ k <= n => g[k] = h[k]
<1> DEFINE S == {k \in Nat : k <= m /\ k <= n => g[k] = h[k]}
<1>1. 0 \in S
  <2>. 0 \in 0..m /\ 0 \in 0..n
    OBVIOUS
  <2>. QED  BY PrefixValue
<1>2. ASSUME NEW k \in Nat, k \in S
      PROVE  k + 1 \in S
  <2>. SUFFICES ASSUME k + 1 <= m, k + 1 <= n
                PROVE  g[k + 1] = h[k + 1]
    OBVIOUS
  <2>1. k + 1 \in 0..m /\ k + 1 \in 0..n /\ k + 1 # 0 /\ (k + 1) - 1 = k
    OBVIOUS
  <2>2. g[k] = h[k]
    BY <1>2
  <2>3. g[k + 1] = Follow(g[(k + 1) - 1], events, k + 1)
    BY <2>1, PrefixValue
  <2>4. h[k + 1] = Follow(h[(k + 1) - 1], events, k + 1)
    BY <2>1, PrefixValue
  <2>. QED  BY <2>1, <2>2, <2>3, <2>4
<1>. HIDE DEF S
<1>3. Nat \subseteq S
  BY <1>1, <1>2, AllNumbers
<1>. QED  BY <1>3 DEF S

\* Replaying nothing, and replaying one more number.
LEMMA ReplayStep ==
    ASSUME NEW events
    PROVE  /\ Replay(events, 0) = Fresh
           /\ \A n \in Nat : Replay(events, n + 1) = Follow(Replay(events, n), events, n + 1)
<1>. DEFINE F(f) == [n \in Nat |-> IF n = 0 THEN Fresh ELSE Follow(f[n - 1], events, n)]
            G(n) == CHOOSE g : Prefix(events, n, g)
            all == [n \in Nat |-> G(n)[n]]
<1>1. \A n \in Nat : Prefix(events, n, G(n))
  BY PrefixExists, Zenon
<1>. HIDE DEF G
<1>2. ASSUME NEW n \in Nat, n # 0
      PROVE  G(n)[n - 1] = G(n - 1)[n - 1]
  <2>1. n - 1 \in Nat /\ n - 1 <= n - 1 /\ n - 1 <= n
    BY <1>2
  <2>2. Prefix(events, n, G(n)) /\ Prefix(events, n - 1, G(n - 1))
    BY <1>1, <2>1
  <2>. QED  BY <2>1, <2>2, PrefixUnique
<1>3. \A n \in Nat : G(n)[n] = IF n = 0 THEN Fresh ELSE Follow(G(n)[n - 1], events, n)
  BY <1>1, PrefixValue
<1>4. ASSUME NEW n \in Nat
      PROVE  all[n] = IF n = 0 THEN Fresh ELSE Follow(all[n - 1], events, n)
  BY <1>2, <1>3
<1>5. all = F(all)
  BY <1>4
<1>. DEFINE account == CHOOSE f : f = F(f)
<1>. HIDE DEF all
<1>6. account = F(account)
  <2>. HIDE DEF F
  <2>. QED  BY <1>5, Zenon
<1>7. \A n : Replay(events, n) = account[n]
  BY DEF Replay
<1>. HIDE DEF account
<1>8. \A n \in Nat : account[n] = IF n = 0 THEN Fresh ELSE Follow(account[n - 1], events, n)
  BY <1>6, Zenon
<1>9. \A n \in Nat : account[n + 1] = Follow(account[n], events, n + 1)
  BY <1>8
<1>. QED  BY <1>7, <1>8, <1>9

\* A replay up to n looks at the events up to n only.
LEMMA ReplayAgree ==
    ASSUME NEW events, NEW others, NEW n \in Nat,
           \A k \in 1..n : /\ k \in DOMAIN events <=> k \in DOMAIN others
                           /\ k \in DOMAIN events => events[k] = others[k]
    PROVE  Replay(events, n) = Replay(others, n)
<1> DEFINE S == {k \in Nat : k <= n => Replay(events, k) = Replay(others, k)}
<1>1. 0 \in S
  BY ReplayStep
<1>2. ASSUME NEW k \in Nat, k \in S
      PROVE  k + 1 \in S
  <2>. SUFFICES ASSUME k + 1 <= n
                PROVE  Replay(events, k + 1) = Replay(others, k + 1)
    OBVIOUS
  <2>1. Replay(events, k) = Replay(others, k)
    BY <1>2
  <2>2. Follow(Replay(events, k), events, k + 1) = Follow(Replay(others, k), others, k + 1)
    BY <2>1 DEF Follow
  <2>. QED  BY <2>2, ReplayStep
<1>. HIDE DEF S
<1>3. Nat \subseteq S
  BY <1>1, <1>2, AllNumbers
<1>. QED  BY <1>3 DEF S

\* Without an event the account is fresh.
LEMMA ReplayNothing ==
    ASSUME NEW events, NEW n \in Nat, \A k \in 1..n : k \notin DOMAIN events
    PROVE  Replay(events, n) = Fresh
<1> DEFINE S == {k \in Nat : k <= n => Replay(events, k) = Fresh}
<1>1. 0 \in S
  BY ReplayStep
<1>2. ASSUME NEW k \in Nat, k \in S
      PROVE  k + 1 \in S
  BY <1>2, ReplayStep DEF Follow
<1>. HIDE DEF S
<1>3. Nat \subseteq S
  BY <1>1, <1>2, AllNumbers
<1>. QED  BY <1>3 DEF S

LEMMA FreshType == Fresh \in Accounts
  BY MaxCentsAssumption DEF Fresh, Accounts, MinCents

LEMMA ApplyType ==
    ASSUME NEW account \in Accounts, NEW event \in Events
    PROVE  Apply(account, event) \in Accounts
  BY MaxCentsAssumption DEF Apply, Accounts, Events, Saturate, MinCents

LEMMA ReplayType ==
    ASSUME NEW events, NEW n \in Nat,
           \A k \in 1..n : k \in DOMAIN events => events[k] \in Events
    PROVE  Replay(events, n) \in Accounts
<1> DEFINE S == {k \in Nat : k <= n => Replay(events, k) \in Accounts}
<1>1. 0 \in S
  BY ReplayStep, FreshType
<1>2. ASSUME NEW k \in Nat, k \in S
      PROVE  k + 1 \in S
  <2>. SUFFICES ASSUME k + 1 <= n
                PROVE  Replay(events, k + 1) \in Accounts
    OBVIOUS
  <2>1. Replay(events, k) \in Accounts
    BY <1>2
  <2>2. Follow(Replay(events, k), events, k + 1) \in Accounts
    BY <2>1, ApplyType DEF Follow
  <2>. QED  BY <2>2, ReplayStep
<1>. HIDE DEF S
<1>3. Nat \subseteq S
  BY <1>1, <1>2, AllNumbers
<1>. QED  BY <1>3 DEF S

\* i64 arithmetic is exact within the range.
LEMMA WrapInRange ==
    /\ \A n \in Int : Wrap(n) \in MinCents..MaxCents
    /\ \A n \in MinCents..MaxCents : Wrap(n) = n
  BY MaxCentsAssumption DEF Wrap, MinCents

-----------------------------------------------------------------------------
(* The inductive invariant *)

\* The first event of a stream opens the account.
FirstOpens ==
    \A s \in Streams : \A i \in Positions(s) :
        (\A j \in Positions(s) : i <= j) => log[i].event.kind = "opened"

\* What a writer has loaded is the account as of the version it has seen, and
\* the version it will append at is not an earlier one.
ReadyInv ==
    \A w \in Writers :
        /\ wpc[w] \in {"loaded", "ready"} =>
              /\ seen[w] <= CurrentVersion(order[w].stream)
              /\ loaded[w] = Replay(ByVersion(order[w].stream), seen[w])
        /\ wpc[w] = "ready" =>
              seen[w] <= expected[w] /\ expected[w] <= CurrentVersion(order[w].stream)

StoreInv ==
    /\ StoreTypeOK
    /\ \A w \in Writers : wpc[w] # "idle" => order[w] \in Orders
    /\ \A s \in Streams : CurrentVersion(s) \in Nat
    /\ OneSuccessor
    /\ FirstOpens
    /\ ReadyInv

\* A batch is what follows the checkpoint; the transaction of a runner has put
\* its first event in a row, and the cache says the same.
RunnerInv ==
    /\ checkpoint <= Len(log)
    /\ \A r \in Runners :
        /\ rpc[r] = "reading" => after[r] = checkpoint
        /\ rpc[r] \in {"handling", "upserted"} =>
              /\ batch[r] # <<>>
              /\ checkpoint + Len(batch[r]) <= Len(log)
              /\ \A i \in DOMAIN batch[r] : batch[r][i] = checkpoint + i
        /\ writing = r <=> rpc[r] = "upserted"
        /\ rpc[r] = "upserted" =>
              /\ staged = Upserted(table[Current(r).stream], Current(r).event)
              /\ cache[r][Current(r).stream] = staged.balance

IInv ==
    /\ TypeOK
    /\ StoreInv
    /\ RunnerInv
    /\ TableIsTheReplay
    /\ CacheAtMostOneEventAhead

-----------------------------------------------------------------------------
(* The log *)

\* MAX(version) of a stream whose versions are 1 to n.
LEMMA TopVersion ==
    ASSUME NEW n \in Nat
    PROVE  Max((1..n) \cup {0}) = n
  BY DEF Max

LEMMA EventOfType ==
    ASSUME NEW command \in Commands
    PROVE  EventOf(command) \in Events
  BY CommandsAssumption DEF EventOf, Events, PastTense

LEMMA AggregateType ==
    ASSUME StoreInv, NEW s \in Streams, NEW n \in Nat
    PROVE  /\ Replay(ByPosition(s), n) \in Accounts
           /\ Aggregate(s) \in Accounts
<1>1. \A i \in DOMAIN log : log[i] \in Rows
  BY DEF StoreInv, StoreTypeOK
<1>2. \A i \in Positions(s) : ByPosition(s)[i] \in Events
  BY <1>1 DEF ByPosition, Positions, Rows
<1>3. Replay(ByPosition(s), n) \in Accounts
  BY <1>2, ReplayType DEF ByPosition
<1>4. Replay(ByPosition(s), Len(log)) \in Accounts
  <2>1. Len(log) \in Nat
    BY DEF StoreInv, StoreTypeOK
  <2>. QED  BY <1>2, <2>1, ReplayType DEF ByPosition
<1>. QED  BY <1>3, <1>4 DEF StoreInv, OneSuccessor

\* The row at a position is the one its version finds.
LEMMA RowOfVersion ==
    ASSUME StoreInv, NEW s \in Streams, NEW i \in Positions(s)
    PROVE  /\ log[i].version \in Versions(s)
           /\ ByVersion(s)[log[i].version] = log[i].event
<1>. DEFINE v == log[i].version
            j == CHOOSE k \in Positions(s) : log[k].version = v
<1>1. v \in Versions(s)
  BY DEF Versions
<1>2. j \in Positions(s) /\ log[j].version = v
  OBVIOUS
<1>3. \A k \in Positions(s) : k \in Int /\ log[k].version \in Int
  <2>1. \A k \in DOMAIN log : k \in Int /\ log[k] \in Rows
    BY DEF StoreInv, StoreTypeOK
  <2>. QED  BY <2>1 DEF Positions, Rows
<1>. HIDE DEF j
<1>4. j = i
  BY <1>2, <1>3 DEF StoreInv, OneSuccessor
<1>. QED  BY <1>1, <1>4 DEF ByVersion, j

-----------------------------------------------------------------------------
(* What an append does to the log *)

\* The unique index lets a batch through only at the end of its stream, when
\* its expected version is not beyond that.
LEMMA AtTheEnd ==
    ASSUME StoreInv, NEW s \in Streams, NEW v \in Nat, NEW events \in Seq(Events),
           events # <<>>, v <= CurrentVersion(s), InsertAll(s, v, events)
    PROVE  v = CurrentVersion(s)
<1>1. 1 \in DOMAIN events
  BY DEF Events
<1>2. v + 1 \notin 1..CurrentVersion(s)
  BY <1>1 DEF InsertAll, Unique, StoreInv, OneSuccessor
<1>. QED  BY <1>2 DEF StoreInv

\* Rows, positions and versions after it.
LEMMA Appended ==
    ASSUME StoreInv, NEW s \in Streams, NEW events \in Seq(Events), events # <<>>,
           InsertAll(s, CurrentVersion(s), events)
    PROVE  /\ Len(events) \in Nat \ {0} /\ DOMAIN events = 1..Len(events)
           /\ Len(log) \in Nat /\ CurrentVersion(s) \in Nat
           /\ log' \in Seq(Rows) /\ Len(log') = Len(log) + Len(events)
           /\ \A i \in DOMAIN log : log'[i] = log[i]
           /\ \A k \in 1..Len(events) : /\ log'[Len(log) + k].stream = s
                                        /\ log'[Len(log) + k].version = CurrentVersion(s) + k
                                        /\ log'[Len(log) + k].event = events[k]
           /\ Positions(s) \subseteq Positions(s)'
           /\ \A k \in 1..Len(events) : Len(log) + k \in Positions(s)'
           /\ \A i \in Positions(s)' : i \in Positions(s) \/ \E k \in 1..Len(events) : i = Len(log) + k
           /\ \A t \in Streams \ {s} : Positions(t)' = Positions(t)
           /\ Versions(s)' = 1..(CurrentVersion(s) + Len(events))
           /\ \A t \in Streams \ {s} : Versions(t)' = Versions(t)
           /\ CurrentVersion(s)' = CurrentVersion(s) + Len(events)
           /\ \A t \in Streams \ {s} : CurrentVersion(t)' = CurrentVersion(t)
<1>. PICK len, cv, m : len = Len(log) /\ cv = CurrentVersion(s) /\ m = Len(events)
  OBVIOUS
<1>. DEFINE new == RowsOf(s, cv, events)
<1>1. cv \in Nat /\ log \in Seq(Rows) /\ log' = log \o new /\ len \in Nat
  BY DEF InsertAll, StoreInv, StoreTypeOK
<1>2. m \in Nat \ {0} /\ DOMAIN events = 1..m /\ \A k \in 1..m : events[k] \in Events
  <2>1. Len(events) # 0
    OBVIOUS
  <2>. QED  BY <2>1
<1>3. \A k \in 1..m :
          /\ new[k].stream = s /\ new[k].version = cv + k /\ new[k].event = events[k]
          /\ new[k] \in Rows
  BY <1>1, <1>2 DEF RowsOf, Rows
<1>4. new \in Seq(Rows) /\ Len(new) = m
  <2>1. new = [k \in 1..m |-> new[k]]
    BY <1>2 DEF RowsOf
  <2>. HIDE DEF new
  <2>. QED  BY <1>2, <1>3, <2>1
<1>. HIDE DEF new
<1>5. log' \in Seq(Rows) /\ Len(log') = len + m /\ DOMAIN log = 1..len /\ DOMAIN log' = 1..(len + m)
  <2>1. log' \in Seq(Rows) /\ Len(log') = len + m
    <3>1. log \o new \in Seq(Rows)
      BY <1>1, <1>4
    <3>2. ASSUME NEW a \in Seq(Rows), NEW b \in Seq(Rows)
          PROVE  Len(a \o b) = Len(a) + Len(b)
      OBVIOUS
    <3>3. Len(log \o new) = Len(log) + Len(new)
      BY <1>1, <1>4, <3>2
    <3>. QED  BY <1>1, <1>4, <3>1, <3>3
  <2>2. DOMAIN log' = 1..Len(log')
    BY <2>1
  <2>. QED  BY <1>1, <2>1, <2>2
<1>6. \A i \in 1..len : log'[i] = log[i]
  BY <1>1, <1>4
<1>7. ASSUME NEW k \in 1..m
      PROVE  /\ log'[len + k].stream = s /\ log'[len + k].version = cv + k
             /\ log'[len + k].event = events[k]
  <2>1. k \in Nat /\ len + k \in Nat /\ len + k > len /\ len + k <= len + m /\ (len + k) - len = k
    BY <1>1, <1>2
  <2>2. (log \o new)[len + k] = new[(len + k) - len]
    BY <1>1, <1>2, <1>4, <2>1
  <2>3. log'[len + k] = new[k]
    BY <1>1, <2>1, <2>2
  <2>. QED  BY <1>3, <2>3
<1>8. \A i \in 1..(len + m) : i \in 1..len \/ i - len \in 1..m
  BY <1>1, <1>2
<1>9. /\ Positions(s) \subseteq Positions(s)'
      /\ \A k \in 1..m : len + k \in Positions(s)'
      /\ \A i \in Positions(s)' : i \in Positions(s) \/ \E k \in 1..m : i = len + k
      /\ \A t \in Streams \ {s} : Positions(t)' = Positions(t)
  <2>1. \A k \in 1..m : log'[len + k].stream = s /\ len + k \in DOMAIN log'
    BY <1>1, <1>2, <1>5, <1>7
  <2>2. \A i \in DOMAIN log' : i \in DOMAIN log \/ \E k \in 1..m : i = len + k
    <3>1. \A i \in 1..(len + m) : i = len + (i - len)
      BY <1>1, <1>2
    <3>. QED  BY <1>5, <1>8, <3>1
  <2>3. \A i \in DOMAIN log : i \in DOMAIN log' /\ log'[i] = log[i]
    BY <1>1, <1>2, <1>5, <1>6
  <2>. QED  BY <2>1, <2>2, <2>3 DEF Positions
<1>10. Versions(s)' = Versions(s) \cup {cv + k : k \in 1..m}
  <2>1. \A i \in Positions(s) : log'[i].version = log[i].version
    BY <1>5, <1>6 DEF Positions
  <2>2. \A k \in 1..m : log'[len + k].version = cv + k
    BY <1>7
  <2>. QED  BY <1>9, <2>1, <2>2 DEF Versions
<1>11. Versions(s)' = 1..(cv + m)
  <2>1. Versions(s) = 1..cv
    BY DEF StoreInv, OneSuccessor
  <2>2. \A v \in 1..(cv + m) : v \in 1..cv \/ (v - cv \in 1..m /\ v = cv + (v - cv))
    BY <1>1, <1>2
  <2>3. \A k \in 1..m : cv + k \in 1..(cv + m)
    BY <1>1, <1>2
  <2>4. 1..cv \subseteq 1..(cv + m)
    BY <1>1, <1>2
  <2>. QED  BY <1>10, <2>1, <2>2, <2>3, <2>4
<1>12. \A t \in Streams \ {s} : Versions(t)' = Versions(t)
  <2>1. \A t \in Streams \ {s} : \A i \in Positions(t) : log'[i].version = log[i].version
    BY <1>5, <1>6 DEF Positions
  <2>. QED  BY <1>9, <2>1 DEF Versions
<1>13. CurrentVersion(s)' = cv + m
  <2>. DEFINE n == cv + m
  <2>1. CurrentVersion(s)' = Max((1..n) \cup {0})
    BY <1>11 DEF CurrentVersion
  <2>2. n \in Nat
    BY <1>1, <1>2
  <2>. HIDE DEF n
  <2>3. Max((1..n) \cup {0}) = n
    BY <2>2, TopVersion
  <2>. QED  BY <2>1, <2>3 DEF n
<1>14. \A t \in Streams \ {s} : CurrentVersion(t)' = CurrentVersion(t)
  BY <1>12 DEF CurrentVersion
<1>. QED  BY <1>1, <1>2, <1>5, <1>6, <1>7, <1>9, <1>11, <1>12, <1>13, <1>14

\* An append leaves every event where its version finds it, and puts its own at
\* the end of their stream.
LEMMA AppendedVersions ==
    ASSUME StoreInv, NEW s \in Streams, NEW events \in Seq(Events), events # <<>>,
           InsertAll(s, CurrentVersion(s), events)
    PROVE  /\ \A t \in Streams : \A v \in Versions(t) : ByVersion(t)'[v] = ByVersion(t)[v]
           /\ \A k \in DOMAIN events : ByVersion(s)'[CurrentVersion(s) + k] = events[k]
<1>. DEFINE At(t, v) == CHOOSE i \in Positions(t) : log[i].version = v
<1>1. /\ \A i \in DOMAIN log : log'[i] = log[i]
      /\ Positions(s) \subseteq Positions(s)'
      /\ \A k \in 1..Len(events) : Len(log) + k \in Positions(s)'
      /\ \A i \in Positions(s)' : i \in Positions(s) \/ \E k \in 1..Len(events) : i = Len(log) + k
      /\ \A t \in Streams \ {s} : Positions(t)' = Positions(t)
      /\ Versions(s)' = 1..(CurrentVersion(s) + Len(events))
      /\ Len(log) \in Nat /\ DOMAIN events = 1..Len(events)
      /\ DOMAIN log = 1..Len(log)
  BY Appended DEF StoreInv, StoreTypeOK
<1>2. \A k \in DOMAIN events : /\ log'[Len(log) + k].version = CurrentVersion(s) + k
                               /\ log'[Len(log) + k].event = events[k]
  BY Appended
<1>3. \A t \in Streams : /\ Versions(t) = 1..CurrentVersion(t) /\ CurrentVersion(t) \in Nat
                         /\ Positions(t) \subseteq DOMAIN log
  BY DEF StoreInv, OneSuccessor, Positions
<1>4. ASSUME NEW t \in Streams, NEW v \in Versions(t)
      PROVE  ByVersion(t)'[v] = ByVersion(t)[v]
  <2>1. PICK i \in Positions(t) : log[i].version = v
    BY DEF Versions
  <2>2. i \in Positions(t)' /\ log'[i].version = v
    BY <1>1, <1>3, <2>1
  <2>. DEFINE j == At(t, v)'
  <2>3. j \in Positions(t)' /\ log'[j].version = v
    BY <2>2
  <2>4. t = s => \A k \in DOMAIN events : v # CurrentVersion(s) + k
    BY <1>1, <1>3
  <2>5. v \in Versions(t)'
    BY <2>2 DEF Versions
  <2>6. ByVersion(t)'[v] = log'[j].event
    BY <2>5 DEF ByVersion
  <2>. HIDE DEF j
  <2>7. j \in Positions(t) /\ log'[j] = log[j]
    <3>1. j \in Positions(t)
      <4>1. CASE t = s
        <5>1. ASSUME NEW k \in 1..Len(events), j = Len(log) + k
              PROVE  FALSE
          <6>1. log'[j].version = CurrentVersion(s) + k
            BY <1>1, <1>2, <5>1
          <6>. QED  BY <1>1, <2>3, <2>4, <4>1, <6>1
        <5>. QED  BY <1>1, <2>3, <4>1, <5>1
      <4>2. CASE t # s
        BY <1>1, <2>3, <4>2
      <4>. QED  BY <4>1, <4>2
    <3>. QED  BY <1>1, <1>3, <3>1
  <2>8. ByVersion(t)[v] = log[j].event
    BY <2>3, <2>7, RowOfVersion
  <2>. QED  BY <2>6, <2>7, <2>8
<1>5. ASSUME NEW k \in DOMAIN events
      PROVE  ByVersion(s)'[CurrentVersion(s) + k] = events[k]
  <2>. PICK v : v = CurrentVersion(s) + k
    OBVIOUS
  <2>. DEFINE j == At(s, v)'
  <2>1. Len(log) + k \in Positions(s)' /\ log'[Len(log) + k].version = v
    BY <1>1, <1>2
  <2>2. j \in Positions(s)' /\ log'[j].version = v
    BY <2>1
  <2>. v \in Versions(s)'
    BY <2>1 DEF Versions
  <2>3. ByVersion(s)'[v] = log'[j].event
    BY DEF ByVersion
  <2>. HIDE DEF j
  <2>4. j \notin Positions(s)
    <3>. SUFFICES ASSUME j \in Positions(s)
                  PROVE  FALSE
      OBVIOUS
    <3>1. log[j].version = v
      BY <1>1, <1>3, <2>2
    <3>2. v \in Versions(s)
      BY <3>1 DEF Versions
    <3>. QED  BY <1>1, <1>3, <3>2
  <2>5. PICK m \in DOMAIN events : j = Len(log) + m
    BY <1>1, <2>2, <2>4
  <2>6. m = k
    BY <1>1, <1>2, <1>3, <2>2, <2>5
  <2>. QED  BY <1>2, <2>3, <2>5, <2>6
<1>. QED  BY <1>4, <1>5

\* An append carries its stream on from the account it was, event by event, and
\* no other; what was replayed up to here stays as it is.
LEMMA AppendedAccounts ==
    ASSUME StoreInv, NEW s \in Streams, NEW events \in Seq(Events), events # <<>>,
           InsertAll(s, CurrentVersion(s), events)
    PROVE  /\ \A t \in Streams \ {s} : Aggregate(t)' = Aggregate(t)
           /\ \A t \in Streams : \A v \in 0..CurrentVersion(t) :
                 Replay(ByVersion(t)', v) = Replay(ByVersion(t), v)
           /\ \A t \in Streams : \A n \in 0..Len(log) :
                 Replay(ByPosition(t)', n) = Replay(ByPosition(t), n)
           /\ \A t \in Streams : Replay(ByPosition(t)', Len(log')) = Aggregate(t)'
           /\ Len(events) = 1 => Aggregate(s)' = Apply(Aggregate(s), events[1])
<1>. DEFINE len == Len(log)
            cv == CurrentVersion(s)
            m == Len(events)
<1>1. /\ len \in Nat /\ cv \in Nat /\ m \in Nat \ {0} /\ Len(log') = len + m
      /\ \A i \in DOMAIN log : log'[i] = log[i]
      /\ \A k \in 1..m : log'[len + k].event = events[k]
      /\ Positions(s) \subseteq Positions(s)'
      /\ \A k \in 1..m : len + k \in Positions(s)'
      /\ \A i \in Positions(s)' : i \in Positions(s) \/ \E k \in 1..m : i = len + k
      /\ \A t \in Streams \ {s} : Positions(t)' = Positions(t)
      /\ Versions(s)' = 1..(cv + m)
      /\ \A t \in Streams \ {s} : Versions(t)' = Versions(t)
      /\ CurrentVersion(s)' = cv + m
      /\ \A t \in Streams \ {s} : CurrentVersion(t)' = CurrentVersion(t)
      /\ DOMAIN events = 1..m
  BY Appended
<1>2. \A t \in Streams : /\ Versions(t) = 1..CurrentVersion(t) /\ CurrentVersion(t) \in Nat
                         /\ Positions(t) \subseteq 1..len
  BY DEF StoreInv, OneSuccessor, Positions, StoreTypeOK
<1>3. \A t \in Streams : /\ DOMAIN ByVersion(t) = Versions(t)
                         /\ DOMAIN ByVersion(t)' = Versions(t)'
                         /\ DOMAIN ByPosition(t) = Positions(t)
                         /\ DOMAIN ByPosition(t)' = Positions(t)'
  BY DEF ByVersion, ByPosition
<1>4. ASSUME NEW t \in Streams, NEW v \in 0..CurrentVersion(t)
      PROVE  Replay(ByVersion(t)', v) = Replay(ByVersion(t), v)
  <2>1. \A k \in 1..v : k \in Versions(t) /\ k \in Versions(t)'
    BY <1>1, <1>2
  <2>. QED  BY <1>2, <1>3, <2>1, AppendedVersions, ReplayAgree
<1>5. ASSUME NEW t \in Streams, NEW n \in 0..len
      PROVE  Replay(ByPosition(t)', n) = Replay(ByPosition(t), n)
  <2>1. \A k \in 1..n : k \in Positions(t) <=> k \in Positions(t)'
    BY <1>1, <1>2
  <2>2. \A k \in Positions(t) : k \in Positions(t)' /\ ByPosition(t)'[k] = ByPosition(t)[k]
    <3>1. \A k \in Positions(t) : k \in Positions(t)' /\ log'[k] = log[k]
      BY <1>1, <1>2 DEF Positions
    <3>. QED  BY <3>1 DEF ByPosition
  <2>. QED  BY <1>1, <1>2, <1>3, <2>1, <2>2, ReplayAgree
<1>6. \A t \in Streams \ {s} : Aggregate(t)' = Aggregate(t)
  BY <1>1, <1>2, <1>4 DEF Aggregate
<1>7. \A t \in Streams : Replay(ByPosition(t), len) = Aggregate(t)
  BY DEF StoreInv, OneSuccessor
<1>8. \A k \in 0..(m - 1) :
          /\ cv + k + 1 \in Versions(s)' /\ ByVersion(s)'[cv + k + 1] = events[k + 1]
          /\ len + k + 1 \in Positions(s)' /\ ByPosition(s)'[len + k + 1] = events[k + 1]
          /\ \A t \in Streams \ {s} : len + k + 1 \notin Positions(t)'
  <2>1. \A k \in 0..(m - 1) : k + 1 \in 1..m /\ cv + (k + 1) = cv + k + 1
                              /\ len + (k + 1) = len + k + 1
    BY <1>1
  <2>2. \A j \in 1..m : ByVersion(s)'[cv + j] = events[j]
    BY <1>1, AppendedVersions
  <2>3. \A j \in 1..m : len + j \in Positions(s)' /\ ByPosition(s)'[len + j] = events[j]
    BY <1>1 DEF ByPosition
  <2>4. \A j \in 1..m : /\ cv + j \in Versions(s)'
                        /\ \A t \in Streams \ {s} : len + j \notin Positions(t)'
    BY <1>1, <1>2
  <2>. QED  BY <2>1, <2>2, <2>3, <2>4
<1>9. ASSUME NEW t \in Streams \ {s}
      PROVE  Replay(ByPosition(t)', len + m) = Aggregate(t)
  <2>. DEFINE S == {k \in Nat : k <= m => Replay(ByPosition(t)', len + k) = Aggregate(t)}
  <2>1. 0 \in S
    BY <1>1, <1>5, <1>7
  <2>2. ASSUME NEW k \in Nat, k \in S
        PROVE  k + 1 \in S
    <3>. SUFFICES ASSUME k + 1 <= m
                  PROVE  Replay(ByPosition(t)', len + (k + 1)) = Aggregate(t)
      OBVIOUS
    <3>. len + k \in Nat /\ k \in 0..(m - 1)
      BY <1>1
    <3>1. Replay(ByPosition(t)', len + k + 1) =
              Follow(Replay(ByPosition(t)', len + k), ByPosition(t)', len + k + 1)
      BY ReplayStep
    <3>2. len + k + 1 \notin DOMAIN ByPosition(t)'
      BY <1>3, <1>8
    <3>3. Replay(ByPosition(t)', len + k) = Aggregate(t) /\ len + (k + 1) = len + k + 1
      BY <1>1, <2>2
    <3>. QED  BY <3>1, <3>2, <3>3 DEF Follow
  <2>. HIDE DEF S
  <2>3. m \in S
    BY <1>1, <2>1, <2>2, AllNumbers
  <2>. QED  BY <1>1, <2>3 DEF S
<1>10. ASSUME NEW k \in Nat, k + 1 <= m
       PROVE  Replay(ByVersion(s)', cv + (k + 1)) = Apply(Replay(ByVersion(s)', cv + k), events[k + 1])
  <2>. cv + k \in Nat /\ k \in 0..(m - 1)
    BY <1>1, <1>10
  <2>1. Replay(ByVersion(s)', cv + k + 1) =
            Follow(Replay(ByVersion(s)', cv + k), ByVersion(s)', cv + k + 1)
    BY ReplayStep
  <2>2. cv + k + 1 \in DOMAIN ByVersion(s)' /\ ByVersion(s)'[cv + k + 1] = events[k + 1]
        /\ cv + (k + 1) = cv + k + 1
    BY <1>1, <1>3, <1>8, <1>10
  <2>. QED  BY <2>1, <2>2 DEF Follow
<1>11. Replay(ByPosition(s)', len + m) = Replay(ByVersion(s)', cv + m)
  <2>. DEFINE S == {k \in Nat : k <= m =>
                        Replay(ByPosition(s)', len + k) = Replay(ByVersion(s)', cv + k)}
  <2>1. 0 \in S
    <3>1. Replay(ByPosition(s)', len) = Aggregate(s) /\ Replay(ByVersion(s)', cv) = Aggregate(s)
      BY <1>1, <1>4, <1>5, <1>7 DEF Aggregate
    <3>. QED  BY <1>1, <3>1
  <2>2. ASSUME NEW k \in Nat, k \in S
        PROVE  k + 1 \in S
    <3>. SUFFICES ASSUME k + 1 <= m
                  PROVE  Replay(ByPosition(s)', len + (k + 1)) = Replay(ByVersion(s)', cv + (k + 1))
      OBVIOUS
    <3>. len + k \in Nat /\ k \in 0..(m - 1)
      BY <1>1
    <3>1. Replay(ByPosition(s)', len + k + 1) =
              Follow(Replay(ByPosition(s)', len + k), ByPosition(s)', len + k + 1)
      BY ReplayStep
    <3>2. len + k + 1 \in DOMAIN ByPosition(s)' /\ ByPosition(s)'[len + k + 1] = events[k + 1]
          /\ len + (k + 1) = len + k + 1
      BY <1>1, <1>3, <1>8
    <3>3. Replay(ByPosition(s)', len + k) = Replay(ByVersion(s)', cv + k)
      BY <1>1, <2>2
    <3>. QED  BY <1>10, <3>1, <3>2, <3>3 DEF Follow
  <2>. HIDE DEF S
  <2>3. m \in S
    BY <1>1, <2>1, <2>2, AllNumbers
  <2>. QED  BY <1>1, <2>3 DEF S
<1>12. Aggregate(s)' = Replay(ByVersion(s)', cv + m)
  BY <1>1 DEF Aggregate
<1>13. m = 1 => Aggregate(s)' = Apply(Aggregate(s), events[1])
  <2>1. Replay(ByVersion(s)', cv + 0) = Aggregate(s)
    BY <1>1, <1>4 DEF Aggregate
  <2>. QED  BY <1>10, <1>12, <2>1
<1>. QED  BY <1>1, <1>4, <1>5, <1>6, <1>9, <1>11, <1>12, <1>13

-----------------------------------------------------------------------------
(* The writers keep their part of the invariant *)

LEMMA StoreInitially == StoreInit => StoreInv
<1>. SUFFICES ASSUME StoreInit
              PROVE  StoreInv
  OBVIOUS
<1>1. log = <<>> /\ Len(log) = 0 /\ DOMAIN log = {}
  BY DEF StoreInit
<1>2. \A s : Positions(s) = {} /\ Versions(s) = {}
  BY <1>1 DEF Positions, Versions
<1>3. \A s : CurrentVersion(s) = 0
  <2>1. Max((1..0) \cup {0}) = 0
    BY TopVersion
  <2>2. Max({} \cup {0}) = 0
    <3>1. 1..0 = {}
      OBVIOUS
    <3>. QED  BY <2>1, <3>1
  <2>. QED  BY <1>2, <2>2 DEF CurrentVersion
<1>4. \A s : Aggregate(s) = Fresh /\ Replay(ByPosition(s), Len(log)) = Fresh
  BY <1>1, <1>3, ReplayStep DEF Aggregate
<1>5. StoreTypeOK
  BY FreshType, MaxCommandsAssumption DEF StoreInit, StoreTypeOK, Places
<1>6. OneSuccessor
  <2>1. 1..0 = {}
    OBVIOUS
  <2>. QED  BY <1>2, <1>3, <1>4, <2>1 DEF OneSuccessor
<1>7. FirstOpens /\ ReadyInv
  BY <1>2 DEF FirstOpens, ReadyInv, StoreInit
<1>8. (\A w \in Writers : wpc[w] # "idle" => order[w] \in Orders)
  BY DEF StoreInit
<1>. QED  BY <1>3, <1>5, <1>6, <1>7, <1>8 DEF StoreInv

\* A batch at the end of a stream keeps the log in order.
LEMMA InsertKeepsOrder ==
    ASSUME StoreInv, NEW s \in Streams, NEW events \in Seq(Events), events # <<>>,
           InsertAll(s, CurrentVersion(s), events),
           Positions(s) = {} => events[1].kind = "opened"
    PROVE  /\ log' \in Seq(Rows) /\ OneSuccessor' /\ FirstOpens'
           /\ \A t \in Streams : CurrentVersion(t)' \in Nat
<1>. DEFINE len == Len(log)
            cv == CurrentVersion(s)
            m == Len(events)
<1>1. /\ len \in Nat /\ cv \in Nat /\ m \in Nat \ {0}
      /\ log' \in Seq(Rows) /\ Len(log') = len + m
      /\ \A i \in DOMAIN log : log'[i] = log[i]
      /\ \A k \in 1..m : /\ log'[len + k].stream = s /\ log'[len + k].version = cv + k
                         /\ log'[len + k].event = events[k]
      /\ Positions(s) \subseteq Positions(s)'
      /\ \A k \in 1..m : len + k \in Positions(s)'
      /\ \A i \in Positions(s)' : i \in Positions(s) \/ \E k \in 1..m : i = len + k
      /\ \A t \in Streams \ {s} : Positions(t)' = Positions(t)
      /\ Versions(s)' = 1..(cv + m)
      /\ \A t \in Streams \ {s} : Versions(t)' = Versions(t)
      /\ CurrentVersion(s)' = cv + m
      /\ \A t \in Streams \ {s} : CurrentVersion(t)' = CurrentVersion(t)
      /\ DOMAIN events = 1..m
  BY Appended
<1>2. /\ log \in Seq(Rows) /\ DOMAIN log = 1..len /\ DOMAIN log' = 1..(len + m)
      /\ \A t \in Streams : /\ Versions(t) = 1..CurrentVersion(t) /\ CurrentVersion(t) \in Nat
                            /\ Positions(t) \subseteq 1..len
  BY <1>1 DEF StoreInv, OneSuccessor, Positions, StoreTypeOK
<1>3. \A t \in Streams : CurrentVersion(t)' \in Nat
  BY <1>1, <1>2
<1>4. OneSuccessor'
  <2>1. ASSUME NEW t \in Streams, NEW i \in Positions(t)', NEW j \in Positions(t)', i < j
        PROVE  log'[i].version < log'[j].version
    <3>1. \A k \in Positions(t) : log[k].version \in 1..CurrentVersion(t) /\ log'[k] = log[k]
      BY <1>1, <1>2 DEF Versions
    <3>2. CASE j \in Positions(t)
      <4>1. i \in Positions(t)
        BY <1>1, <1>2, <2>1, <3>2
      <4>. QED  BY <2>1, <3>1, <3>2, <4>1 DEF StoreInv, OneSuccessor
    <3>3. CASE j \notin Positions(t)
      <4>1. t = s
        BY <1>1, <3>3
      <4>2. PICK k \in 1..m : j = len + k
        BY <1>1, <3>3, <4>1
      <4>3. log'[j].version = cv + k
        BY <1>1, <4>2
      <4>4. CASE i \in Positions(t)
        BY <1>1, <1>2, <3>1, <4>1, <4>3, <4>4
      <4>5. CASE i \notin Positions(t)
        <5>1. PICK l \in 1..m : i = len + l
          BY <1>1, <4>1, <4>5
        <5>2. log'[i].version = cv + l /\ l < k
          BY <1>1, <2>1, <4>2, <5>1
        <5>. QED  BY <1>1, <4>3, <5>2
      <4>. QED  BY <4>4, <4>5
    <3>. QED  BY <3>2, <3>3
  <2>2. \A t \in Streams : Versions(t)' = 1..CurrentVersion(t)'
    BY <1>1, <1>2
  <2>3. \A t \in Streams : Replay(ByPosition(t)', Len(log')) = Aggregate(t)'
    BY AppendedAccounts
  <2>. QED  BY <2>1, <2>2, <2>3 DEF OneSuccessor
<1>5. FirstOpens'
  <2>. SUFFICES ASSUME NEW t \in Streams, NEW i \in Positions(t)', \A j \in Positions(t)' : i <= j
                PROVE  log'[i].event.kind = "opened"
    BY DEF FirstOpens
  <2>1. CASE i \in Positions(t)
    <3>1. \A j \in Positions(t) : i <= j
      BY <1>1
    <3>2. log'[i] = log[i]
      BY <1>1, <1>2, <2>1
    <3>. QED  BY <2>1, <3>1, <3>2 DEF StoreInv, FirstOpens
  <2>2. CASE i \notin Positions(t)
    <3>1. t = s
      BY <1>1, <2>2
    <3>2. PICK k \in 1..m : i = len + k
      BY <1>1, <2>2, <3>1
    <3>3. len + 1 \in Positions(s)'
      <4>1. 1 \in 1..m
        BY <1>1
      <4>. QED  BY <1>1, <4>1
    <3>4. i <= len + 1
      BY <3>1, <3>3
    <3>5. k = 1
      BY <1>1, <3>2, <3>4
    <3>6. Positions(s) = {}
      <4>1. \A j \in Positions(s) : j \in 1..len /\ i <= j
        BY <1>1, <1>2, <3>1
      <4>. QED  BY <1>1, <3>2, <4>1
    <3>. QED  BY <1>1, <3>2, <3>5, <3>6
  <2>. QED  BY <2>1, <2>2
<1>. QED  BY <1>1, <1>3, <1>4, <1>5

\* What the other writers hold stays true: versions only grow, and the events
\* up to those they have seen stay.
LEMMA InsertKeepsReady ==
    ASSUME StoreInv, NEW s \in Streams, NEW events \in Seq(Events), events # <<>>,
           InsertAll(s, CurrentVersion(s), events),
           NEW w \in Writers, wpc[w] # "idle", NEW t, t = order[w].stream
    PROVE  /\ wpc[w] \in {"loaded", "ready"} =>
                 seen[w] <= CurrentVersion(t)' /\ loaded[w] = Replay(ByVersion(t)', seen[w])
           /\ wpc[w] = "ready" => seen[w] <= expected[w] /\ expected[w] <= CurrentVersion(t)'
<1>1. t \in Streams /\ seen[w] \in Nat /\ expected[w] \in Nat
  BY DEF StoreInv, Orders, StoreTypeOK
<1>2. CurrentVersion(t) \in Nat /\ CurrentVersion(t)' \in Nat /\ CurrentVersion(t) <= CurrentVersion(t)'
  <2>1. CASE t = s
    BY <2>1, Appended
  <2>2. CASE t # s
    BY <1>1, <2>2, Appended DEF StoreInv
  <2>. QED  BY <2>1, <2>2
<1>3. ASSUME wpc[w] \in {"loaded", "ready"}
      PROVE  seen[w] <= CurrentVersion(t)' /\ loaded[w] = Replay(ByVersion(t)', seen[w])
  <2>1. seen[w] <= CurrentVersion(t) /\ loaded[w] = Replay(ByVersion(t), seen[w])
    BY <1>3 DEF StoreInv, ReadyInv
  <2>2. Replay(ByVersion(t)', seen[w]) = Replay(ByVersion(t), seen[w])
    BY <1>1, <1>2, <2>1, AppendedAccounts
  <2>. QED  BY <1>1, <1>2, <2>1, <2>2
<1>4. ASSUME wpc[w] = "ready"
      PROVE  seen[w] <= expected[w] /\ expected[w] <= CurrentVersion(t)'
  <2>1. seen[w] <= expected[w] /\ expected[w] <= CurrentVersion(t)
    BY <1>4 DEF StoreInv, ReadyInv
  <2>. QED  BY <1>1, <1>2, <2>1
<1>. QED  BY <1>3, <1>4

\* A writer appends at the end of its stream, and decided on what it had seen.
LEMMA AppendAtTheEnd ==
    ASSUME StoreInv, NEW w \in Writers, AppendEvents(w), NEW s, s = order[w].stream
    PROVE  /\ s \in Streams /\ order[w].command \in Commands
           /\ Produced(w) \in Seq(Events) /\ Produced(w) # <<>> /\ Len(Produced(w)) = 1
           /\ Produced(w)[1] = EventOf(order[w].command)
           /\ expected[w] = CurrentVersion(s)
           /\ InsertAll(s, CurrentVersion(s), Produced(w))
           /\ seen[w] \in Nat /\ seen[w] <= CurrentVersion(s)
           /\ loaded[w] = Replay(ByVersion(s), seen[w])
           /\ Permits(loaded[w], order[w].command)
<1>1. wpc[w] = "ready" /\ Permits(loaded[w], order[w].command)
  BY DEF AppendEvents, Decided
<1>2. order[w] \in Orders /\ s \in Streams /\ order[w].command \in Commands
  BY <1>1 DEF StoreInv, Orders
<1>3. EventOf(order[w].command) \in Events
  BY <1>2, EventOfType
<1>4. /\ Produced(w) \in Seq(Events) /\ Produced(w) # <<>> /\ Len(Produced(w)) = 1
      /\ Produced(w)[1] = EventOf(order[w].command)
  BY <1>3 DEF Produced
<1>5. /\ seen[w] <= CurrentVersion(s) /\ loaded[w] = Replay(ByVersion(s), seen[w])
      /\ expected[w] <= CurrentVersion(s) /\ expected[w] \in Nat /\ seen[w] \in Nat
  BY <1>1 DEF StoreInv, ReadyInv, StoreTypeOK
<1>6. InsertAll(s, expected[w], Produced(w))
  BY DEF AppendEvents
<1>7. expected[w] = CurrentVersion(s)
  BY <1>2, <1>4, <1>5, <1>6, AtTheEnd
<1>. QED  BY <1>1, <1>2, <1>4, <1>5, <1>6, <1>7

LEMMA StoreInvAppend ==
    ASSUME StoreInv, NEW w \in Writers, AppendEvents(w)
    PROVE  StoreInv'
<1>. PICK s : s = order[w].stream
  OBVIOUS
<1>1. /\ s \in Streams /\ order[w].command \in Commands
      /\ Produced(w) \in Seq(Events) /\ Produced(w) # <<>>
      /\ Produced(w)[1] = EventOf(order[w].command)
      /\ InsertAll(s, CurrentVersion(s), Produced(w))
      /\ seen[w] \in Nat /\ seen[w] <= CurrentVersion(s)
      /\ loaded[w] = Replay(ByVersion(s), seen[w]) /\ Permits(loaded[w], order[w].command)
  BY AppendAtTheEnd
<1>2. Positions(s) = {} => Produced(w)[1].kind = "opened"
  <2>. SUFFICES ASSUME Positions(s) = {}
                PROVE  Produced(w)[1].kind = "opened"
    OBVIOUS
  <2>1. Versions(s) = {} /\ Versions(s) = 1..CurrentVersion(s) /\ CurrentVersion(s) \in Nat
    BY <1>1 DEF Versions, StoreInv, OneSuccessor
  <2>2. CurrentVersion(s) = 0
    BY <2>1
  <2>3. loaded[w] = Fresh
    BY <1>1, <2>2, ReplayStep
  <2>4. order[w].command.kind \in {"open", "deposit", "withdraw", "close"}
    BY <1>1, CommandsAssumption
  <2>5. order[w].command.kind = "open"
    <3>1. loaded[w].status # "open"
      BY <2>3 DEF Fresh
    <3>. QED  BY <1>1, <2>4, <3>1 DEF Permits
  <2>. QED  BY <1>1, <2>5 DEF EventOf, PastTense
<1>3. log' \in Seq(Rows) /\ OneSuccessor' /\ FirstOpens' /\ \A t \in Streams : CurrentVersion(t)' \in Nat
  BY <1>1, <1>2, InsertKeepsOrder
<1>4. /\ wpc' = [wpc EXCEPT ![w] = "idle"] /\ order' = [order EXCEPT ![w] = NoOrder]
      /\ loaded' = [loaded EXCEPT ![w] = Fresh] /\ expected' = [expected EXCEPT ![w] = 0]
      /\ seen' = [seen EXCEPT ![w] = 0] /\ issued' = issued
  BY DEF AppendEvents, Answer, Goto
<1>5. StoreTypeOK'
  <2>1. StoreTypeOK
    BY DEF StoreInv
  <2>. QED  BY <1>3, <1>4, <2>1, FreshType DEF StoreTypeOK, Places
<1>6. \A u \in Writers : wpc'[u] # "idle" => order'[u] \in Orders
  BY <1>4 DEF StoreInv, StoreTypeOK
<1>7. ReadyInv'
  <2>. SUFFICES ASSUME NEW u \in Writers, wpc'[u] \in {"loaded", "ready"}, NEW t, t = order'[u].stream
                PROVE  /\ seen'[u] <= CurrentVersion(t)'
                       /\ loaded'[u] = Replay(ByVersion(t)', seen'[u])
                       /\ wpc'[u] = "ready" =>
                             seen'[u] <= expected'[u] /\ expected'[u] <= CurrentVersion(t)'
    BY DEF ReadyInv
  <2>1. /\ u # w /\ wpc'[u] = wpc[u] /\ order'[u] = order[u] /\ expected'[u] = expected[u]
        /\ loaded'[u] = loaded[u] /\ seen'[u] = seen[u]
    BY <1>4 DEF StoreInv, StoreTypeOK
  <2>. QED  BY <1>1, <2>1, InsertKeepsReady
<1>. QED  BY <1>3, <1>5, <1>6, <1>7 DEF StoreInv

\* A history goes in at the start of its stream, which is where it ends.
LEMMA HistoryIsFirst ==
    ASSUME StoreInv, AppendHistory
    PROVE  \E s \in Streams, events \in Seq(Events) :
              /\ events # <<>> /\ events[1].kind = "opened"
              /\ InsertAll(s, CurrentVersion(s), events)
<1>1. PICK s \in Streams, events \in Batches : InsertAll(s, 0, events)
  BY DEF AppendHistory
<1>2. events \in Seq(Events) /\ events # <<>> /\ events[1].kind = "opened"
  <2>1. events \in Seq(Events) /\ events # <<>> /\ \A k \in DOMAIN events : events[k].kind = "opened" <=> k = 1
    BY BatchesAssumption DEF Events
  <2>2. 1 \in DOMAIN events
    BY <2>1
  <2>. QED  BY <2>1, <2>2
<1>3. CurrentVersion(s) \in Nat
  BY DEF StoreInv
<1>4. 0 = CurrentVersion(s)
  BY <1>1, <1>2, <1>3, AtTheEnd
<1>. QED  BY <1>1, <1>2, <1>4

LEMMA StoreInvHistory ==
    ASSUME StoreInv, AppendHistory
    PROVE  StoreInv'
<1>1. PICK s \in Streams, events \in Seq(Events) :
          /\ events # <<>> /\ events[1].kind = "opened"
          /\ InsertAll(s, CurrentVersion(s), events)
  BY HistoryIsFirst
<1>2. log' \in Seq(Rows) /\ OneSuccessor' /\ FirstOpens' /\ \A t \in Streams : CurrentVersion(t)' \in Nat
  BY <1>1, InsertKeepsOrder
<1>3. UNCHANGED <<wpc, order, loaded, expected, seen, issued>>
  BY DEF AppendHistory, writerVars
<1>4. StoreTypeOK' /\ \A w \in Writers : wpc'[w] # "idle" => order'[w] \in Orders
  BY <1>2, <1>3 DEF StoreInv, StoreTypeOK
<1>5. ReadyInv'
  BY <1>1, <1>3, InsertKeepsReady DEF ReadyInv
<1>. QED  BY <1>2, <1>4, <1>5 DEF StoreInv

\* While the log stays, so does what the queries make of it.
LEMMA SameLog ==
    ASSUME StoreInv, UNCHANGED log
    PROVE  /\ \A s \in Streams :
                /\ Positions(s)' = Positions(s) /\ Versions(s)' = Versions(s)
                /\ CurrentVersion(s)' = CurrentVersion(s)
                /\ ByVersion(s)' = ByVersion(s) /\ ByPosition(s)' = ByPosition(s)
                /\ Aggregate(s)' = Aggregate(s)
           /\ OneSuccessor' /\ FirstOpens'
<1>1. \A s : Positions(s)' = Positions(s)
  BY DEF Positions
<1>2. \A s : Versions(s)' = Versions(s)
  BY <1>1 DEF Versions
<1>3. \A s : CurrentVersion(s)' = CurrentVersion(s)
  BY <1>2 DEF CurrentVersion
<1>4. ASSUME NEW s
      PROVE  ByPosition(s)' = ByPosition(s)
  BY <1>1, Zenon DEF ByPosition
<1>5. ASSUME NEW s \in Streams
      PROVE  ByVersion(s)' = ByVersion(s)
  <2>1. ASSUME NEW v \in Versions(s)
        PROVE  ByVersion(s)'[v] = ByVersion(s)[v]
    <3>1. PICK i \in Positions(s)' : log'[i].version = v
      BY <1>1 DEF Versions
    <3>. DEFINE j == (CHOOSE k \in Positions(s) : log[k].version = v)'
    <3>2. j \in Positions(s)' /\ log'[j].version = v
      BY <3>1
    <3>3. ByVersion(s)'[v] = log'[j].event
      BY <1>2 DEF ByVersion
    <3>. HIDE DEF j
    <3>4. ByVersion(s)[v] = log[j].event
      BY <1>1, <3>2, RowOfVersion
    <3>. QED  BY <3>3, <3>4
  <2>. QED  BY <1>2, <2>1 DEF ByVersion
<1>6. \A s \in Streams : Aggregate(s)' = Aggregate(s)
  BY <1>3, <1>5 DEF Aggregate
<1>7. OneSuccessor'
  BY <1>1, <1>2, <1>3, <1>4, <1>6 DEF StoreInv, OneSuccessor
<1>8. FirstOpens'
  BY <1>1 DEF StoreInv, FirstOpens
<1>. QED  BY <1>1, <1>2, <1>3, <1>4, <1>5, <1>6, <1>7, <1>8

LEMMA StoreInvSameLog ==
    ASSUME StoreInv, NEW w \in Writers,
           Send(w) \/ Load(w) \/ ReadVersion(w) \/ Reject(w) \/ Conflict(w) \/ Abandon(w)
    PROVE  StoreInv'
<1>1. UNCHANGED log
  BY DEF Send, Load, ReadVersion, Reject, Conflict, Abandon
<1>2. /\ OneSuccessor' /\ FirstOpens'
      /\ \A s \in Streams : CurrentVersion(s)' = CurrentVersion(s) /\ ByVersion(s)' = ByVersion(s)
  BY <1>1, SameLog
<1>3. \A s \in Streams : CurrentVersion(s) \in Nat /\ Aggregate(s) \in Accounts
  BY AggregateType DEF StoreInv
<1>4. StoreTypeOK /\ \A u \in Writers : wpc[u] # "idle" => order[u] \in Orders
  BY DEF StoreInv
<1>5. StoreTypeOK' /\ \A u \in Writers : wpc'[u] # "idle" => order'[u] \in Orders
  <2>1. CASE Send(w)
    BY <1>4, <2>1, MaxCommandsAssumption DEF Send, Goto, StoreTypeOK, Places
  <2>2. CASE Load(w)
    BY <1>3, <1>4, <2>2 DEF Load, Goto, StoreTypeOK, Places, Orders
  <2>3. CASE ReadVersion(w)
    BY <1>3, <1>4, <2>3 DEF ReadVersion, Goto, StoreTypeOK, Places, Orders
  <2>4. CASE Reject(w)
    BY <1>4, <2>4, FreshType DEF Reject, Answer, Goto, StoreTypeOK, Places
  <2>5. CASE Conflict(w)
    BY <1>4, <2>5 DEF Conflict, Decided, Goto, StoreTypeOK, Places
  <2>6. CASE Abandon(w)
    BY <1>4, <2>6, FreshType DEF Abandon, Answer, Goto, StoreTypeOK, Places
  <2>. QED  BY <2>1, <2>2, <2>3, <2>4, <2>5, <2>6
<1>6. ReadyInv'
  <2>. SUFFICES ASSUME NEW u \in Writers, wpc'[u] \in {"loaded", "ready"}, NEW t, t = order'[u].stream
                PROVE  /\ seen'[u] <= CurrentVersion(t)'
                       /\ loaded'[u] = Replay(ByVersion(t)', seen'[u])
                       /\ wpc'[u] = "ready" =>
                             seen'[u] <= expected'[u] /\ expected'[u] <= CurrentVersion(t)'
    BY DEF ReadyInv
  <2>1. CASE u = w /\ Load(w)
    <3>1. /\ t \in Streams /\ order'[w] = order[w] /\ wpc'[w] = "loaded"
          /\ loaded'[w] = Aggregate(t) /\ seen'[w] = CurrentVersion(t)
      BY <1>4, <2>1 DEF Load, StoreTypeOK, Orders, Goto
    <3>. QED  BY <1>2, <1>3, <2>1, <3>1 DEF Aggregate
  <2>2. CASE u = w /\ ReadVersion(w)
    <3>1. /\ t \in Streams /\ order'[w] = order[w] /\ wpc[w] = "loaded"
          /\ loaded'[w] = loaded[w] /\ seen'[w] = seen[w] /\ expected'[w] = CurrentVersion(t)
      BY <1>4, <2>2 DEF ReadVersion, StoreTypeOK, Orders
    <3>2. seen[w] <= CurrentVersion(t) /\ loaded[w] = Replay(ByVersion(t), seen[w])
      BY <2>2, <3>1 DEF StoreInv, ReadyInv
    <3>. QED  BY <1>2, <1>3, <2>2, <3>1, <3>2
  <2>3. CASE ~(u = w /\ (Load(w) \/ ReadVersion(w)))
    <3>1. /\ wpc[u] = wpc'[u] /\ order'[u] = order[u] /\ seen'[u] = seen[u]
          /\ expected'[u] = expected[u] /\ loaded'[u] = loaded[u]
      BY <1>4, <2>3 DEF Send, Load, ReadVersion, Reject, Conflict, Abandon, Answer, Goto, StoreTypeOK
    <3>2. t \in Streams
      BY <1>4, <3>1 DEF Orders
    <3>. QED  BY <1>2, <3>1, <3>2 DEF StoreInv, ReadyInv
  <2>. QED  BY <2>1, <2>2, <2>3
<1>. QED  BY <1>2, <1>3, <1>5, <1>6 DEF StoreInv

LEMMA StoreInvStutter ==
    ASSUME StoreInv, UNCHANGED storeVars
    PROVE  StoreInv'
<1>1. UNCHANGED <<log, wpc, order, loaded, expected, seen, issued>>
  BY DEF storeVars, writerVars
<1>2. /\ OneSuccessor' /\ FirstOpens'
      /\ \A s \in Streams : CurrentVersion(s)' = CurrentVersion(s) /\ ByVersion(s)' = ByVersion(s)
  BY <1>1, SameLog
<1>3. ReadyInv'
  <2>1. \A w \in Writers : wpc[w] # "idle" => order[w].stream \in Streams
    BY DEF StoreInv, Orders
  <2>. QED  BY <1>1, <1>2, <2>1 DEF StoreInv, ReadyInv
<1>4. StoreTypeOK' /\ \A u \in Writers : wpc'[u] # "idle" => order'[u] \in Orders
  BY <1>1 DEF StoreInv, StoreTypeOK
<1>. QED  BY <1>2, <1>3, <1>4 DEF StoreInv

LEMMA StoreInvNext == StoreInv /\ [Next]_vars => StoreInv'
  BY StoreInvAppend, StoreInvHistory, StoreInvSameLog, StoreInvStutter
     DEF Next, Fault, Client, Write, Serve, vars

-----------------------------------------------------------------------------
(* A decision that nothing came between is one on the current account *)

\* The append of a writer whose two queries agree is a step of the Ledger.
LEMMA AppendExecutes ==
    ASSUME StoreInv, NEW w \in Writers, AppendEvents(w), seen[w] = expected[w]
    PROVE  Account!Execute(order[w].stream, order[w].command)
<1>. PICK s : s = order[w].stream
  OBVIOUS
<1>. DEFINE command == order[w].command
            account == [t \in Streams |-> Aggregate(t)]
<1>1. /\ s \in Streams /\ command \in Commands
      /\ Produced(w) \in Seq(Events) /\ Produced(w) # <<>> /\ Len(Produced(w)) = 1
      /\ Produced(w)[1] = EventOf(command)
      /\ expected[w] = CurrentVersion(s) /\ InsertAll(s, CurrentVersion(s), Produced(w))
      /\ loaded[w] = Replay(ByVersion(s), seen[w]) /\ Permits(loaded[w], command)
  BY AppendAtTheEnd
<1>2. Permits(Aggregate(s), command)
  BY <1>1 DEF Aggregate
<1>3. /\ Aggregate(s)' = Apply(Aggregate(s), EventOf(command))
      /\ \A t \in Streams \ {s} : Aggregate(t)' = Aggregate(t)
  BY <1>1, AppendedAccounts
<1>4. Account!Permits(account[s], command)
  BY <1>1, <1>2 DEF Account!Permits, Permits
<1>5. Account!Apply(account[s], Account!EventOf(command)) = Apply(Aggregate(s), EventOf(command))
  BY <1>1 DEF Account!Apply, Apply, Account!EventOf, EventOf, Account!PastTense, PastTense,
              Account!Saturate, Saturate, Account!MinCents, MinCents
<1>6. [t \in Streams |-> Aggregate(t)'] =
          [account EXCEPT ![s] = Account!Apply(@, Account!EventOf(command))]
  BY <1>1, <1>3, <1>5
<1>. QED  BY <1>4, <1>6 DEF Account!Execute

\* Nothing but an append changes an account.
LEMMA OnlyAppends ==
    ASSUME StoreInv, [Next]_vars, ~AppendHistory, \A w \in Writers : ~AppendEvents(w)
    PROVE  UNCHANGED [s \in Streams |-> Aggregate(s)]
<1>1. UNCHANGED log
  BY DEF Next, Fault, Runner, Client, Write, Serve, vars, storeVars,
         Send, Load, ReadVersion, Reject, Conflict, Abandon
<1>2. \A s \in Streams : Aggregate(s)' = Aggregate(s)
  BY <1>1, SameLog
<1>. QED  BY <1>2

\* No history is put in, and nobody appends whose two queries disagree.
Undisturbed ==
    /\ ~AppendHistory
    /\ \A w \in Writers : AppendEvents(w) => seen[w] = expected[w]

LEMMA LedgerStep ==
    StoreInv /\ [Next]_vars /\ [Undisturbed]_vars => [Account!Next]_[s \in Streams |-> Aggregate(s)]
<1>. SUFFICES ASSUME StoreInv, [Next]_vars, [Undisturbed]_vars
              PROVE  [Account!Next]_[s \in Streams |-> Aggregate(s)]
  OBVIOUS
<1>1. CASE UNCHANGED vars
  <2>1. UNCHANGED log
    BY <1>1 DEF vars, storeVars
  <2>2. \A s \in Streams : Aggregate(s)' = Aggregate(s)
    BY <2>1, SameLog
  <2>. QED  BY <2>2
<1>2. CASE Undisturbed
  <2>1. ASSUME NEW w \in Writers, AppendEvents(w)
        PROVE  Account!Next
    <3>1. order[w].stream \in Streams /\ order[w].command \in Commands
      BY <2>1, AppendAtTheEnd
    <3>2. seen[w] = expected[w]
      BY <1>2, <2>1 DEF Undisturbed
    <3>3. Account!Execute(order[w].stream, order[w].command)
      BY <2>1, <3>2, AppendExecutes
    <3>. QED  BY <3>1, <3>3 DEF Account!Next
  <2>2. CASE \A w \in Writers : ~AppendEvents(w)
    BY <1>2, <2>2, OnlyAppends DEF Undisturbed
  <2>. QED  BY <2>1, <2>2
<1>. QED  BY <1>1, <1>2

-----------------------------------------------------------------------------
(* The runner *)

\* The event in hand is the one after the checkpoint.
LEMMA CurrentIsNext ==
    ASSUME StoreInv, TypeOK, RunnerInv, NEW r \in Runners, rpc[r] \in {"handling", "upserted"}
    PROVE  /\ Head(batch[r]) = checkpoint + 1 /\ Len(batch[r]) \in Nat \ {0}
           /\ checkpoint + 1 \in DOMAIN log
           /\ Current(r) = log[checkpoint + 1]
           /\ Current(r).stream \in Streams /\ Current(r).event \in Events
           /\ checkpoint + 1 \in Positions(Current(r).stream)
<1>1. log \in Seq(Rows) /\ batch[r] \in Seq(Nat) /\ checkpoint \in Nat
  BY DEF StoreInv, StoreTypeOK, TypeOK
<1>2. /\ batch[r] # <<>> /\ checkpoint + Len(batch[r]) <= Len(log)
      /\ \A i \in DOMAIN batch[r] : batch[r][i] = checkpoint + i
  BY DEF RunnerInv
<1>3. Head(batch[r]) = checkpoint + 1 /\ Len(batch[r]) \in Nat \ {0}
  BY <1>1, <1>2
<1>4. checkpoint + 1 \in DOMAIN log /\ log[checkpoint + 1] \in Rows
  BY <1>1, <1>2, <1>3
<1>. QED  BY <1>3, <1>4 DEF Current, Rows, Positions

LEMMA UpsertedType ==
    ASSUME NEW prior \in Balances \cup {None}, NEW event \in Events
    PROVE  Upserted(prior, event) \in Balances /\ Upserted(prior, event) # None
<1>1. Delta(event) \in Int
  BY MaxCentsAssumption DEF Delta, Events, MinCents
<1>. DEFINE balance == IF prior = None THEN 0 ELSE prior.balance
<1>2. balance \in Int
  BY MaxCentsAssumption DEF Balances, MinCents
<1>3. Wrap(balance + Delta(event)) \in MinCents..MaxCents
  BY <1>1, <1>2, WrapInRange
<1>4. Upserted(prior, event) \in Balances
  BY <1>3 DEF Upserted, Balances
<1>. QED  BY <1>4, NoneAssumption, MaxCentsAssumption DEF Balances, MinCents

\* Within the range of an i64 the projection does what the aggregate does.
LEMMA UpsertIsApply ==
    ASSUME NEW account \in Accounts, account # None, NEW event \in Events,
           event.kind # "opened",
           account.balance + Delta(event) \in MinCents..MaxCents
    PROVE  Upserted(account, event) = Apply(account, event)
<1>1. Wrap(account.balance + Delta(event)) = account.balance + Delta(event)
  BY WrapInRange
<1>2. account.balance \in MinCents..MaxCents /\ event.cents \in MinCents..MaxCents
      /\ account = [status |-> account.status, balance |-> account.balance]
  BY DEF Accounts, Events
<1>3. CASE event.kind = "deposited"
  BY <1>1, <1>2, <1>3, MaxCentsAssumption DEF Upserted, Apply, Delta, Saturate, MinCents
<1>4. CASE event.kind = "withdrew"
  BY <1>1, <1>2, <1>4, MaxCentsAssumption DEF Upserted, Apply, Delta, Saturate, MinCents
<1>5. CASE event.kind = "closed"
  BY <1>1, <1>2, <1>5, MaxCentsAssumption DEF Upserted, Apply, Delta, MinCents
<1>. QED  BY <1>3, <1>4, <1>5 DEF Events

LEMMA OpenedRow ==
    ASSUME NEW event \in Events, event.kind = "opened"
    PROVE  Upserted(None, event) = Apply(Fresh, event)
<1>1. Wrap(0) = 0
  BY WrapInRange, MaxCentsAssumption DEF MinCents
<1>. QED  BY <1>1 DEF Upserted, Apply, Delta, Fresh

\* Whatever a client does, the log up to here stays as it is.
LEMMA LogGrows ==
    ASSUME StoreInv, Client
    PROVE  /\ Len(log) <= Len(log') /\ Len(log) \in Nat /\ Len(log') \in Nat
           /\ \A i \in DOMAIN log : log'[i] = log[i]
           /\ \A s \in Streams : \A n \in 0..Len(log) :
                 /\ n \in Positions(s)' <=> n \in Positions(s)
                 /\ AccountAt(s, n)' = AccountAt(s, n)
           /\ \A s \in Streams : Positions(s) \subseteq Positions(s)'
<1>0. Len(log) \in Nat /\ DOMAIN log = 1..Len(log)
  BY DEF StoreInv, StoreTypeOK
<1>1. ASSUME NEW s \in Streams, NEW events \in Seq(Events), events # <<>>,
             InsertAll(s, CurrentVersion(s), events)
      PROVE  /\ Len(log) <= Len(log') /\ Len(log') \in Nat
             /\ \A i \in DOMAIN log : log'[i] = log[i]
             /\ \A t \in Streams : \A n \in 0..Len(log) :
                   /\ n \in Positions(t)' <=> n \in Positions(t)
                   /\ Replay(ByPosition(t)', n) = Replay(ByPosition(t), n)
             /\ \A t \in Streams : Positions(t) \subseteq Positions(t)'
  <2>1. /\ Len(log') = Len(log) + Len(events) /\ Len(events) \in Nat \ {0}
        /\ \A i \in DOMAIN log : log'[i] = log[i]
        /\ Positions(s) \subseteq Positions(s)'
        /\ \A i \in Positions(s)' : i \in Positions(s) \/ \E k \in 1..Len(events) : i = Len(log) + k
        /\ \A t \in Streams \ {s} : Positions(t)' = Positions(t)
    BY <1>1, Appended
  <2>2. \A t \in Streams : \A n \in 0..Len(log) :
            Replay(ByPosition(t)', n) = Replay(ByPosition(t), n)
    BY <1>1, AppendedAccounts
  <2>3. \A t \in Streams : \A n \in 0..Len(log) : n \in Positions(t)' <=> n \in Positions(t)
    BY <1>0, <2>1
  <2>. QED  BY <1>0, <2>1, <2>2, <2>3
<1>2. CASE AppendHistory
  <2>1. PICK s \in Streams, events \in Seq(Events) :
            events # <<>> /\ InsertAll(s, CurrentVersion(s), events)
    BY <1>2, HistoryIsFirst
  <2>. QED  BY <1>0, <1>1, <2>1 DEF AccountAt
<1>3. ASSUME NEW w \in Writers, AppendEvents(w)
      PROVE  \E s \in Streams, events \in Seq(Events) :
                events # <<>> /\ InsertAll(s, CurrentVersion(s), events)
  BY <1>3, AppendAtTheEnd
<1>4. CASE \E w \in Writers : AppendEvents(w)
  <2>1. PICK s \in Streams, events \in Seq(Events) :
            events # <<>> /\ InsertAll(s, CurrentVersion(s), events)
    BY <1>3, <1>4
  <2>. QED  BY <1>0, <1>1, <2>1 DEF AccountAt
<1>5. CASE UNCHANGED log
  <2>1. Len(log') = Len(log) /\ \A i \in DOMAIN log : log'[i] = log[i]
    BY <1>5
  <2>. QED  BY <1>0, <1>5, <2>1, SameLog DEF AccountAt
<1>6. AppendHistory \/ (\E w \in Writers : AppendEvents(w)) \/ UNCHANGED log
  BY DEF Client, Write, Serve, Send, Load, ReadVersion, Reject, Conflict, Abandon
<1>. QED  BY <1>2, <1>4, <1>5, <1>6

-----------------------------------------------------------------------------
(* The read model keeps up *)

LEMMA Initially == Init => IInv
<1>. SUFFICES ASSUME Init
              PROVE  IInv
  OBVIOUS
<1>1. StoreInv
  BY StoreInitially DEF Init
<1>2. log = <<>> /\ Len(log) = 0 /\ DOMAIN log = {}
  BY DEF Init, StoreInit
<1>3. TypeOK
  BY <1>1, MaxFaultsAssumption DEF Init, TypeOK, StoreInv
<1>4. RunnerInv
  BY <1>2, NoneAssumption DEF Init, RunnerInv
<1>5. TableIsTheReplay
  BY <1>2 DEF Init, TableIsTheReplay, Positions
<1>6. CacheAtMostOneEventAhead
  BY DEF Init, CacheAtMostOneEventAhead, Balance, BalanceInTable
<1>. QED  BY <1>1, <1>3, <1>4, <1>5, <1>6 DEF IInv

\* A client's step: the read model is as it was, and so is what it is a replay of.
LEMMA ClientStep ==
    ASSUME IInv, StoreInv', Client, UNCHANGED <<runnerVars, faults>>
    PROVE  IInv'
<1>1. StoreInv /\ TypeOK /\ RunnerInv /\ TableIsTheReplay /\ CacheAtMostOneEventAhead
  BY DEF IInv
<1>2. /\ Len(log) <= Len(log') /\ Len(log) \in Nat /\ Len(log') \in Nat
      /\ \A i \in DOMAIN log : log'[i] = log[i]
      /\ \A s \in Streams : \A n \in 0..Len(log) :
            /\ n \in Positions(s)' <=> n \in Positions(s)
            /\ AccountAt(s, n)' = AccountAt(s, n)
      /\ \A s \in Streams : Positions(s) \subseteq Positions(s)'
  BY <1>1, LogGrows
<1>3. checkpoint \in 0..Len(log) /\ DOMAIN log = 1..Len(log) /\ DOMAIN log' = 1..Len(log')
  BY <1>1 DEF TypeOK, RunnerInv, StoreInv, StoreTypeOK
<1>4. UNCHANGED <<table, checkpoint, rpc, after, batch, writing, staged, cache, faults>>
  BY DEF runnerVars
<1>5. TypeOK'
  BY <1>1, <1>4 DEF TypeOK, StoreInv
<1>6. RunnerInv'
  <2>1. \A r \in Runners : rpc[r] = "upserted" => Current(r)' = Current(r)
    BY <1>1, <1>2, <1>4, CurrentIsNext DEF Current
  <2>2. \A r \in Runners : Len(batch[r]) \in Nat
    BY <1>1 DEF TypeOK
  <2>. QED  BY <1>1, <1>2, <1>3, <1>4, <2>1, <2>2 DEF RunnerInv
<1>7. TableIsTheReplay'
  <2>. SUFFICES ASSUME NEW s \in Streams
                PROVE  /\ table[s] = None <=> \A i \in Positions(s)' : i > checkpoint
                       /\ table[s] # None /\ InRange(s)' /\ OpenedOnce(s)' =>
                             table[s] = AccountAt(s, checkpoint)'
    BY <1>4 DEF TableIsTheReplay
  <2>1. Positions(s) \subseteq 1..Len(log) /\ Positions(s)' \subseteq 1..Len(log')
    BY <1>3 DEF Positions
  <2>2. (\A i \in Positions(s)' : i > checkpoint) <=> (\A i \in Positions(s) : i > checkpoint)
    BY <1>2, <1>3, <2>1
  <2>3. ASSUME InRange(s)', NEW i \in Positions(s), i <= checkpoint
        PROVE  AccountAt(s, i - 1).balance + Delta(log[i].event) \in MinCents..MaxCents
    <3>1. i \in Positions(s)' /\ log'[i] = log[i] /\ i - 1 \in 0..Len(log)
      BY <1>2, <1>3, <2>1
    <3>2. AccountAt(s, i - 1)' = AccountAt(s, i - 1)
      BY <1>2, <3>1
    <3>3. AccountAt(s, i - 1)'.balance + Delta(log'[i].event) \in MinCents..MaxCents
      BY <1>4, <2>3, <3>1 DEF InRange
    <3>. QED  BY <3>1, <3>2, <3>3
  <2>4. AccountAt(s, checkpoint)' = AccountAt(s, checkpoint)
    BY <1>2, <1>3, <1>4 DEF AccountAt
  <2>5. OpenedOnce(s)' => OpenedOnce(s)
    <3>. SUFFICES ASSUME OpenedOnce(s)', NEW i \in Positions(s), i <= checkpoint,
                         log[i].event.kind = "opened", NEW j \in Positions(s)
                  PROVE  i <= j
      BY DEF OpenedOnce
    <3>1. i \in Positions(s)' /\ j \in Positions(s)' /\ log'[i] = log[i]
      BY <1>2, <1>3, <2>1
    <3>. QED  BY <1>4, <3>1 DEF OpenedOnce
  <2>. QED  BY <1>1, <2>2, <2>3, <2>4, <2>5 DEF TableIsTheReplay, InRange
<1>8. CacheAtMostOneEventAhead'
  <2>1. checkpoint < Len(log) => /\ checkpoint < Len(log')
                                 /\ log'[checkpoint + 1] = log[checkpoint + 1]
    BY <1>2, <1>3
  <2>. QED  BY <1>1, <1>4, <2>1 DEF CacheAtMostOneEventAhead, Balance, BalanceInTable
<1>. QED  BY <1>5, <1>6, <1>7, <1>8 DEF IInv

\* A step of the runner that touches neither the table nor the checkpoint.
LEMMA TableStays ==
    ASSUME IInv, UNCHANGED <<storeVars, table, checkpoint>>
    PROVE  TableIsTheReplay'
<1>1. \A s \in Streams : /\ Positions(s)' = Positions(s) /\ ByPosition(s)' = ByPosition(s)
  BY SameLog DEF IInv, storeVars
<1>2. UNCHANGED <<log, table, checkpoint>>
  BY DEF storeVars
<1>3. \A s \in Streams : /\ \A n : AccountAt(s, n)' = Replay(ByPosition(s), n)
                         /\ AccountAt(s, checkpoint)' = AccountAt(s, checkpoint)
  BY <1>1, <1>2 DEF AccountAt
<1>4. \A s \in Streams : (InRange(s)' => InRange(s)) /\ (OpenedOnce(s)' => OpenedOnce(s))
  BY <1>1, <1>2, <1>3 DEF InRange, OpenedOnce, AccountAt
<1>. QED  BY <1>1, <1>2, <1>3, <1>4 DEF IInv, TableIsTheReplay

\* The commit of the event after the checkpoint: its row is one more step of
\* the replay, and the rows of the other accounts are as many steps as before.
LEMMA CommitReplays ==
    ASSUME IInv, NEW r \in Runners, CommitEvent(r), UNCHANGED storeVars
    PROVE  TableIsTheReplay'
<1>1. StoreInv /\ TypeOK /\ RunnerInv /\ TableIsTheReplay
  BY DEF IInv
<1>. PICK s : s = Current(r).stream
  OBVIOUS
<1>. DEFINE p == checkpoint + 1
            event == Current(r).event
<1>2. /\ Head(batch[r]) = p /\ p \in DOMAIN log /\ log[p].event = event /\ log[p].stream = s
      /\ s \in Streams /\ event \in Events /\ p \in Positions(s) /\ checkpoint \in Nat
  BY <1>1, CurrentIsNext DEF CommitEvent, TypeOK
<1>3. /\ checkpoint' = checkpoint + 1
      /\ table' = [table EXCEPT ![s] = Upserted(table[s], event)]
  <2>1. staged = Upserted(table[s], event)
    BY <1>1 DEF CommitEvent, RunnerInv
  <2>2. checkpoint' = p /\ table' = [table EXCEPT ![s] = staged]
    BY <1>2 DEF CommitEvent
  <2>. QED  BY <2>1, <2>2
<1>4. \A t \in Streams : /\ Positions(t)' = Positions(t) /\ ByPosition(t)' = ByPosition(t)
                         /\ DOMAIN ByPosition(t) = Positions(t) /\ Positions(t) \subseteq Nat \ {0}
  BY <1>1, SameLog DEF storeVars, ByPosition, Positions, StoreInv, StoreTypeOK
<1>5. \A t \in Streams : \A i \in Positions(t) : i > checkpoint /\ i # p => i > p
  BY <1>2, <1>4
<1>6. \A t \in Streams : /\ \A n : AccountAt(t, n)' = Replay(ByPosition(t), n)
                         /\ AccountAt(t, checkpoint)' = Replay(ByPosition(t), p)
  BY <1>3, <1>4 DEF AccountAt
<1>7. \A t \in Streams : InRange(t)' => \A i \in Positions(t) : i <= p =>
          Replay(ByPosition(t), i - 1).balance + Delta(log[i].event) \in MinCents..MaxCents
  BY <1>3, <1>4, <1>6 DEF InRange, storeVars
<1>8. \A t \in Streams : (InRange(t)' => InRange(t)) /\ (OpenedOnce(t)' => OpenedOnce(t))
  <2>1. \A t \in Streams : InRange(t)' => InRange(t)
    BY <1>2, <1>4, <1>7 DEF InRange, AccountAt
  <2>2. \A t \in Streams : \A i \in Positions(t) : i <= checkpoint => i <= checkpoint'
    BY <1>2, <1>3, <1>4
  <2>3. \A t \in Streams : OpenedOnce(t)' => OpenedOnce(t)
    BY <1>4, <2>2 DEF OpenedOnce, storeVars
  <2>. QED  BY <2>1, <2>3
<1>9. table \in [Streams -> Balances \cup {None}]
  BY <1>1 DEF TypeOK
<1>10. ASSUME NEW t \in Streams, t # s
       PROVE  /\ table'[t] = None <=> \A i \in Positions(t)' : i > checkpoint'
              /\ table'[t] # None /\ InRange(t)' /\ OpenedOnce(t)' =>
                    table'[t] = AccountAt(t, checkpoint)'
  <2>1. table'[t] = table[t] /\ p \notin Positions(t)
    BY <1>2, <1>3, <1>9, <1>10 DEF Positions
  <2>2. Replay(ByPosition(t), p) = Replay(ByPosition(t), checkpoint)
    BY <1>2, <1>4, <2>1, ReplayStep DEF Follow
  <2>3. (\A i \in Positions(t) : i > checkpoint) <=> (\A i \in Positions(t) : i > p)
    BY <1>2, <1>4, <1>5, <2>1
  <2>. QED  BY <1>1, <1>3, <1>4, <1>6, <1>8, <2>1, <2>2, <2>3 DEF TableIsTheReplay, AccountAt
<1>11. table'[s] # None /\ table'[s] = Upserted(table[s], event)
  BY <1>2, <1>3, <1>9, UpsertedType
<1>12. ASSUME InRange(s)', OpenedOnce(s)'
       PROVE  Upserted(table[s], event) = Replay(ByPosition(s), p)
  <2>. DEFINE before == Replay(ByPosition(s), checkpoint)
  <2>1. Replay(ByPosition(s), p) = Apply(before, event)
    <3>1. p \in DOMAIN ByPosition(s) /\ ByPosition(s)[p] = event
      BY <1>2, <1>4 DEF ByPosition
    <3>. QED  BY <1>2, <3>1, ReplayStep DEF Follow
  <2>2. before.balance + Delta(event) \in MinCents..MaxCents
    <3>1. Replay(ByPosition(s), p - 1).balance + Delta(log[p].event) \in MinCents..MaxCents
      BY <1>2, <1>7, <1>12
    <3>. QED  BY <1>2, <3>1
  <2>3. CASE table[s] = None
    <3>1. \A i \in Positions(s) : p <= i
      BY <1>1, <1>2, <1>4, <2>3 DEF TableIsTheReplay
    <3>2. event.kind = "opened"
      BY <1>1, <1>2, <3>1 DEF StoreInv, FirstOpens
    <3>3. before = Fresh
      BY <1>2, <1>4, <3>1, ReplayNothing
    <3>. QED  BY <1>2, <2>1, <2>3, <3>2, <3>3, OpenedRow
  <2>4. CASE table[s] # None
    <3>1. table[s] = before
      BY <1>1, <1>2, <1>8, <1>12, <2>4 DEF TableIsTheReplay, AccountAt
    <3>2. \E i \in Positions(s) : ~(p <= i)
      BY <1>1, <1>2, <1>4, <2>4 DEF TableIsTheReplay
    <3>3. event.kind # "opened"
      <4>1. p <= checkpoint' /\ p \in Positions(s)' /\ log' = log
        BY <1>2, <1>3, <1>4 DEF storeVars
      <4>. QED  BY <1>2, <1>4, <1>12, <3>2, <4>1 DEF OpenedOnce
    <3>4. before \in Accounts
      BY <1>1, <1>2, AggregateType
    <3>. QED  BY <1>2, <2>1, <2>2, <2>4, <3>1, <3>3, <3>4, UpsertIsApply
  <2>. QED  BY <2>3, <2>4
<1>13. p \in Positions(s)' /\ ~(p > checkpoint')
  BY <1>2, <1>3, <1>4
<1>14. /\ table'[s] = None <=> \A i \in Positions(s)' : i > checkpoint'
       /\ table'[s] # None /\ InRange(s)' /\ OpenedOnce(s)' => table'[s] = AccountAt(s, checkpoint)'
  BY <1>2, <1>6, <1>11, <1>12, <1>13
<1>. QED  BY <1>10, <1>14 DEF TableIsTheReplay

\* A step of the runner.
LEMMA RunnerStep ==
    ASSUME IInv, NEW r \in Runners, Run(r) \/ Cancel(r) \/ FailRunner(r) \/ CrashRunner(r),
           UNCHANGED storeVars, faults' \in 0..MaxFaults
    PROVE  IInv'
<1>1. StoreInv /\ TypeOK /\ RunnerInv /\ TableIsTheReplay /\ CacheAtMostOneEventAhead
  BY DEF IInv
<1>2. StoreInv' /\ StoreTypeOK' /\ log' = log
  BY <1>1, StoreInvStutter DEF storeVars, StoreInv
<1>3. \A q \in Runners : q = r
  BY OneRunnerAssumption
<1>4. /\ table \in [Streams -> Balances \cup {None}] /\ checkpoint \in Nat
      /\ batch \in [Runners -> Seq(Nat)] /\ batch[r] \in Seq(Nat) /\ Len(log) \in Nat
      /\ rpc \in [Runners -> {"off", "polling", "reading", "handling", "upserted"}]
      /\ after \in [Runners -> Nat]
      /\ cache \in [Runners -> [Streams -> (MinCents..MaxCents) \cup {None}]]
      /\ checkpoint <= Len(log) /\ (writing = r <=> rpc[r] = "upserted")
  BY <1>1 DEF TypeOK, StoreInv, StoreTypeOK, RunnerInv
<1>5. CASE StartRunner(r) \/ ReadCheckpoint(r) \/ ReadFrom(r) \/ Idle(r) \/ Cancel(r)
  <2>1. UNCHANGED <<table, checkpoint, writing, staged, cache>>
    BY <1>5 DEF StartRunner, ReadCheckpoint, ReadFrom, Idle, Cancel
  <2>2. TableIsTheReplay'
    BY <2>1, TableStays
  <2>3. CacheAtMostOneEventAhead'
    BY <1>1, <1>2, <2>1 DEF CacheAtMostOneEventAhead, Balance, BalanceInTable
  <2>4. CASE ReadFrom(r)
    <3>1. rpc[r] = "reading" /\ after[r] = checkpoint /\ checkpoint < Len(log)
      BY <1>1, <2>4 DEF ReadFrom, RunnerInv
    <3>. DEFINE n == LastRead(r) - checkpoint
                events == [i \in 1..n |-> checkpoint + i]
    <3>2. n \in Nat \ {0} /\ checkpoint + n <= Len(log)
      BY <1>4, <3>1, BatchSizeAssumption DEF LastRead
    <3>. HIDE DEF n
    <3>3. events \in Seq(Nat) /\ Len(events) = n /\ \A i \in DOMAIN events : events[i] = checkpoint + i
      BY <1>4, <3>2
    <3>4. /\ batch' = [batch EXCEPT ![r] = events] /\ after' = after
          /\ rpc' = [rpc EXCEPT ![r] = "handling"]
      BY <2>4, <3>1 DEF ReadFrom, MoveTo, n
    <3>. HIDE DEF events
    <3>5. TypeOK'
      BY <1>1, <1>2, <1>4, <2>1, <3>3, <3>4 DEF TypeOK
    <3>6. events # <<>>
      BY <3>2, <3>3
    <3>7. RunnerInv'
      BY <1>2, <1>3, <1>4, <2>1, <3>1, <3>2, <3>3, <3>4, <3>6 DEF RunnerInv
    <3>. QED  BY <1>2, <2>2, <2>3, <3>5, <3>7 DEF IInv
  <2>5. CASE StartRunner(r) \/ ReadCheckpoint(r) \/ Idle(r) \/ Cancel(r)
    <3>1. /\ batch' = batch /\ rpc[r] \notin {"handling", "upserted"}
          /\ rpc' \in {[rpc EXCEPT ![r] = p] : p \in {"off", "polling", "reading"}}
          /\ rpc'[r] = "reading" => after'[r] = checkpoint
          /\ after' \in [Runners -> Nat]
      BY <1>4, <2>5 DEF StartRunner, ReadCheckpoint, Idle, Cancel, MoveTo
    <3>2. TypeOK'
      BY <1>1, <1>2, <1>4, <2>1, <3>1 DEF TypeOK
    <3>3. RunnerInv'
      BY <1>2, <1>3, <1>4, <2>1, <3>1 DEF RunnerInv
    <3>. QED  BY <1>2, <2>2, <2>3, <3>2, <3>3 DEF IInv
  <2>. QED  BY <1>5, <2>4, <2>5
<1>6. ASSUME rpc[r] \in {"handling", "upserted"}
      PROVE  /\ Head(batch[r]) = checkpoint + 1 /\ Len(batch[r]) \in Nat \ {0}
             /\ checkpoint + 1 \in DOMAIN log
             /\ Current(r) = log[checkpoint + 1]
             /\ Current(r).stream \in Streams /\ Current(r).event \in Events
             /\ checkpoint + Len(batch[r]) <= Len(log) /\ batch[r] # <<>>
             /\ \A i \in DOMAIN batch[r] : batch[r][i] = checkpoint + i
  BY <1>1, <1>6, CurrentIsNext DEF RunnerInv
<1>7. CASE Upsert(r)
  <2>1. PICK s : s = Current(r).stream
    OBVIOUS
  <2>. DEFINE row == Upserted(table[s], Current(r).event)
  <2>2. rpc[r] = "handling" /\ s \in Streams
    BY <1>6, <1>7, <2>1 DEF Upsert
  <2>3. row \in Balances /\ row.balance \in MinCents..MaxCents
    BY <1>4, <1>6, <2>2, UpsertedType DEF Balances
  <2>4. /\ staged' = row /\ cache' = [cache EXCEPT ![r][s] = row.balance]
        /\ writing' = r /\ rpc' = [rpc EXCEPT ![r] = "upserted"]
        /\ UNCHANGED <<table, checkpoint, after, batch>>
    BY <1>7, <2>1 DEF Upsert, MoveTo
  <2>5. Current(r)' = Current(r)
    BY <1>2, <2>4 DEF Current
  <2>. HIDE DEF row
  <2>6. TableIsTheReplay'
    BY <2>4, TableStays
  <2>7. cache' \in [Runners -> [Streams -> (MinCents..MaxCents) \cup {None}]]
    BY <1>4, <2>2, <2>3, <2>4
  <2>8. TypeOK'
    BY <1>1, <1>2, <1>4, <2>3, <2>4, <2>7 DEF TypeOK
  <2>9. cache'[r][s] = row.balance /\ \A t \in Streams \ {s} : cache'[r][t] = cache[r][t]
    BY <1>4, <2>2, <2>4
  <2>10. RunnerInv'
    <3>1. staged' = Upserted(table'[Current(r)'.stream], Current(r)'.event)
      BY <2>1, <2>4, <2>5 DEF row
    <3>2. cache'[r][Current(r)'.stream] = staged'.balance
      BY <2>1, <2>4, <2>5, <2>9
    <3>3. rpc'[r] = "upserted"
      BY <1>4, <2>4
    <3>. QED  BY <1>2, <1>3, <1>4, <1>6, <2>2, <2>4, <3>1, <3>2, <3>3 DEF RunnerInv
  <2>11. CacheAtMostOneEventAhead'
    <3>. SUFFICES ASSUME NEW t \in Streams
                  PROVE  \/ Balance(r, t)' = BalanceInTable(t)
                         \/ /\ checkpoint < Len(log)
                            /\ log[checkpoint + 1].stream = t
                            /\ Balance(r, t)' = Upserted(table[t], log[checkpoint + 1].event).balance
      BY <1>2, <1>3, <2>4 DEF CacheAtMostOneEventAhead, BalanceInTable
    <3>1. CASE t = s
      <4>1. Balance(r, t)' = row.balance
        BY <2>3, <2>9, <3>1, NoneAssumption, MaxCentsAssumption DEF Balance, MinCents
      <4>2. checkpoint < Len(log) /\ log[checkpoint + 1].stream = t
        BY <1>4, <1>6, <2>1, <2>2, <3>1
      <4>. QED  BY <1>6, <2>2, <3>1, <4>1, <4>2 DEF row
    <3>2. CASE t # s
      <4>1. Balance(r, t)' = Balance(r, t)
        BY <2>4, <2>9, <3>2 DEF Balance, BalanceInTable
      <4>. QED  BY <1>1, <4>1 DEF CacheAtMostOneEventAhead
    <3>. QED  BY <3>1, <3>2
  <2>. QED  BY <1>2, <2>6, <2>8, <2>10, <2>11 DEF IInv
<1>8. CASE CommitEvent(r)
  <2>1. PICK s : s = Current(r).stream
    OBVIOUS
  <2>2. rpc[r] = "upserted" /\ s \in Streams
    BY <1>6, <1>8, <2>1 DEF CommitEvent
  <2>3. /\ table' = [table EXCEPT ![s] = staged] /\ checkpoint' = checkpoint + 1
        /\ batch' = [batch EXCEPT ![r] = Tail(batch[r])]
        /\ rpc' = [rpc EXCEPT ![r] = IF Len(batch[r]) = 1 THEN "polling" ELSE "handling"]
        /\ writing' = None /\ staged' = None /\ UNCHANGED <<after, cache>>
    BY <1>4, <1>6, <1>8, <2>1, <2>2 DEF CommitEvent, MoveTo
  <2>4. staged = Upserted(table[s], Current(r).event) /\ cache[r][s] = staged.balance
    BY <1>1, <2>1, <2>2 DEF RunnerInv
  <2>5. staged \in Balances /\ staged # None /\ staged.balance \in MinCents..MaxCents
    BY <1>4, <1>6, <2>2, <2>4, UpsertedType DEF Balances
  <2>6. TableIsTheReplay'
    BY <1>8, CommitReplays
  <2>7. /\ Tail(batch[r]) \in Seq(Nat) /\ Len(Tail(batch[r])) = Len(batch[r]) - 1
        /\ \A i \in DOMAIN Tail(batch[r]) : Tail(batch[r])[i] = (checkpoint + 1) + i
    <3>1. \A i \in 1..(Len(batch[r]) - 1) : Tail(batch[r])[i] = batch[r][i + 1]
      BY <1>4, <1>6, <2>2
    <3>. QED  BY <1>4, <1>6, <2>2, <3>1
  <2>8. TypeOK'
    BY <1>1, <1>2, <1>4, <2>2, <2>3, <2>5, <2>7 DEF TypeOK
  <2>9. RunnerInv'
    <3>1. checkpoint' <= Len(log')
      BY <1>2, <1>4, <1>6, <2>2, <2>3
    <3>2. rpc'[r] \in {"polling", "handling"} /\ batch'[r] = Tail(batch[r])
      BY <1>4, <2>3
    <3>3. rpc'[r] = "handling" => batch'[r] # <<>> /\ checkpoint' + Len(batch'[r]) <= Len(log')
      <4>1. rpc'[r] = "handling" => Len(batch[r]) # 1
        BY <1>4, <2>3
      <4>. PICK rest : rest = Tail(batch[r])
        OBVIOUS
      <4>2. Len(batch[r]) # 1 => rest # <<>>
        <5>1. Len(batch[r]) # 1 => Len(rest) # 0
          BY <1>6, <2>2, <2>7
        <5>. QED  BY <5>1
      <4>3. checkpoint' + Len(rest) <= Len(log')
        BY <1>2, <1>4, <1>6, <2>2, <2>3, <2>7
      <4>. QED  BY <3>2, <4>1, <4>2, <4>3
    <3>4. writing' # r
      BY <2>3, NoneAssumption
    <3>. QED  BY <1>3, <2>3, <2>7, <3>1, <3>2, <3>3, <3>4 DEF RunnerInv
  <2>10. CacheAtMostOneEventAhead'
    <3>. SUFFICES ASSUME NEW t \in Streams
                  PROVE  Balance(r, t)' = BalanceInTable(t)'
      BY <1>3 DEF CacheAtMostOneEventAhead
    <3>1. CASE t = s
      BY <1>4, <2>2, <2>3, <2>4, <2>5, <3>1, NoneAssumption DEF Balance, BalanceInTable
    <3>2. CASE t # s
      <4>1. log[checkpoint + 1].stream # t
        BY <1>6, <2>1, <2>2, <3>2
      <4>2. Balance(r, t) = BalanceInTable(t)
        BY <1>1, <4>1 DEF CacheAtMostOneEventAhead
      <4>3. table'[t] = table[t]
        BY <1>4, <2>3, <3>2
      <4>. QED  BY <2>3, <4>2, <4>3 DEF Balance, BalanceInTable
    <3>. QED  BY <3>1, <3>2
  <2>. QED  BY <1>2, <2>6, <2>8, <2>9, <2>10 DEF IInv
<1>9. CASE FailRunner(r) \/ CrashRunner(r)
  <2>1. /\ rpc' = [rpc EXCEPT ![r] = "off"] /\ after' = [after EXCEPT ![r] = 0]
        /\ batch' = [batch EXCEPT ![r] = <<>>]
        /\ writing' = IF writing = r THEN None ELSE writing
        /\ staged' = IF writing = r THEN None ELSE staged
        /\ UNCHANGED <<table, checkpoint>>
        /\ \/ cache' = cache
           \/ cache' = [cache EXCEPT ![r] = [s \in Streams |-> None]]
    BY <1>9 DEF FailRunner, CrashRunner, Stop, MoveTo
  <2>2. TableIsTheReplay'
    BY <2>1, TableStays
  <2>3. TypeOK'
    <3>1. batch' \in [Runners -> Seq(Nat)]
      BY <1>4, <2>1
    <3>2. cache' \in [Runners -> [Streams -> (MinCents..MaxCents) \cup {None}]]
      BY <1>4, <2>1
    <3>3. writing' \in Runners \cup {None} /\ staged' \in Balances \cup {None}
      BY <1>1, <2>1 DEF TypeOK
    <3>. QED  BY <1>2, <1>4, <2>1, <3>1, <3>2, <3>3 DEF TypeOK
  <2>4. writing' # r
    BY <2>1, NoneAssumption
  <2>5. RunnerInv'
    BY <1>2, <1>3, <1>4, <2>1, <2>4 DEF RunnerInv
  <2>6. CacheAtMostOneEventAhead'
    <3>1. \A t \in Streams : \/ cache'[r][t] = cache[r][t]
                             \/ cache'[r][t] = None
      BY <1>4, <2>1
    <3>2. \A t \in Streams : \/ Balance(r, t)' = Balance(r, t)
                             \/ Balance(r, t)' = BalanceInTable(t)
      BY <2>1, <3>1 DEF Balance, BalanceInTable
    <3>. QED  BY <1>1, <1>2, <1>3, <2>1, <3>2 DEF CacheAtMostOneEventAhead, BalanceInTable
  <2>. QED  BY <1>2, <2>2, <2>3, <2>5, <2>6 DEF IInv
<1>. QED  BY <1>5, <1>7, <1>8, <1>9 DEF Run

\* A command, a fault or a poll.
LEMMA InductiveStep == IInv /\ [Next]_vars => IInv'
<1>. SUFFICES ASSUME IInv, [Next]_vars
              PROVE  IInv'
  OBVIOUS
<1>1. StoreInv /\ faults \in 0..MaxFaults
  BY DEF IInv, TypeOK
<1>2. StoreInv'
  BY <1>1, StoreInvNext
<1>3. CASE Fault
  <2>1. faults' \in 0..MaxFaults
    BY <1>1, <1>3, MaxFaultsAssumption DEF Fault
  <2>. QED  BY <1>3, <2>1, RunnerStep DEF Fault
<1>4. CASE Runner /\ UNCHANGED <<storeVars, faults>>
  BY <1>1, <1>4, RunnerStep DEF Runner
<1>5. CASE Client /\ UNCHANGED <<runnerVars, faults>>
  BY <1>2, <1>5, ClientStep
<1>6. CASE UNCHANGED vars
  <2>1. UNCHANGED <<storeVars, table, checkpoint, rpc, after, batch, writing, staged, cache, faults>>
    BY <1>6 DEF vars, runnerVars
  <2>2. TableIsTheReplay'
    BY <2>1, TableStays
  <2>3. UNCHANGED log
    BY <2>1 DEF storeVars
  <2>4. TypeOK' /\ RunnerInv' /\ CacheAtMostOneEventAhead'
    BY <1>2, <2>1, <2>3 DEF IInv, StoreInv, TypeOK, RunnerInv, Current, CacheAtMostOneEventAhead,
       Balance, BalanceInTable
  <2>. QED  BY <1>2, <2>2, <2>4 DEF IInv
<1>. QED  BY <1>3, <1>4, <1>5, <1>6 DEF Next

LEMMA InductiveInvariant == Spec => []IInv
  BY Initially, InductiveStep, PTL DEF Spec

\* The part of the writers, which needs no assumption on the runners.
LEMMA StoreInvariant == Spec => []StoreInv
<1>1. Init => StoreInv
  BY StoreInitially DEF Init
<1>. QED  BY <1>1, StoreInvNext, PTL DEF Spec

-----------------------------------------------------------------------------

\* The types of the log, the writers, the read model and its runner.
THEOREM TypeCorrect == Spec => []TypeOK
<1>1. IInv => TypeOK
  BY DEF IInv
<1>. QED  BY <1>1, InductiveInvariant, PTL

\* However many writers race on a stream, its versions follow one another
\* without a gap or a fork in the order of their positions: what a writer
\* replays by version is what the projection replays by position.
THEOREM NoFork == Spec => []OneSuccessor
<1>1. StoreInv => OneSuccessor
  BY DEF StoreInv
<1>. QED  BY <1>1, StoreInvariant, PTL

\* An append that nothing came between the two queries of carries out a
\* permitted command on the current account, whoever races whom.
THEOREM FreshDecision == Spec => DecidedOnCurrent
<1>1. StoreInv /\ [Next]_vars =>
          [\A w \in Writers : AppendEvents(w) /\ seen[w] = expected[w]
              => Account!Execute(order[w].stream, order[w].command)]_storeVars
  BY AppendExecutes
<1>. QED  BY <1>1, StoreInvariant, PTL DEF Spec, DecidedOnCurrent

\* The log under racing writers is a Ledger, if no step is the append of a
\* writer whose two queries disagree (which the code does not rule out) or of
\* events that no command caused.
THEOREM LedgerIfUndisturbed == Spec /\ [][Undisturbed]_vars => Account!Spec
<1>1. Init => Account!Init
  <2>. SUFFICES ASSUME Init
                PROVE  Account!Init
    OBVIOUS
  <2>1. Len(log) = 0 /\ OneSuccessor
    BY StoreInitially DEF Init, StoreInit, StoreInv
  <2>2. \A s \in Streams : Aggregate(s) = Fresh
    BY <2>1, ReplayStep DEF OneSuccessor
  <2>. QED  BY <2>2 DEF Account!Init, Account!Fresh, Fresh
<1>. QED  BY <1>1, LedgerStep, StoreInvariant, PTL DEF Spec, Account!Spec

\* The read model is the replay of the log up to the checkpoint, whichever
\* statement failed or process crashed on the way.
THEOREM NothingSkippedOrRepeated == Spec => []TableIsTheReplay
<1>1. IInv => TableIsTheReplay
  BY DEF IInv
<1>. QED  BY <1>1, InductiveInvariant, PTL

\* What balance() answers is never more than one event ahead of the table.
THEOREM CacheBound == Spec => []CacheAtMostOneEventAhead
<1>1. IInv => CacheAtMostOneEventAhead
  BY DEF IInv
<1>. QED  BY <1>1, InductiveInvariant, PTL
=============================================================================
