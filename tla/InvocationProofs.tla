-------------------------- MODULE InvocationProofs --------------------------
(* Proofs about Invocation, for any units, successors and bounds.            *)
EXTENDS Invocation, WellFoundedInduction, TLAPS

-----------------------------------------------------------------------------
(***************************************************************************)
(* Path follows the callers by recursion over the natural numbers.  That   *)
(* there is such a function, and that Path(i) is the least set with i that *)
(* holds the caller of each of its members, rests on the least number of a *)
(* set of counterexamples.                                                 *)
(***************************************************************************)
LEMMA LeastNumber ==
  ASSUME NEW T \in SUBSET Nat, T # {}
  PROVE  \E x \in T : \A y \in T : x <= y
<1>1. PICK x \in T : \A y \in T : <<y, x>> \notin OpToRel(<, Nat)
  BY NatLessThanWellFounded, WFMin
<1>2. \A y \in T : ~ (y < x)
  BY <1>1 DEF OpToRel
<1>3. QED
  BY <1>2

\* One step up: a set of invocations and their callers.
Above(c, S) == S \cup ({c[j] : j \in S} \ {0})

\* The sets that Path(i) goes through, for callers c.
Up(f, c, i) ==
  f = [n \in Nat |-> IF n = 0 THEN {i} ELSE Above(c, f[n - 1])]

PathOf(c, i) == (CHOOSE f : Up(f, c, i))[MaxInvocations]

\* Path is PathOf of the callers, now and in the next state.
LEMMA PathIs ==
  \A i : Path(i) = PathOf(caller, i) /\ Path(i)' = PathOf(caller', i)
BY DEF Path, PathOf, Up, Above

\* Callers as a variable of this type has them.
Callers == [Invocations -> Invocations \cup {0}]

\* The invocations above some invocations are invocations.
LEMMA AboveType ==
  ASSUME NEW c \in Callers, NEW S \in SUBSET Invocations
  PROVE  Above(c, S) \in SUBSET Invocations
BY DEF Callers, Above

\* The first m + 1 of these sets.
Begin(g, c, i, m) ==
  /\ g \in [0 .. m -> SUBSET Invocations]
  /\ g[0] = {i}
  /\ \A n \in 1 .. m : g[n] = Above(c, g[n - 1])

\* There are the first m + 1 sets, for every m.
LEMMA BeginExists ==
  ASSUME NEW c \in Callers, NEW i \in Invocations, NEW m \in Nat
  PROVE  \E g : Begin(g, c, i, m)
<1> DEFINE T == {x \in Nat : ~ \E g : Begin(g, c, i, x)}
<1>1. SUFFICES ASSUME T # {} PROVE FALSE
  OBVIOUS
<1>2. PICK x \in T : \A y \in T : x <= y
  BY <1>1, LeastNumber
<1>3. CASE x = 0
  <2> DEFINE g == [n \in 0 .. 0 |-> {i}]
  <2>1. Begin(g, c, i, 0)
    BY DEF Begin
  <2>2. QED
    BY <1>2, <1>3, <2>1
<1>4. CASE x # 0
  <2>1. x - 1 \in Nat /\ x - 1 \notin T
    BY <1>2, <1>4
  <2>2. PICK g : Begin(g, c, i, x - 1)
    BY <2>1
  <2> DEFINE h == [n \in 0 .. x |-> IF n = x THEN Above(c, g[x - 1]) ELSE g[n]]
  <2>3. g[x - 1] \in SUBSET Invocations /\ \A n \in 0 .. x - 1 : g[n] \in SUBSET Invocations
    BY <2>1, <2>2 DEF Begin
  <2>4. Above(c, g[x - 1]) \in SUBSET Invocations
    BY <2>3, AboveType
  <2>5. h \in [0 .. x -> SUBSET Invocations]
    BY <1>2, <2>3, <2>4
  <2>6. h[0] = {i}
    BY <1>2, <1>4, <2>2 DEF Begin
  <2>7. \A n \in 1 .. x : h[n] = Above(c, h[n - 1])
    <3> TAKE n \in 1 .. x
    <3>1. n - 1 \in 0 .. x - 1 /\ n - 1 \in 0 .. x /\ n - 1 # x
      BY <1>2
    <3>2. h[n - 1] = g[n - 1]
      BY <3>1
    <3>3. CASE n = x
      BY <3>2, <3>3
    <3>4. CASE n # x
      <4>1. n \in 1 .. x - 1
        BY <1>2, <3>4
      <4>2. g[n] = Above(c, g[n - 1])
        BY <2>2, <4>1 DEF Begin
      <4>3. QED
        BY <3>2, <3>4, <4>2, <4>1
    <3>5. QED
      BY <3>3, <3>4
  <2> HIDE DEF h
  <2>8. Begin(h, c, i, x)
    BY <2>5, <2>6, <2>7 DEF Begin
  <2>9. QED
    BY <1>2, <2>8
<1>5. QED
  BY <1>3, <1>4

\* They are the same for every m.
LEMMA BeginUnique ==
  ASSUME NEW c \in Callers, NEW i \in Invocations, NEW m \in Nat, NEW p \in Nat,
         NEW g, Begin(g, c, i, m), NEW h, Begin(h, c, i, p),
         NEW n \in Nat, n <= m, n <= p
  PROVE  g[n] = h[n]
<1> DEFINE T == {x \in Nat : x <= m /\ x <= p /\ g[x] # h[x]}
<1>1. SUFFICES ASSUME T # {} PROVE FALSE
  OBVIOUS
<1>2. PICK x \in T : \A y \in T : x <= y
  BY <1>1, LeastNumber
<1>3. x # 0
  BY <1>2 DEF Begin
<1>4. x - 1 \in Nat /\ x - 1 \notin T /\ x - 1 <= m /\ x - 1 <= p
  BY <1>2, <1>3
<1>5. g[x - 1] = h[x - 1]
  BY <1>4
<1>6. x \in 1 .. m /\ x \in 1 .. p
  BY <1>2, <1>3
<1>7. g[x] = Above(c, g[x - 1]) /\ h[x] = Above(c, h[x - 1])
  BY <1>6 DEF Begin
<1>8. QED
  BY <1>2, <1>5, <1>7

\* So there is the function that Path takes.
LEMMA UpExists ==
  ASSUME NEW c \in Callers, NEW i \in Invocations
  PROVE  \E f : Up(f, c, i)
<1> DEFINE G(n) == CHOOSE g : Begin(g, c, i, n)
<1> DEFINE f == [n \in Nat |-> G(n)[n]]
<1>1. \A n \in Nat : Begin(G(n), c, i, n)
  BY BeginExists
<1> HIDE DEF G
<1>2. \A n \in Nat : f[n] = IF n = 0 THEN {i} ELSE Above(c, f[n - 1])
  <2> TAKE n \in Nat
  <2>1. CASE n = 0
    BY <1>1, <2>1 DEF Begin
  <2>2. CASE n # 0
    <3>1. n - 1 \in Nat /\ n \in 1 .. n /\ n - 1 <= n /\ n - 1 <= n - 1
      BY <2>2
    <3>2. G(n)[n] = Above(c, G(n)[n - 1])
      BY <1>1, <3>1 DEF Begin
    <3>3. G(n)[n - 1] = G(n - 1)[n - 1]
      BY <1>1, <3>1, BeginUnique
    <3>4. QED
      BY <2>2, <3>1, <3>2, <3>3
  <2>3. QED
    BY <2>1, <2>2
<1>3. f = [n \in Nat |-> IF n = 0 THEN {i} ELSE Above(c, f[n - 1])]
  BY <1>2
<1> HIDE DEF f
<1>4. Up(f, c, i)
  BY <1>3 DEF Up
<1>5. QED
  BY <1>4

\* A set of invocations that holds the caller of each of its members.
ClosedUp(c, S) == \A k \in S : c[k] = 0 \/ c[k] \in S

\* Every invocation was called by an earlier one.
Earlier(c) == \A k \in Invocations : c[k] < k

\* Path(i) is the least set with i that is closed under callers.
LEMMA PathLeast ==
  ASSUME NEW c \in Callers, Earlier(c), NEW i \in Invocations
  PROVE  /\ PathOf(c, i) \in SUBSET Invocations
         /\ i \in PathOf(c, i)
         /\ ClosedUp(c, PathOf(c, i))
         /\ \A S \in SUBSET Invocations : i \in S /\ ClosedUp(c, S) => PathOf(c, i) \subseteq S
<1> DEFINE f == CHOOSE f : Up(f, c, i)
<1>1. Up(f, c, i)
  BY UpExists
<1> HIDE DEF f
<1>2. f[0] = {i} /\ \A n \in Nat : n # 0 => f[n] = Above(c, f[n - 1])
  BY <1>1 DEF Up
<1>3. MaxInvocations \in Nat /\ i \in 1 .. MaxInvocations
  BY InvocationAssumption DEF Invocations
<1>4. PathOf(c, i) = f[MaxInvocations]
  BY DEF PathOf, f
\* What holds of every set that is closed holds of all of them.
<1>5. ASSUME NEW S \in SUBSET Invocations, i \in S, ClosedUp(c, S), NEW n \in Nat
      PROVE  f[n] \subseteq S
  <2> DEFINE T == {x \in Nat : ~ (f[x] \subseteq S)}
  <2>1. SUFFICES ASSUME T # {} PROVE FALSE
    OBVIOUS
  <2>2. PICK x \in T : \A y \in T : x <= y
    BY <2>1, LeastNumber
  <2>3. x # 0
    BY <1>2, <1>5, <2>2
  <2>4. x - 1 \in Nat /\ x - 1 \notin T
    BY <2>2, <2>3
  <2>5. f[x - 1] \subseteq S /\ f[x] = Above(c, f[x - 1])
    BY <1>2, <2>2, <2>3, <2>4
  <2>6. f[x] \subseteq S
    BY <1>5, <2>5 DEF Above, ClosedUp
  <2>7. QED
    BY <2>2, <2>6
<1>6. \A n \in Nat : f[n] \subseteq Invocations
  BY <1>5 DEF ClosedUp, Callers
\* The members whose callers are still missing are smaller and smaller.
<1>7. ASSUME NEW n \in Nat
      PROVE  i \in f[n] /\ \A k \in f[n] : c[k] = 0 \/ c[k] \in f[n] \/ k <= i - n
  <2> DEFINE T == {x \in Nat :
                     ~ (i \in f[x] /\ \A k \in f[x] : c[k] = 0 \/ c[k] \in f[x] \/ k <= i - x)}
  <2>1. SUFFICES ASSUME T # {} PROVE FALSE
    OBVIOUS
  <2>2. PICK x \in T : \A y \in T : x <= y
    BY <2>1, LeastNumber
  <2>3. x # 0
    BY <1>2, <1>3, <2>2
  <2>4. x - 1 \in Nat /\ x - 1 \notin T
    BY <2>2, <2>3
  <2>5. /\ i \in f[x - 1]
        /\ \A k \in f[x - 1] : c[k] = 0 \/ c[k] \in f[x - 1] \/ k <= i - (x - 1)
    BY <2>4
  <2>6. f[x] = Above(c, f[x - 1]) /\ f[x - 1] \subseteq Invocations
    BY <1>2, <1>6, <2>2, <2>3, <2>4
  <2>7. i \in f[x]
    BY <2>5, <2>6 DEF Above
  <2>8. ASSUME NEW k \in f[x], c[k] # 0, c[k] \notin f[x]
        PROVE  k <= i - x
    <3>1. k \notin f[x - 1]
      BY <2>6, <2>8 DEF Above
    <3>2. PICK j \in f[x - 1] : k = c[j] /\ k # 0
      BY <2>6, <3>1 DEF Above
    <3>3. j <= i - (x - 1)
      BY <2>5, <3>1, <3>2
    <3>4. j \in Invocations /\ k < j /\ k \in Nat /\ j \in Nat
      BY <2>6, <3>2 DEF Earlier, Invocations, Callers
    <3>5. QED
      BY <1>3, <2>2, <3>3, <3>4
  <2>9. QED
    BY <2>2, <2>7, <2>8
<1>8. \A k \in f[MaxInvocations] : k \in Nat /\ (c[k] = 0 \/ c[k] \in f[MaxInvocations])
  <2> TAKE k \in f[MaxInvocations]
  <2>1. k \in Invocations
    BY <1>3, <1>6
  <2>2. c[k] = 0 \/ c[k] \in f[MaxInvocations] \/ k <= i - MaxInvocations
    BY <1>3, <1>7
  <2>3. QED
    BY <1>3, <2>1, <2>2 DEF Invocations
<1>9. QED
  BY <1>3, <1>4, <1>5, <1>6, <1>7, <1>8 DEF ClosedUp

\* The path of a member is part of the path.
LEMMA PathWithin ==
  ASSUME NEW c \in Callers, Earlier(c), NEW i \in Invocations, NEW k \in PathOf(c, i)
  PROVE  PathOf(c, k) \subseteq PathOf(c, i)
<1>1. k \in Invocations
  BY PathLeast
<1>2. QED
  BY <1>1, PathLeast

\* Above an invocation is the path of its caller.
LEMMA PathOfCaller ==
  ASSUME NEW c \in Callers, Earlier(c), NEW i \in Invocations
  PROVE  /\ c[i] = 0 => PathOf(c, i) = {i}
         /\ c[i] # 0 => PathOf(c, i) = {i} \cup PathOf(c, c[i])
<1>1. CASE c[i] = 0
  <2>1. ClosedUp(c, {i})
    BY <1>1 DEF ClosedUp
  <2>2. QED
    BY <1>1, <2>1, PathLeast
<1>2. CASE c[i] # 0
  <2>1. c[i] \in Invocations
    BY <1>2 DEF Callers
  <2>2. ClosedUp(c, {i} \cup PathOf(c, c[i]))
    BY <2>1, PathLeast DEF ClosedUp
  <2>3. PathOf(c, i) \subseteq {i} \cup PathOf(c, c[i])
    BY <2>1, <2>2, PathLeast
  <2>4. c[i] \in PathOf(c, i)
    BY <1>2, PathLeast DEF ClosedUp
  <2>5. PathOf(c, c[i]) \subseteq PathOf(c, i)
    BY <2>4, PathWithin
  <2>6. QED
    BY <1>2, <2>3, <2>5, PathLeast
<1>3. QED
  BY <1>1, <1>2

\* Of every other member, a member of the path was called.
LEMMA PathStep ==
  ASSUME NEW c \in Callers, Earlier(c), NEW i \in Invocations, NEW k \in PathOf(c, i), k # i
  PROVE  \E j \in PathOf(c, i) : c[j] = k
<1> SUFFICES ASSUME \A j \in PathOf(c, i) : c[j] # k PROVE FALSE
  OBVIOUS
<1>1. ClosedUp(c, PathOf(c, i) \ {k})
  BY PathLeast DEF ClosedUp
<1>2. PathOf(c, i) \subseteq PathOf(c, i) \ {k}
  BY <1>1, PathLeast
<1>3. QED
  BY <1>2

\* A path stays what it is while the callers in a closed set around it do.
LEMMA PathSame ==
  ASSUME NEW c \in Callers, Earlier(c), NEW d \in Callers, Earlier(d),
         NEW S \in SUBSET Invocations, ClosedUp(c, S), \A k \in S : d[k] = c[k],
         NEW i \in S
  PROVE  PathOf(d, i) = PathOf(c, i)
<1>1. PathOf(c, i) \subseteq S /\ PathOf(d, i) \subseteq S
  BY PathLeast DEF ClosedUp
<1>2. ClosedUp(d, PathOf(c, i)) /\ ClosedUp(c, PathOf(d, i))
  BY <1>1, PathLeast DEF ClosedUp
<1>3. PathOf(d, i) \subseteq PathOf(c, i) /\ PathOf(c, i) \subseteq PathOf(d, i)
  BY <1>2, PathLeast
<1>4. QED
  BY <1>3

-----------------------------------------------------------------------------
(***************************************************************************)
(* The inductive invariant.                                                *)
(***************************************************************************)
States == {"free", "sent", "failed", "lost", "work", "next", "wait", "closed"}

Types ==
  /\ at \in [Invocations -> States]
  /\ unit \in [Invocations -> Units \cup {None}]
  /\ caller \in Callers
  /\ index \in [Invocations -> Nat]
  /\ step \in [Invocations -> Nat \ {0}]
  /\ ctx \in [Invocations -> Invocations \cup {0}]
  /\ cancelled \subseteq Invocations
  /\ parent \in [Invocations -> Invocations \cup {0}]
  /\ traces \in 0 .. MaxTraces

\* Invocations are taken in order, and called by one that is past its work.
Forest ==
  \A i \in Invocations :
    /\ at[i] = "free" => caller[i] = 0 /\ i \notin cancelled
    /\ at[i] # "free" => unit[i] \in Units /\ \A k \in 1 .. i - 1 : at[k] # "free"
    /\ caller[i] # 0 => caller[i] < i /\ at[caller[i]] \in {"next", "wait", "closed"}
    /\ at[i] = "sent" => caller[i] # 0

\* The successors of an invocation are called once each, up to the present one.
Numbered ==
  /\ \A j \in Invocations :
       caller[j] # 0 => /\ index[j] \in DOMAIN Successors[unit[caller[j]]]
                        /\ index[j] < step[caller[j]]
  /\ \A j, k \in Invocations :
       caller[j] # 0 /\ caller[j] = caller[k] /\ index[j] = index[k] => j = k

\* A synchronous successor that is not the present one is over, unless it was cut
\* off: SyncOrder, and also for an invocation that waits.
Order ==
  \A j \in Invocations :
    /\ IsSync(j)
    /\ at[caller[j]] \in {"next", "closed"}
       \/ (at[caller[j]] = "wait" /\ index[j] # step[caller[j]] - 1)
    => Ended(j) \/ (IsRemote(j) /\ Cancelled(caller[j]))

\* The context an invocation runs in is that of a call above it.
Contexts == \A i \in Invocations : ctx[i] = 0 \/ ctx[i] \in PathOf(caller, i)

\* A context is cancelled when its handler returns or one above it has.
ByReturn ==
  \A i \in cancelled : \E j \in PathOf(caller, i) : IsRemote(j) /\ at[j] = "closed"

\* SpansConnected, with the paths of the callers.
Connected == \A i \in Invocations : caller[i] # 0 => parent[i] \in PathOf(caller, i)

AllSync(i) == \A j \in PathOf(caller, i) : caller[j] = 0 \/ IsSync(j)

\* Above an invocation that is under way, with synchronous calls only, everything
\* waits; and no such call has failed.
Waiting ==
  \A i \in Invocations :
    at[i] # "free" /\ AllSync(i) =>
      /\ ~ Ended(i) => \A k \in PathOf(caller, i) \ {i} : at[k] = "wait"
      /\ at[i] # "failed"

Inv == Types /\ Forest /\ Numbered /\ Order /\ Contexts /\ ByReturn /\ Connected /\ Waiting

\* There is no invocation yet, and the invariant holds.
LEMMA Initially == Init => Inv
<1> SUFFICES ASSUME Init PROVE Inv
  OBVIOUS
<1>1. \A i \in Invocations : at[i] = "free" /\ caller[i] = 0 /\ ctx[i] = 0
  BY DEF Init
<1>2. Types
  BY InvocationAssumption DEF Init, Types, States, Callers
<1>3. cancelled = {}
  BY DEF Init
<1>4. QED
  BY <1>1, <1>2, <1>3 DEF Inv, Forest, Numbered, Order, Contexts, ByReturn, Connected, Waiting,
     IsSync

\* Callers have smaller numbers, so the lemmas about paths apply.
LEMMA CallersEarlier ==
  ASSUME Types, Forest
  PROVE  caller \in Callers /\ Earlier(caller)
<1>1. caller \in Callers
  BY DEF Types
<1>2. \A i \in Invocations : caller[i] < i
  <2> TAKE i \in Invocations
  <2>1. i \in Nat /\ 0 < i
    BY InvocationAssumption DEF Invocations
  <2>2. QED
    BY <2>1 DEF Forest
<1>3. QED
  BY <1>1, <1>2 DEF Earlier

-----------------------------------------------------------------------------
(***************************************************************************)
(* The steps of an invocation that is there: it moves to s, and its server *)
(* context may be cancelled.                                               *)
(***************************************************************************)
Over == {"closed", "failed", "lost"}

Move(i, s) ==
  /\ at[i] \notin Over \cup {"free"} /\ s \in States \ {"free", "sent"}
  /\ at[i] \in {"next", "wait"} => s \in {"next", "wait", "closed"}
  /\ at' = [at EXCEPT ![i] = s]
  /\ UNCHANGED <<links, step, traces>>
  /\ cancelled' \in {cancelled, cancelled \cup {i}}

\* What of the model does not change with a move.
LEMMA MoveSame ==
  ASSUME Types, NEW i \in Invocations, NEW s, Move(i, s)
  PROVE  /\ unit' = unit /\ caller' = caller /\ index' = index /\ step' = step
         /\ ctx' = ctx /\ parent' = parent /\ traces' = traces
         /\ at' \in [Invocations -> States]
         /\ at'[i] = s /\ \A j \in Invocations : j # i => at'[j] = at[j]
         /\ cancelled \subseteq cancelled' /\ cancelled' \subseteq cancelled \cup {i}
         /\ \A j \in Invocations : (IsSync(j)' <=> IsSync(j)) /\ (IsRemote(j)' <=> IsRemote(j))
         /\ \A j \in Invocations : (Ended(j) => Ended(j)') /\ (Cancelled(j) => Cancelled(j)')
         /\ \A j \in Invocations : (AllSync(j)' <=> AllSync(j))
<1>1. /\ unit' = unit /\ caller' = caller /\ index' = index /\ step' = step
      /\ ctx' = ctx /\ parent' = parent /\ traces' = traces
  BY DEF Move, links
<1>2. at \in [Invocations -> States] /\ s \in States
  BY DEF Types, Move
<1>3. at' = [at EXCEPT ![i] = s] /\ at[i] \notin Over
  BY DEF Move
<1>4. /\ at' \in [Invocations -> States]
      /\ at'[i] = s /\ \A j \in Invocations : j # i => at'[j] = at[j]
  BY <1>2, <1>3
<1>5. cancelled \subseteq cancelled' /\ cancelled' \subseteq cancelled \cup {i}
  BY DEF Move
<1>6. \A j : (IsSync(j)' <=> IsSync(j)) /\ (IsRemote(j)' <=> IsRemote(j))
  BY <1>1 DEF IsSync, IsRemote
<1>7. \A j \in Invocations : (Ended(j) => Ended(j)') /\ (Cancelled(j) => Cancelled(j)')
  BY <1>1, <1>3, <1>4, <1>5 DEF Ended, Cancelled, Over
<1>8. \A j \in Invocations : (AllSync(j)' <=> AllSync(j))
  BY <1>1, <1>6 DEF AllSync
<1>9. QED
  BY <1>1, <1>4, <1>5, <1>6, <1>7, <1>8

\* The parts of the invariant that no move disturbs.
LEMMA MoveKeeps ==
  ASSUME Inv, NEW i \in Invocations, NEW s, Move(i, s)
  PROVE  Types' /\ Forest' /\ Numbered' /\ Contexts' /\ Connected'
<1>1. Types /\ Forest /\ Numbered /\ Contexts /\ Connected
  BY DEF Inv
<1>2. /\ unit' = unit /\ caller' = caller /\ index' = index /\ step' = step
      /\ ctx' = ctx /\ parent' = parent /\ traces' = traces
      /\ at' \in [Invocations -> States]
      /\ at'[i] = s /\ \A j \in Invocations : j # i => at'[j] = at[j]
      /\ cancelled \subseteq cancelled' /\ cancelled' \subseteq cancelled \cup {i}
  BY <1>1, MoveSame
<1>3. Types'
  BY <1>1, <1>2 DEF Types
<1>4. Forest'
  <2>1. /\ at[i] # "free" /\ s # "free" /\ s # "sent"
        /\ at[i] \in {"next", "wait", "closed"} => s \in {"next", "wait", "closed"}
    BY DEF Move, Over
  <2>2. \A j \in Invocations : at'[j] = "free" <=> at[j] = "free"
    BY <1>2, <2>1
  <2>3. \A j \in Invocations : 1 .. j - 1 \subseteq Invocations
    BY InvocationAssumption DEF Invocations
  <2>4. \A j \in Invocations : caller[j] # 0 => caller[j] \in Invocations
    BY <1>1 DEF Types, Callers
  <2> SUFFICES ASSUME NEW j \in Invocations
               PROVE  /\ at'[j] = "free" => caller'[j] = 0 /\ j \notin cancelled'
                      /\ at'[j] # "free" => unit'[j] \in Units /\ \A k \in 1 .. j - 1 : at'[k] # "free"
                      /\ caller'[j] # 0 => /\ caller'[j] < j
                                           /\ at'[caller'[j]] \in {"next", "wait", "closed"}
                      /\ at'[j] = "sent" => caller'[j] # 0
    BY DEF Forest
  <2>5. at'[j] = "free" => caller'[j] = 0 /\ j \notin cancelled'
    BY <1>1, <1>2, <2>1, <2>2 DEF Forest
  <2>6. at'[j] # "free" => unit'[j] \in Units /\ \A k \in 1 .. j - 1 : at'[k] # "free"
    BY <1>1, <1>2, <2>2, <2>3 DEF Forest
  <2>7. caller'[j] # 0 => caller'[j] < j /\ at'[caller'[j]] \in {"next", "wait", "closed"}
    BY <1>1, <1>2, <2>1, <2>4 DEF Forest
  <2>8. at'[j] = "sent" => caller'[j] # 0
    BY <1>1, <1>2, <2>1 DEF Forest
  <2>9. QED
    BY <2>5, <2>6, <2>7, <2>8
<1>5. Numbered'
  BY <1>1, <1>2 DEF Numbered
<1>6. Contexts' /\ Connected'
  BY <1>1, <1>2 DEF Contexts, Connected
<1>7. QED
  BY <1>3, <1>4, <1>5, <1>6

\* When a move keeps the order, for the calls of the invocation that moves.
InOrder(i, s) ==
  \A j \in Invocations :
    /\ caller[j] = i /\ IsSync(j)
    /\ s \in {"next", "closed"} \/ (s = "wait" /\ index[j] # step[i] - 1)
    => Ended(j) \/ (IsRemote(j) /\ Cancelled(i))

\* An invocation that changes its state as InOrder allows keeps the order of calls.
LEMMA MoveOrder ==
  ASSUME Inv, NEW i \in Invocations, NEW s, Move(i, s), InOrder(i, s)
  PROVE  Order'
<1>1. Types /\ Order
  BY DEF Inv
<1> SUFFICES ASSUME NEW j \in Invocations, IsSync(j)',
                    at'[caller'[j]] \in {"next", "closed"}
                    \/ (at'[caller'[j]] = "wait" /\ index'[j] # step'[caller'[j]] - 1)
             PROVE  Ended(j)' \/ (IsRemote(j)' /\ Cancelled(caller[j])')
  BY DEF Order
<1>2. /\ caller' = caller /\ index' = index /\ step' = step /\ at'[i] = s
      /\ \A k \in Invocations : k # i => at'[k] = at[k]
      /\ \A k \in Invocations : (IsSync(k)' <=> IsSync(k)) /\ (IsRemote(k)' <=> IsRemote(k))
      /\ \A k \in Invocations : (Ended(k) => Ended(k)') /\ (Cancelled(k) => Cancelled(k)')
  BY <1>1, MoveSame
<1>3. caller[j] \in Invocations
  BY <1>1, <1>2 DEF Types, Callers, IsSync
<1>4. Ended(j) \/ (IsRemote(j) /\ Cancelled(caller[j]))
  <2>1. CASE caller[j] = i
    BY <1>2, <2>1 DEF InOrder
  <2>2. CASE caller[j] # i
    BY <1>1, <1>2, <1>3, <2>2 DEF Order
  <2>3. QED
    BY <2>1, <2>2
<1>5. Cancelled(caller[j]) => Cancelled(caller[j])'
  <2>1. ctx' = ctx /\ cancelled \subseteq cancelled'
    BY <1>1, MoveSame
  <2>2. QED
    BY <1>2, <2>1 DEF Cancelled
<1>6. QED
  BY <1>2, <1>4, <1>5

\* When it keeps what is said of cancelled contexts.
LEMMA MoveByReturn ==
  ASSUME Inv, NEW i \in Invocations, NEW s, Move(i, s),
         cancelled' # cancelled =>
           \E j \in PathOf(caller, i) : IsRemote(j) /\ (at[j] = "closed" \/ (j = i /\ s = "closed"))
  PROVE  ByReturn'
<1>1. Types /\ Forest /\ ByReturn
  BY DEF Inv
<1>2. /\ caller' = caller /\ at'[i] = s /\ at[i] # "closed"
      /\ cancelled' = cancelled \/ cancelled' = cancelled \cup {i}
      /\ \A k \in Invocations : k # i => at'[k] = at[k]
      /\ \A k \in Invocations : IsRemote(k)' <=> IsRemote(k)
  BY <1>1, MoveSame DEF Move, Over
<1>3. \A r \in Invocations : PathOf(caller, r) \subseteq Invocations
  BY <1>1, CallersEarlier, PathLeast
<1>4. cancelled \subseteq Invocations
  BY <1>1 DEF Types
<1> SUFFICES ASSUME NEW r \in cancelled'
             PROVE  \E j \in PathOf(caller, r) : IsRemote(j)' /\ at'[j] = "closed"
  BY <1>2 DEF ByReturn
<1>5. CASE r \in cancelled
  <2>1. PICK j \in PathOf(caller, r) : IsRemote(j) /\ at[j] = "closed"
    BY <1>1, <1>5 DEF ByReturn
  <2>2. j \in Invocations /\ j # i
    BY <1>2, <1>3, <1>4, <1>5, <2>1
  <2>3. QED
    BY <1>2, <2>1, <2>2
<1>6. CASE r \notin cancelled
  <2>1. r = i /\ cancelled' # cancelled
    BY <1>2, <1>6
  <2>2. PICK j \in PathOf(caller, i) :
          IsRemote(j) /\ (at[j] = "closed" \/ (j = i /\ s = "closed"))
    BY <2>1
  <2>3. at'[j] = "closed" /\ j \in Invocations
    BY <1>2, <1>3, <2>2
  <2>4. QED
    BY <1>2, <2>1, <2>2, <2>3
<1>7. QED
  BY <1>5, <1>6

\* When it keeps what waits: nothing waits for it, or it goes on waiting.
LEMMA MoveWaiting ==
  ASSUME Inv, NEW i \in Invocations, NEW s, Move(i, s),
         \/ at[i] # "wait" \/ s = "wait"
         \/ \A k \in Invocations :
              at[k] # "free" /\ AllSync(k) /\ ~ Ended(k) => i \notin PathOf(caller, k) \ {k},
         s = "failed" => ~ AllSync(i)
  PROVE  Waiting'
<1>1. Types /\ Forest /\ Waiting
  BY DEF Inv
<1>2. /\ caller' = caller /\ at'[i] = s /\ at[i] # "free"
      /\ \A k \in Invocations : k # i => at'[k] = at[k]
      /\ \A k \in Invocations : Ended(k) => Ended(k)'
      /\ \A k \in Invocations : (AllSync(k)' <=> AllSync(k))
  BY <1>1, MoveSame DEF Move
<1>3. \A k \in Invocations : PathOf(caller, k) \subseteq Invocations
  BY <1>1, CallersEarlier, PathLeast
<1> SUFFICES ASSUME NEW k \in Invocations, at'[k] # "free", AllSync(k)'
             PROVE  /\ ~ Ended(k)' => \A j \in PathOf(caller, k) \ {k} : at'[j] = "wait"
                    /\ at'[k] # "failed"
  BY <1>2 DEF Waiting
<1>4. at[k] # "free" /\ AllSync(k)
  BY <1>2
<1>5. at'[k] # "failed"
  BY <1>1, <1>2, <1>4 DEF Waiting
<1>6. ASSUME ~ Ended(k)', NEW j \in PathOf(caller, k) \ {k}
      PROVE  at'[j] = "wait"
  <2>1. at[j] = "wait" /\ j \in Invocations /\ ~ Ended(k)
    BY <1>1, <1>2, <1>3, <1>4, <1>6 DEF Waiting
  <2>2. QED
    BY <1>2, <1>4, <1>6, <2>1
<1>7. QED
  BY <1>5, <1>6

\* Of an invocation that changes its state three parts of the invariant are at stake.
LEMMA MoveInv ==
  ASSUME Inv, NEW i \in Invocations, NEW s, Move(i, s), Order', ByReturn', Waiting'
  PROVE  Inv'
BY MoveKeeps DEF Inv

-----------------------------------------------------------------------------
\* An invocation runs in a cancelled context only when a handler above it, or its
\* own, has returned.
LEMMA CancelledBelow ==
  ASSUME Inv, NEW i \in Invocations, Cancelled(i)
  PROVE  \E j \in PathOf(caller, i) : j \in Invocations /\ IsRemote(j) /\ at[j] = "closed"
<1>1. Types /\ caller \in Callers /\ Earlier(caller)
  BY CallersEarlier DEF Inv
<1>2. ctx[i] \in cancelled /\ ctx[i] \in Invocations /\ 0 \notin Invocations
  BY <1>1, InvocationAssumption DEF Cancelled, Types, Invocations
<1>3. ctx[i] \in PathOf(caller, i)
  BY <1>2 DEF Inv, Contexts
<1>4. PICK j \in PathOf(caller, ctx[i]) : IsRemote(j) /\ at[j] = "closed"
  BY <1>2 DEF Inv, ByReturn
<1>5. j \in PathOf(caller, i) /\ PathOf(caller, i) \subseteq Invocations
  BY <1>1, <1>3, <1>4, PathWithin, PathLeast
<1>6. QED
  BY <1>4, <1>5

\* So above a call that is under way, with synchronous calls only, no context is cancelled.
LEMMA NotCutOff ==
  ASSUME Inv, NEW k \in Invocations, at[k] # "free", AllSync(k), ~ Ended(k),
         NEW i \in PathOf(caller, k) \ {k}
  PROVE  ~ Cancelled(i)
<1>1. Types /\ caller \in Callers /\ Earlier(caller)
  BY CallersEarlier DEF Inv
<1>2. i \in Invocations /\ PathOf(caller, i) \subseteq PathOf(caller, k)
  BY <1>1, PathWithin, PathLeast
<1>3. SUFFICES ASSUME Cancelled(i) PROVE FALSE
  OBVIOUS
<1>4. PICK j \in PathOf(caller, i) : j \in Invocations /\ at[j] = "closed"
  BY <1>2, <1>3, CancelledBelow
<1>5. j \in PathOf(caller, k) /\ j # k
  BY <1>2, <1>4 DEF Ended
<1>6. at[j] = "wait"
  BY <1>5 DEF Inv, Waiting
<1>7. QED
  BY <1>4, <1>6

\* An invocation that has not got to its successors has called nothing.
LEMMA NoCallsYet ==
  ASSUME Inv, NEW i \in Invocations, at[i] \notin {"next", "wait", "closed"},
         NEW j \in Invocations
  PROVE  caller[j] # i
<1>1. i # 0
  BY InvocationAssumption DEF Invocations
<1>2. QED
  BY <1>1 DEF Inv, Forest

\* An invocation has worked and turns to its successors.
LEMMA EmulateWorkInv == ASSUME Inv, NEW i \in Invocations, EmulateWork(i) PROVE Inv'
<1>1. Move(i, "next") /\ at[i] = "work" /\ cancelled' = cancelled
  BY DEF EmulateWork, Move, Over, States
<1>2. InOrder(i, "next")
  BY <1>1, NoCallsYet DEF InOrder
<1>3. QED
  BY <1>1, <1>2, MoveOrder, MoveByReturn, MoveWaiting, MoveInv

\* A call reaches its server, which starts to work.
LEMMA CallInv == ASSUME Inv, NEW j \in Invocations, Call(j) PROVE Inv'
<1>1. Move(j, "work") /\ at[j] = "sent" /\ cancelled' = cancelled
  BY DEF Call, Move, Over, States
<1>2. InOrder(j, "work")
  BY DEF InOrder
<1>3. QED
  BY <1>1, <1>2, MoveOrder, MoveByReturn, MoveWaiting, MoveInv

\* A call does not reach its server.
LEMMA CallLostInv == ASSUME Inv, NEW j \in Invocations, CallLost(j) PROVE Inv'
<1>1. Move(j, "lost") /\ at[j] = "sent" /\ cancelled' = cancelled
  BY DEF CallLost, Move, Over, States
<1>2. InOrder(j, "lost")
  BY DEF InOrder
<1>3. QED
  BY <1>1, <1>2, MoveOrder, MoveByReturn, MoveWaiting, MoveInv

\* The heart of SyncCallsArrive: the call that fails has an asynchronous call above it.
LEMMA CallFailsInv == ASSUME Inv, NEW j \in Invocations, CallFails(j) PROVE Inv'
<1>1. Move(j, "failed") /\ at[j] = "sent" /\ cancelled' = cancelled
  BY DEF CallFails, Move, Over, States
<1>2. InOrder(j, "failed")
  BY DEF InOrder
<1>3. ~ AllSync(j)
  <2>1. Types /\ Forest /\ caller \in Callers /\ Earlier(caller)
    BY CallersEarlier DEF Inv
  <2>2. caller[j] # 0 /\ caller[j] < j /\ Cancelled(caller[j])
    BY <1>1, <2>1 DEF Forest, CallFails
  <2>3. caller[j] \in PathOf(caller, j) \ {j}
    <3>1. caller[j] # j
      BY <2>2 DEF Invocations
    <3>2. QED
      BY <2>1, <2>2, <3>1, PathLeast DEF ClosedUp
  <2>4. ~ Ended(j) /\ at[j] # "free"
    BY <1>1 DEF Ended
  <2>5. QED
    BY <2>2, <2>3, <2>4, NotCutOff
<1>4. QED
  BY <1>1, <1>2, <1>3, MoveOrder, MoveByReturn, MoveWaiting, MoveInv

\* A server learns that the context of its caller is cancelled.
LEMMA CancelHandlerInv == ASSUME Inv, NEW j \in Invocations, CancelHandler(j) PROVE Inv'
<1>1. Types /\ Forest /\ Order /\ caller \in Callers /\ Earlier(caller)
  BY CallersEarlier DEF Inv
<1>2. /\ at[j] \in {"work", "next", "wait"} /\ at' = at /\ IsRemote(j) /\ Cancelled(caller[j])
      /\ cancelled' = cancelled \cup {j} /\ UNCHANGED <<links, step, traces>>
  BY DEF CancelHandler
<1>3. Move(j, at[j])
  <2>1. at' = [at EXCEPT ![j] = at[j]]
    BY <1>1, <1>2 DEF Types
  <2>2. QED
    BY <1>2, <2>1 DEF Move, Over, States
<1>4. InOrder(j, at[j])
  BY <1>1 DEF InOrder, Order
<1>5. \E k \in PathOf(caller, j) : IsRemote(k) /\ at[k] = "closed"
  <2>1. caller[j] # 0 /\ caller[j] \in Invocations
    BY <1>1, <1>2 DEF IsRemote, Callers
  <2>2. PICK k \in PathOf(caller, caller[j]) : IsRemote(k) /\ at[k] = "closed"
    BY <1>2, <2>1, CancelledBelow
  <2>3. QED
    BY <1>1, <2>1, <2>2, PathOfCaller
<1>6. at[j] # "failed"
  BY <1>2
<1>7. QED
  BY <1>3, <1>4, <1>5, <1>6, MoveOrder, MoveByReturn, MoveWaiting, MoveInv

\* The successor that i waits for has returned, so the order is kept, and if
\* everything above a call waits for it, i does so too.
LEMMA ResumeInv == ASSUME Inv, NEW i \in Invocations, Resume(i) PROVE Inv'
<1>1. /\ Types /\ Forest /\ Numbered /\ Order /\ Waiting
      /\ caller \in Callers /\ Earlier(caller)
  BY CallersEarlier DEF Inv
<1>2. Move(i, "next") /\ at[i] = "wait" /\ cancelled' = cancelled
  BY DEF Resume, Move, Over, States
<1>3. i # 0
  BY InvocationAssumption DEF Invocations
<1>4. PICK r \in Invocations : caller[r] = i /\ index[r] = step[i] - 1 /\ Returned(r)
  BY DEF Resume
<1>5. ASSUME NEW j \in Invocations, caller[j] = i, IsSync(j)
      PROVE  Ended(j) \/ (IsRemote(j) /\ Cancelled(i))
  <2>1. CASE index[j] = step[i] - 1
    <3>1. j = r
      BY <1>1, <1>3, <1>4, <1>5, <2>1 DEF Numbered
    <3>2. QED
      BY <1>4, <3>1 DEF Returned
  <2>2. CASE index[j] # step[i] - 1
    BY <1>1, <1>2, <1>5, <2>2 DEF Order
  <2>3. QED
    BY <2>1, <2>2
<1>6. InOrder(i, "next")
  BY <1>5 DEF InOrder
<1>7. ASSUME NEW k \in Invocations, at[k] # "free", AllSync(k), ~ Ended(k),
             i \in PathOf(caller, k) \ {k}
      PROVE  FALSE
  <2>1. PICK j \in PathOf(caller, k) : caller[j] = i
    BY <1>1, <1>7, PathStep
  <2>2. j \in Invocations /\ IsSync(j)
    BY <1>1, <1>3, <1>7, <2>1, PathLeast DEF AllSync
  <2>3. ~ Ended(j)
    BY <1>1, <1>7, <2>1 DEF Waiting, Ended
  <2>4. ~ Cancelled(i)
    BY <1>7, NotCutOff
  <2>5. QED
    BY <1>5, <2>1, <2>2, <2>3, <2>4
<1>8. QED
  BY <1>2, <1>6, <1>7, MoveOrder, MoveByReturn, MoveWaiting, MoveInv

\* An invocation is through with its successors, and a handler returns.
LEMMA CloseInv == ASSUME Inv, NEW i \in Invocations, Close(i) PROVE Inv'
<1>1. Types /\ Forest /\ Order /\ caller \in Callers /\ Earlier(caller)
  BY CallersEarlier DEF Inv
<1>2. Move(i, "closed") /\ at[i] = "next" /\ (cancelled' # cancelled => IsRemote(i))
  BY DEF Close, Move, Over, States
<1>3. InOrder(i, "closed")
  BY <1>1, <1>2 DEF InOrder, Order
<1>4. i \in PathOf(caller, i)
  BY <1>1, PathLeast
<1>5. QED
  BY <1>2, <1>3, <1>4, MoveOrder, MoveByReturn, MoveWaiting, MoveInv

-----------------------------------------------------------------------------
(***************************************************************************)
(* The steps that take a new invocation j: p calls it, or a generator, for *)
(* which p is 0.                                                           *)
(***************************************************************************)
Taken(j, p) ==
  /\ NextFree(j)
  /\ p # 0 => p \in Invocations /\ at[p] = "next"
  /\ caller' = [caller EXCEPT ![j] = p]
  /\ \A k \in Invocations \ {j} : unit'[k] = unit[k] /\ index'[k] = index[k] /\ ctx'[k] = ctx[k]
  /\ cancelled' = cancelled
  /\ \A k \in Invocations \ {j, p} : at'[k] = at[k]

\* A new invocation has no calls, and its caller a smaller number.
LEMMA TakenCallers ==
  ASSUME Inv, NEW j \in Invocations, NEW p, Taken(j, p)
  PROVE  /\ caller' \in Callers /\ Earlier(caller') /\ p < j
         /\ caller'[j] = p /\ \A k \in Invocations \ {j} : caller'[k] = caller[k]
         /\ \A k \in Invocations : caller[k] # j
<1>1. Types /\ Forest /\ caller \in Callers /\ Earlier(caller)
  BY CallersEarlier DEF Inv
<1>2. /\ at[j] = "free" /\ (p # 0 => p \in Invocations /\ at[p] = "next")
      /\ caller' = [caller EXCEPT ![j] = p]
  BY DEF Taken, NextFree
<1>3. \A k \in Invocations : k \in Nat /\ k >= 1
  BY InvocationAssumption DEF Invocations
<1>4. p < j
  <2>1. CASE p = 0
    BY <1>3, <2>1
  <2>2. CASE p # 0
    <3>1. p \in Invocations /\ at[p] # "free" /\ p # j
      BY <1>2, <2>2
    <3>2. \A k \in 1 .. p - 1 : at[k] # "free"
      BY <1>1, <3>1 DEF Forest
    <3>3. ~ (j \in 1 .. p - 1)
      BY <1>2, <3>2
    <3>4. QED
      BY <1>3, <3>1, <3>3
  <2>3. QED
    BY <2>1, <2>2
<1>5. caller' \in Callers
  BY <1>1, <1>2 DEF Callers
<1>6. caller'[j] = p /\ \A k \in Invocations \ {j} : caller'[k] = caller[k]
  BY <1>1, <1>2 DEF Callers
<1>7. Earlier(caller')
  BY <1>1, <1>4, <1>6 DEF Earlier
<1>8. \A k \in Invocations : caller[k] # j
  BY <1>1, <1>2, <1>3 DEF Forest
<1>9. QED
  BY <1>4, <1>5, <1>6, <1>7, <1>8

\* A new invocation is on no path but its own, which continues its caller's.
LEMMA TakenPaths ==
  ASSUME Inv, NEW j \in Invocations, NEW p, Taken(j, p)
  PROVE  /\ \A k \in Invocations \ {j} :
              PathOf(caller', k) = PathOf(caller, k) /\ PathOf(caller, k) \subseteq Invocations \ {j}
         /\ p = 0 => PathOf(caller', j) = {j}
         /\ p # 0 => PathOf(caller', j) = {j} \cup PathOf(caller, p)
<1>1. caller \in Callers /\ Earlier(caller)
  BY CallersEarlier DEF Inv
<1>2. /\ caller' \in Callers /\ Earlier(caller') /\ p < j
      /\ caller'[j] = p /\ \A k \in Invocations \ {j} : caller'[k] = caller[k]
      /\ \A k \in Invocations : caller[k] # j
  BY TakenCallers
<1>3. ClosedUp(caller, Invocations \ {j})
  BY <1>1, <1>2 DEF ClosedUp, Callers
<1>4. ASSUME NEW k \in Invocations \ {j}
      PROVE  PathOf(caller', k) = PathOf(caller, k) /\ PathOf(caller, k) \subseteq Invocations \ {j}
  BY <1>1, <1>2, <1>3, PathSame, PathLeast
<1>5. p # 0 => p \in Invocations \ {j}
  BY <1>2 DEF Taken, Invocations
<1>6. QED
  BY <1>2, <1>4, <1>5, PathOfCaller

\* What a new invocation does not change for the others.
LEMMA TakenSame ==
  ASSUME Inv, NEW j \in Invocations, NEW p, Taken(j, p)
  PROVE  \A k \in Invocations \ {j} :
           /\ IsSync(k)' <=> IsSync(k)
           /\ IsRemote(k)' <=> IsRemote(k)
           /\ AllSync(k)' <=> AllSync(k)
           /\ Cancelled(k)' <=> Cancelled(k)
<1>1. caller \in Callers
  BY CallersEarlier DEF Inv
<1>2. /\ \A k \in Invocations \ {j} : caller'[k] = caller[k]
      /\ \A k \in Invocations : caller[k] # j
  BY TakenCallers
<1>3. /\ \A k \in Invocations \ {j} : unit'[k] = unit[k] /\ index'[k] = index[k] /\ ctx'[k] = ctx[k]
      /\ cancelled' = cancelled
  BY DEF Taken
<1>4. ASSUME NEW k \in Invocations \ {j}
      PROVE  (IsSync(k)' <=> IsSync(k)) /\ (IsRemote(k)' <=> IsRemote(k))
             /\ (Cancelled(k)' <=> Cancelled(k))
  <2>1. caller[k] # 0 => caller[k] \in Invocations \ {j}
    BY <1>1, <1>2 DEF Callers
  <2>2. caller'[k] = caller[k] /\ unit'[k] = unit[k] /\ index'[k] = index[k] /\ ctx'[k] = ctx[k]
    BY <1>2, <1>3
  <2>3. caller[k] # 0 => unit'[caller[k]] = unit[caller[k]]
    BY <1>3, <2>1
  <2>4. QED
    BY <1>3, <2>2, <2>3 DEF IsSync, IsRemote, Cancelled
<1>5. ASSUME NEW k \in Invocations \ {j}
      PROVE  AllSync(k)' <=> AllSync(k)
  <2>1. PathOf(caller', k) = PathOf(caller, k) /\ PathOf(caller, k) \subseteq Invocations \ {j}
    BY TakenPaths
  <2>2. QED
    BY <1>2, <1>4, <2>1 DEF AllSync
<1>6. QED
  BY <1>4, <1>5

\* A generator starts a trace.
LEMMA GenerateInv ==
  ASSUME Inv, NEW u \in Roots, NEW i \in Invocations, Generate(u, i)
  PROVE  Inv'
<1>1. /\ Types /\ Forest /\ Numbered /\ Order /\ Contexts /\ ByReturn /\ Connected /\ Waiting
      /\ caller \in Callers /\ Earlier(caller)
  BY CallersEarlier DEF Inv
<1>2. /\ NextFree(i) /\ traces' = traces + 1 /\ traces < MaxTraces
      /\ at' = [at EXCEPT ![i] = "work"] /\ unit' = [unit EXCEPT ![i] = u]
      /\ caller' = caller /\ index' = index /\ step' = step /\ ctx' = ctx
      /\ cancelled' = cancelled /\ parent' = parent
  BY DEF Generate
<1>3. at[i] = "free" /\ caller[i] = 0 /\ i \notin cancelled /\ u \in Units
  BY <1>1, <1>2, InvocationAssumption DEF NextFree, Forest
<1>4. Types'
  <2>1. at' \in [Invocations -> States] /\ unit' \in [Invocations -> Units \cup {None}]
    BY <1>1, <1>2, <1>3 DEF Types, States
  <2>2. traces' \in 0 .. MaxTraces
    BY <1>1, <1>2, InvocationAssumption DEF Types
  <2>3. QED
    BY <1>1, <1>2, <2>1, <2>2 DEF Types
<1>5. /\ at'[i] = "work" /\ unit'[i] = u
      /\ \A k \in Invocations \ {i} : at'[k] = at[k] /\ unit'[k] = unit[k]
  BY <1>1, <1>2 DEF Types
<1>6. Taken(i, 0)
  <2>1. caller' = [caller EXCEPT ![i] = 0]
    BY <1>1, <1>2, <1>3 DEF Callers
  <2>2. QED
    BY <1>2, <1>5, <2>1 DEF Taken
<1>7. \A k \in Invocations : caller[k] # i
  BY <1>6, TakenCallers
<1>8. /\ \A k \in Invocations \ {i} : PathOf(caller, k) \subseteq Invocations \ {i}
      /\ PathOf(caller, i) = {i}
  BY <1>2, <1>6, TakenPaths
<1>9. \A k \in Invocations \ {i} :
        /\ IsSync(k)' <=> IsSync(k)
        /\ IsRemote(k)' <=> IsRemote(k)
        /\ AllSync(k)' <=> AllSync(k)
        /\ Cancelled(k)' <=> Cancelled(k)
        /\ Ended(k)' <=> Ended(k)
  BY <1>5, <1>6, TakenSame DEF Ended
<1>10. Forest'
  <2> SUFFICES ASSUME NEW j \in Invocations
               PROVE  /\ at'[j] = "free" => caller'[j] = 0 /\ j \notin cancelled'
                      /\ at'[j] # "free" => unit'[j] \in Units /\ \A k \in 1 .. j - 1 : at'[k] # "free"
                      /\ caller'[j] # 0 => /\ caller'[j] < j
                                           /\ at'[caller'[j]] \in {"next", "wait", "closed"}
                      /\ at'[j] = "sent" => caller'[j] # 0
    BY DEF Forest
  <2>1. 1 .. j - 1 \subseteq Invocations
    BY InvocationAssumption DEF Invocations
  <2>2. CASE j = i
    <3>1. \A k \in 1 .. j - 1 : at[k] # "free" /\ k # i
      BY <1>2, <2>2, InvocationAssumption DEF NextFree, Invocations
    <3>2. \A k \in 1 .. j - 1 : at'[k] # "free"
      BY <1>5, <2>1, <3>1
    <3>3. QED
      BY <1>2, <1>3, <1>5, <2>2, <3>2
  <2>3. CASE j # i
    <3>1. caller[j] # 0 => caller[j] \in Invocations \ {i}
      BY <1>1, <1>7 DEF Callers
    <3>2. at'[j] = at[j] /\ unit'[j] = unit[j]
      BY <1>5, <2>3
    <3>3. at[j] # "free" => \A k \in 1 .. j - 1 : at'[k] # "free"
      BY <1>1, <1>5, <2>1 DEF Forest
    <3>4. caller[j] # 0 => at'[caller[j]] = at[caller[j]]
      BY <1>5, <3>1
    <3>5. QED
      BY <1>1, <1>2, <3>2, <3>3, <3>4 DEF Forest
  <2>4. QED
    BY <2>2, <2>3
<1>11. Numbered'
  <2>1. \A k \in Invocations : caller[k] # 0 => unit'[caller[k]] = unit[caller[k]]
    BY <1>1, <1>5, <1>7 DEF Callers
  <2>2. QED
    BY <1>1, <1>2, <2>1 DEF Numbered
<1>12. Order'
  <2> SUFFICES ASSUME NEW j \in Invocations, IsSync(j)',
                      at'[caller'[j]] \in {"next", "closed"}
                      \/ (at'[caller'[j]] = "wait" /\ index'[j] # step'[caller'[j]] - 1)
               PROVE  Ended(j)' \/ (IsRemote(j)' /\ Cancelled(caller[j])')
    BY DEF Order
  <2>1. caller[j] # 0 /\ j # i
    BY <1>2, <1>3 DEF IsSync
  <2>2. caller[j] \in Invocations \ {i}
    BY <1>1, <1>7, <2>1 DEF Callers
  <2>3. at'[caller[j]] = at[caller[j]]
    BY <1>5, <2>2
  <2>4. Ended(j) \/ (IsRemote(j) /\ Cancelled(caller[j]))
    BY <1>1, <1>2, <1>9, <2>1, <2>3 DEF Order
  <2>5. Cancelled(caller[j]) => Cancelled(caller[j])'
    BY <1>2 DEF Cancelled
  <2>6. QED
    BY <1>9, <2>1, <2>4, <2>5
<1>13. Contexts' /\ Connected'
  BY <1>1, <1>2 DEF Contexts, Connected
<1>14. ByReturn'
  <2> SUFFICES ASSUME NEW r \in cancelled
               PROVE  \E k \in PathOf(caller, r) : IsRemote(k)' /\ at'[k] = "closed"
    BY <1>2 DEF ByReturn
  <2>1. PICK k \in PathOf(caller, r) : IsRemote(k) /\ at[k] = "closed"
    BY <1>1 DEF ByReturn
  <2>2. k \in Invocations \ {i}
    BY <1>1, <1>3, <1>8, <2>1 DEF Types
  <2>3. QED
    BY <1>5, <1>9, <2>1, <2>2
<1>15. Waiting'
  <2> SUFFICES ASSUME NEW k \in Invocations, at'[k] # "free", AllSync(k)'
               PROVE  /\ ~ Ended(k)' => \A j \in PathOf(caller, k) \ {k} : at'[j] = "wait"
                      /\ at'[k] # "failed"
    BY <1>2 DEF Waiting
  <2>1. CASE k = i
    BY <1>5, <1>8, <2>1
  <2>2. CASE k # i
    <3>1. \A j \in PathOf(caller, k) : at'[j] = at[j]
      BY <1>5, <1>8, <2>2
    <3>2. at'[k] = at[k] /\ AllSync(k) /\ (Ended(k)' <=> Ended(k))
      BY <1>5, <1>9, <2>2
    <3>3. QED
      BY <1>1, <3>1, <3>2 DEF Waiting
  <2>3. QED
    BY <2>1, <2>2
<1>16. QED
  BY <1>4, <1>10, <1>11, <1>12, <1>13, <1>14, <1>15 DEF Inv

\* The elements of a sequence, and so the successors of a unit.
LEMMA Element == ASSUME NEW S, NEW q \in Seq(S), NEW n \in DOMAIN q PROVE q[n] \in S
OBVIOUS

\* The successors of a unit are references to units.
LEMMA SuccessorTypes ==
  \A u \in Units : \A n \in DOMAIN Successors[u] :
    Successors[u][n] \in [unit : Units, sync : BOOLEAN]
BY InvocationAssumption, Element

\* An invocation calls its next successor, which for a synchronous one it then
\* waits for.
LEMMA NextSuccessorInv ==
  ASSUME Inv, NEW i \in Invocations, NEW j \in Invocations, Next_Successor(i, j)
  PROVE  Inv'
<1> DEFINE s == Successors[unit[i]][step[i]]
<1> DEFINE remote == Remote(unit[i], s.unit)
<1> DEFINE a == IF s.sync THEN "wait" ELSE "next"
<1> DEFINE b == IF remote THEN "sent" ELSE "work"
<1> DEFINE context == IF remote THEN j ELSE ctx[i]
<1> DEFINE span == ParentSpan(s.unit, remote, j, ctx[i])
<1>1. /\ Types /\ Forest /\ Numbered /\ Order /\ Contexts /\ ByReturn /\ Connected /\ Waiting
      /\ caller \in Callers /\ Earlier(caller)
  BY CallersEarlier DEF Inv
<1>2. /\ at[i] = "next" /\ step[i] \in DOMAIN Successors[unit[i]] /\ NextFree(j)
      /\ at' = [at EXCEPT ![i] = a, ![j] = b]
      /\ unit' = [unit EXCEPT ![j] = s.unit] /\ caller' = [caller EXCEPT ![j] = i]
      /\ index' = [index EXCEPT ![j] = step[i]] /\ step' = [step EXCEPT ![i] = @ + 1]
      /\ ctx' = [ctx EXCEPT ![j] = context] /\ parent' = [parent EXCEPT ![j] = span]
      /\ cancelled' = cancelled /\ traces' = traces
  BY DEF Next_Successor, AfterCall, Position
<1>3. /\ at[j] = "free" /\ i # j /\ i # 0 /\ j # 0 /\ j \notin cancelled
      /\ i \in Nat /\ j \in Nat
  BY <1>1, <1>2, InvocationAssumption DEF NextFree, Forest, Invocations
<1>4. unit[i] \in Units /\ s.unit \in Units /\ s.sync \in BOOLEAN
  <2>1. unit[i] \in Units
    BY <1>1, <1>2 DEF Forest
  <2>2. s \in [unit : Units, sync : BOOLEAN]
    BY <1>2, <2>1, SuccessorTypes
  <2>3. QED
    BY <2>1, <2>2
<1>5. span \in {j, ctx[i]} /\ (span = ctx[i] /\ span # j => ctx[i] # 0)
  BY DEF ParentSpan
<1>6. ctx[i] \in Invocations \cup {0} /\ context \in {j, ctx[i]}
  BY <1>1 DEF Types
<1>7. a \in {"wait", "next"} /\ b \in {"sent", "work"} /\ (s.sync => a = "wait")
  OBVIOUS
<1> HIDE DEF a, b, context, span, remote
<1>8. Types'
  <2>1. at' \in [Invocations -> States] /\ unit' \in [Invocations -> Units \cup {None}]
    BY <1>1, <1>2, <1>4, <1>7 DEF Types, States
  <2>2. caller' \in Callers
    BY <1>1, <1>2 DEF Callers
  <2>3. step[i] \in Nat \ {0} /\ index' \in [Invocations -> Nat]
    BY <1>1, <1>2 DEF Types
  <2>4. step' \in [Invocations -> Nat \ {0}]
    BY <1>1, <1>2, <2>3 DEF Types
  <2>5. ctx' \in [Invocations -> Invocations \cup {0}]
        /\ parent' \in [Invocations -> Invocations \cup {0}]
    BY <1>1, <1>2, <1>5, <1>6 DEF Types
  <2>6. QED
    BY <1>1, <1>2, <2>1, <2>2, <2>3, <2>4, <2>5 DEF Types
<1>9. /\ at'[i] = a /\ at'[j] = b /\ unit'[j] = s.unit /\ index'[j] = step[i]
      /\ ctx'[j] = context /\ parent'[j] = span /\ step'[i] = step[i] + 1
      /\ \A k \in Invocations \ {i, j} : at'[k] = at[k]
      /\ \A k \in Invocations \ {j} : /\ unit'[k] = unit[k] /\ index'[k] = index[k]
                                      /\ ctx'[k] = ctx[k] /\ parent'[k] = parent[k]
      /\ \A k \in Invocations \ {i} : step'[k] = step[k]
  BY <1>1, <1>2, <1>3 DEF Types
<1>10. Taken(j, i)
  BY <1>2, <1>9 DEF Taken
<1>11. /\ caller' \in Callers /\ Earlier(caller') /\ i < j
       /\ caller'[j] = i /\ \A k \in Invocations \ {j} : caller'[k] = caller[k]
       /\ \A k \in Invocations : caller[k] # j
  BY <1>10, TakenCallers
<1>12. /\ \A k \in Invocations \ {j} :
            PathOf(caller', k) = PathOf(caller, k) /\ PathOf(caller, k) \subseteq Invocations \ {j}
       /\ PathOf(caller', j) = {j} \cup PathOf(caller, i)
  BY <1>3, <1>10, TakenPaths
<1>13. \A k \in Invocations \ {j} :
         /\ IsSync(k)' <=> IsSync(k)
         /\ IsRemote(k)' <=> IsRemote(k)
         /\ AllSync(k)' <=> AllSync(k)
         /\ Cancelled(k)' <=> Cancelled(k)
         /\ Ended(k)' <=> Ended(k)
  <2>1. \A k \in Invocations \ {j} : Ended(k)' <=> Ended(k)
    BY <1>2, <1>7, <1>9 DEF Ended
  <2>2. QED
    BY <1>10, <2>1, TakenSame
\* The new call is synchronous when its caller waits for it.
<1>14. IsSync(j)' => at'[i] = "wait" /\ index'[j] = step'[i] - 1
  <2>1. IsSync(j)' => Successors[unit[i]][step[i]].sync
    BY <1>3, <1>9, <1>11 DEF IsSync
  <2>2. step[i] \in Nat
    BY <1>1 DEF Types
  <2>3. QED
    BY <1>7, <1>9, <2>1, <2>2
<1> HIDE DEF s
<1>15. Forest'
  <2> SUFFICES ASSUME NEW k \in Invocations
               PROVE  /\ at'[k] = "free" => caller'[k] = 0 /\ k \notin cancelled'
                      /\ at'[k] # "free" => unit'[k] \in Units /\ \A m \in 1 .. k - 1 : at'[m] # "free"
                      /\ caller'[k] # 0 => /\ caller'[k] < k
                                           /\ at'[caller'[k]] \in {"next", "wait", "closed"}
                      /\ at'[k] = "sent" => caller'[k] # 0
    BY DEF Forest
  <2>1. 1 .. k - 1 \subseteq Invocations
    BY InvocationAssumption DEF Invocations
  <2>2. \A m \in Invocations : at[m] # "free" => at'[m] # "free"
    BY <1>3, <1>7, <1>9
  <2>3. CASE k = j
    <3>1. \A m \in 1 .. k - 1 : at'[m] # "free"
      BY <1>2, <2>1, <2>2, <2>3 DEF NextFree
    <3>2. QED
      BY <1>3, <1>4, <1>7, <1>9, <1>11, <2>3, <3>1
  <2>4. CASE k # j
    <3>1. caller'[k] = caller[k] /\ unit'[k] = unit[k]
      BY <1>9, <1>11, <2>4
    <3>2. caller[k] # 0 => caller[k] \in Invocations \ {j}
      BY <1>1, <1>11 DEF Callers
    <3>3. caller[k] # 0 => caller[k] < k /\ at'[caller[k]] \in {"next", "wait", "closed"}
      BY <1>1, <1>7, <1>9, <3>2 DEF Forest
    <3>4. at'[k] = "free" => at[k] = "free"
      BY <2>2
    <3>5. at'[k] # "free" => at[k] # "free"
      BY <1>2, <1>9, <2>4
    <3>6. at[k] # "free" => unit[k] \in Units /\ \A m \in 1 .. k - 1 : at'[m] # "free"
      BY <1>1, <2>1, <2>2 DEF Forest
    <3>7. at'[k] = "sent" => at[k] = "sent"
      BY <1>7, <1>9, <2>4
    <3>8. QED
      BY <1>1, <1>2, <3>1, <3>3, <3>4, <3>5, <3>6, <3>7 DEF Forest
  <2>5. QED
    BY <2>3, <2>4
<1>16. Numbered'
  <2>1. step[i] \in Nat /\ \A k \in Invocations : index[k] \in Nat /\ step[k] \in Nat
    BY <1>1 DEF Types
  <2>2. ASSUME NEW k \in Invocations \ {j}, caller[k] # 0
        PROVE  /\ index'[k] \in DOMAIN Successors[unit'[caller'[k]]]
               /\ index'[k] < step'[caller'[k]] /\ index'[k] = index[k] /\ caller'[k] = caller[k]
               /\ caller[k] = i => index[k] < step[i]
    <3>1. caller[k] \in Invocations \ {j} /\ index'[k] = index[k] /\ caller'[k] = caller[k]
      BY <1>1, <1>9, <1>11, <2>2 DEF Callers
    <3>2. /\ unit'[caller[k]] = unit[caller[k]] /\ step[caller[k]] <= step'[caller[k]]
          /\ step'[caller[k]] \in Nat
      BY <1>9, <2>1, <3>1
    <3>3. index[k] \in DOMAIN Successors[unit[caller[k]]] /\ index[k] < step[caller[k]]
      BY <1>1, <2>2 DEF Numbered
    <3>4. QED
      BY <2>1, <3>1, <3>2, <3>3
  <2>3. /\ index'[j] = step[i] /\ caller'[j] = i /\ unit'[i] = unit[i] /\ step'[i] = step[i] + 1
        /\ step[i] \in DOMAIN Successors[unit[i]]
    BY <1>2, <1>3, <1>9, <1>11
  <2>4. ASSUME NEW k \in Invocations, caller'[k] # 0
        PROVE  /\ index'[k] \in DOMAIN Successors[unit'[caller'[k]]]
               /\ index'[k] < step'[caller'[k]]
    BY <1>11, <2>1, <2>2, <2>3, <2>4
  <2>5. ASSUME NEW k \in Invocations, NEW m \in Invocations,
               caller'[k] # 0, caller'[k] = caller'[m], index'[k] = index'[m]
        PROVE  k = m
    <3>1. CASE k # j /\ m # j
      BY <1>1, <1>9, <1>11, <2>5, <3>1 DEF Numbered
    <3>2. CASE k = j /\ m # j
      <4>1. caller[m] = i /\ index[m] = step[i] /\ caller[m] # 0
        BY <1>3, <1>9, <1>11, <2>5, <3>2
      <4>2. index[m] < step[i]
        BY <2>2, <3>2, <4>1
      <4>3. QED
        BY <2>1, <4>1, <4>2
    <3>3. CASE k # j /\ m = j
      <4>1. caller[k] = i /\ index[k] = step[i] /\ caller[k] # 0
        BY <1>3, <1>9, <1>11, <2>5, <3>3
      <4>2. index[k] < step[i]
        BY <2>2, <3>3, <4>1
      <4>3. QED
        BY <2>1, <4>1, <4>2
    <3>4. QED
      BY <3>1, <3>2, <3>3
  <2>6. QED
    BY <2>4, <2>5 DEF Numbered
<1>17. Order'
  <2> SUFFICES ASSUME NEW k \in Invocations, IsSync(k)',
                      at'[caller'[k]] \in {"next", "closed"}
                      \/ (at'[caller'[k]] = "wait" /\ index'[k] # step'[caller'[k]] - 1)
               PROVE  Ended(k)' \/ (IsRemote(k)' /\ Cancelled(caller[k])')
    BY DEF Order
  <2>1. k # j
    BY <1>11, <1>14
  <2>2. caller'[k] = caller[k] /\ caller[k] # 0 /\ IsSync(k)
    BY <1>11, <1>13, <2>1 DEF IsSync
  <2>3. caller[k] \in Invocations \ {j}
    BY <1>1, <1>11, <2>2 DEF Callers
  <2>4. Ended(k) \/ (IsRemote(k) /\ Cancelled(caller[k]))
    <3>1. CASE caller[k] = i
      BY <1>1, <1>2, <2>2, <3>1 DEF Order
    <3>2. CASE caller[k] # i
      <4>1. /\ at'[caller[k]] = at[caller[k]] /\ step'[caller[k]] = step[caller[k]]
            /\ index'[k] = index[k]
        BY <1>9, <2>1, <2>3, <3>2
      <4>2. QED
        BY <1>1, <2>2, <4>1 DEF Order
    <3>3. QED
      BY <3>1, <3>2
  <2>5. Cancelled(caller[k]) => Cancelled(caller[k])'
    <3>1. ctx'[caller[k]] = ctx[caller[k]]
      BY <1>9, <2>3
    <3>2. QED
      BY <1>2, <2>2, <3>1 DEF Cancelled
  <2>6. QED
    BY <1>13, <2>1, <2>4, <2>5
<1>18. Contexts'
  <2> SUFFICES ASSUME NEW k \in Invocations
               PROVE  ctx'[k] = 0 \/ ctx'[k] \in PathOf(caller', k)
    BY DEF Contexts
  <2>1. CASE k = j
    BY <1>1, <1>6, <1>9, <1>12, <2>1 DEF Contexts
  <2>2. CASE k # j
    BY <1>1, <1>9, <1>12, <2>2 DEF Contexts
  <2>3. QED
    BY <2>1, <2>2
<1>19. Connected'
  <2> SUFFICES ASSUME NEW k \in Invocations, caller'[k] # 0
               PROVE  parent'[k] \in PathOf(caller', k)
    BY DEF Connected
  <2>1. CASE k = j
    BY <1>1, <1>5, <1>9, <1>12, <2>1 DEF Contexts
  <2>2. CASE k # j
    BY <1>1, <1>9, <1>11, <1>12, <2>2 DEF Connected
  <2>3. QED
    BY <2>1, <2>2
<1>20. ByReturn'
  <2> SUFFICES ASSUME NEW r \in cancelled
               PROVE  \E k \in PathOf(caller', r) : IsRemote(k)' /\ at'[k] = "closed"
    BY <1>2 DEF ByReturn
  <2>1. PICK k \in PathOf(caller, r) : IsRemote(k) /\ at[k] = "closed"
    BY <1>1 DEF ByReturn
  <2>2. r \in Invocations \ {j}
    BY <1>1, <1>3 DEF Types
  <2>3. k \in Invocations \ {j} /\ k # i /\ k \in PathOf(caller', r)
    BY <1>2, <1>12, <2>1, <2>2
  <2>4. QED
    BY <1>9, <1>13, <2>1, <2>3
<1>21. Waiting'
  <2> SUFFICES ASSUME NEW k \in Invocations, at'[k] # "free", AllSync(k)'
               PROVE  /\ ~ Ended(k)' => \A m \in PathOf(caller', k) \ {k} : at'[m] = "wait"
                      /\ at'[k] # "failed"
    BY DEF Waiting
  <2>1. ASSUME NEW m \in Invocations, AllSync(m), at[m] # "free", ~ Ended(m)
        PROVE  \A n \in PathOf(caller, m) \ {m} : at[n] = "wait"
    BY <1>1, <2>1 DEF Waiting
  <2>2. ASSUME NEW n \in Invocations, at[n] = "wait"
        PROVE  at'[n] = "wait"
    BY <1>2, <1>3, <1>9, <2>2
  <2>3. CASE k = j
    <3>1. j \in PathOf(caller', j) /\ PathOf(caller, i) \subseteq PathOf(caller', j)
      BY <1>12
    <3>2. IsSync(j)'
      BY <1>3, <1>11, <2>3, <3>1 DEF AllSync
    <3>3. PathOf(caller', i) = PathOf(caller, i) /\ PathOf(caller, i) \subseteq Invocations
      BY <1>3, <1>12
    <3>4. AllSync(i)'
      BY <2>3, <3>1, <3>3 DEF AllSync
    <3>5. AllSync(i) /\ ~ Ended(i) /\ at[i] # "free"
      BY <1>2, <1>3, <1>13, <3>4 DEF Ended
    <3>6. \A m \in PathOf(caller, i) : at'[m] = "wait"
      BY <1>14, <2>1, <2>2, <3>2, <3>3, <3>5
    <3>7. at'[k] # "failed"
      BY <1>7, <1>9, <2>3
    <3>8. QED
      BY <1>12, <2>3, <3>6, <3>7
  <2>4. CASE k # j
    <3>1. PathOf(caller', k) = PathOf(caller, k) /\ PathOf(caller, k) \subseteq Invocations
      BY <1>12, <2>4
    <3>2. AllSync(k) /\ (Ended(k)' <=> Ended(k)) /\ at[k] # "free"
      BY <1>2, <1>9, <1>13, <2>4
    <3>3. at'[k] # "failed"
      <4>1. CASE k = i
        BY <1>7, <1>9, <4>1
      <4>2. CASE k # i
        BY <1>1, <1>9, <2>4, <3>2, <4>2 DEF Waiting
      <4>3. QED
        BY <4>1, <4>2
    <3>4. QED
      BY <2>1, <2>2, <3>1, <3>2, <3>3
  <2>5. QED
    BY <2>3, <2>4
<1>22. QED
  BY <1>8, <1>15, <1>16, <1>17, <1>18, <1>19, <1>20, <1>21 DEF Inv

-----------------------------------------------------------------------------
\* Every step preserves the invariant.
LEMMA InvNext ==
  ASSUME Inv, [Next]_vars
  PROVE  Inv'
<1>1. CASE UNCHANGED vars
  <2>1. /\ at' = at /\ unit' = unit /\ caller' = caller /\ index' = index /\ step' = step
        /\ ctx' = ctx /\ cancelled' = cancelled /\ parent' = parent /\ traces' = traces
    BY <1>1 DEF vars, links
  <2>2. QED
    BY <2>1 DEF Inv, Types, Forest, Numbered, Order, Contexts, ByReturn, Connected, Waiting,
       AllSync, IsSync, IsRemote, Ended, Cancelled
<1>2. CASE Next
  BY <1>2, GenerateInv, EmulateWorkInv, NextSuccessorInv, CallInv, CallFailsInv, CallLostInv,
     CancelHandlerInv, ResumeInv, CloseInv DEF Next, Progress
<1>3. QED
  BY <1>1, <1>2

\* The inductive invariant holds for every architecture and any number of
\* invocations.
THEOREM Invariant == Spec => []Inv
<1>1. QED
  BY Initially, InvNext, PTL DEF Spec

\* Every variable keeps its type, and each call the index of a successor of its
\* caller's unit.
THEOREM TypeCorrect == Spec => []TypeOK
<1>1. Inv => TypeOK
  BY DEF Inv, Types, Callers, States, Numbered, TypeOK
<1>2. QED
  BY <1>1, Invariant, PTL

\* A unit neither calls its next successor nor returns while a synchronous one
\* runs that the end of its own request has not cut off, in every unit graph and
\* for any number of invocations.
THEOREM SynchronousOrder == Spec => []SyncOrder
<1>1. Inv => SyncOrder
  BY DEF Inv, Order, SyncOrder
<1>2. QED
  BY <1>1, Invariant, PTL

\* The spans of every trace are connected.
THEOREM SpansOfTrace == Spec => []SpansConnected
<1>1. Inv => SpansConnected
  BY PathIs DEF Inv, Connected, SpansConnected
<1>2. QED
  BY <1>1, Invariant, PTL

\* No call fails that is synchronous, as every call above it is: nothing above it
\* can have returned.
THEOREM SyncCallsAllArrive == Spec => []SyncCallsArrive
<1>1. ASSUME Inv PROVE SyncCallsArrive
  <2> SUFFICES ASSUME NEW i \in Invocations,
                      \A j \in Path(i) : caller[j] = 0 \/ IsSync(j)
               PROVE  at[i] # "failed"
    BY DEF SyncCallsArrive
  <2>1. AllSync(i)
    BY PathIs DEF AllSync
  <2>2. QED
    BY <1>1, <2>1 DEF Inv, Waiting
<1>2. QED
  BY <1>1, Invariant, PTL
=============================================================================
