-------------------------- MODULE Organization_proofs --------------------------
(***************************************************************************)
(* Proofs about the parts of Organization, for any number of writers,      *)
(* requests, people, documents and model calls.  Each part has an          *)
(* inductive invariant of its own; the last section joins them into one of *)
(* the organization's specification.                                       *)
(***************************************************************************)
EXTENDS Organization, SequenceTheorems, FiniteSetTheorems, FunctionTheorems, TLAPS

(***************************************************************************)
(* StorageQuota.  The account of an organization: the lock of the          *)
(* decision makes what one operation read true until it has decided, and   *)
(* each of the named gaps adds to slipped what it lets through.            *)
(***************************************************************************)
-------------------------------------------------------------------------------
(***************************************************************************)
(* Sums.  MapThenSumSet takes the elements of a finite set in an order     *)
(* that does not depend on what they are mapped to, so two sums over the   *)
(* same set differ by the values they differ in.                           *)
(***************************************************************************)
\* What holds of every strict subset and then of the set holds of all subsets.
LEMMA Subsets ==
  ASSUME NEW S, IsFiniteSet(S), NEW Reached,
         \A P \in SUBSET S : (\A U \in SUBSET P : U # P => U \in Reached) => P \in Reached
  PROVE  SUBSET S \subseteq Reached
<1> DEFINE Left == (SUBSET S) \ Reached
<1> SUFFICES ASSUME Left # {} PROVE FALSE
  OBVIOUS
<1>1. FiniteSubsetsOf(S) = SUBSET S
  BY FS_FiniteSubsetsOfFinite
<1>2. IsWellFoundedOn(StrictSubsetOrdering(S), FiniteSubsetsOf(S))
  BY FS_StrictSubsetOrderingWellFounded
<1>4. IsWellFoundedOn(StrictSubsetOrdering(S), SUBSET S)
  BY <1>1, <1>2
<1>5. Left \subseteq SUBSET S /\ Left # {}
  OBVIOUS
<1> HIDE DEF Left
<1>6. \E P \in Left : \A U \in Left : ~ (<<U, P>> \in StrictSubsetOrdering(S))
  BY <1>4, <1>5, WFMin
<1>7. PICK P \in Left : \A U \in Left : ~ (<<U, P>> \in StrictSubsetOrdering(S))
  BY <1>6
<1> USE DEF Left
<1>3. \A U \in SUBSET P : U # P => U \in Reached
  <2> SUFFICES ASSUME NEW U \in SUBSET P, U # P, U \notin Reached PROVE FALSE
    OBVIOUS
  <2>1. U \in Left /\ <<U, P>> \in (SUBSET S) \X (SUBSET S)
    OBVIOUS
  <2>2. <<U, P>> \in StrictSubsetOrdering(S)
    BY <2>1 DEF StrictSubsetOrdering
  <2> QED BY <1>7, <2>1, <2>2
<1> QED BY <1>7, <1>3

Taken(s) == CHOOSE x \in s : TRUE
Sum(f, g, s) == IF s = {} THEN 0 ELSE f[Taken(s)] + g[s \ {Taken(s)}]
Sums(f, g, S) == g = [s \in SUBSET S |-> Sum(f, g, s)]

LEMMA SumsAgree ==
  ASSUME NEW f, NEW S, IsFiniteSet(S), NEW P \in SUBSET S, NEW U \in SUBSET S, NEW g, NEW h,
         Sums(f, g, P), Sums(f, h, U)
  PROVE  \A s \in SUBSET P : s \in SUBSET U => g[s] = h[s]
<1> DEFINE Reached == {s \in SUBSET S : s \in SUBSET P /\ s \in SUBSET U => g[s] = h[s]}
<1>1. ASSUME NEW s \in SUBSET S, \A r \in SUBSET s : r # s => r \in Reached, s \in SUBSET P,
             s \in SUBSET U
      PROVE  g[s] = h[s]
  <2>1. g[s] = Sum(f, g, s) /\ h[s] = Sum(f, h, s)
    BY <1>1 DEF Sums
  <2>2. CASE s = {}
    BY <2>1, <2>2 DEF Sum
  <2>3. CASE s # {}
    <3> DEFINE r == s \ {Taken(s)}
    <3>1. r \in SUBSET s /\ r # s /\ r \in SUBSET S /\ r \in SUBSET P /\ r \in SUBSET U
      BY <1>1, <2>3 DEF Taken
    <3>2. g[r] = h[r]
      BY <1>1, <3>1
    <3> QED BY <2>1, <2>3, <3>2 DEF Sum
  <2> QED BY <2>2, <2>3
<1>2. \A s \in SUBSET S : (\A r \in SUBSET s : r # s => r \in Reached) => s \in Reached
  BY <1>1
<1> HIDE DEF Reached
<1>3. SUBSET S \subseteq Reached
  BY <1>2, Subsets
<1> QED BY <1>3 DEF Reached

LEMMA SumsExist ==
  ASSUME NEW f, NEW S, IsFiniteSet(S)
  PROVE  \E g : Sums(f, g, S)
<1> DEFINE Reached == {P \in SUBSET S : \E g : Sums(f, g, P)}
<1>1. ASSUME NEW P \in SUBSET S, \A U \in SUBSET P : U # P => U \in Reached
      PROVE  \E g : Sums(f, g, P)
  <2> DEFINE piece(U) == CHOOSE g : Sums(f, g, U)
             val(U) == IF U = {} THEN 0 ELSE f[Taken(U)] + piece(U \ {Taken(U)})[U \ {Taken(U)}]
             g == [s \in SUBSET P |-> val(s)]
  <2>1. \A U \in SUBSET P : U # P => Sums(f, piece(U), U)
    BY <1>1
  <2>2. \A U \in SUBSET P : U # {} => /\ U \ {Taken(U)} \in SUBSET P
                                     /\ U \ {Taken(U)} # P /\ U \ {Taken(U)} # U
    BY DEF Taken
  <2> HIDE DEF piece
  <2>3. ASSUME NEW U \in SUBSET P, U # P PROVE piece(U)[U] = val(U)
    <3>1. Sums(f, piece(U), U)
      BY <2>1, <2>3
    <3>2. piece(U)[U] = Sum(f, piece(U), U)
      BY <3>1 DEF Sums
    <3>3. CASE U = {}
      BY <3>2, <3>3 DEF Sum
    <3>4. CASE U # {}
      <4> DEFINE V == U \ {Taken(U)}
      <4>1. V \in SUBSET P /\ V # P /\ V \in SUBSET U
        BY <2>2, <3>4
      <4>2. Sums(f, piece(V), V)
        BY <2>1, <4>1
      <4>3. piece(U)[V] = piece(V)[V]
        <5>1. U \in SUBSET S /\ V \in SUBSET S /\ V \in SUBSET V
          BY <4>1
        <5> HIDE DEF V
        <5> QED BY <3>1, <4>1, <4>2, <5>1, SumsAgree
      <4> QED BY <3>2, <3>4, <4>3 DEF Sum
    <3> QED BY <3>3, <3>4
  <2>4. ASSUME NEW s \in SUBSET P PROVE val(s) = Sum(f, g, s)
    <3>1. CASE s = {}
      BY <3>1 DEF Sum
    <3>2. CASE s # {}
      <4> DEFINE V == s \ {Taken(s)}
      <4>1. V \in SUBSET P /\ V # P
        BY <2>2, <3>2
      <4>2. piece(V)[V] = val(V) /\ g[V] = val(V)
        BY <2>3, <4>1
      <4>3. val(s) = f[Taken(s)] + piece(V)[V]
        BY <3>2
      <4>4. Sum(f, g, s) = f[Taken(s)] + g[V]
        BY <3>2 DEF Sum
      <4> QED BY <4>2, <4>3, <4>4
    <3> QED BY <3>1, <3>2
  <2> HIDE DEF val
  <2>5. g = [s \in SUBSET P |-> Sum(f, g, s)]
    BY <2>4
  <2> HIDE DEF g
  <2> QED BY <2>5 DEF Sums
<1>2. \A P \in SUBSET S : (\A U \in SUBSET P : U # P => U \in Reached) => P \in Reached
  BY <1>1
<1> HIDE DEF Reached
<1>3. SUBSET S \subseteq Reached
  BY <1>2, Subsets
<1> QED BY <1>3 DEF Reached

LEMMA TotalIs ==
  ASSUME NEW f, IsFiniteSet(DOMAIN f)
  PROVE  \E g : Sums(f, g, DOMAIN f) /\ Total(f) = g[DOMAIN f]
<1> DEFINE S == DOMAIN f
           g == CHOOSE g : g = [s \in SUBSET S |-> IF s = {} THEN 0
                    ELSE f[CHOOSE x \in s : TRUE] + g[s \ {CHOOSE x \in s : TRUE}]]
<1>1. Total(f) = g[S]
  BY DEF Total, MapThenSumSet, MapThenFoldSet
<1>2. g = CHOOSE h : Sums(f, h, S)
  BY DEF Sums, Sum, Taken
<1>3. Sums(f, g, S)
  BY <1>2, SumsExist
<1> HIDE DEF g
<1> QED BY <1>1, <1>3

LEMMA TotalNat ==
  ASSUME NEW S, IsFiniteSet(S), NEW f \in [S -> Nat]
  PROVE  Total(f) \in Nat
<1>1. PICK g : Sums(f, g, S) /\ Total(f) = g[S]
  BY TotalIs
<1> DEFINE Reached == {s \in SUBSET S : g[s] \in Nat}
<1>2. ASSUME NEW s \in SUBSET S, \A r \in SUBSET s : r # s => r \in Reached
      PROVE  g[s] \in Nat
  <2>1. g[s] = Sum(f, g, s)
    BY <1>1 DEF Sums
  <2>2. CASE s # {}
    <3>1. Taken(s) \in s /\ f[Taken(s)] \in Nat
      BY <2>2 DEF Taken
    <3>2. s \ {Taken(s)} \in SUBSET s /\ s \ {Taken(s)} # s
      BY <3>1
    <3>3. g[s \ {Taken(s)}] \in Nat
      BY <1>2, <3>2
    <3> QED BY <2>1, <2>2, <3>1, <3>3 DEF Sum
  <2> QED BY <2>1, <2>2 DEF Sum
<1>3. \A s \in SUBSET S : (\A r \in SUBSET s : r # s => r \in Reached) => s \in Reached
  BY <1>2
<1> HIDE DEF Reached
<1>4. SUBSET S \subseteq Reached
  BY <1>3, Subsets
<1> QED BY <1>1, <1>4 DEF Reached

LEMMA TotalZero ==
  ASSUME NEW S, IsFiniteSet(S), NEW f, f = [x \in S |-> 0]
  PROVE  Total(f) = 0
<1>1. PICK g : Sums(f, g, S) /\ Total(f) = g[S]
  BY TotalIs
<1> DEFINE Reached == {s \in SUBSET S : g[s] = 0}
<1>2. ASSUME NEW s \in SUBSET S, \A r \in SUBSET s : r # s => r \in Reached
      PROVE  g[s] = 0
  <2>1. g[s] = Sum(f, g, s)
    BY <1>1 DEF Sums
  <2>2. CASE s # {}
    <3>1. Taken(s) \in s /\ f[Taken(s)] = 0
      BY <2>2 DEF Taken
    <3>2. s \ {Taken(s)} \in SUBSET s /\ s \ {Taken(s)} # s
      BY <3>1
    <3>3. g[s \ {Taken(s)}] = 0
      BY <1>2, <3>2
    <3> QED BY <2>1, <2>2, <3>1, <3>3 DEF Sum
  <2> QED BY <2>1, <2>2 DEF Sum
<1>3. \A s \in SUBSET S : (\A r \in SUBSET s : r # s => r \in Reached) => s \in Reached
  BY <1>2
<1> HIDE DEF Reached
<1>4. SUBSET S \subseteq Reached
  BY <1>3, Subsets
<1> QED BY <1>1, <1>4 DEF Reached

\* Two functions that differ at w differ in their sums by that.
LEMMA TotalChanges ==
  ASSUME NEW S, IsFiniteSet(S), NEW f \in [S -> Nat], NEW e \in [S -> Nat], NEW w \in S,
         \A v \in S : v # w => e[v] = f[v]
  PROVE  Total(e) + f[w] = Total(f) + e[w]
<1>1. PICK g : Sums(f, g, S) /\ Total(f) = g[S]
  BY TotalIs
<1>2. PICK h : Sums(e, h, S) /\ Total(e) = h[S]
  BY TotalIs
<1> DEFINE Good(s) == /\ g[s] \in Nat /\ h[s] \in Nat
                      /\ w \notin s => g[s] = h[s]
                      /\ w \in s => h[s] + f[w] = g[s] + e[w]
           Reached == {s \in SUBSET S : Good(s)}
<1>3. ASSUME NEW s \in SUBSET S, \A r \in SUBSET s : r # s => r \in Reached
      PROVE  Good(s)
  <2>1. g[s] = Sum(f, g, s) /\ h[s] = Sum(e, h, s)
    BY <1>1, <1>2 DEF Sums
  <2>2. CASE s # {}
    <3> DEFINE x == Taken(s)
               r == s \ {x}
    <3>1. x \in s /\ f[x] \in Nat /\ e[x] \in Nat /\ f[w] \in Nat /\ e[w] \in Nat
      BY <2>2 DEF Taken
    <3>2. r \in SUBSET s /\ r # s
      BY <3>1
    <3>3. Good(r)
      BY <1>3, <3>2
    <3>4. g[s] = f[x] + g[r] /\ h[s] = e[x] + h[r]
      BY <2>1, <2>2 DEF Sum
    <3>5. x # w => (w \in r <=> w \in s) /\ e[x] = f[x]
      BY <3>1
    <3>6. x = w => w \notin r
      OBVIOUS
    <3> HIDE DEF x, r
    <3>7. CASE x = w
      BY <3>1, <3>3, <3>4, <3>6, <3>7
    <3>8. CASE x # w
      BY <3>1, <3>3, <3>4, <3>5, <3>8
    <3> QED BY <3>7, <3>8
  <2> QED BY <2>1, <2>2 DEF Sum
<1>4. \A s \in SUBSET S : (\A r \in SUBSET s : r # s => r \in Reached) => s \in Reached
  BY <1>3
<1> HIDE DEF Reached
<1>5. SUBSET S \subseteq Reached
  BY <1>4, Subsets
<1>6. Good(S)
  BY <1>5 DEF Reached
<1> QED BY <1>1, <1>2, <1>6

-------------------------------------------------------------------------------
(* What the reservation of w holds, and what w is still about to use after  *)
(* its reservation expired.                                                 *)
Held(w) == IF reservation[w].live THEN reservation[w].size ELSE 0
Late(w) == IF ~ reservation[w].live /\ op[w].pc = "write" THEN reservation[w].size ELSE 0
LateTotal == Total([w \in Writers |-> Late(w)])

(* The transaction that decides is the one that holds the organization.     *)
LockHeld == \A w \in Writers : op[w].pc \in {"reserved", "decide"} <=> lock = w

(* A reservation is there between the decision and the end of the write.    *)
Bracketed == \A w \in Writers :
                op[w].pc \notin {"write", "release", "dead"} => reservation[w] = NoReservation

(* An operation that has not begun has no key.                              *)
FreshKeys == \A w \in Writers : op[w].pc = "idle" => op[w].key \notin Keys

Keyed == \A w \in Writers : op[w].kind = "derived" <=> op[w].key \in Keys

(* An upload reserved all of its bytes.                                     *)
Sized == \A w \in Writers :
            op[w].pc = "write" /\ op[w].kind # "derived" => reservation[w].size = op[w].size

(* The account, with what is late counted twice: as slipped and as expected.*)
Room == /\ LateTotal <= slipped
        /\ Used + Reserved + LateTotal <= Quota + slipped
        /\ Reserved <= Quota

(* What a deciding transaction has seen is what there is, or it slipped.    *)
Seen == \A w \in Writers :
          /\ op[w].pc = "reserved" => Used + LateTotal <= op[w].seen + slipped
          /\ op[w].pc = "decide" => /\ Used + Reserved + LateTotal <= op[w].seen + slipped
                                    /\ Reserved <= op[w].seen

QuotaIInv == TypeOK /\ LockHeld /\ Bracketed /\ FreshKeys /\ Keyed /\ Sized /\ Room /\ Seen

LEMMA Naturals ==
  ASSUME TypeOK
  PROVE  /\ \A w \in Writers : Held(w) \in Nat /\ Late(w) \in Nat
         /\ Used \in Nat /\ Reserved \in Nat /\ LateTotal \in Nat
<1>1. \A w \in Writers : reservation[w].size \in Nat /\ reservation[w].live \in BOOLEAN
  BY DEF TypeOK
<1>2. \A w \in Writers : Held(w) \in Nat /\ Late(w) \in Nat
  BY <1>1 DEF Held, Late
<1>3. Total(version) \in Nat /\ Total(asset) \in Nat
  BY TotalNat, FiniteAssumption DEF TypeOK
<1>4. [w \in Writers |-> Held(w)] \in [Writers -> Nat]
      /\ [w \in Writers |-> Late(w)] \in [Writers -> Nat]
  BY <1>2
<1>5. Total([w \in Writers |-> Held(w)]) \in Nat /\ LateTotal \in Nat
  BY <1>4, TotalNat, FiniteAssumption DEF LateTotal
<1>6. Reserved = Total([w \in Writers |-> Held(w)])
  BY DEF Reserved, Held
<1> QED BY <1>2, <1>3, <1>5, <1>6 DEF Used

LEMMA NaturalsNext ==
  ASSUME TypeOK'
  PROVE  /\ \A w \in Writers : Held(w)' \in Nat /\ Late(w)' \in Nat
         /\ Used' \in Nat /\ Reserved' \in Nat /\ LateTotal' \in Nat
<1> DEFINE f == [w \in Writers |-> Held(w)']
           e == [w \in Writers |-> Late(w)']
           v == version'
           a == asset'
<1>1. \A w \in Writers : Held(w)' \in Nat /\ Late(w)' \in Nat
  BY DEF Held, Late, TypeOK
<1>2. Used' = Total(v) + Total(a) /\ Reserved' = Total(f) /\ LateTotal' = Total(e)
  BY DEF Used, Reserved, LateTotal, Held, Total, MapThenSumSet, MapThenFoldSet
<1>3. /\ f \in [Writers -> Nat] /\ e \in [Writers -> Nat]
      /\ v \in [Writers -> Nat] /\ a \in [Keys -> Nat]
  BY <1>1 DEF TypeOK
<1> HIDE DEF f, e, v, a
<1>4. Total(v) \in Nat /\ Total(a) \in Nat /\ Total(f) \in Nat /\ Total(e) \in Nat
  BY <1>3, TotalNat, FiniteAssumption
<1> QED BY <1>1, <1>2, <1>4

(* Only the reservation of w changes.                                       *)
LEMMA ReservedChanges ==
  ASSUME TypeOK, TypeOK', NEW w \in Writers,
         \A v \in Writers : v # w => reservation'[v] = reservation[v]
  PROVE  Reserved' + Held(w) = Reserved + Held(w)'
<1> DEFINE f == [v \in Writers |-> Held(v)]
           e == [v \in Writers |-> Held(v)']
<1>1. f \in [Writers -> Nat] /\ e \in [Writers -> Nat]
  BY DEF TypeOK, Held
<1>2. Reserved = Total(f) /\ Reserved' = Total(e)
  BY DEF Reserved, Held, Total, MapThenSumSet, MapThenFoldSet
<1>3. \A v \in Writers : v # w => e[v] = f[v]
  BY DEF Held
<1>4. f[w] = Held(w) /\ e[w] = Held(w)'
  OBVIOUS
<1> HIDE DEF f, e
<1>5. Total(e) + f[w] = Total(f) + e[w]
  BY <1>1, <1>3, TotalChanges, FiniteAssumption
<1> QED BY <1>2, <1>4, <1>5

LEMMA LateChanges ==
  ASSUME TypeOK, TypeOK', NEW w \in Writers,
         \A v \in Writers : v # w => reservation'[v] = reservation[v] /\ op'[v] = op[v]
  PROVE  LateTotal' + Late(w) = LateTotal + Late(w)'
<1> DEFINE f == [v \in Writers |-> Late(v)]
           e == [v \in Writers |-> Late(v)']
<1>1. f \in [Writers -> Nat] /\ e \in [Writers -> Nat]
  BY DEF TypeOK, Late
<1>2. LateTotal = Total(f) /\ LateTotal' = Total(e)
  BY DEF LateTotal, Total, MapThenSumSet, MapThenFoldSet
<1>3. \A v \in Writers : v # w => e[v] = f[v]
  BY DEF Late
<1>4. f[w] = Late(w) /\ e[w] = Late(w)'
  OBVIOUS
<1> HIDE DEF f, e
<1>5. Total(e) + f[w] = Total(f) + e[w]
  BY <1>1, <1>3, TotalChanges, FiniteAssumption
<1> QED BY <1>2, <1>4, <1>5

(* Sums of a state and of the next.                                         *)
LEMMA UsedIs ==
  ASSUME NEW v, NEW a, NEW x, NEW y, v = version, a = asset, x = version', y = asset'
  PROVE  Used = Total(v) + Total(a) /\ Used' = Total(x) + Total(y)
BY DEF Used, Total, MapThenSumSet, MapThenFoldSet

LEMMA UploadUses ==
  ASSUME TypeOK, TypeOK', NEW w \in Writers, NEW n \in Nat,
         version' = [version EXCEPT ![w] = n], UNCHANGED asset
  PROVE  Used' <= Used + n
<1> DEFINE v == version
           a == asset
           x == version'
           y == asset'
<1>1. /\ v \in [Writers -> Nat] /\ x \in [Writers -> Nat] /\ a \in [Keys -> Nat] /\ y = a
      /\ x[w] = n /\ \A u \in Writers : u # w => x[u] = v[u]
  BY DEF TypeOK
<1>2. Used = Total(v) + Total(a) /\ Used' = Total(x) + Total(y)
  BY UsedIs
<1> HIDE DEF v, a, x, y
<1>3. Total(x) + v[w] = Total(v) + x[w]
  BY <1>1, TotalChanges, FiniteAssumption
<1>4. Total(v) \in Nat /\ Total(x) \in Nat /\ Total(a) \in Nat /\ v[w] \in Nat
  BY <1>1, TotalNat, FiniteAssumption
<1> QED BY <1>1, <1>2, <1>3, <1>4

LEMMA DerivedUses ==
  ASSUME TypeOK, TypeOK', NEW k \in Keys, NEW n \in Nat,
         asset' = [asset EXCEPT ![k] = n], UNCHANGED version
  PROVE  Used' + asset[k] = Used + n
<1> DEFINE v == version
           a == asset
           x == version'
           y == asset'
<1>1. /\ v \in [Writers -> Nat] /\ a \in [Keys -> Nat] /\ y \in [Keys -> Nat] /\ x = v
      /\ y[k] = n /\ \A u \in Keys : u # k => y[u] = a[u]
  BY DEF TypeOK
<1>2. Used = Total(v) + Total(a) /\ Used' = Total(x) + Total(y)
  BY UsedIs
<1>5. a[k] = asset[k]
  OBVIOUS
<1> HIDE DEF v, a, x, y
<1>3. Total(y) + a[k] = Total(a) + y[k]
  BY <1>1, TotalChanges, FiniteAssumption
<1>4. Total(a) \in Nat /\ Total(y) \in Nat /\ Total(v) \in Nat /\ a[k] \in Nat
  BY <1>1, TotalNat, FiniteAssumption
<1> QED BY <1>1, <1>2, <1>3, <1>4, <1>5

-------------------------------------------------------------------------------
Operations == [pc : Steps, kind : {"direct", "chunked", "derived"},
               key : Keys \cup {None}, size : Nat, seen : Nat]

(* The operation w becomes r, the others are where they were.               *)
LEMMA OpReplaced ==
  ASSUME TypeOK, NEW w \in Writers, NEW r \in Operations, op' = [op EXCEPT ![w] = r]
  PROVE  /\ op' \in [Writers -> Operations] /\ op'[w] = r
         /\ \A v \in Writers : v # w => op'[v] = op[v]
BY DEF TypeOK, Operations

LEMMA GoToMoves ==
  ASSUME TypeOK, NEW w \in Writers, NEW pc \in Steps, GoTo(w, pc)
  PROVE  /\ op' \in [Writers -> Operations]
         /\ op'[w].pc = pc /\ op'[w].kind = op[w].kind /\ op'[w].key = op[w].key
         /\ op'[w].size = op[w].size /\ op'[w].seen = op[w].seen
         /\ \A v \in Writers : v # w => op'[v] = op[v]
<1> DEFINE r == [op[w] EXCEPT !.pc = pc]
<1>1. r \in Operations /\ r.pc = pc /\ r.kind = op[w].kind /\ r.key = op[w].key
      /\ r.size = op[w].size /\ r.seen = op[w].seen
  BY DEF TypeOK, Operations
<1>2. op' = [op EXCEPT ![w] = r]
  BY DEF GoTo
<1> HIDE DEF r
<1> QED BY <1>1, <1>2, OpReplaced

LEMMA SeesMoves ==
  ASSUME TypeOK, NEW w \in Writers, NEW pc \in Steps, NEW seen \in Nat,
         op' = [op EXCEPT ![w] = [@ EXCEPT !.pc = pc, !.seen = seen]]
  PROVE  /\ op' \in [Writers -> Operations]
         /\ op'[w].pc = pc /\ op'[w].kind = op[w].kind /\ op'[w].key = op[w].key
         /\ op'[w].size = op[w].size /\ op'[w].seen = seen
         /\ \A v \in Writers : v # w => op'[v] = op[v]
<1> DEFINE r == [op[w] EXCEPT !.pc = pc, !.seen = seen]
<1>1. r \in Operations /\ r.pc = pc /\ r.kind = op[w].kind /\ r.key = op[w].key
      /\ r.size = op[w].size /\ r.seen = seen
  BY DEF TypeOK, Operations
<1>2. op' = [op EXCEPT ![w] = r]
  OBVIOUS
<1> HIDE DEF r
<1> QED BY <1>1, <1>2, OpReplaced

LEMMA QuotaStartMoves ==
  ASSUME TypeOK, FreshKeys, NEW w \in Writers, Start(w)
  PROVE  /\ op' \in [Writers -> Operations]
         /\ op'[w].pc = "lock" /\ (op'[w].kind = "derived" <=> op'[w].key \in Keys)
         /\ \A v \in Writers : v # w => op'[v] = op[v]
<1>1. ASSUME NEW kind \in {"direct", "chunked"}, NEW size \in Sizes,
             op' = [op EXCEPT ![w] = [@ EXCEPT !.pc = "lock", !.kind = kind, !.size = size]]
      PROVE  /\ op' \in [Writers -> Operations]
             /\ op'[w].pc = "lock" /\ (op'[w].kind = "derived" <=> op'[w].key \in Keys)
             /\ \A v \in Writers : v # w => op'[v] = op[v]
  <2> DEFINE r == [op[w] EXCEPT !.pc = "lock", !.kind = kind, !.size = size]
  <2>1. r \in Operations /\ r.pc = "lock" /\ r.kind = kind /\ r.key = op[w].key
    BY QuotaAssumption DEF TypeOK, Operations, Steps
  <2>2. op' = [op EXCEPT ![w] = r]
    BY <1>1
  <2> HIDE DEF r
  <2>3. op[w].key \notin Keys
    BY DEF Start, FreshKeys
  <2> QED BY <2>1, <2>2, <2>3, OpReplaced
<1>2. ASSUME NEW key \in Keys, NEW size \in Sizes,
             op' = [op EXCEPT ![w] = [@ EXCEPT !.pc = "lock", !.kind = "derived",
                                               !.key = key, !.size = size]]
      PROVE  /\ op' \in [Writers -> Operations]
             /\ op'[w].pc = "lock" /\ (op'[w].kind = "derived" <=> op'[w].key \in Keys)
             /\ \A v \in Writers : v # w => op'[v] = op[v]
  <2> DEFINE r == [op[w] EXCEPT !.pc = "lock", !.kind = "derived", !.key = key, !.size = size]
  <2>1. r \in Operations /\ r.pc = "lock" /\ r.kind = "derived" /\ r.key = key
    BY QuotaAssumption DEF TypeOK, Operations, Steps
  <2>2. op' = [op EXCEPT ![w] = r]
    BY <1>2
  <2> HIDE DEF r
  <2> QED BY <2>1, <2>2, OpReplaced
<1> QED BY <1>1, <1>2 DEF Start

LEMMA Faulted ==
  ASSUME TypeOK, NEW f, Faulty(f)
  PROVE  faults' \in 0 .. MaxFaults
BY BoundsAssumption DEF Faulty, TypeOK

LEMMA ReleasedMoves ==
  ASSUME TypeOK, NEW w \in Writers, reservation' = Released(w)
  PROVE  /\ reservation' \in [Writers -> [size : Nat, live : BOOLEAN]]
         /\ reservation'[w] = NoReservation
         /\ \A v \in Writers : v # w => reservation'[v] = reservation[v]
BY DEF TypeOK, Released, NoReservation

LEMMA Balance ==
  ASSUME NEW a \in Nat, NEW b \in Nat, NEW h \in Nat, NEW k \in Nat, a + h = b + k
  PROVE  (h = k => a = b) /\ (h = 0 => a = b + k)
OBVIOUS

LEMMA RoomKept ==
  ASSUME NEW u \in Nat, NEW r \in Nat, NEW l \in Nat, NEW m \in Nat, NEW s \in Nat, NEW q \in Nat,
         l <= s, u + r + l <= q + s, m <= l
  PROVE  m <= s /\ u + r + m <= q + s
OBVIOUS

(* The account when w moves and leaves its reservation and the sums alone.  *)
LEMMA IdleOperation ==
  ASSUME QuotaIInv, TypeOK', NEW w \in Writers,
         UNCHANGED <<version, asset, reservation, slipped>>,
         \A v \in Writers : v # w => op'[v] = op[v],
         op[w].pc # "write", op'[w].pc # "write"
  PROVE  /\ Room' /\ Used' = Used /\ Reserved' = Reserved /\ LateTotal' = LateTotal
<1>1. TypeOK /\ Room
  BY DEF QuotaIInv
<1>2. Used' = Used
  BY UsedIs
<1>3. Held(w)' = Held(w) /\ Late(w)' = 0 /\ Late(w) = 0
  BY DEF Held, Late
<1>4. Reserved' + Held(w) = Reserved + Held(w)' /\ LateTotal' + Late(w) = LateTotal + Late(w)'
  BY <1>1, ReservedChanges, LateChanges
<1>5. Reserved \in Nat /\ LateTotal \in Nat /\ Held(w) \in Nat /\ Reserved' \in Nat
      /\ LateTotal' \in Nat
  BY <1>1, Naturals, NaturalsNext
<1>6. Reserved' = Reserved /\ LateTotal' = LateTotal
  <2>1. Held(w)' \in Nat /\ Late(w)' \in Nat /\ Late(w) \in Nat
    BY <1>3, <1>5
  <2>2. Reserved' = Reserved
    BY <1>3, <1>4, <1>5, <2>1, Balance
  <2>3. LateTotal' = LateTotal
    <3>1. Late(w) = Late(w)'
      BY <1>3
    <3>2. LateTotal' + Late(w) = LateTotal + Late(w)'
      BY <1>4
    <3> QED BY <1>5, <2>1, <3>1, <3>2, Balance
  <2> QED BY <2>2, <2>3
<1> QED BY <1>1, <1>2, <1>6 DEF Room

LEMMA QuotaStartKeeps ==
  ASSUME QuotaIInv, NEW w \in Writers, Start(w)
  PROVE  QuotaIInv'
<1>1. /\ TypeOK /\ LockHeld /\ Bracketed /\ FreshKeys /\ Keyed /\ Sized /\ Room /\ Seen
      /\ op[w].pc = "idle" /\ UNCHANGED <<lock, version, asset, reservation, slipped, faults>>
  BY DEF QuotaIInv, Start
<1>2. /\ op' \in [Writers -> Operations]
      /\ op'[w].pc = "lock" /\ (op'[w].kind = "derived" <=> op'[w].key \in Keys)
      /\ \A v \in Writers : v # w => op'[v] = op[v]
  BY <1>1, QuotaStartMoves
<1>3. TypeOK'
  BY <1>1, <1>2 DEF TypeOK, Operations
<1>4. Room' /\ Used' = Used /\ Reserved' = Reserved /\ LateTotal' = LateTotal
  BY <1>1, <1>2, <1>3, IdleOperation
<1>5. Seen'
  BY <1>1, <1>2, <1>4 DEF Seen
<1>6. LockHeld' /\ Bracketed' /\ FreshKeys' /\ Keyed' /\ Sized'
  BY <1>1, <1>2 DEF LockHeld, Bracketed, FreshKeys, Keyed, Sized
<1> QED BY <1>3, <1>4, <1>5, <1>6 DEF QuotaIInv

LEMMA ReadUsedKeeps ==
  ASSUME QuotaIInv, NEW w \in Writers, ReadUsed(w)
  PROVE  QuotaIInv'
<1>1. /\ TypeOK /\ LockHeld /\ Bracketed /\ FreshKeys /\ Keyed /\ Sized /\ Room /\ Seen
      /\ op[w].pc = "lock" /\ lock = None /\ lock' = w
      /\ UNCHANGED <<version, asset, reservation, slipped, faults>>
  BY DEF QuotaIInv, ReadUsed
<1>2. Used \in Nat /\ LateTotal \in Nat /\ slipped \in Nat
  BY <1>1, Naturals DEF TypeOK
<1>3. /\ op' \in [Writers -> Operations]
      /\ op'[w].pc = "reserved" /\ op'[w].kind = op[w].kind /\ op'[w].key = op[w].key
      /\ op'[w].size = op[w].size /\ op'[w].seen = Used
      /\ \A v \in Writers : v # w => op'[v] = op[v]
  <2>1. op' = [op EXCEPT ![w] = [@ EXCEPT !.pc = "reserved", !.seen = Used]]
        /\ "reserved" \in Steps
    BY DEF ReadUsed, Steps
  <2> QED BY <1>1, <1>2, <2>1, SeesMoves
<1>4. TypeOK'
  BY <1>1, <1>3 DEF TypeOK, Operations
<1>5. Room' /\ Used' = Used /\ Reserved' = Reserved /\ LateTotal' = LateTotal
  BY <1>1, <1>3, <1>4, IdleOperation
<1>6. Seen'
  <2>1. Used + LateTotal <= Used + slipped
    BY <1>1, <1>2 DEF Room
  <2> QED BY <1>1, <1>3, <1>5, <2>1 DEF Seen
<1>7. LockHeld' /\ Bracketed' /\ FreshKeys' /\ Keyed' /\ Sized'
  BY <1>1, <1>3, NoneAssumption DEF LockHeld, Bracketed, FreshKeys, Keyed, Sized
<1> QED BY <1>4, <1>5, <1>6, <1>7 DEF QuotaIInv

LEMMA ReadReservedKeeps ==
  ASSUME QuotaIInv, NEW w \in Writers, ReadReserved(w)
  PROVE  QuotaIInv'
<1>1. /\ TypeOK /\ LockHeld /\ Bracketed /\ FreshKeys /\ Keyed /\ Sized /\ Room /\ Seen
      /\ op[w].pc = "reserved" /\ UNCHANGED <<lock, version, asset, reservation, slipped, faults>>
  BY DEF QuotaIInv, ReadReserved
<1>2. /\ Used \in Nat /\ LateTotal \in Nat /\ slipped \in Nat /\ Reserved \in Nat
      /\ op[w].seen \in Nat
  BY <1>1, Naturals DEF TypeOK
<1>3. /\ op' \in [Writers -> Operations]
      /\ op'[w].pc = "decide" /\ op'[w].kind = op[w].kind /\ op'[w].key = op[w].key
      /\ op'[w].size = op[w].size /\ op'[w].seen = op[w].seen + Reserved
      /\ \A v \in Writers : v # w => op'[v] = op[v]
  <2> DEFINE n == op[w].seen + Reserved
             r == [op[w] EXCEPT !.pc = "decide", !.seen = op[w].seen + Reserved]
  <2>1. op' = [op EXCEPT ![w] = r]
    BY DEF ReadReserved
  <2>2. n \in Nat /\ op[w] \in Operations
    BY <1>1, <1>2 DEF TypeOK, Operations
  <2>3. r = [op[w] EXCEPT !.pc = "decide", !.seen = n]
    BY <2>2 DEF Operations
  <2> HIDE DEF n, r
  <2>4. r \in Operations /\ r.pc = "decide" /\ r.kind = op[w].kind /\ r.key = op[w].key
        /\ r.size = op[w].size /\ r.seen = n
    BY <2>2, <2>3 DEF Operations, Steps
  <2>5. op' \in [Writers -> Operations] /\ op'[w] = r
        /\ \A v \in Writers : v # w => op'[v] = op[v]
    BY <1>1, <2>1, <2>4, OpReplaced
  <2> QED BY <2>4, <2>5 DEF n
<1>4. TypeOK'
  BY <1>1, <1>3 DEF TypeOK, Operations
<1>5. Room' /\ Used' = Used /\ Reserved' = Reserved /\ LateTotal' = LateTotal
  BY <1>1, <1>3, <1>4, IdleOperation
<1>6. Seen'
  <2>1. Used + LateTotal <= op[w].seen + slipped
    BY <1>1 DEF Seen
  <2>2. /\ Used + Reserved + LateTotal <= (op[w].seen + Reserved) + slipped
        /\ Reserved <= op[w].seen + Reserved
    BY <1>2, <2>1
  <2>3. \A v \in Writers : v # w => op[v].pc \notin {"reserved", "decide"}
    BY <1>1 DEF LockHeld
  <2> QED BY <1>1, <1>3, <1>5, <2>2, <2>3 DEF Seen
<1>7. LockHeld' /\ Bracketed' /\ FreshKeys' /\ Keyed' /\ Sized'
  BY <1>1, <1>3 DEF LockHeld, Bracketed, FreshKeys, Keyed, Sized
<1> QED BY <1>4, <1>5, <1>6, <1>7 DEF QuotaIInv

LEMMA QuotaReserveKeeps ==
  ASSUME QuotaIInv, NEW w \in Writers, Reserve(w)
  PROVE  QuotaIInv'
<1>1. /\ TypeOK /\ LockHeld /\ Bracketed /\ FreshKeys /\ Keyed /\ Sized /\ Room /\ Seen
      /\ op[w].pc = "decide" /\ lock' = None /\ UNCHANGED <<version, asset, slipped, faults>>
  BY DEF QuotaIInv, Reserve
<1>2. /\ Used \in Nat /\ LateTotal \in Nat /\ slipped \in Nat /\ Reserved \in Nat
      /\ op[w].seen \in Nat /\ Quota \in Nat
  BY <1>1, Naturals, QuotaAssumption DEF TypeOK
<1>3. \A v \in Writers : v # w => op[v].pc \notin {"reserved", "decide"}
  BY <1>1 DEF LockHeld
<1>4. lock = w
  BY <1>1 DEF LockHeld
<1>5. CASE GoTo(w, "rejected") /\ UNCHANGED reservation
  <2>1. /\ op' \in [Writers -> Operations]
        /\ op'[w].pc = "rejected" /\ op'[w].kind = op[w].kind /\ op'[w].key = op[w].key
        /\ op'[w].size = op[w].size /\ op'[w].seen = op[w].seen
        /\ \A v \in Writers : v # w => op'[v] = op[v]
    BY <1>1, <1>5, GoToMoves DEF Steps
  <2>2. TypeOK'
    BY <1>1, <1>5, <2>1 DEF TypeOK, Operations
  <2>3. Room' /\ Used' = Used /\ Reserved' = Reserved /\ LateTotal' = LateTotal
    BY <1>1, <1>5, <2>1, <2>2, IdleOperation
  <2>4. Seen'
    BY <1>1, <1>3, <2>1, <2>3 DEF Seen
  <2>5. LockHeld' /\ Bracketed' /\ FreshKeys' /\ Keyed' /\ Sized'
    BY <1>1, <1>3, <1>5, <2>1, NoneAssumption DEF LockHeld, Bracketed, FreshKeys, Keyed, Sized
  <2> QED BY <2>2, <2>3, <2>4, <2>5 DEF QuotaIInv
<1>6. CASE /\ ~ (op[w].seen + Growth(w) > Quota)
           /\ reservation' = [reservation EXCEPT ![w] = [size |-> Growth(w), live |-> Growth(w) > 0]]
           /\ GoTo(w, "write")
  <2> DEFINE n == Growth(w)
  <2>1. n \in Nat /\ (op[w].kind # "derived" => n = op[w].size)
    BY <1>1 DEF TypeOK, Growth, Positive, Keyed
  <2>2. /\ op' \in [Writers -> Operations]
        /\ op'[w].pc = "write" /\ op'[w].kind = op[w].kind /\ op'[w].key = op[w].key
        /\ op'[w].size = op[w].size /\ op'[w].seen = op[w].seen
        /\ \A v \in Writers : v # w => op'[v] = op[v]
    BY <1>1, <1>6, GoToMoves DEF Steps
  <2>3. /\ ~ (op[w].seen + n > Quota)
        /\ reservation' = [reservation EXCEPT ![w] = [size |-> n, live |-> n > 0]]
    BY <1>6
  <2> HIDE DEF n
  <2> DEFINE one == [size |-> n, live |-> n > 0]
             some == n > 0
  <2>14. one \in [size : Nat, live : BOOLEAN] /\ one.size = n /\ (one.live <=> n > 0)
    <3>1. some \in BOOLEAN /\ (some <=> n > 0)
      BY <2>1
    <3>2. one = [size |-> n, live |-> some]
      BY Zenon
    <3> HIDE DEF some, one
    <3> QED BY <2>1, <3>1, <3>2
  <2>15. reservation' = [reservation EXCEPT ![w] = one]
    BY <2>3
  <2> HIDE DEF one, some
  <2>4. /\ reservation' \in [Writers -> [size : Nat, live : BOOLEAN]]
        /\ reservation'[w].size = n /\ (reservation'[w].live <=> n > 0)
        /\ \A v \in Writers : v # w => reservation'[v] = reservation[v]
    BY <1>1, <2>14, <2>15 DEF TypeOK
  <2>5. TypeOK'
    BY <1>1, <2>2, <2>4 DEF TypeOK, Operations
  <2>6. /\ Held(w) = 0 /\ Late(w) = 0 /\ Held(w)' = n /\ Late(w)' = 0
    BY <1>1, <2>1, <2>2, <2>4 DEF Held, Late, Bracketed, NoReservation
  <2>7. /\ Used' = Used
        /\ Reserved' + Held(w) = Reserved + Held(w)'
        /\ LateTotal' + Late(w) = LateTotal + Late(w)'
    BY <1>1, <2>2, <2>4, <2>5, UsedIs, ReservedChanges, LateChanges
  <2>8. Reserved' \in Nat /\ LateTotal' \in Nat
    BY <2>5, NaturalsNext
  <2>9. Reserved' = Reserved + n /\ LateTotal' = LateTotal
    <3>1. Held(w) \in Nat /\ Late(w) \in Nat /\ Held(w)' \in Nat /\ Late(w)' \in Nat
      BY <2>1, <2>6
    <3>2. Reserved \in Nat /\ LateTotal \in Nat /\ Held(w) = 0 /\ Late(w) = Late(w)'
          /\ Held(w)' = n
      BY <1>2, <2>6
    <3>3. Reserved' = Reserved + Held(w)'
      <4>1. Reserved' + Held(w) = Reserved + Held(w)'
        BY <2>7
      <4> QED BY <2>8, <3>1, <3>2, <4>1, Balance
    <3>4. LateTotal' = LateTotal
      <4>1. LateTotal' + Late(w) = LateTotal + Late(w)'
        BY <2>7
      <4> QED BY <2>8, <3>1, <3>2, <4>1, Balance
    <3> QED BY <3>2, <3>3, <3>4
  <2>10. Used + Reserved + LateTotal <= op[w].seen + slipped /\ Reserved <= op[w].seen
    BY <1>1 DEF Seen
  <2>11. Room'
    <3>1. /\ LateTotal <= slipped
          /\ Used + (Reserved + n) + LateTotal <= Quota + slipped
          /\ Reserved + n <= Quota
      BY <1>1, <1>2, <2>1, <2>3, <2>10 DEF Room
    <3> QED BY <1>1, <2>7, <2>9, <3>1 DEF Room
  <2>12. LockHeld' /\ Seen'
    BY <1>1, <1>3, <2>2, NoneAssumption DEF LockHeld, Seen
  <2>13. Bracketed' /\ FreshKeys' /\ Keyed' /\ Sized'
    BY <1>1, <2>1, <2>2, <2>4 DEF Bracketed, FreshKeys, Keyed, Sized
  <2> QED BY <2>5, <2>11, <2>12, <2>13 DEF QuotaIInv
<1> QED BY <1>5, <1>6 DEF Reserve

(* The write of w ends: it goes to pc and gives its reservation up.         *)
LEMMA GivesUp ==
  ASSUME QuotaIInv, TypeOK', NEW w \in Writers, NEW pc, pc \in {"done", "failed"},
         GoTo(w, pc), reservation' = Released(w), op[w].pc \in {"write", "release"}
  PROVE  /\ Reserved' + Held(w) = Reserved /\ LateTotal' + Late(w) = LateTotal
         /\ op[w].pc = "write" => Held(w) + Late(w) = reservation[w].size
         /\ \A v \in Writers : v # w => op'[v] = op[v]
         /\ lock' = lock => LockHeld'
         /\ Bracketed' /\ FreshKeys' /\ Keyed' /\ Sized'
         /\ \A v \in Writers : op'[v].pc \in {"reserved", "decide"} => v # w /\ op'[v] = op[v]
<1>1. TypeOK /\ LockHeld /\ Bracketed /\ FreshKeys /\ Keyed /\ Sized
  BY DEF QuotaIInv
<1>2. /\ op'[w].pc = pc /\ op'[w].kind = op[w].kind /\ op'[w].key = op[w].key
      /\ op'[w].size = op[w].size /\ op'[w].seen = op[w].seen
      /\ \A v \in Writers : v # w => op'[v] = op[v]
  BY <1>1, GoToMoves DEF Steps
<1>3. /\ reservation'[w] = NoReservation
      /\ \A v \in Writers : v # w => reservation'[v] = reservation[v]
  BY <1>1, ReleasedMoves
<1>4. Held(w)' = 0 /\ Late(w)' = 0
  BY <1>3 DEF Held, Late, NoReservation
<1>5. Reserved' + Held(w) = Reserved + Held(w)' /\ LateTotal' + Late(w) = LateTotal + Late(w)'
  BY <1>1, <1>2, <1>3, ReservedChanges, LateChanges
<1>6. Reserved \in Nat /\ LateTotal \in Nat
  BY <1>1, Naturals
<1>7. Reserved' + Held(w) = Reserved /\ LateTotal' + Late(w) = LateTotal
  BY <1>4, <1>5, <1>6
<1>8. op[w].pc = "write" => Held(w) + Late(w) = reservation[w].size
  BY <1>1 DEF Held, Late, TypeOK
<1>9. lock' = lock => LockHeld'
  BY <1>1, <1>2 DEF LockHeld
<1>10. Bracketed' /\ FreshKeys' /\ Keyed' /\ Sized'
  BY <1>1, <1>2, <1>3 DEF Bracketed, FreshKeys, Keyed, Sized
<1> QED BY <1>2, <1>7, <1>8, <1>9, <1>10

LEMMA CommitUploadKeeps ==
  ASSUME QuotaIInv, NEW w \in Writers, CommitUpload(w)
  PROVE  QuotaIInv'
<1>1. /\ TypeOK /\ Sized /\ Room /\ Seen
      /\ op[w].pc = "write" /\ op[w].kind \in {"direct", "chunked"}
      /\ version' = [version EXCEPT ![w] = op[w].size]
      /\ reservation' = Released(w) /\ slipped' = slipped + SlipsReader(w)
      /\ GoTo(w, "done") /\ UNCHANGED <<lock, asset, faults>>
  BY DEF QuotaIInv, CommitUpload
<1>2. op[w].size \in Nat /\ slipped \in Nat /\ SlipsReader(w) \in Nat /\ Quota \in Nat
      /\ \A v \in Writers : op[v].seen \in Nat
  BY <1>1, QuotaAssumption DEF TypeOK, SlipsReader
<1>3. op' \in [Writers -> Operations]
  BY <1>1, GoToMoves DEF Steps
<1>4. reservation' \in [Writers -> [size : Nat, live : BOOLEAN]]
  BY <1>1, ReleasedMoves
<1>5. TypeOK'
  <2>1. version' \in [Writers -> Nat] /\ slipped' \in Nat
    <3>1. slipped' \in Nat
      BY <1>1, <1>2
    <3> QED BY <1>1, <1>2, <3>1 DEF TypeOK
  <2> QED BY <1>1, <1>3, <1>4, <2>1 DEF TypeOK, Operations
<1>6. /\ Reserved' + Held(w) = Reserved /\ LateTotal' + Late(w) = LateTotal
      /\ Held(w) + Late(w) = op[w].size
      /\ LockHeld' /\ Bracketed' /\ FreshKeys' /\ Keyed' /\ Sized'
      /\ \A v \in Writers : op'[v].pc \in {"reserved", "decide"} => v # w /\ op'[v] = op[v]
  <2>1. op[w].size = reservation[w].size
    BY <1>1 DEF Sized
  <2> QED BY <1>1, <1>5, <2>1, GivesUp
<1>7. Used' <= Used + op[w].size
  BY <1>1, <1>2, <1>5, UploadUses
<1>8. /\ Used \in Nat /\ Reserved \in Nat /\ LateTotal \in Nat /\ Held(w) \in Nat
         /\ Late(w) \in Nat
      /\ Used' \in Nat /\ Reserved' \in Nat /\ LateTotal' \in Nat
  BY <1>1, <1>5, Naturals, NaturalsNext
<1>9. Room'
  BY <1>1, <1>2, <1>6, <1>7, <1>8 DEF Room
<1>10. Seen'
  <2>1. ASSUME NEW v \in Writers, op'[v].pc = "reserved"
        PROVE  Used' + LateTotal' <= op'[v].seen + slipped'
    <3>1. v # w /\ op'[v] = op[v] /\ op[v].pc = "reserved"
      BY <1>6, <2>1
    <3>2. SlipsReader(w) = op[w].size /\ Used + LateTotal <= op[v].seen + slipped
      BY <1>1, <3>1 DEF SlipsReader, Seen
    <3> QED BY <1>1, <1>2, <1>6, <1>7, <1>8, <3>1, <3>2
  <2>2. ASSUME NEW v \in Writers, op'[v].pc = "decide"
        PROVE  /\ Used' + Reserved' + LateTotal' <= op'[v].seen + slipped'
               /\ Reserved' <= op'[v].seen
    <3>1. v # w /\ op'[v] = op[v] /\ op[v].pc = "decide"
      BY <1>6, <2>2
    <3>2. Used + Reserved + LateTotal <= op[v].seen + slipped /\ Reserved <= op[v].seen
      BY <1>1, <3>1 DEF Seen
    <3> QED BY <1>1, <1>2, <1>6, <1>7, <1>8, <3>1, <3>2
  <2> QED BY <2>1, <2>2 DEF Seen
<1> QED BY <1>5, <1>6, <1>9, <1>10 DEF QuotaIInv

LEMMA CommitDerivedKeeps ==
  ASSUME QuotaIInv, NEW w \in Writers, CommitDerived(w)
  PROVE  QuotaIInv'
<1> DEFINE k == op[w].key
<1>1. /\ TypeOK /\ LockHeld /\ Keyed /\ Room
      /\ op[w].pc = "write" /\ op[w].kind = "derived" /\ lock = None
      /\ asset' = [asset EXCEPT ![k] = op[w].size]
      /\ reservation' = Released(w) /\ slipped' = slipped + SlipsGrowth(w)
      /\ GoTo(w, "done") /\ UNCHANGED <<lock, version, faults>>
  BY DEF QuotaIInv, CommitDerived
<1>2. k \in Keys
  BY <1>1 DEF Keyed
<1>3. op[w].size \in Nat /\ slipped \in Nat /\ Quota \in Nat /\ asset[k] \in Nat
      /\ reservation[w].size \in Nat
  BY <1>1, <1>2, QuotaAssumption DEF TypeOK
<1>4. SlipsGrowth(w) \in Nat /\ op[w].size <= asset[k] + reservation[w].size + SlipsGrowth(w)
  BY <1>3 DEF SlipsGrowth, Positive
<1>5. op' \in [Writers -> Operations]
  BY <1>1, GoToMoves DEF Steps
<1>6. reservation' \in [Writers -> [size : Nat, live : BOOLEAN]]
  BY <1>1, ReleasedMoves
<1>7. TypeOK'
  <2>1. asset' \in [Keys -> Nat] /\ slipped' \in Nat
    <3>1. slipped' \in Nat
      BY <1>1, <1>3, <1>4
    <3> QED BY <1>1, <1>3, <3>1 DEF TypeOK
  <2> QED BY <1>1, <1>5, <1>6, <2>1 DEF TypeOK, Operations
<1>8. /\ Reserved' + Held(w) = Reserved /\ LateTotal' + Late(w) = LateTotal
      /\ Held(w) + Late(w) = reservation[w].size
      /\ LockHeld' /\ Bracketed' /\ FreshKeys' /\ Keyed' /\ Sized'
      /\ \A v \in Writers : op'[v].pc \in {"reserved", "decide"} => v # w /\ op'[v] = op[v]
  BY <1>1, <1>7, GivesUp
<1>9. Used' + asset[k] = Used + op[w].size
  BY <1>1, <1>2, <1>3, <1>7, DerivedUses
<1>10. /\ Used \in Nat /\ Reserved \in Nat /\ LateTotal \in Nat /\ Held(w) \in Nat
          /\ Late(w) \in Nat
       /\ Used' \in Nat /\ Reserved' \in Nat /\ LateTotal' \in Nat
  BY <1>1, <1>7, Naturals, NaturalsNext
<1> HIDE DEF k
<1>11. Room'
  BY <1>1, <1>3, <1>4, <1>8, <1>9, <1>10 DEF Room
<1>12. \A v \in Writers : op'[v].pc \notin {"reserved", "decide"}
  BY <1>1, <1>8, NoneAssumption DEF LockHeld
<1>13. Seen'
  BY <1>12 DEF Seen
<1> QED BY <1>7, <1>8, <1>11, <1>13 DEF QuotaIInv

LEMMA ReleaseKeeps ==
  ASSUME QuotaIInv, NEW w \in Writers, Release(w)
  PROVE  QuotaIInv'
<1>1. /\ TypeOK /\ Room /\ Seen
      /\ op[w].pc = "release" /\ reservation' = Released(w)
      /\ GoTo(w, "failed") /\ UNCHANGED <<lock, version, asset, slipped, faults>>
  BY DEF QuotaIInv, Release
<1>2. slipped \in Nat /\ Quota \in Nat /\ \A v \in Writers : op[v].seen \in Nat
  BY <1>1, QuotaAssumption DEF TypeOK
<1>3. op' \in [Writers -> Operations]
  BY <1>1, GoToMoves DEF Steps
<1>4. reservation' \in [Writers -> [size : Nat, live : BOOLEAN]]
  BY <1>1, ReleasedMoves
<1>5. TypeOK'
  BY <1>1, <1>3, <1>4 DEF TypeOK, Operations
<1>6. /\ Reserved' + Held(w) = Reserved /\ LateTotal' + Late(w) = LateTotal
      /\ LockHeld' /\ Bracketed' /\ FreshKeys' /\ Keyed' /\ Sized'
      /\ \A v \in Writers : op'[v].pc \in {"reserved", "decide"} => v # w /\ op'[v] = op[v]
  BY <1>1, <1>5, GivesUp
<1>7. /\ Used \in Nat /\ Reserved \in Nat /\ LateTotal \in Nat /\ Held(w) \in Nat
         /\ Late(w) \in Nat
      /\ Used' = Used /\ Reserved' \in Nat /\ LateTotal' \in Nat
  BY <1>1, <1>5, Naturals, NaturalsNext, UsedIs
<1>8. Room'
  BY <1>1, <1>2, <1>6, <1>7 DEF Room
<1>9. Seen'
  BY <1>1, <1>2, <1>6, <1>7 DEF Seen
<1> QED BY <1>5, <1>6, <1>8, <1>9 DEF QuotaIInv

(* The write of w fails or dies with its reservation in place.              *)
LEMMA StopsKeeps ==
  ASSUME QuotaIInv, NEW w \in Writers, WriteFails(w) \/ Crash(w)
  PROVE  QuotaIInv'
<1>1. /\ TypeOK /\ LockHeld /\ Bracketed /\ FreshKeys /\ Keyed /\ Sized /\ Room /\ Seen
      /\ UNCHANGED <<version, asset, reservation, slipped>>
  BY DEF QuotaIInv, WriteFails, Crash
<1>2. slipped \in Nat /\ Quota \in Nat /\ \A v \in Writers : op[v].seen \in Nat
  BY <1>1, QuotaAssumption DEF TypeOK
<1>3. faults' \in 0 .. MaxFaults
  BY <1>1, Faulted DEF WriteFails, Crash, TypeOK
<1>4. PICK pc \in {"release", "dead"} : GoTo(w, pc)
  BY DEF WriteFails, Crash
<1>5. /\ op' \in [Writers -> Operations]
      /\ op'[w].pc = pc /\ op'[w].kind = op[w].kind /\ op'[w].key = op[w].key
      /\ op'[w].size = op[w].size /\ op'[w].seen = op[w].seen
      /\ \A v \in Writers : v # w => op'[v] = op[v]
  BY <1>1, <1>4, GoToMoves DEF Steps
<1>6. \/ lock' = lock /\ lock # w
      \/ lock = w /\ lock' = None
  <2>1. CASE WriteFails(w)
    BY <1>1, <2>1 DEF WriteFails, LockHeld
  <2>2. CASE Crash(w)
    BY <2>2 DEF Crash
  <2> QED BY <2>1, <2>2
<1>7. TypeOK'
  <2>1. lock' \in Writers \cup {None}
    BY <1>1, <1>6 DEF TypeOK
  <2> QED BY <1>1, <1>3, <1>5, <2>1 DEF TypeOK, Operations
<1>8. LockHeld' /\ Bracketed' /\ FreshKeys' /\ Keyed' /\ Sized'
  <2>1. LockHeld'
    BY <1>1, <1>5, <1>6, NoneAssumption DEF LockHeld
  <2>2. op[w].pc \in {"write", "release", "dead"} \/ reservation[w] = NoReservation
    BY <1>1 DEF Bracketed
  <2> QED BY <1>1, <1>4, <1>5, <2>1, <2>2 DEF Bracketed, FreshKeys, Keyed, Sized
<1>9. Held(w)' = Held(w) /\ Late(w)' = 0
  BY <1>1, <1>5, <1>4 DEF Held, Late
<1>10. /\ Reserved' + Held(w) = Reserved + Held(w)'
       /\ LateTotal' + Late(w) = LateTotal + Late(w)'
  BY <1>1, <1>5, <1>7, ReservedChanges, LateChanges
<1>11. /\ Used \in Nat /\ Reserved \in Nat /\ LateTotal \in Nat /\ Held(w) \in Nat
          /\ Late(w) \in Nat
       /\ Used' = Used /\ Reserved' \in Nat /\ LateTotal' \in Nat
  BY <1>1, <1>7, Naturals, NaturalsNext, UsedIs
<1>12. Reserved' = Reserved /\ LateTotal' <= LateTotal
  BY <1>9, <1>10, <1>11
<1>13. Room'
  <2>1. LateTotal <= slipped /\ Used + Reserved + LateTotal <= Quota + slipped
        /\ Reserved <= Quota
    BY <1>1 DEF Room
  <2>2. LateTotal' <= slipped /\ Used + Reserved + LateTotal' <= Quota + slipped
    BY <1>2, <1>11, <1>12, <2>1, RoomKept
  <2> QED BY <1>1, <1>11, <1>12, <2>1, <2>2 DEF Room
<1>14. Seen'
  BY <1>1, <1>2, <1>4, <1>5, <1>11, <1>12 DEF Seen
<1> QED BY <1>7, <1>8, <1>13, <1>14 DEF QuotaIInv

LEMMA ExpireKeeps ==
  ASSUME QuotaIInv, NEW w \in Writers, Expire(w)
  PROVE  QuotaIInv'
<1>1. /\ TypeOK /\ LockHeld /\ Bracketed /\ FreshKeys /\ Keyed /\ Sized /\ Room /\ Seen
      /\ reservation[w].live
      /\ reservation' = [reservation EXCEPT ![w] = [@ EXCEPT !.live = FALSE]]
      /\ UNCHANGED <<lock, version, asset, op>>
  BY DEF QuotaIInv, Expire
<1> DEFINE n == reservation[w].size
<1>2. slipped \in Nat /\ Quota \in Nat /\ n \in Nat /\ \A v \in Writers : op[v].seen \in Nat
  BY <1>1, QuotaAssumption DEF TypeOK
<1>3. \/ op[w].pc = "dead" /\ slipped' = slipped
      \/ op[w].pc # "dead" /\ slipped' = slipped + n
  BY DEF Expire
<1>4. faults' \in 0 .. MaxFaults
  BY <1>1, Faulted DEF Expire, TypeOK
<1>5. /\ reservation' \in [Writers -> [size : Nat, live : BOOLEAN]]
      /\ reservation'[w].size = n /\ ~ reservation'[w].live
      /\ \A v \in Writers : v # w => reservation'[v] = reservation[v]
  BY <1>1 DEF TypeOK
<1> HIDE DEF n
<1>6. TypeOK'
  BY <1>1, <1>2, <1>3, <1>4, <1>5 DEF TypeOK, Operations
<1>7. LockHeld' /\ Bracketed' /\ FreshKeys' /\ Keyed' /\ Sized'
  <2>1. op[w].pc \in {"write", "release", "dead"}
    BY <1>1 DEF Bracketed, NoReservation
  <2> QED BY <1>1, <1>5, <2>1 DEF n, LockHeld, Bracketed, FreshKeys, Keyed, Sized
<1>8. /\ Held(w) = n /\ Held(w)' = 0 /\ Late(w) = 0
      /\ op[w].pc = "write" => Late(w)' = n
      /\ op[w].pc # "write" => Late(w)' = 0
  BY <1>1, <1>5 DEF Held, Late, n
<1>9. /\ Reserved' + Held(w) = Reserved + Held(w)'
      /\ LateTotal' + Late(w) = LateTotal + Late(w)'
  BY <1>1, <1>5, <1>6, ReservedChanges, LateChanges
<1>10. /\ Used \in Nat /\ Reserved \in Nat /\ LateTotal \in Nat
       /\ Used' = Used /\ Reserved' \in Nat /\ LateTotal' \in Nat
  BY <1>1, <1>6, Naturals, NaturalsNext, UsedIs
<1>11. /\ Reserved' + n = Reserved
       /\ op[w].pc = "write" => LateTotal' = LateTotal + n
       /\ op[w].pc # "write" => LateTotal' = LateTotal
  <2>1. Reserved' + n = Reserved
    BY <1>8, <1>9, <1>10
  <2>2. LateTotal' + 0 = LateTotal + Late(w)'
    BY <1>8, <1>9
  <2>3. LateTotal' = LateTotal + Late(w)' \/ Late(w)' \notin Int
    BY <1>10, <2>2
  <2>4. Late(w)' \in Nat
    BY <1>6, NaturalsNext
  <2>5. LateTotal' = LateTotal + Late(w)'
    BY <2>3, <2>4
  <2> QED BY <1>2, <1>8, <1>10, <2>1, <2>5
<1>12. Room'
  BY <1>1, <1>2, <1>3, <1>10, <1>11 DEF Room
<1>13. Seen'
  BY <1>1, <1>2, <1>3, <1>10, <1>11 DEF Seen
<1> QED BY <1>6, <1>7, <1>12, <1>13 DEF QuotaIInv

LEMMA QuotaInitIInv == Init => QuotaIInv
<1> SUFFICES ASSUME Init PROVE QuotaIInv
  OBVIOUS
<1>1. TypeOK
  BY BoundsAssumption DEF Init, TypeOK, NoReservation, Steps
<1>2. LockHeld /\ Bracketed /\ FreshKeys /\ Keyed /\ Sized
  BY NoneAssumption DEF Init, LockHeld, Bracketed, FreshKeys, Keyed, Sized
<1>3. Used = 0
  <2> DEFINE v == [w \in Writers |-> 0]
             a == [k \in Keys |-> 0]
  <2>1. Total(v) = 0 /\ Total(a) = 0
    BY TotalZero, FiniteAssumption
  <2>2. version = v /\ asset = a
    BY DEF Init
  <2> HIDE DEF v, a
  <2> QED BY <2>1, <2>2 DEF Used
<1>4. Reserved = 0 /\ LateTotal = 0
  <2> DEFINE v == [w \in Writers |-> 0]
  <2>1. Total(v) = 0
    BY TotalZero, FiniteAssumption
  <2>2. \A w \in Writers : Held(w) = 0 /\ Late(w) = 0
    BY DEF Init, Held, Late, NoReservation
  <2>3. [w \in Writers |-> Held(w)] = v /\ [w \in Writers |-> Late(w)] = v
    BY <2>2
  <2>4. Reserved = Total([w \in Writers |-> Held(w)])
    BY DEF Reserved, Held
  <2> HIDE DEF v
  <2> QED BY <2>1, <2>3, <2>4 DEF LateTotal
<1>5. Room /\ Seen
  BY <1>3, <1>4, QuotaAssumption DEF Init, Room, Seen
<1> QED BY <1>1, <1>2, <1>5 DEF QuotaIInv

LEMMA QuotaNextKeeps == QuotaIInv /\ Next => QuotaIInv'
BY QuotaStartKeeps, ReadUsedKeeps, ReadReservedKeeps, QuotaReserveKeeps, CommitUploadKeeps,
   CommitDerivedKeeps, ReleaseKeeps, StopsKeeps, ExpireKeeps DEF Next

LEMMA QuotaStutterKeeps == QuotaIInv /\ UNCHANGED vars => QuotaIInv'
<1> SUFFICES ASSUME QuotaIInv, UNCHANGED vars PROVE QuotaIInv'
  OBVIOUS
<1>1. Reserved' = Reserved /\ Used' = Used /\ LateTotal' = LateTotal
  BY DEF vars, Reserved, Used, LateTotal, Late, Total, MapThenSumSet, MapThenFoldSet
<1> QED BY <1>1 DEF vars, QuotaIInv, TypeOK, LockHeld, Bracketed, FreshKeys, Keyed, Sized, Room,
                Seen

LEMMA QuotaIInvAccount ==
  QuotaIInv => TypeOK /\ ReservationsFit /\ OvershootBounded /\ NothingHeldBack
<1> SUFFICES ASSUME QuotaIInv PROVE TypeOK /\ ReservationsFit /\ OvershootBounded
                    /\ NothingHeldBack
  OBVIOUS
<1>1. TypeOK /\ Room /\ Bracketed
  BY DEF QuotaIInv
<1>2. /\ Used \in Nat /\ Reserved \in Nat /\ LateTotal \in Nat /\ slipped \in Nat /\ Quota \in Nat
  BY <1>1, Naturals, QuotaAssumption DEF TypeOK
<1>3. Reserved <= Quota /\ Used + Reserved <= Quota + slipped
  BY <1>1, <1>2 DEF Room
<1>4. \A w \in Writers : reservation[w].size >= 0
  <2>1. \A w \in Writers : reservation[w] \in [size : Nat, live : BOOLEAN]
    BY <1>1 DEF TypeOK
  <2> QED BY <2>1
<1> QED BY <1>1, <1>3, <1>4 DEF ReservationsFit, OvershootBounded, NothingHeldBack, Bracketed,
               NoReservation

(***************************************************************************)
(* KnowledgeTurn.  The turn: its place decides what it has asked, fetched  *)
(* and told.                                                               *)
(***************************************************************************)
Pages == {"invoke", "ground", "wait", "waitGround", "notify", "tools", "failing"}

\* The notices of the protocol, in their order.
Notices == <<T!Requested("search"), T!Completed("search"), T!Requested("read"), T!Completed("read")>>

\* How much the protocol has fetched.
Fetched == (IF turn.searched THEN 1 ELSE 0) + (IF turn.read THEN 1 ELSE 0)

\* What the session was told, a, and is still to be told, b, are the notices in order.
Tells(a, b) ==
    /\ a \in Seq(T!Notice) /\ b \in Seq(T!Notice) /\ Len(a) + Len(b) <= 4
    /\ \A i \in 1..Len(a) : a[i] = Notices[i]
    /\ \A i \in 1..Len(b) : b[i] = Notices[Len(a) + i]
Totals(a, b, n) == Len(a) + Len(b) = n
Paused(a, b, n) == Len(a) = n /\ Len(b) = 0

Turns == [loop : T!Loops, gateway : BOOLEAN, evidence : BOOLEAN,
          at : {"idle", "search", "searching", "invoke", "ground", "wait", "waitGround",
                "notify", "tools", "failing", "answered", "show", "publish", "settle", "ended"},
          todo : Seq(T!Notice), batch : Seq(T!ToolsAsked),
          next : {"idle", "invoke", "ground", "failing"},
          told : Seq(T!Notice), asked : 0..(MaxCalls + 4), searched : BOOLEAN,
          read : BOOLEAN, denied : BOOLEAN, last : T!Texts \cup {"none"},
          call : {"none", "succeeded", "failed"},
          answer : {"none", "fallback", "generated"}, outcome : T!Outcomes]
Passes == T!Things \cup T!ToolsAsked \cup {"none", "noticing", "asking"}
Around == /\ readable \in BOOLEAN /\ stopped \in BOOLEAN
          /\ passed \in Passes /\ overtaken \in Passes /\ late \in Seq(T!Things)
          /\ turn.at \in {"idle", "search", "searching"} => passed = "none" /\ late = <<>>

\* After a revocation a turn that looks has only what had passed before it to begin,
\* or has begun that and nothing else; what is asked for again is refused.
Uncounted == {"none", "noticing", "asking"}
Overtakes ==
    turn.loop # "query" =>
       /\ readable => late = <<>>
       /\ ~ readable => \/ late = <<>> /\ passed \in Uncounted \cup {overtaken}
                        \/ late = <<overtaken>> /\ passed \in Uncounted

\* Before its first page a turn has done nothing.
Unbegun ==
    turn.at \in {"idle", "search", "searching"} =>
       /\ turn.asked = 0 /\ ~ turn.searched /\ ~ turn.read
       /\ Paused(turn.told, turn.todo, 0)

\* What is known at each place.
Placed ==
    /\ turn.at \in {"idle", "search", "searching"} \cup Pages => turn.answer = "none"
    /\ turn.at \in Pages => turn.evidence
    /\ turn.at \in {"answered", "show", "publish", "settle"} => turn.answer # "none"
    /\ turn.answer = "generated" => turn.call = "succeeded" /\ turn.last = "valid"
       /\ turn.evidence
    /\ turn.outcome = "completed" => turn.at = "ended" /\ turn.answer # "none"
    /\ turn.at \in {"tools", "show"} => turn.loop = "pi"
    /\ turn.at = "notify" => turn.next # "idle"

\* The protocol asks once before each fetch and twice for the answer.
Bounded ==
    turn.loop # "pi" =>
       /\ turn.at = "invoke" => turn.asked = Fetched
       /\ turn.at = "wait" => turn.asked = Fetched + 1
       /\ turn.at = "notify" =>
             turn.asked <= 3 /\ (turn.next = "invoke" => turn.asked = Fetched)
       /\ turn.at = "ground" => turn.asked <= 3
       /\ turn.asked <= 4
       /\ turn.read => turn.searched

Following ==
    /\ Tells(turn.told, turn.todo)
    /\ turn.at \in {"invoke", "wait"} => Paused(turn.told, turn.todo, 2 * Fetched)
    /\ turn.at = "notify" /\ turn.next = "invoke" => Totals(turn.told, turn.todo, 2 * Fetched)
Follows == turn.loop = "internal" => Following

Moving == turn \in Turns /\ Unbegun /\ Placed /\ Bounded /\ Follows
TurnIInv == Moving /\ Around /\ Overtakes

LEMMA NoticesAre ==
  /\ T!Both("search") \o T!Both("read") = Notices
  /\ \A t \in {"search", "read"} :
        /\ T!Both(t) \in Seq(T!Notice) /\ Len(T!Both(t)) = 2
        /\ T!Both(t)[1] = T!Requested(t) /\ T!Both(t)[2] = T!Completed(t)
        /\ <<T!Requested(t)>> \in Seq(T!Notice)
  /\ Notices \in Seq(T!Notice) /\ Len(Notices) = 4
<1>1. \A t \in {"search", "read"} : T!Requested(t) \in T!Notice /\ T!Completed(t) \in T!Notice
  BY DEF T!Requested, T!Completed, T!Notice
<1>2. \A t \in {"search", "read"} :
        /\ T!Both(t) \in Seq(T!Notice) /\ Len(T!Both(t)) = 2
        /\ T!Both(t)[1] = T!Requested(t) /\ T!Both(t)[2] = T!Completed(t)
        /\ <<T!Requested(t)>> \in Seq(T!Notice)
  BY <1>1 DEF T!Both
<1>3. Notices \in Seq(T!Notice) /\ Len(Notices) = 4
  BY <1>1 DEF Notices
<1> DEFINE a == T!Both("search")
           b == T!Both("read")
<1>4. /\ a \in Seq(T!Notice) /\ Len(a) = 2 /\ a[1] = T!Requested("search")
         /\ a[2] = T!Completed("search")
      /\ b \in Seq(T!Notice) /\ Len(b) = 2 /\ b[1] = T!Requested("read")
         /\ b[2] = T!Completed("read")
  BY <1>2
<1>5. /\ Notices[1] = T!Requested("search") /\ Notices[2] = T!Completed("search")
      /\ Notices[3] = T!Requested("read") /\ Notices[4] = T!Completed("read")
  BY DEF Notices
<1> HIDE DEF a, b
<1>6. /\ a \o b \in Seq(T!Notice) /\ Len(a \o b) = Len(a) + Len(b)
      /\ \A i \in 1..(Len(a) + Len(b)) :
            (a \o b)[i] = IF i <= Len(a) THEN a[i] ELSE b[i - Len(a)]
  BY <1>4, ConcatProperties
<1>7. Len(a \o b) = 4 /\ \A i \in 1..4 : (a \o b)[i] = Notices[i]
  BY <1>4, <1>5, <1>6
<1>8. a \o b = Notices
  BY <1>3, <1>6, <1>7, SeqEqual
<1> USE DEF a, b
<1> QED BY <1>2, <1>3, <1>8

\* How what is told and still to be told may change.
LEMMA TellsAll ==
  ASSUME NEW a, NEW b, Tells(a, b), Paused(a, b, 0)
  PROVE  Tells(a, Notices)
BY NoticesAre DEF Tells, Paused

LEMMA TellsNone ==
  ASSUME NEW a, NEW b, Tells(a, b)
  PROVE  Tells(a, <<>>)
<1>1. Len(a) \in Nat /\ Len(b) \in Nat /\ <<>> \in Seq(T!Notice) /\ Len(<<>>) = 0
  BY DEF Tells
<1> QED BY <1>1 DEF Tells

LEMMA TellsTool ==
  ASSUME NEW a, NEW b, Tells(a, b), NEW n \in {0, 1}, Paused(a, b, 2 * n),
         NEW tool, tool = IF n = 0 THEN "search" ELSE "read"
  PROVE  /\ Tells(a, T!Both(tool)) /\ Totals(a, T!Both(tool), 2 * (n + 1))
         /\ Tells(a, <<T!Requested(tool)>>)
<1> DEFINE c == T!Both(tool)
           d == <<T!Requested(tool)>>
<1>1. /\ c \in Seq(T!Notice) /\ Len(c) = 2 /\ c[1] = T!Requested(tool) /\ c[2] = T!Completed(tool)
      /\ d \in Seq(T!Notice)
  BY NoticesAre
<1>2. Len(d) = 1 /\ d[1] = T!Requested(tool)
  OBVIOUS
<1>3. /\ Notices[2 * n + 1] = T!Requested(tool) /\ Notices[2 * n + 2] = T!Completed(tool)
  BY DEF Notices
<1> HIDE DEF c, d
<1>4. Len(a) = 2 * n /\ 2 * n \in {0, 2} /\ a \in Seq(T!Notice)
      /\ \A i \in 1..Len(a) : a[i] = Notices[i]
  BY DEF Tells, Paused
<1>5. Tells(a, c)
  <2>1. \A i \in 1..2 : c[i] = Notices[Len(a) + i]
    BY <1>1, <1>3, <1>4
  <2> QED BY <1>1, <1>4, <2>1 DEF Tells
<1>6. Totals(a, c, 2 * (n + 1))
  BY <1>1, <1>4 DEF Totals
<1>7. Tells(a, d)
  <2>1. \A i \in 1..1 : d[i] = Notices[Len(a) + i]
    BY <1>2, <1>3, <1>4
  <2> QED BY <1>1, <1>2, <1>4, <2>1 DEF Tells
<1> QED BY <1>5, <1>6, <1>7 DEF c, d

LEMMA TellsNext ==
  ASSUME NEW a, NEW b, Tells(a, b), b # <<>>
  PROVE  /\ Tells(Append(a, Head(b)), Tail(b))
         /\ \A n : Totals(a, b, n) => Totals(Append(a, Head(b)), Tail(b), n)
<1> DEFINE c == Append(a, Head(b))
           d == Tail(b)
<1>1. /\ Len(c) = Len(a) + 1 /\ Len(b) = Len(d) + 1 /\ Len(d) \in Nat /\ Len(a) \in Nat
      /\ c \in Seq(T!Notice) /\ d \in Seq(T!Notice)
      /\ c[Len(a) + 1] = b[1]
      /\ \A i \in 1..Len(a) : c[i] = a[i]
      /\ \A i \in 1..Len(d) : d[i] = b[i + 1]
  BY DEF Tells
<1> HIDE DEF c, d
<1>2. Len(c) + Len(d) = Len(a) + Len(b)
  BY <1>1
<1>3. ASSUME NEW i \in 1..Len(c) PROVE c[i] = Notices[i]
  <2>1. CASE i \in 1..Len(a)
    BY <1>1, <2>1 DEF Tells
  <2>2. CASE i = Len(a) + 1
    <3>1. b[1] = Notices[Len(a) + 1]
      BY <1>1 DEF Tells
    <3> QED BY <1>1, <2>2, <3>1
  <2> QED BY <1>1, <2>1, <2>2
<1>4. ASSUME NEW i \in 1..Len(d) PROVE d[i] = Notices[Len(c) + i]
  <2>1. i + 1 \in 1..Len(b) /\ Len(c) + i = Len(a) + (i + 1)
    BY <1>1
  <2> QED BY <1>1, <2>1 DEF Tells
<1>5. Tells(c, d) /\ \A n : Totals(a, b, n) => Totals(c, d, n)
  BY <1>1, <1>2, <1>3, <1>4 DEF Tells, Totals
<1> QED BY <1>5 DEF c, d

LEMMA TellsDone ==
  ASSUME NEW a, NEW n, Totals(a, <<>>, n), a \in Seq(T!Notice)
  PROVE  Paused(a, <<>>, n)
<1>1. Len(a) \in Nat /\ Len(<<>>) = 0
  OBVIOUS
<1> QED BY <1>1 DEF Totals, Paused

LEMMA TellsNothing ==
  ASSUME NEW a, NEW b, Paused(a, b, 0), a \in Seq(T!Notice), b \in Seq(T!Notice)
  PROVE  Tells(a, b)
BY DEF Paused, Tells

LEMMA TurnTyped == TurnIInv => T!TypeOK
BY DEF TurnIInv, Moving, Around, Passes, Turns, T!TypeOK

\* A move that leaves the notices alone.
LEMMA FollowsOn ==
  ASSUME Moving, turn'.loop = turn.loop, turn'.told = turn.told, turn'.todo = turn.todo,
         turn.loop = "internal" => turn'.at \notin {"invoke", "wait", "notify"}
  PROVE  Follows'
<1>1. Follows
  BY DEF Moving
<1> QED BY <1>1 DEF Follows, Following

LEMMA EndsMoves ==
  ASSUME Moving, NEW o \in T!Outcomes, T!Ends(o), o = "completed" => turn.answer # "none"
  PROVE  Moving' /\ turn'.loop = turn.loop /\ turn'.at = "ended"
<1>1. turn \in Turns /\ Unbegun /\ Placed /\ Bounded /\ Follows
  BY DEF Moving
<1>2. turn' = [turn EXCEPT !.at = "ended", !.outcome = o]
  BY <1>1 DEF T!Ends
<1>3. turn' \in Turns /\ turn'.at = "ended" /\ turn'.outcome = o
      /\ turn'.loop = turn.loop /\ turn'.evidence = turn.evidence /\ turn'.todo = turn.todo
         /\ turn'.next = turn.next
      /\ turn'.told = turn.told /\ turn'.asked = turn.asked /\ turn'.searched = turn.searched
         /\ turn'.read = turn.read
      /\ turn'.last = turn.last /\ turn'.call = turn.call /\ turn'.answer = turn.answer
  BY <1>1, <1>2 DEF Turns
<1>4. Unbegun'
  BY <1>1, <1>3 DEF Unbegun, Pages, Turns
<1>5. Placed'
  BY <1>1, <1>3 DEF Placed, Pages, Turns
<1>6. Fetched' = Fetched
  BY <1>1, <1>3 DEF Fetched
<1>7. Bounded'
  BY <1>1, <1>3, <1>6 DEF Bounded, Turns, Pages
<1>8. Follows'
  BY <1>1, <1>3, FollowsOn
<1> QED BY <1>3, <1>4, <1>5, <1>7, <1>8 DEF Moving

LEMMA FallBackMoves ==
  ASSUME Moving, NEW c \in {"succeeded", "failed"}, T!FallBack(c), turn.at # "ended"
  PROVE  Moving' /\ turn'.loop = turn.loop /\ turn'.at = "answered"
<1>1. turn \in Turns /\ Unbegun /\ Placed /\ Bounded /\ Follows
  BY DEF Moving
<1>2. turn' = [turn EXCEPT !.at = "answered", !.answer = "fallback", !.call = c]
  BY <1>1 DEF T!FallBack
<1>3. turn' \in Turns /\ turn'.at = "answered" /\ turn'.answer = "fallback" /\ turn'.call = c
      /\ turn'.loop = turn.loop /\ turn'.evidence = turn.evidence /\ turn'.todo = turn.todo
         /\ turn'.next = turn.next
      /\ turn'.told = turn.told /\ turn'.asked = turn.asked /\ turn'.searched = turn.searched
         /\ turn'.read = turn.read
      /\ turn'.last = turn.last /\ turn'.outcome = turn.outcome
  BY ZenonT(60), <1>1, <1>2 DEF Turns
<1>4. Unbegun'
  BY <1>1, <1>3 DEF Unbegun, Pages, Turns
<1>5. Placed'
  BY <1>1, <1>3 DEF Placed, Pages, Turns
<1>6. Fetched' = Fetched
  BY <1>1, <1>3 DEF Fetched
<1>7. Bounded'
  BY <1>1, <1>3, <1>6 DEF Bounded, Turns, Pages
<1>8. Follows'
  BY <1>1, <1>3, FollowsOn
<1> QED BY <1>3, <1>4, <1>5, <1>7, <1>8 DEF Moving

LEMMA GenerateMoves ==
  ASSUME Moving, T!Generate("valid"), turn.at \in Pages
  PROVE  Moving' /\ turn'.loop = turn.loop /\ turn'.at = "answered"
<1>1. turn \in Turns /\ Unbegun /\ Placed /\ Bounded /\ Follows
  BY DEF Moving
<1>2. turn' = [turn EXCEPT !.at = "answered", !.answer = "generated",
                           !.call = "succeeded", !.last = "valid"]
  BY <1>1 DEF T!Generate
<1>3. turn' \in Turns /\ turn'.at = "answered" /\ turn'.answer = "generated"
      /\ turn'.call = "succeeded" /\ turn'.last = "valid"
      /\ turn'.loop = turn.loop /\ turn'.evidence = turn.evidence /\ turn'.todo = turn.todo
         /\ turn'.next = turn.next
      /\ turn'.told = turn.told /\ turn'.asked = turn.asked /\ turn'.searched = turn.searched
         /\ turn'.read = turn.read
      /\ turn'.outcome = turn.outcome
  BY <1>1, <1>2 DEF Turns, T!Texts
<1>4. Unbegun'
  BY <1>1, <1>3 DEF Unbegun, Pages, Turns
<1>5. Placed'
  BY <1>1, <1>3 DEF Placed, Pages, Turns
<1>6. Fetched' = Fetched
  BY <1>1, <1>3 DEF Fetched
<1>7. Bounded'
  BY <1>1, <1>3, <1>6 DEF Bounded, Turns, Pages
<1>8. Follows'
  BY <1>1, <1>3, FollowsOn
<1> QED BY <1>3, <1>4, <1>5, <1>7, <1>8 DEF Moving

LEMMA GoesMoves ==
  ASSUME Moving, NEW place \in {"searching", "failing", "show", "publish", "settle", "invoke"}, T!Goes(place),
         place = "searching" => turn.at = "search",
         place = "show" => turn.at = "answered" /\ turn.loop = "pi",
         place \in {"publish", "settle"} => turn.at \in {"answered", "show", "publish"},
         place \in {"failing", "invoke"} => turn.at \in Pages,
         place = "invoke" => turn.loop = "pi"
  PROVE  Moving' /\ turn'.loop = turn.loop /\ turn'.at = place
<1>1. turn \in Turns /\ Unbegun /\ Placed /\ Bounded /\ Follows
  BY DEF Moving
<1>2. turn' = [turn EXCEPT !.at = place]
  BY <1>1 DEF T!Goes
<1>3. turn' \in Turns /\ turn'.at = place
      /\ turn'.loop = turn.loop /\ turn'.evidence = turn.evidence /\ turn'.todo = turn.todo
         /\ turn'.next = turn.next
      /\ turn'.told = turn.told /\ turn'.asked = turn.asked /\ turn'.searched = turn.searched
         /\ turn'.read = turn.read
      /\ turn'.last = turn.last /\ turn'.call = turn.call /\ turn'.answer = turn.answer
         /\ turn'.outcome = turn.outcome
  BY <1>1, <1>2 DEF Turns
<1>4. Unbegun'
  BY <1>1, <1>3 DEF Unbegun, Pages, Turns
<1>5. Placed'
  BY <1>1, <1>3 DEF Placed, Pages, Turns
<1>6. Fetched' = Fetched
  BY <1>1, <1>3 DEF Fetched
<1>7. Bounded'
  BY <1>1, <1>3, <1>6 DEF Bounded, Turns, Pages
<1>8. Follows'
  BY <1>1, <1>3, FollowsOn
<1> QED BY <1>3, <1>4, <1>5, <1>7, <1>8 DEF Moving

LEMMA TurnStartMoves ==
  ASSUME Moving, NEW loop \in T!Loops, NEW gateway \in BOOLEAN, T!Start(loop, gateway)
  PROVE  Moving' /\ turn'.loop = loop /\ turn'.at = "search"
<1>1. turn \in Turns /\ Unbegun /\ Placed /\ Bounded /\ Follows
  BY DEF Moving
<1>2. turn' = [turn EXCEPT !.loop = loop, !.gateway = gateway, !.at = "search"]
  BY <1>1 DEF T!Start
<1>9. turn.at = "idle"
  BY DEF T!Start
<1>3. turn' \in Turns /\ turn'.loop = loop /\ turn'.at = "search"
      /\ turn'.evidence = turn.evidence /\ turn'.todo = turn.todo /\ turn'.next = turn.next
         /\ turn'.told = turn.told
      /\ turn'.asked = turn.asked /\ turn'.searched = turn.searched /\ turn'.read = turn.read
         /\ turn'.last = turn.last
      /\ turn'.call = turn.call /\ turn'.answer = turn.answer /\ turn'.outcome = turn.outcome
  BY <1>1, <1>2, <1>9 DEF Turns
<1>4. Unbegun'
  BY <1>1, <1>3, <1>9 DEF Unbegun, Pages, Turns
<1>5. Placed'
  BY <1>1, <1>3, <1>9 DEF Placed, Pages, Turns
<1>6. Fetched' = Fetched
  BY <1>1, <1>3 DEF Fetched
<1>7. Bounded'
  BY <1>1, <1>3, <1>6, <1>9 DEF Bounded, Turns, Pages, Unbegun
<1>10. Paused(turn.told, turn.todo, 0)
  BY <1>1, <1>9 DEF Unbegun
<1>11. Tells(turn.told, turn.todo)
  BY <1>1, <1>10, TellsNothing DEF Turns
<1>8. Follows'
  BY <1>3, <1>9, <1>11 DEF Follows, Following
<1> QED BY <1>3, <1>4, <1>5, <1>7, <1>8 DEF Moving

LEMMA FoundMoves ==
  ASSUME Moving, NEW evidence \in BOOLEAN, T!Found(evidence)
  PROVE  Moving' /\ turn'.loop = turn.loop
  /\ turn'.at = (IF turn.gateway /\ evidence THEN "invoke" ELSE "answered")
<1>1. turn \in Turns /\ Unbegun /\ Placed /\ Bounded /\ Follows
  BY DEF Moving
<1>2. turn' = [turn EXCEPT !.evidence = evidence,
                           !.at = IF turn.gateway /\ evidence THEN "invoke" ELSE "answered",
                           !.answer = IF turn.gateway /\ evidence THEN "none" ELSE "fallback"]
  BY <1>1 DEF T!Found
<1>9. turn.at = "searching"
  BY DEF T!Found
<1>3. turn' \in Turns /\ turn'.evidence = evidence
      /\ turn'.at = (IF turn.gateway /\ evidence THEN "invoke" ELSE "answered")
         /\ turn'.answer = (IF turn.gateway /\ evidence THEN "none" ELSE "fallback")
      /\ turn'.loop = turn.loop /\ turn'.todo = turn.todo /\ turn'.next = turn.next
         /\ turn'.told = turn.told
      /\ turn'.asked = turn.asked /\ turn'.searched = turn.searched /\ turn'.read = turn.read
         /\ turn'.last = turn.last
      /\ turn'.call = turn.call /\ turn'.outcome = turn.outcome
  BY ZenonT(60), <1>1, <1>2, <1>9 DEF Turns
<1>4. Unbegun'
  BY <1>1, <1>3, <1>9 DEF Unbegun, Pages, Turns
<1>5. Placed'
  BY <1>1, <1>3, <1>9 DEF Placed, Pages, Turns
<1>6. Fetched' = Fetched
  BY <1>1, <1>3 DEF Fetched
<1>7. Bounded'
  BY <1>1, <1>3, <1>6, <1>9 DEF Bounded, Turns, Pages, Unbegun, Fetched
<1>10. Paused(turn.told, turn.todo, 0) /\ Fetched = 0 /\ 2 * Fetched = 0
  BY <1>1, <1>9 DEF Unbegun, Fetched
<1>11. Tells(turn.told, turn.todo)
  BY <1>1, <1>10, TellsNothing DEF Turns
<1>8. Follows'
  BY <1>3, <1>6, <1>10, <1>11 DEF Follows, Following
<1> QED BY <1>3, <1>4, <1>5, <1>7, <1>8 DEF Moving

LEMMA InvokeMoves ==
  ASSUME Moving, turn.at \in {"invoke", "ground"}, turn.loop # "pi", MaxCalls \in Nat,
         turn' = [turn EXCEPT !.asked = turn.asked + 1,
                              !.at = IF turn.at = "ground" THEN "waitGround" ELSE "wait"]
  PROVE  Moving' /\ turn'.loop = turn.loop
  /\ turn'.at = (IF turn.at = "ground" THEN "waitGround" ELSE "wait")
<1>1. turn \in Turns /\ Unbegun /\ Placed /\ Bounded /\ Follows
  BY DEF Moving
<1>2. turn' = [turn EXCEPT !.asked = turn.asked + 1,
                           !.at = IF turn.at = "ground" THEN "waitGround" ELSE "wait"]
  OBVIOUS
<1>9. turn.at \in {"invoke", "ground"} /\ turn.loop # "pi"
  OBVIOUS
<1>11. turn.asked <= 3
  BY <1>1, <1>9 DEF Bounded, Fetched
<1>12. turn.asked + 1 \in 0..(MaxCalls + 4)
  BY <1>1, <1>11 DEF Turns
<1>3. turn' \in Turns /\ turn'.asked = turn.asked + 1
      /\ turn'.at = (IF turn.at = "ground" THEN "waitGround" ELSE "wait")
      /\ turn'.loop = turn.loop /\ turn'.evidence = turn.evidence /\ turn'.todo = turn.todo
         /\ turn'.next = turn.next
      /\ turn'.told = turn.told /\ turn'.searched = turn.searched /\ turn'.read = turn.read
         /\ turn'.last = turn.last
      /\ turn'.call = turn.call /\ turn'.answer = turn.answer /\ turn'.outcome = turn.outcome
  BY <1>1, <1>2, <1>9, <1>11, <1>12 DEF Turns
<1>4. Unbegun'
  BY <1>1, <1>3, <1>9, <1>11, <1>12 DEF Unbegun, Pages, Turns
<1>5. Placed'
  BY <1>1, <1>3, <1>9, <1>11, <1>12 DEF Placed, Pages, Turns
<1>6. Fetched' = Fetched
  BY <1>1, <1>3 DEF Fetched
<1>7. Bounded'
  BY <1>1, <1>3, <1>6, <1>9, <1>11, <1>12 DEF Bounded, Turns, Pages
<1>8. Follows'
  BY <1>1, <1>3, <1>6, <1>9 DEF Follows, Following
<1> QED BY <1>3, <1>4, <1>5, <1>7, <1>8 DEF Moving

LEMMA InvokePiMoves ==
  ASSUME Moving, T!InvokePi, MaxCalls \in Nat
  PROVE  Moving' /\ turn'.loop = turn.loop /\ turn'.at = "wait"
<1>1. turn \in Turns /\ Unbegun /\ Placed /\ Bounded /\ Follows
  BY DEF Moving
<1>2. turn' = [turn EXCEPT !.at = "wait", !.asked = turn.asked + 1]
  BY <1>1 DEF T!InvokePi
<1>9. turn.at = "invoke" /\ turn.loop = "pi" /\ turn.asked < MaxCalls
  BY DEF T!InvokePi
<1>12. turn.asked + 1 \in 0..(MaxCalls + 4)
  BY <1>1, <1>9 DEF Turns
<1>3. turn' \in Turns /\ turn'.asked = turn.asked + 1 /\ turn'.at = "wait"
      /\ turn'.loop = turn.loop /\ turn'.evidence = turn.evidence /\ turn'.todo = turn.todo
         /\ turn'.next = turn.next
      /\ turn'.told = turn.told /\ turn'.searched = turn.searched /\ turn'.read = turn.read
         /\ turn'.last = turn.last
      /\ turn'.call = turn.call /\ turn'.answer = turn.answer /\ turn'.outcome = turn.outcome
  BY <1>1, <1>2, <1>9, <1>12 DEF Turns
<1>4. Unbegun'
  BY <1>1, <1>3, <1>9, <1>12 DEF Unbegun, Pages, Turns
<1>5. Placed'
  BY <1>1, <1>3, <1>9, <1>12 DEF Placed, Pages, Turns
<1>6. Fetched' = Fetched
  BY <1>1, <1>3 DEF Fetched
<1>7. Bounded'
  BY <1>1, <1>3, <1>6, <1>9, <1>12 DEF Bounded, Turns, Pages
<1>8. Follows'
  BY <1>1, <1>3, <1>9, <1>12, FollowsOn
<1> QED BY <1>3, <1>4, <1>5, <1>7, <1>8 DEF Moving

LEMMA NotifiedMoves ==
  ASSUME Moving, T!Notified
  PROVE  Moving' /\ turn'.loop = turn.loop /\ turn'.at = turn.next
<1>1. turn \in Turns /\ Unbegun /\ Placed /\ Bounded /\ Follows
  BY DEF Moving
<1>2. turn' = [turn EXCEPT !.at = turn.next]
  BY <1>1 DEF T!Notified, T!Goes
<1>9. turn.at = "notify" /\ turn.todo = <<>>
  BY DEF T!Notified
<1>3. turn' \in Turns /\ turn'.at = turn.next
      /\ turn'.loop = turn.loop /\ turn'.evidence = turn.evidence /\ turn'.todo = turn.todo
         /\ turn'.next = turn.next
      /\ turn'.told = turn.told /\ turn'.asked = turn.asked /\ turn'.searched = turn.searched
         /\ turn'.read = turn.read
      /\ turn'.last = turn.last /\ turn'.call = turn.call /\ turn'.answer = turn.answer
         /\ turn'.outcome = turn.outcome
  BY <1>1, <1>2, <1>9 DEF Turns
<1>4. Unbegun'
  BY <1>1, <1>3, <1>9 DEF Unbegun, Pages, Turns, Placed
<1>5. Placed'
  BY <1>1, <1>3, <1>9 DEF Placed, Pages, Turns, Placed
<1>6. Fetched' = Fetched
  BY <1>1, <1>3 DEF Fetched
<1>7. Bounded'
  BY <1>1, <1>3, <1>6, <1>9 DEF Bounded, Turns, Pages, Placed
<1>8. Follows'
  <2> SUFFICES ASSUME turn.loop = "internal" PROVE Following'
    BY <1>3 DEF Follows
  <2>1. Tells(turn.told, <<>>) /\ turn.told \in Seq(T!Notice)
    BY <1>1, <1>9 DEF Follows, Following, Tells
  <2>2. turn.next = "invoke" => Paused(turn.told, <<>>, 2 * Fetched)
    BY <1>1, <1>9, <2>1, TellsDone DEF Follows, Following
  <2> QED BY <1>1, <1>3, <1>6, <1>9, <2>1, <2>2 DEF Following, Turns
<1> QED BY <1>3, <1>4, <1>5, <1>7, <1>8 DEF Moving

LEMMA PiToolsMoves ==
  ASSUME Moving, NEW batch \in Seq(T!ToolsAsked), turn.at \in Pages, turn.loop = "pi",
         turn' = [turn EXCEPT !.at = "tools", !.batch = batch, !.denied = TRUE]
  PROVE  Moving' /\ turn'.loop = turn.loop /\ turn'.at = "tools"
<1>1. turn \in Turns /\ Unbegun /\ Placed /\ Bounded /\ Follows
  BY DEF Moving
<1>2. turn' = [turn EXCEPT !.at = "tools", !.batch = batch, !.denied = TRUE]
  BY <1>1 DEF Moving
<1>3. turn' \in Turns /\ turn'.at = "tools"
      /\ turn'.loop = turn.loop /\ turn'.evidence = turn.evidence /\ turn'.todo = turn.todo
         /\ turn'.next = turn.next
      /\ turn'.told = turn.told /\ turn'.asked = turn.asked /\ turn'.searched = turn.searched
         /\ turn'.read = turn.read
      /\ turn'.last = turn.last /\ turn'.call = turn.call /\ turn'.answer = turn.answer
         /\ turn'.outcome = turn.outcome
  BY ZenonT(60), <1>1, <1>2 DEF Turns
<1>4. Unbegun'
  BY <1>1, <1>3 DEF Unbegun, Pages, Turns
<1>5. Placed'
  BY <1>1, <1>3 DEF Placed, Pages, Turns
<1>6. Fetched' = Fetched
  BY <1>1, <1>3 DEF Fetched
<1>7. Bounded'
  BY <1>1, <1>3, <1>6 DEF Bounded, Turns, Pages
<1>8. Follows'
  BY <1>1, <1>3, FollowsOn
<1> QED BY <1>3, <1>4, <1>5, <1>7, <1>8 DEF Moving

LEMMA AsideMoves ==
  ASSUME Moving, turn.at = "wait", turn.loop # "pi",
         turn' = [turn EXCEPT
                    !.at = IF T!Protocol THEN "notify" ELSE "ground",
                    !.next = "ground",
                    !.todo = IF turn.searched THEN <<>> ELSE T!Both("search") \o T!Both("read")]
  PROVE  Moving' /\ turn'.loop = turn.loop /\ turn'.at \in {"notify", "ground"}
<1> DEFINE place == IF T!Protocol THEN "notify" ELSE "ground"
           todo == IF turn.searched THEN <<>> ELSE T!Both("search") \o T!Both("read")
<1>1. turn \in Turns /\ Unbegun /\ Placed /\ Bounded /\ Follows
  BY DEF Moving
<1>2. turn' = [turn EXCEPT !.at = place, !.next = "ground", !.todo = todo]
  BY <1>1 DEF Moving
<1>9. place \in {"notify", "ground"} /\ (place = "notify" <=> turn.loop = "internal")
  BY DEF T!Protocol
<1>10. todo \in Seq(T!Notice)
  BY NoticesAre
<1> HIDE DEF place, todo
<1>3. turn' \in Turns /\ turn'.at = place /\ turn'.next = "ground" /\ turn'.todo = todo
      /\ turn'.loop = turn.loop /\ turn'.evidence = turn.evidence /\ turn'.told = turn.told
         /\ turn'.asked = turn.asked
      /\ turn'.searched = turn.searched /\ turn'.read = turn.read /\ turn'.last = turn.last
         /\ turn'.call = turn.call
      /\ turn'.answer = turn.answer /\ turn'.outcome = turn.outcome
  BY ZenonT(60), <1>1, <1>2, <1>9, <1>10 DEF Turns
<1>4. Unbegun'
  BY <1>1, <1>3, <1>9, <1>10 DEF Unbegun, Pages, Turns
<1>5. Placed'
  BY <1>1, <1>3, <1>9, <1>10 DEF Placed, Pages, Turns
<1>6. Fetched' = Fetched
  BY <1>1, <1>3 DEF Fetched
<1>7. Bounded'
  BY <1>1, <1>3, <1>6, <1>9, <1>10 DEF Bounded, Turns, Pages, Fetched
<1>8. Follows'
  <2> SUFFICES ASSUME turn.loop = "internal" PROVE Following'
    BY <1>3 DEF Follows
  <2>1. Following /\ Paused(turn.told, turn.todo, 2 * Fetched) /\ place = "notify"
    BY <1>1, <1>9 DEF Follows, Following
  <2>2. CASE turn.searched
    BY <1>3, <2>1, <2>2, TellsNone DEF Following, todo
  <2>3. CASE ~ turn.searched
    <3>1. Paused(turn.told, turn.todo, 0)
      <4>1. 2 * Fetched = 0
        BY <1>1, <2>3 DEF Bounded, Fetched
      <4> QED BY <2>1, <4>1
    <3>2. todo = Notices
      BY <2>3, NoticesAre DEF todo
    <3>3. Tells(turn.told, Notices)
      BY <2>1, <3>1, TellsAll DEF Following
    <3> QED BY <1>3, <2>1, <3>2, <3>3 DEF Following
  <2> QED BY <2>2, <2>3
<1> QED BY <1>3, <1>4, <1>5, <1>7, <1>8, <1>9 DEF Moving

LEMMA AskMoves ==
  ASSUME Moving, turn.at = "wait", turn.loop # "pi", NEW tool \in {"search", "read", "nothing"},
         NEW next \in {"failing", "invoke"}, NEW todo \in Seq(T!Notice), NEW read \in BOOLEAN,
         tool = "search" <=> ~ turn.searched, ~ turn.read,
         read <=> tool = "read", next = "failing" <=> tool = "nothing",
         todo = IF tool = "nothing" THEN <<T!Requested("read")>> ELSE T!Both(tool),
         turn' = [turn EXCEPT !.at = "notify", !.next = next, !.todo = todo,
                              !.searched = TRUE, !.read = read]
  PROVE  Moving' /\ turn'.loop = turn.loop /\ turn'.at = "notify"
<1>1. turn \in Turns /\ Unbegun /\ Placed /\ Bounded /\ Follows
  BY DEF Moving
<1>2. turn' = [turn EXCEPT !.at = "notify", !.next = next, !.todo = todo,
                           !.searched = TRUE, !.read = read]
  BY <1>1 DEF Moving
<1>9. /\ Fetched = IF tool = "search" THEN 0 ELSE 1
      /\ turn.asked = Fetched + 1
  BY <1>1 DEF Bounded, Fetched, Turns
<1>3. turn' \in Turns /\ turn'.at = "notify" /\ turn'.next = next /\ turn'.todo = todo
      /\ turn'.searched = TRUE /\ turn'.read = read
      /\ turn'.loop = turn.loop /\ turn'.evidence = turn.evidence /\ turn'.told = turn.told
         /\ turn'.asked = turn.asked
      /\ turn'.last = turn.last /\ turn'.call = turn.call /\ turn'.answer = turn.answer
         /\ turn'.outcome = turn.outcome
  BY ZenonT(60), <1>1, <1>2, <1>9 DEF Turns
<1>4. Unbegun'
  BY <1>1, <1>3, <1>9 DEF Unbegun, Pages, Turns
<1>5. Placed'
  BY <1>1, <1>3, <1>9 DEF Placed, Pages, Turns
<1>6. Fetched' = IF tool = "nothing" THEN Fetched ELSE Fetched + 1
  BY <1>1, <1>3, <1>9 DEF Fetched, Turns
<1>7. Bounded'
  BY <1>1, <1>3, <1>6, <1>9 DEF Bounded, Turns, Pages
<1>8. Follows'
  <2> SUFFICES ASSUME turn.loop = "internal" PROVE Following'
    BY <1>3 DEF Follows
  <2>1. Following /\ Paused(turn.told, turn.todo, 2 * Fetched)
    BY <1>1 DEF Follows, Following
  <2>2. CASE tool = "nothing"
    BY <1>3, <1>9, <2>1, <2>2, TellsTool DEF Following
  <2>3. CASE tool # "nothing"
    <3>1. Tells(turn.told, todo) /\ Totals(turn.told, todo, 2 * (Fetched + 1))
      <4>1. /\ Fetched \in {0, 1} /\ tool = (IF Fetched = 0 THEN "search" ELSE "read")
            /\ todo = T!Both(tool)
        BY <1>9, <2>3
      <4>2. Tells(turn.told, turn.todo) /\ Paused(turn.told, turn.todo, 2 * Fetched)
        BY <2>1 DEF Following
      <4> DEFINE n == Fetched
                 a == turn.told
                 b == turn.todo
      <4>3. /\ n \in {0, 1} /\ tool = (IF n = 0 THEN "search" ELSE "read")
            /\ Tells(a, b) /\ Paused(a, b, 2 * n)
        BY <4>1, <4>2
      <4> HIDE DEF n, a, b
      <4>4. Tells(a, T!Both(tool)) /\ Totals(a, T!Both(tool), 2 * (n + 1))
        BY <4>3, TellsTool
      <4> QED BY <4>1, <4>4 DEF n, a
    <3> QED BY <1>3, <1>6, <2>3, <3>1 DEF Following
  <2> QED BY <2>2, <2>3
<1> QED BY <1>3, <1>4, <1>5, <1>7, <1>8 DEF Moving

LEMMA NotifyMoves ==
  ASSUME Moving, turn.at \in {"notify", "show"}, turn.todo # <<>>,
         turn' = [turn EXCEPT !.told = IF turn.loop = "query" THEN turn.told
                                       ELSE Append(turn.told, Head(turn.todo)),
                              !.todo = Tail(turn.todo)]
  PROVE  Moving' /\ turn'.loop = turn.loop /\ turn'.at = turn.at
<1> DEFINE told == IF turn.loop = "query" THEN turn.told ELSE Append(turn.told, Head(turn.todo))
           todo == Tail(turn.todo)
<1>1. turn \in Turns /\ Unbegun /\ Placed /\ Bounded /\ Follows
  BY DEF Moving
<1>2. turn' = [turn EXCEPT !.told = told, !.todo = todo]
  OBVIOUS
<1>9. turn.at \in {"notify", "show"} /\ (turn.at = "show" => turn.loop = "pi")
      /\ turn.todo # <<>> /\ turn.todo \in Seq(T!Notice) /\ turn.told \in Seq(T!Notice)
  BY <1>1 DEF Placed, Turns
<1>10. told \in Seq(T!Notice) /\ todo \in Seq(T!Notice)
  BY <1>9
<1> HIDE DEF told, todo
<1>3. turn' \in Turns /\ turn'.told = told /\ turn'.todo = todo
      /\ turn'.loop = turn.loop /\ turn'.evidence = turn.evidence /\ turn'.at = turn.at
         /\ turn'.next = turn.next
      /\ turn'.asked = turn.asked /\ turn'.searched = turn.searched /\ turn'.read = turn.read
         /\ turn'.last = turn.last
      /\ turn'.call = turn.call /\ turn'.answer = turn.answer /\ turn'.outcome = turn.outcome
  BY <1>1, <1>2, <1>9, <1>10 DEF Turns
<1>4. Unbegun'
  BY <1>1, <1>3, <1>9, <1>10 DEF Unbegun, Pages, Turns
<1>5. Placed'
  BY <1>1, <1>3, <1>9, <1>10 DEF Placed, Pages, Turns
<1>6. Fetched' = Fetched
  BY <1>1, <1>3 DEF Fetched
<1>7. Bounded'
  BY <1>1, <1>3, <1>6, <1>9, <1>10 DEF Bounded, Turns, Pages
<1>8. Follows'
  <2> SUFFICES ASSUME turn.loop = "internal" PROVE Following'
    BY <1>3 DEF Follows
  <2>1. Following /\ told = Append(turn.told, Head(turn.todo)) /\ todo = Tail(turn.todo)
    BY <1>1 DEF Follows, told, todo
  <2>2. Tells(told, todo) /\ (Totals(turn.told, turn.todo, 2 * Fetched) => Totals(told, todo, 2 * Fetched))
    BY <1>9, <2>1, TellsNext DEF Following
  <2> QED BY <1>3, <1>6, <1>9, <2>1, <2>2 DEF Following
<1> QED BY <1>3, <1>4, <1>5, <1>7, <1>8 DEF Moving

LEMMA PiToolMoves ==
  ASSUME Moving, turn.at = "tools", NEW batch \in Seq(T!ToolsAsked), NEW todo \in Seq(T!Notice),
         NEW denied \in BOOLEAN, NEW read \in BOOLEAN,
         turn' = [turn EXCEPT !.batch = batch, !.todo = todo, !.denied = denied, !.read = read]
  PROVE  Moving' /\ turn'.loop = turn.loop /\ turn'.at = turn.at
<1>1. turn \in Turns /\ Unbegun /\ Placed /\ Bounded /\ Follows
  BY DEF Moving
<1>2. turn' = [turn EXCEPT !.batch = batch, !.todo = todo, !.denied = denied, !.read = read]
  OBVIOUS
<1>6. turn.loop = "pi"
  BY <1>1 DEF Placed
<1>3. turn' \in Turns /\ turn'.todo = todo /\ turn'.read = read
      /\ turn'.loop = turn.loop /\ turn'.evidence = turn.evidence /\ turn'.at = turn.at
         /\ turn'.told = turn.told
      /\ turn'.next = turn.next /\ turn'.asked = turn.asked /\ turn'.searched = turn.searched
         /\ turn'.last = turn.last
      /\ turn'.call = turn.call /\ turn'.answer = turn.answer /\ turn'.outcome = turn.outcome
  BY ZenonT(60), <1>1, <1>2, <1>6 DEF Turns
<1>4. Unbegun'
  BY <1>1, <1>3, <1>6 DEF Unbegun, Pages, Turns
<1>5. Placed'
  BY <1>1, <1>3, <1>6 DEF Placed, Pages, Turns
<1>7. Bounded'
  BY <1>1, <1>3, <1>6, <1>6 DEF Bounded, Turns, Pages
<1>8. Follows'
  BY <1>3, <1>6 DEF Follows
<1> QED BY <1>3, <1>4, <1>5, <1>7, <1>8 DEF Moving

-------------------------------------------------------------------------------
(* Nobody looked, and nothing was begun.                                    *)
LEMMA NothingBegun ==
  ASSUME TurnIInv, T!Quiet, turn'.loop = turn.loop,
         turn'.at \notin {"idle", "search", "searching"} \/ turn.at \in {"idle", "search", "searching"}
  PROVE  Around' /\ Overtakes'
BY DEF TurnIInv, Around, Overtakes, Passes, Uncounted, T!Quiet

(* What had passed is begun, or a query begins it.                          *)
LEMMA SomethingBegun ==
  ASSUME TurnIInv, NEW what \in T!Things, T!Begins(what),
         turn'.loop = turn.loop, turn'.at \notin {"idle", "search", "searching"},
         passed = what \/ turn.loop = "query"
  PROVE  Around' /\ Overtakes'
<1>1. Around /\ Overtakes
  BY DEF TurnIInv
<1>2. late' = (IF readable THEN late ELSE Append(late, what)) /\ passed' = "none"
      /\ readable' = readable /\ stopped' = stopped /\ overtaken' = overtaken
  BY DEF T!Begins
<1>3. late' \in Seq(T!Things)
  BY <1>1, <1>2 DEF Around
<1>4. Around'
  BY <1>1, <1>2, <1>3 DEF Around, Passes
<1>5. CASE readable \/ turn.loop = "query"
  BY <1>1, <1>2, <1>4, <1>5 DEF Overtakes, Uncounted
<1>6. CASE ~ readable /\ turn.loop # "query"
  <2>1. what \notin Uncounted
    BY DEF T!Things, T!Fetches, Uncounted
  <2>2. late = <<>> /\ what = overtaken
    BY <1>1, <1>6, <2>1 DEF Overtakes
  <2>3. Append(late, what) = <<overtaken>>
    BY <2>2
  <2> QED BY <1>2, <1>4, <1>6, <2>3 DEF Overtakes, Uncounted
<1> QED BY <1>4, <1>5, <1>6

(* Something passes while the bindings are readable, or nothing that counts does. *)
LEMMA Passing ==
  ASSUME TurnIInv, NEW what \in Passes, passed' = what, what \in Uncounted \/ readable \/ turn.loop = "query",
         UNCHANGED <<readable, stopped, overtaken, late>>, turn'.loop = turn.loop,
         turn'.at \notin {"idle", "search", "searching"}
  PROVE  Around' /\ Overtakes'
BY DEF TurnIInv, Around, Overtakes, Passes, Uncounted

LEMMA TurnStays == ASSUME Moving, UNCHANGED turn PROVE Moving'
BY DEF Moving, Unbegun, Placed, Bounded, Follows, Following, Fetched

LEMMA PassKeeps ==
  ASSUME TurnIInv, NEW what \in Passes, passed' = what, what \in Uncounted \/ readable \/ turn.loop = "query",
         UNCHANGED <<turn, readable, stopped, overtaken, late>>,
         turn.at \notin {"idle", "search", "searching"}
  PROVE  TurnIInv'
<1>1. Moving'
  BY TurnStays DEF TurnIInv
<1> QED BY <1>1, Passing DEF TurnIInv

(* A refusal ends the turn.                                                 *)
LEMMA RefusedKeeps ==
  ASSUME TurnIInv, NEW o \in {"cancelled", "revoked"}, T!Ends(o), passed' = "none",
         UNCHANGED <<readable, stopped, overtaken, late>>
  PROVE  TurnIInv'
<1>1. Moving' /\ turn'.loop = turn.loop /\ turn'.at = "ended"
  BY EndsMoves DEF TurnIInv, T!Outcomes
<1> QED BY <1>1, Passing DEF TurnIInv, Passes, Uncounted

LEMMA TurnLookKeeps ==
  ASSUME TurnIInv, NEW what \in Passes, T!Look(what), turn.at \notin {"idle", "search", "searching"}
  PROVE  TurnIInv'
<1>1. UNCHANGED <<readable, stopped, overtaken, late>>
  BY DEF T!Look
<1>2. CASE (readable \/ turn.loop = "query") /\ passed' = what /\ UNCHANGED turn
  BY <1>1, <1>2, PassKeeps
<1>3. CASE passed' = "none" /\ T!Ends("revoked")
  BY <1>1, <1>3, RefusedKeeps
<1> QED BY <1>2, <1>3 DEF T!Look

LEMMA TurnStopsKeeps == ASSUME TurnIInv, T!Stops PROVE TurnIInv'
BY RefusedKeeps DEF T!Stops

LEMMA TurnEndsKeeps ==
  ASSUME TurnIInv, NEW o \in T!Outcomes, T!Ends(o), o = "completed" => turn.answer # "none",
         T!Quiet
  PROVE  TurnIInv'
<1>1. Moving' /\ turn'.loop = turn.loop /\ turn'.at = "ended"
  BY EndsMoves DEF TurnIInv
<1> QED BY <1>1, NothingBegun DEF TurnIInv

LEMMA DeniedKeeps == ASSUME TurnIInv, T!Denied PROVE TurnIInv'
<1>1. PICK o \in {"cancelled", "revoked"} : T!Ends(o)
  BY DEF T!Denied
<1> QED BY <1>1, TurnEndsKeeps DEF T!Denied, T!Outcomes

LEMMA FallBackKeeps ==
  ASSUME TurnIInv, NEW c \in {"succeeded", "failed"}, T!FallBack(c), turn.at # "ended",
         T!Quiet
  PROVE  TurnIInv'
<1>1. Moving' /\ turn'.loop = turn.loop /\ turn'.at = "answered"
  BY FallBackMoves DEF TurnIInv
<1> QED BY <1>1, NothingBegun DEF TurnIInv

LEMMA GenerateKeeps ==
  ASSUME TurnIInv, T!Generate("valid"), turn.at \in Pages, T!Quiet
  PROVE  TurnIInv'
<1>1. Moving' /\ turn'.loop = turn.loop /\ turn'.at = "answered"
  BY GenerateMoves DEF TurnIInv
<1> QED BY <1>1, NothingBegun DEF TurnIInv

LEMMA FailingKeeps ==
  ASSUME TurnIInv, T!Goes("failing"), turn.at \in Pages, T!Quiet
  PROVE  TurnIInv'
<1>1. Moving' /\ turn'.loop = turn.loop /\ turn'.at = "failing"
  BY GoesMoves DEF TurnIInv
<1> QED BY <1>1, NothingBegun DEF TurnIInv

LEMMA TurnStartKeeps ==
  ASSUME TurnIInv, NEW loop \in T!Loops, NEW gateway \in BOOLEAN, T!Start(loop, gateway)
  PROVE  TurnIInv'
<1>1. Moving' /\ turn'.loop = loop /\ turn'.at = "search"
  BY TurnStartMoves DEF TurnIInv
<1>2. Around /\ turn.at = "idle" /\ T!Quiet
  BY DEF TurnIInv, T!Start
<1> QED BY <1>1, <1>2 DEF TurnIInv, Around, Overtakes, Passes, Uncounted, T!Quiet

LEMMA SearchKeeps ==
  ASSUME TurnIInv, T!SearchBound \/ T!FoundTooLate
  PROVE  TurnIInv'
<1>1. CASE T!Denied
  BY <1>1, DeniedKeeps
<1>2. CASE T!Ends("cancelled") /\ T!Quiet
  BY <1>2, TurnEndsKeeps DEF T!Outcomes
<1>3. CASE turn.at = "search" /\ T!Goes("searching") /\ T!Quiet
  <2>1. Moving' /\ turn'.loop = turn.loop /\ turn'.at = "searching"
    BY <1>3, GoesMoves DEF TurnIInv
  <2> QED BY <1>3, <2>1, NothingBegun DEF TurnIInv
<1> QED BY <1>1, <1>2, <1>3 DEF T!SearchBound, T!FoundTooLate

LEMMA FoundKeeps ==
  ASSUME TurnIInv, NEW evidence \in BOOLEAN, T!Found(evidence)
  PROVE  TurnIInv'
<1>1. Moving' /\ turn'.loop = turn.loop /\ turn'.at \in {"invoke", "answered"}
  BY FoundMoves DEF TurnIInv
<1>2. T!Quiet
  BY DEF T!Found
<1> QED BY <1>1, <1>2, NothingBegun DEF TurnIInv

LEMMA InvokeKeeps ==
  ASSUME TurnIInv, T!LookToInvoke \/ T!Invoke, MaxCalls \in Nat
  PROVE  TurnIInv'
<1>1. CASE T!LookToInvoke
  BY <1>1, TurnLookKeeps, TurnStopsKeeps DEF T!LookToInvoke, Passes, T!Things
<1>2. CASE T!Invoke
  <2>1. CASE T!Stops
    BY <2>1, TurnStopsKeeps
  <2>2. ASSUME turn' = [turn EXCEPT !.asked = turn.asked + 1,
                                    !.at = IF turn.at = "ground" THEN "waitGround" ELSE "wait"],
               T!Begins("call")
        PROVE  TurnIInv'
    <3>1. turn.at \in {"invoke", "ground"} /\ turn.loop # "pi" /\ passed = "call"
      BY <1>2 DEF T!Invoke
    <3>2. Moving' /\ turn'.loop = turn.loop /\ turn'.at \in {"wait", "waitGround"}
      BY <2>2, <3>1, InvokeMoves DEF TurnIInv
    <3> QED BY <2>2, <3>1, <3>2, SomethingBegun DEF TurnIInv, T!Things
  <2> QED BY <1>2, <2>1, <2>2 DEF T!Invoke
<1> QED BY <1>1, <1>2

LEMMA InvokePiKeeps == ASSUME TurnIInv, T!InvokePi, MaxCalls \in Nat PROVE TurnIInv'
<1>1. Moving' /\ turn'.loop = turn.loop /\ turn'.at = "wait"
  BY InvokePiMoves DEF TurnIInv
<1> QED BY <1>1, NothingBegun DEF TurnIInv, T!InvokePi

LEMMA NotifyKeeps == ASSUME TurnIInv, T!Notify PROVE TurnIInv'
<1>1. /\ turn.at \in {"notify", "show"} /\ turn.todo # <<>> /\ passed = "notice"
      /\ turn' = [turn EXCEPT !.told = IF turn.loop = "query" THEN turn.told
                                       ELSE Append(turn.told, Head(turn.todo)),
                              !.todo = Tail(turn.todo)]
      /\ T!Begins("notice")
  BY DEF T!Notify
<1>2. Moving' /\ turn'.loop = turn.loop /\ turn'.at = turn.at
  BY <1>1, NotifyMoves DEF TurnIInv
<1> QED BY <1>1, <1>2, SomethingBegun DEF TurnIInv, T!Things

(* A look for a notice, a chunk or the result; the signal is looked at in between. *)
LEMMA LooksKeep ==
  ASSUME TurnIInv, T!LookToNotify \/ T!Listen \/ T!LookAgain \/ T!LookToShow \/ T!Settle
  PROVE  TurnIInv'
<1>1. {"call", "notice", "answer", "result", "noticing", "asking"} \subseteq Passes
  BY DEF Passes, T!Things
<1>2. Around
  BY DEF TurnIInv
<1>3. CASE T!LookToNotify
  BY <1>1, <1>3, TurnLookKeeps DEF T!LookToNotify
<1>4. CASE T!Listen
  <2>1. turn.at \notin {"idle", "search", "searching"}
    BY <1>2, <1>4 DEF T!Listen, Around
  <2>2. CASE T!Stops
    BY <2>2, TurnStopsKeeps
  <2>3. CASE passed' = "asking" /\ UNCHANGED <<turn, readable, stopped, overtaken, late>>
    BY <1>1, <2>1, <2>3, PassKeeps DEF Uncounted
  <2> QED BY <1>4, <2>2, <2>3 DEF T!Listen
<1>5. CASE T!LookAgain
  <2>1. turn.at \notin {"idle", "search", "searching"}
    BY <1>2, <1>5 DEF T!LookAgain, Around
  <2> QED BY <1>1, <1>5, <2>1, TurnLookKeeps DEF T!LookAgain
<1>6. CASE T!LookToShow
  BY <1>1, <1>6, TurnLookKeeps DEF T!LookToShow
<1>7. CASE T!Settle
  BY <1>1, <1>7, TurnLookKeeps, TurnStopsKeeps DEF T!Settle
<1> QED BY <1>3, <1>4, <1>5, <1>6, <1>7

LEMMA NotifiedKeeps == ASSUME TurnIInv, T!Notified PROVE TurnIInv'
<1>1. Moving' /\ turn'.loop = turn.loop /\ turn'.at = turn.next
  BY NotifiedMoves DEF TurnIInv
<1>2. turn.next \notin {"idle", "search", "searching"} /\ T!Quiet
  BY DEF T!Notified, TurnIInv, Moving, Placed, Turns
<1> QED BY <1>1, <1>2, NothingBegun DEF TurnIInv

LEMMA AnswerTextKeeps ==
  ASSUME TurnIInv, NEW text, T!AnswerText(text)
  PROVE  TurnIInv'
<1>1. turn.at = "wait" /\ turn.loop # "pi" /\ T!Quiet
  BY DEF T!AnswerText
<1>2. CASE text = "valid" /\ T!Fitting
  BY <1>1, <1>2, GenerateKeeps DEF T!AnswerText, Pages
<1>3. CASE ~ (text = "valid" /\ T!Fitting)
  <2>1. turn' = [turn EXCEPT
                  !.at = IF T!Protocol THEN "notify" ELSE "ground",
                  !.next = "ground",
                  !.todo = IF turn.searched THEN <<>> ELSE T!Both("search") \o T!Both("read")]
    BY <1>3 DEF T!AnswerText
  <2>2. Moving' /\ turn'.loop = turn.loop /\ turn'.at \in {"notify", "ground"}
    BY <1>1, <2>1, AsideMoves DEF TurnIInv
  <2> QED BY <1>1, <2>2, NothingBegun DEF TurnIInv
<1> QED BY <1>2, <1>3

LEMMA AskToolKeeps ==
  ASSUME TurnIInv, NEW tool \in T!ToolsAsked, T!AskTool(tool)
  PROVE  TurnIInv'
<1>1. turn.at = "wait" /\ turn.loop # "pi" /\ T!Quiet
  BY DEF T!AskTool
<1>2. CASE T!Goes("failing")
  BY <1>1, <1>2, FailingKeeps DEF Pages
<1>3. CASE /\ \/ tool = "search" /\ ~turn.searched
              \/ tool \in {"read", "nothing"} /\ turn.searched /\ ~turn.read
           /\ turn' = [turn EXCEPT
               !.at = "notify",
               !.next = IF tool = "nothing" THEN "failing" ELSE "invoke",
               !.todo = IF tool = "nothing" THEN <<T!Requested("read")>> ELSE T!Both(tool),
               !.searched = TRUE,
               !.read = turn.read \/ tool = "read"]
  <2> DEFINE next == IF tool = "nothing" THEN "failing" ELSE "invoke"
             todo == IF tool = "nothing" THEN <<T!Requested("read")>> ELSE T!Both(tool)
             read == turn.read \/ tool = "read"
  <2>1. turn \in Turns /\ (turn.loop # "pi" => (turn.read => turn.searched))
    BY DEF TurnIInv, Moving, Bounded
  <2>2. /\ tool \in {"search", "read", "nothing"} /\ ~ turn.read
           /\ (tool = "search" <=> ~ turn.searched)
    BY <1>1, <1>3, <2>1
  <2>3. todo \in Seq(T!Notice)
    BY <2>2, NoticesAre
  <2>4. read \in BOOLEAN /\ (read <=> tool = "read")
    BY <2>2
  <2>5. next \in {"failing", "invoke"} /\ (next = "failing" <=> tool = "nothing")
    OBVIOUS
  <2>6. turn' = [turn EXCEPT !.at = "notify", !.next = next, !.todo = todo,
                             !.searched = TRUE, !.read = read]
    BY <1>3
  <2>7. todo = IF tool = "nothing" THEN <<T!Requested("read")>> ELSE T!Both(tool)
    OBVIOUS
  <2> HIDE DEF next, todo, read
  <2>8. Moving' /\ turn'.loop = turn.loop /\ turn'.at = "notify"
    BY <1>1, <2>2, <2>3, <2>4, <2>5, <2>6, <2>7, AskMoves DEF TurnIInv
  <2> QED BY <1>1, <2>8, NothingBegun DEF TurnIInv
<1> QED BY <1>2, <1>3 DEF T!AskTool

LEMMA PiToolsKeeps ==
  ASSUME TurnIInv, NEW asked \in T!ToolsAsked, T!PiTools(asked)
  PROVE  TurnIInv'
<1>1. turn.at = "wait" /\ turn.loop = "pi" /\ T!Quiet
  BY DEF T!PiTools
<1>2. PICK batch \in T!Batch(asked) :
         turn' = [turn EXCEPT !.at = "tools", !.batch = batch, !.denied = TRUE]
  BY DEF T!PiTools
<1>3. batch \in Seq(T!ToolsAsked)
  <2>1. CASE asked = "two"
    <3>1. PICK s, t \in {"read", "unknown"} : batch = <<s, t>>
      BY <2>1 DEF T!Batch
    <3> QED BY <3>1 DEF T!ToolsAsked
  <2>2. CASE asked # "two"
    <3>1. batch = <<IF asked = "nothing" THEN "read" ELSE asked>>
      BY <2>2 DEF T!Batch
    <3>2. (IF asked = "nothing" THEN "read" ELSE asked) \in T!ToolsAsked
      BY DEF T!ToolsAsked
    <3> QED BY <3>1, <3>2
  <2> QED BY <2>1, <2>2
<1>4. Moving' /\ turn'.loop = turn.loop /\ turn'.at = "tools"
  BY <1>1, <1>2, <1>3, PiToolsMoves DEF TurnIInv, Pages
<1> QED BY <1>1, <1>4, NothingBegun DEF TurnIInv

LEMMA PiAllowKeeps == ASSUME TurnIInv, T!PiAllow PROVE TurnIInv'
<1>1. /\ turn.at = "tools" /\ turn.batch # <<>> /\ readable /\ passed' = Head(turn.batch)
      /\ UNCHANGED <<turn, readable, stopped, overtaken, late>>
  BY DEF T!PiAllow, T!Policy
<1>2. turn.batch \in Seq(T!ToolsAsked)
  BY DEF TurnIInv, Moving, Turns
<1>3. Head(turn.batch) \in Passes
  BY <1>1, <1>2 DEF Passes
<1> QED BY <1>1, <1>3, PassKeeps

LEMMA PiToolKeeps == ASSUME TurnIInv, T!PiTool PROVE TurnIInv'
<1> DEFINE tool == Head(turn.batch)
           batch == Tail(turn.batch)
           todo == turn.todo \o T!Shown(tool)
           denied == turn.denied /\ tool # "unknown" /\ passed = "none"
           read == turn.read \/ passed = "read"
<1>1. /\ turn.at = "tools" /\ turn.batch # <<>>
      /\ turn' = [turn EXCEPT !.batch = batch, !.todo = todo, !.denied = denied, !.read = read]
      /\ \/ passed \in T!Fetches /\ T!Begins(passed)
         \/ passed' = "none" /\ UNCHANGED <<readable, stopped, overtaken, late>>
  BY DEF T!PiTool
<1>2. turn.batch \in Seq(T!ToolsAsked) /\ turn.todo \in Seq(T!Notice)
      /\ turn.denied \in BOOLEAN /\ turn.read \in BOOLEAN
  BY DEF TurnIInv, Moving, Turns
<1>3. batch \in Seq(T!ToolsAsked)
  BY <1>1, <1>2
<1>4. T!Shown(tool) \in Seq(T!Notice)
  <2>1. T!Completed("search") \in T!Notice
    BY DEF T!Completed, T!Notice
  <2> QED BY <2>1, NoticesAre DEF T!Shown
<1>5. todo \in Seq(T!Notice)
  BY <1>2, <1>4
<1>6. denied \in BOOLEAN /\ read \in BOOLEAN
  BY <1>2
<1> HIDE DEF batch, todo, denied, read
<1>7. Moving' /\ turn'.loop = turn.loop /\ turn'.at = turn.at
  BY <1>1, <1>3, <1>5, <1>6, PiToolMoves DEF TurnIInv
<1>8. CASE passed \in T!Fetches /\ T!Begins(passed)
  BY <1>1, <1>7, <1>8, SomethingBegun DEF TurnIInv, T!Things
<1>9. CASE passed' = "none" /\ UNCHANGED <<readable, stopped, overtaken, late>>
  BY <1>1, <1>7, <1>9, Passing DEF TurnIInv, Passes, Uncounted
<1> QED BY <1>1, <1>8, <1>9

LEMMA PiBatchEndsKeeps == ASSUME TurnIInv, T!PiBatchEnds PROVE TurnIInv'
<1>1. turn.at = "tools" /\ turn.loop = "pi" /\ T!Quiet
  BY DEF T!PiBatchEnds, TurnIInv, Moving, Placed
<1>2. CASE T!FallBack("succeeded")
  BY <1>1, <1>2, FallBackKeeps
<1>3. CASE T!Goes("invoke")
  <2>1. Moving' /\ turn'.loop = turn.loop /\ turn'.at = "invoke"
    BY <1>1, <1>3, GoesMoves DEF TurnIInv, Pages
  <2> QED BY <1>1, <2>1, NothingBegun DEF TurnIInv
<1> QED BY <1>2, <1>3 DEF T!PiBatchEnds

LEMMA ModelAnswersKeeps == ASSUME TurnIInv, T!ModelAnswers PROVE TurnIInv'
<1>1. ASSUME NEW text \in T!Texts, T!PiText(text) PROVE TurnIInv'
  <2>1. turn.at = "wait" /\ T!Quiet
    BY <1>1 DEF T!PiText
  <2> QED BY <1>1, <2>1, GenerateKeeps, FallBackKeeps DEF T!PiText, Pages
<1>2. ASSUME NEW answer, T!AnswerGround(answer) PROVE TurnIInv'
  <2>1. turn.at = "waitGround" /\ T!Quiet
    BY <1>2 DEF T!AnswerGround
  <2> QED BY <1>2, <2>1, GenerateKeeps, FailingKeeps DEF T!AnswerGround, Pages
<1>3. ASSUME NEW failure, T!CallFails(failure) PROVE TurnIInv'
  <2>1. turn.at \in {"wait", "waitGround"} /\ T!Quiet
    BY <1>3 DEF T!CallFails
  <2> QED BY <1>3, <2>1, TurnEndsKeeps, FailingKeeps DEF T!CallFails, Pages, T!Outcomes
<1>4. ASSUME NEW answer, T!PiFails(answer) PROVE TurnIInv'
  <2>1. turn.at = "wait" /\ T!Quiet
    BY <1>4 DEF T!PiFails
  <2>2. PICK c \in {"succeeded", "failed"} : T!FallBack(c)
    BY <1>4 DEF T!PiFails
  <2> QED BY <2>1, <2>2, FallBackKeeps
<1> QED BY <1>1, <1>2, <1>3, <1>4, AnswerTextKeeps, AskToolKeeps, PiToolsKeeps DEF T!ModelAnswers

LEMMA CompletesKeeps ==
  ASSUME TurnIInv, NEW what \in T!Things, T!Ends("completed"), T!Begins(what),
         passed = what \/ turn.loop = "query", turn.at \in {"answered", "settle"}
  PROVE  TurnIInv'
<1>1. turn.answer # "none"
  BY DEF TurnIInv, Moving, Placed
<1>2. Moving' /\ turn'.loop = turn.loop /\ turn'.at = "ended"
  BY <1>1, EndsMoves DEF TurnIInv, T!Outcomes
<1> QED BY <1>2, SomethingBegun DEF TurnIInv

LEMMA PublishKeeps ==
  ASSUME TurnIInv, T!Answered \/ T!Shows \/ T!Publish \/ T!ShowResult
  PROVE  TurnIInv'
<1>1. CASE T!Answered
  <2>1. turn.at = "answered"
    BY <1>1 DEF T!Answered
  <2>2. CASE turn.loop = "query" /\ T!Ends("completed") /\ T!Begins("answer")
    BY <2>1, <2>2, CompletesKeeps DEF T!Things
  <2>3. CASE T!Stops
    BY <2>3, TurnStopsKeeps
  <2>4. CASE T!Quiet /\ T!Goes(IF turn.loop = "pi" THEN "show" ELSE "publish")
    <3>1. Moving' /\ turn'.loop = turn.loop /\ turn'.at \in {"show", "publish"}
      BY <2>1, <2>4, GoesMoves DEF TurnIInv
    <3> QED BY <2>4, <3>1, NothingBegun DEF TurnIInv
  <2> QED BY <1>1, <2>2, <2>3, <2>4 DEF T!Answered
<1>2. CASE T!Shows
  <2>1. Moving' /\ turn'.loop = turn.loop /\ turn'.at = "publish"
    BY <1>2, GoesMoves DEF TurnIInv, T!Shows
  <2> QED BY <1>2, <2>1, NothingBegun DEF TurnIInv, T!Shows
<1>3. CASE T!Publish
  <2>1. turn.at = "publish" /\ passed = "answer" /\ T!Begins("answer")
    BY <1>3 DEF T!Publish
  <2>2. CASE UNCHANGED turn
    <3>1. Moving'
      BY <2>2, TurnStays DEF TurnIInv
    <3> QED BY <2>1, <2>2, <3>1, SomethingBegun DEF TurnIInv, T!Things
  <2>3. CASE T!Goes("settle")
    <3>1. Moving' /\ turn'.loop = turn.loop /\ turn'.at = "settle"
      BY <2>1, <2>3, GoesMoves DEF TurnIInv
    <3> QED BY <2>1, <3>1, SomethingBegun DEF TurnIInv, T!Things
  <2> QED BY <1>3, <2>2, <2>3 DEF T!Publish
<1>4. CASE T!ShowResult
  BY <1>4, CompletesKeeps DEF T!ShowResult, T!Things
<1> QED BY <1>1, <1>2, <1>3, <1>4

LEMMA OutsideKeeps ==
  ASSUME TurnIInv, T!Revoke \/ T!Abort \/ UNCHANGED T!turnVars
  PROVE  TurnIInv'
<1>1. turn' = turn /\ late' = late /\ passed' = passed /\ stopped' \in BOOLEAN
      /\ \/ readable' = readable /\ overtaken' = overtaken
         \/ readable /\ readable' = FALSE /\ overtaken' = passed
  BY DEF T!Revoke, T!Abort, T!turnVars, TurnIInv, Around
<1>2. Moving'
  BY <1>1, TurnStays DEF TurnIInv
<1>3. Around'
  BY <1>1 DEF TurnIInv, Around
<1>4. CASE readable' = readable /\ overtaken' = overtaken
  <2>1. Overtakes'
    BY <1>1, <1>4 DEF TurnIInv, Overtakes, Uncounted
  <2> QED BY <1>2, <1>3, <2>1 DEF TurnIInv
<1>5. CASE readable /\ readable' = FALSE /\ overtaken' = passed
  <2>1. Overtakes'
    BY <1>1, <1>5 DEF TurnIInv, Overtakes
  <2> QED BY <1>2, <1>3, <2>1 DEF TurnIInv
<1> QED BY <1>1, <1>4, <1>5

LEMMA TurnInitIInv == MaxCalls \in Nat /\ T!Init => TurnIInv
<1> SUFFICES ASSUME MaxCalls \in Nat, T!Init PROVE TurnIInv
  OBVIOUS
<1>1. turn \in Turns
  BY DEF T!Init, T!Idle, Turns, T!Loops, T!Outcomes
<1>2. Paused(turn.told, turn.todo, 0) /\ Tells(turn.told, turn.todo)
  BY DEF T!Init, T!Idle, Paused, Tells
<1>3. Unbegun /\ Placed /\ Bounded /\ Follows
  BY <1>2 DEF T!Init, T!Idle, Unbegun, Placed, Bounded, Follows, Following, Pages
<1>4. late = <<>> /\ late \in Seq(T!Things) /\ turn.loop = "query"
      /\ readable = TRUE /\ stopped = FALSE /\ passed = "none" /\ overtaken = "none"
  BY DEF T!Init, T!Idle
<1>5. Around /\ Overtakes
  BY <1>4 DEF Around, Overtakes, Passes
<1> QED BY <1>1, <1>3, <1>5 DEF TurnIInv, Moving

LEMMA TurnNextKeeps == ASSUME TurnIInv, MaxCalls \in Nat, T!Next PROVE TurnIInv'
<1>1. ASSUME T!CatchFailure PROVE TurnIInv'
  <2>1. turn.at = "failing" /\ T!Quiet
    BY <1>1 DEF T!CatchFailure
  <2> QED BY <1>1, <2>1, TurnEndsKeeps, FallBackKeeps DEF T!CatchFailure, T!Outcomes
<1>2. ASSUME T!ModelCancelled PROVE TurnIInv'
  BY <1>2, TurnEndsKeeps DEF T!ModelCancelled, T!Outcomes
<1> QED BY <1>1, <1>2, TurnStartKeeps, SearchKeeps, FoundKeeps, InvokeKeeps, NotifyKeeps, LooksKeep,
           NotifiedKeeps, InvokePiKeeps, PiAllowKeeps, PiToolKeeps, PiBatchEndsKeeps,
           ModelAnswersKeeps, PublishKeeps, OutsideKeeps DEF T!Next

LEMMA TurnIInvHonest == TurnIInv => T!TypeOK /\ T!AnswerHonest /\ T!RevocationStops
<1> SUFFICES ASSUME TurnIInv PROVE T!AnswerHonest
  BY TurnTyped DEF TurnIInv, Overtakes, T!RevocationStops
<1>1. turn \in Turns /\ Placed /\ Bounded /\ Follows
  BY DEF TurnIInv, Moving
<1>2. turn.loop = "internal" =>
        /\ \A i \in DOMAIN turn.told : turn.told[i].phase = "completed" =>
                i > 1 /\ turn.told[i - 1] = T!Requested(turn.told[i].tool)
        /\ T!IsInjective(turn.told)
  <2> SUFFICES ASSUME turn.loop = "internal"
               PROVE  /\ \A i \in DOMAIN turn.told : turn.told[i].phase = "completed" =>
                            i > 1 /\ turn.told[i - 1] = T!Requested(turn.told[i].tool)
                      /\ T!IsInjective(turn.told)
    OBVIOUS
  <2> DEFINE a == turn.told
             b == turn.todo
  <2>1. Tells(a, b)
    BY <1>1 DEF Follows, Following
  <2> HIDE DEF a, b
  <2>2. a \in Seq(T!Notice) /\ Len(a) \in 0..4 /\ DOMAIN a = 1..Len(a)
        /\ \A i \in 1..Len(a) : a[i] = Notices[i]
    <3>1. /\ a \in Seq(T!Notice) /\ b \in Seq(T!Notice) /\ Len(a) + Len(b) <= 4
          /\ \A i \in 1..Len(a) : a[i] = Notices[i]
      BY <2>1 DEF Tells
    <3>2. Len(a) \in Nat /\ Len(b) \in Nat /\ DOMAIN a = 1..Len(a)
      BY <3>1
    <3>3. Len(a) \in 0..4
      BY <3>1, <3>2
    <3> QED BY <3>1, <3>2, <3>3
  <2>3. /\ Notices[1] = T!Requested("search") /\ Notices[2] = T!Completed("search")
        /\ Notices[3] = T!Requested("read") /\ Notices[4] = T!Completed("read")
    BY DEF Notices
  <2>4. \A i \in DOMAIN a : a[i].phase = "completed" => i > 1 /\ a[i - 1] = T!Requested(a[i].tool)
    <3> SUFFICES ASSUME NEW i \in DOMAIN a, a[i].phase = "completed"
                 PROVE  i > 1 /\ a[i - 1] = T!Requested(a[i].tool)
      OBVIOUS
    <3>1. i \in 1..4 /\ a[i] = Notices[i]
      BY <2>2
    <3>2. i \in {2, 4}
      BY <2>3, <3>1 DEF T!Requested
    <3>3. a[i - 1] = Notices[i - 1]
      BY <2>2, <3>2
    <3> QED BY <2>3, <3>1, <3>2, <3>3 DEF T!Completed
  <2>5. \A i, j \in 1..4 : Notices[i] = Notices[j] => i = j
    BY <2>3 DEF T!Requested, T!Completed
  <2>6. T!IsInjective(a)
    BY <2>2, <2>5 DEF T!IsInjective
  <2> QED BY <2>4, <2>6 DEF a
<1>3. turn.call = "none" => turn.answer # "generated"
  BY <1>1 DEF Placed
<1>4. turn.loop # "pi" => turn.asked <= 4
  BY <1>1 DEF Bounded
<1> QED BY <1>1, <1>2, <1>3, <1>4 DEF T!AnswerHonest, Placed

(***************************************************************************)
(* Access.  Accounts and members: what a request read stays true until it  *)
(* ends, or is guarded by the row it wrote.                                *)
(***************************************************************************)
Rows == {"account", "member", "space", "invitation", "code"} \X (People \cup Invitations \cup Codes)

AccessRequest ==
    [op : {"none", "accept", "signup", "code", "role", "remove", "disable"},
     at : {"idle", "look", "account", "member", "space", "mark", "commit", "send", "consume", "write"},
     person : People \cup {None}, id : Invitations \cup Codes \cup {None}, flag : BOOLEAN,
     role : {"none", "admin"}, wrote : SUBSET Rows]

Invitation ==
    [status : {"none", "open", "accepted", "revoked"}, person : People \cup {None},
     role : {"none", "viewer", "admin"}, space : {"none", "viewer"}, accepted : Nat]

Code == [status : {"none", "stored", "consumed", "deleted"}, person : People \cup {None}]

AccessShaped ==
    /\ made \in [People -> SUBSET ({"setup"} \cup Invitations \cup Codes)]
    /\ member \in [People -> [role : A!Roles \cup {"none"}, disabled : BOOLEAN]]
    /\ spaceRole \in [People -> A!Roles \cup {"none"}]
    /\ owner \in People \cup {None}
    /\ invitation \in [Invitations -> Invitation]
    /\ code \in [Codes -> Code]
    /\ request \in [Requests -> AccessRequest]

Guests == People \ {Founder}

\* An invitation or a code is for a guest, and to a space only once there is one.
Addressed ==
    /\ \A i \in Invitations :
          invitation[i].status # "none" =>
              /\ invitation[i].person \in Guests /\ invitation[i].role # "none"
              /\ invitation[i].space # "none" => owner # None
    /\ \A k \in Codes : code[k].status # "none" => code[k].person \in Guests

\* What a request has found out stays true until it ends.
Accepting(X) ==
    /\ X.id \in Invitations /\ invitation[X.id].status # "none"
       /\ X.person = invitation[X.id].person
    /\ X.at \in {"look", "account", "member", "space", "mark", "commit"}
    /\ X.at \in {"member", "space", "mark", "commit"} =>
          A!Account(X.person) \/ <<"account", X.person>> \in X.wrote
    /\ X.at \in {"space", "mark", "commit"} =>
          member[X.person].role # "none" \/ <<"member", X.person>> \in X.wrote
    /\ X.at = "commit" => <<"invitation", X.id>> \in X.wrote

SigningUp(X) ==
    /\ X.id \in Codes /\ code[X.id].status # "none" /\ X.person = code[X.id].person
    /\ X.at \in {"look", "consume", "account", "commit"}
    /\ X.at = "commit" => <<"account", X.person>> \in X.wrote

Finds(X) ==
    /\ X.op = "none" => X.at = "idle"
    /\ X.op = "accept" => Accepting(X)
    /\ X.op = "signup" => SigningUp(X)
    /\ X.op = "code" => X.at = "send" /\ X.id \in Codes /\ code[X.id].status # "none"
    /\ X.op = "role" => member[X.person].role # "none"
    /\ X.op = "remove" => X.role = "none"
    /\ X.op \in {"role", "remove"} =>
          X.at = "write" /\ X.person \in Guests /\ owner # None /\ X.person # owner
    /\ X.op = "disable" =>
          X.at = "write" /\ X.person \in People /\ member[X.person].role \notin {"none", "owner"}

\* A row that is inserted was not there; one that is marked was open.
Inserts(X) ==
    /\ X.wrote \subseteq {<<"account", X.person>>, <<"member", X.person>>, <<"space", X.person>>,
                          <<"invitation", X.id>>, <<"code", X.id>>}
    /\ X.wrote # {} => X.person \in People
    /\ <<"account", X.person>> \in X.wrote => ~ A!Account(X.person)
    /\ <<"member", X.person>> \in X.wrote => member[X.person].role = "none"
    /\ <<"space", X.person>> \in X.wrote =>
          X.op = "accept" /\ spaceRole[X.person] = "none" /\ invitation[X.id].space # "none"
    /\ <<"invitation", X.id>> \in X.wrote => X.op = "accept" /\ invitation[X.id].status = "open"

Exclusive == \A q, r \in Requests : q # r => request[q].wrote \cap request[r].wrote = {}

OneOrigin == \A p \in People : made[p] = {} \/ \E x \in made[p] : made[p] = {x}

MembersInvited ==
    /\ \A p \in Guests :
          member[p].role # "none" =>
              A!Account(p) /\ \E i \in A!Invited(p) : invitation[i].role = member[p].role
    /\ \A i \in Invitations :
          /\ invitation[i].accepted = (IF invitation[i].status = "accepted" THEN 1 ELSE 0)
          /\ invitation[i].accepted = 1 => member[invitation[i].person].role # "none"
    /\ \A k \in Codes : code[k].status = "consumed" => made[code[k].person] = {k}

Owners ==
    /\ member[Founder] = [role |-> "owner", disabled |-> FALSE]
    /\ \A p \in Guests : member[p].role # "owner"
    /\ \A p \in People : spaceRole[p] = "owner" <=> p = owner
    /\ \A p \in People : spaceRole[p] # "none" => member[p].role # "none" /\ owner # None

AccessIInv ==
    /\ AccessShaped /\ Addressed
    /\ \A q \in Requests : Finds(request[q]) /\ Inserts(request[q])
    /\ Exclusive /\ OneOrigin /\ MembersInvited /\ Owners

-----------------------------------------------------------------------------
LEMMA IdleRequest ==
    /\ A!Idle \in AccessRequest /\ A!Idle.wrote = {} /\ A!Idle.op = "none" /\ A!Idle.at = "idle"
BY DEF A!Idle, AccessRequest

LEMMA AccessInitIInv == A!Init => AccessIInv
<1> SUFFICES ASSUME A!Init PROVE AccessIInv
  OBVIOUS
<1>1. AccessShaped
  <2>1. member \in [People -> [role : A!Roles \cup {"none"}, disabled : BOOLEAN]]
    BY DEF A!Init, A!NoMember, A!Roles
  <2>2. made \in [People -> SUBSET ({"setup"} \cup Invitations \cup Codes)]
    BY DEF A!Init
  <2>3. request \in [Requests -> AccessRequest]
    BY IdleRequest DEF A!Init
  <2>4. invitation \in [Invitations -> Invitation] /\ code \in [Codes -> Code]
    BY DEF A!Init, A!NoInvitation, A!NoCode, Invitation, Code
  <2> QED BY <2>1, <2>2, <2>3, <2>4 DEF AccessShaped, A!Init, A!Roles
<1>2. Addressed
  BY DEF A!Init, Addressed, A!NoInvitation, A!NoCode
<1>3. \A q \in Requests : Finds(request[q]) /\ Inserts(request[q])
  <2>1. \A q \in Requests : request[q] = A!Idle
    BY DEF A!Init
  <2> QED BY <2>1, IdleRequest DEF Finds, Inserts
<1>4. Exclusive
  BY IdleRequest DEF A!Init, Exclusive
<1>5. OneOrigin
  BY DEF A!Init, OneOrigin
<1>6. MembersInvited
  BY DEF A!Init, MembersInvited, Guests, A!NoMember, A!NoInvitation, A!NoCode
<1>7. Owners
  BY AccessAssumption DEF A!Init, Owners, Guests, A!NoMember
<1> QED BY <1>1, <1>2, <1>3, <1>4, <1>5, <1>6, <1>7 DEF AccessIInv

\* A step of one request that leaves the tables alone.
LEMMA AccessRequestMoves ==
  ASSUME AccessIInv, NEW q \in Requests, NEW X \in AccessRequest,
         request' = [request EXCEPT ![q] = X], UNCHANGED A!Tables,
         Finds(X), Inserts(X),
         \A r \in Requests \ {q} : X.wrote \cap request[r].wrote = {}
  PROVE  AccessIInv'
<1>1. request' \in [Requests -> AccessRequest] /\ request'[q] = X
      /\ \A r \in Requests : r # q => request'[r] = request[r]
  BY DEF AccessIInv, AccessShaped
<1>2. UNCHANGED <<made, member, spaceRole, owner, invitation, code>>
  BY DEF A!Tables
<1>3. AccessShaped'
  BY <1>1, <1>2 DEF AccessIInv, AccessShaped
<1>5. ASSUME NEW r \in Requests PROVE Finds(request[r])' /\ Inserts(request[r])'
  <2>1. Finds(request'[r]) /\ Inserts(request'[r])
    BY <1>1 DEF AccessIInv
  <2> QED BY <1>2, <2>1 DEF Finds, Inserts, Accepting, SigningUp, A!Account
<1>6. Exclusive'
  BY <1>1 DEF AccessIInv, Exclusive
<1>7. Addressed' /\ OneOrigin' /\ MembersInvited' /\ Owners'
  BY <1>2 DEF AccessIInv, Addressed, OneOrigin, MembersInvited, Owners, A!Account, A!Invited
<1> QED BY <1>3, <1>5, <1>6, <1>7 DEF AccessIInv

LEMMA AccessEndsKeeps ==
  ASSUME AccessIInv, NEW q \in Requests, A!Ends(q), UNCHANGED A!Tables
  PROVE  AccessIInv'
<1>1. Finds(A!Idle) /\ Inserts(A!Idle)
  BY IdleRequest DEF Finds, Inserts
<1> QED BY <1>1, IdleRequest, AccessRequestMoves DEF A!Ends

\* What Goes makes of a request.
LEMMA GoesIs ==
  ASSUME NEW X \in AccessRequest,
         NEW at \in {"account", "member", "space", "mark", "commit", "consume"},
         NEW Y, Y = [X EXCEPT !.at = at]
  PROVE  /\ Y \in AccessRequest /\ Y.at = at
         /\ Y.op = X.op /\ Y.person = X.person /\ Y.id = X.id /\ Y.role = X.role
         /\ Y.flag = X.flag /\ Y.wrote = X.wrote
BY DEF AccessRequest

LEMMA GoesKeeps ==
  ASSUME AccessIInv, NEW q \in Requests,
         NEW at \in {"account", "member", "space", "mark", "commit", "consume"},
         A!Goes(q, at), UNCHANGED A!Tables,
         request[q].op = "accept" =>
            /\ at \in {"account", "member", "space", "mark"}
            /\ at \in {"member", "space", "mark"} =>
                  \/ A!Account(request[q].person)
                  \/ <<"account", request[q].person>> \in request[q].wrote
            /\ at \in {"space", "mark"} =>
                  \/ member[request[q].person].role # "none"
                  \/ <<"member", request[q].person>> \in request[q].wrote,
         request[q].op = "signup" => at = "consume",
         request[q].op \in {"accept", "signup"}
  PROVE  AccessIInv'
<1> DEFINE X == [request[q] EXCEPT !.at = at]
<1>1. request[q] \in AccessRequest /\ Finds(request[q]) /\ Inserts(request[q])
  BY DEF AccessIInv, AccessShaped
<1>2. /\ X \in AccessRequest /\ X.at = at
      /\ X.op = request[q].op /\ X.person = request[q].person /\ X.id = request[q].id
      /\ X.role = request[q].role /\ X.wrote = request[q].wrote
  <2>1. X = [request[q] EXCEPT !.at = at]
    OBVIOUS
  <2> HIDE DEF X
  <2> QED BY <1>1, <2>1, GoesIs
<1>3. request' = [request EXCEPT ![q] = X]
  BY DEF A!Goes, AccessIInv, AccessShaped
<1> HIDE DEF X
<1>4. Finds(X)
  BY <1>1, <1>2 DEF Finds, Accepting, SigningUp
<1>5. Inserts(X)
  BY <1>1, <1>2 DEF Inserts
<1>6. \A r \in Requests \ {q} : X.wrote \cap request[r].wrote = {}
  BY <1>2 DEF AccessIInv, Exclusive
<1> QED BY <1>2, <1>3, <1>4, <1>5, <1>6, AccessRequestMoves

LEMMA WritesKeeps ==
  ASSUME AccessIInv, NEW q \in Requests, NEW key \in Rows,
         NEW at \in {"account", "member", "space", "mark", "commit"},
         A!Writes(q, key, at), A!Unlocked(q, key), UNCHANGED A!Tables,
         Finds([request[q] EXCEPT !.wrote = @ \cup {key}, !.at = at]),
         request[q].person \in People,
         \/ key = <<"account", request[q].person>> /\ ~ A!Account(request[q].person)
         \/ key = <<"member", request[q].person>> /\ member[request[q].person].role = "none"
         \/ /\ key = <<"space", request[q].person>> /\ spaceRole[request[q].person] = "none"
            /\ request[q].op = "accept" /\ invitation[request[q].id].space # "none"
         \/ /\ key = <<"invitation", request[q].id>> /\ request[q].op = "accept"
            /\ invitation[request[q].id].status = "open"
         \/ key = <<"code", request[q].id>>
  PROVE  AccessIInv'
<1> DEFINE X == [request[q] EXCEPT !.wrote = @ \cup {key}, !.at = at]
<1>1. request[q] \in AccessRequest /\ Inserts(request[q])
  BY DEF AccessIInv, AccessShaped
<1>2. /\ X \in AccessRequest /\ X.at = at
      /\ X.op = request[q].op /\ X.person = request[q].person /\ X.id = request[q].id
      /\ X.wrote = request[q].wrote \cup {key}
  <2> SUFFICES request[q].wrote \cup {key} \in SUBSET Rows
    BY <1>1 DEF AccessRequest
  <2> QED BY <1>1 DEF AccessRequest
<1>3. request' = [request EXCEPT ![q] = X] /\ Finds(X)
  BY DEF A!Writes, AccessIInv, AccessShaped
<1> HIDE DEF X
<1>4. Inserts(X)
  BY <1>1, <1>2 DEF Inserts
<1>5. \A r \in Requests \ {q} : X.wrote \cap request[r].wrote = {}
  BY <1>2 DEF AccessIInv, Exclusive, A!Unlocked
<1> QED BY <1>2, <1>3, <1>4, <1>5, AccessRequestMoves

LEMMA BeginsKeeps ==
  ASSUME AccessIInv, NEW q \in Requests, NEW X \in AccessRequest, Finds(X), X.wrote = {},
         request' = [request EXCEPT ![q] = X], UNCHANGED A!Tables
  PROVE  AccessIInv'
<1>1. Inserts(X)
  BY DEF Inserts
<1> QED BY <1>1, AccessRequestMoves

-----------------------------------------------------------------------------
\* One lemma for each step of a request that leaves the tables alone.
LEMMA AcceptKeeps ==
  ASSUME AccessIInv, NEW q \in Requests, NEW i \in Invitations, A!Accept(q, i)
  PROVE  AccessIInv'
<1> DEFINE X == [A!Idle EXCEPT !.op = "accept", !.at = "look", !.person = invitation[i].person, !.id = i]
<1>1. /\ request' = [request EXCEPT ![q] = X] /\ UNCHANGED A!Tables
      /\ invitation[i].status = "open" /\ invitation[i].person \in People
  BY DEF A!Accept, A!Begins, AccessIInv, Addressed, Guests
<1>2. /\ X \in AccessRequest /\ X.op = "accept" /\ X.at = "look" /\ X.id = i
      /\ X.person = invitation[i].person /\ X.wrote = {}
  BY <1>1 DEF A!Idle, AccessRequest
<1> HIDE DEF X
<1>3. Finds(X)
  BY <1>1, <1>2 DEF Finds, Accepting
<1> QED BY <1>1, <1>2, <1>3, BeginsKeeps

LEMMA VerifyKeeps ==
  ASSUME AccessIInv, NEW q \in Requests, NEW k \in Codes, A!Verify(q, k)
  PROVE  AccessIInv'
<1> DEFINE X == [A!Idle EXCEPT !.op = "signup", !.at = "look", !.person = code[k].person, !.id = k]
<1>1. /\ request' = [request EXCEPT ![q] = X] /\ UNCHANGED A!Tables
      /\ code[k].status # "none" /\ code[k].person \in People
  BY DEF A!Verify, A!Begins, AccessIInv, Addressed, Guests
<1>2. /\ X \in AccessRequest /\ X.op = "signup" /\ X.at = "look" /\ X.id = k
      /\ X.person = code[k].person /\ X.wrote = {}
  BY <1>1 DEF A!Idle, AccessRequest
<1> HIDE DEF X
<1>3. Finds(X)
  BY <1>1, <1>2 DEF Finds, SigningUp
<1> QED BY <1>1, <1>2, <1>3, BeginsKeeps

LEMMA LookSpaceMemberKeeps ==
  ASSUME AccessIInv, NEW q \in Requests, NEW p \in Guests,
         NEW do \in {"role", "remove"}, NEW role \in {"admin", "none"}, do = "remove"
         => role = "none",
         A!LookSpaceMember(q, do, p, role)
  PROVE  AccessIInv'
<1> DEFINE X == [A!Idle EXCEPT !.op = do, !.at = "write", !.person = p, !.role = role]
<1>1. /\ request' = [request EXCEPT ![q] = X] /\ UNCHANGED A!Tables
      /\ spaceRole[p] # "owner" /\ (do = "role" => member[p].role # "none")
  BY DEF A!LookSpaceMember
<1>2. PICK admin \in People : spaceRole[admin] \in {"admin", "owner"}
  BY DEF A!LookSpaceMember, A!SpaceAdmin
<1>3. /\ X \in AccessRequest /\ X.op = do /\ X.at = "write" /\ X.person = p /\ X.role = role
      /\ X.wrote = {}
  BY DEF A!Idle, AccessRequest, Guests
<1> HIDE DEF X
<1>4. owner # None /\ p # owner
  BY <1>1, <1>2, AccessAssumption DEF AccessIInv, Owners, Guests
<1>5. Finds(X)
  BY <1>1, <1>3, <1>4 DEF Finds
<1> QED BY <1>1, <1>3, <1>5, BeginsKeeps

LEMMA LookUserKeeps ==
  ASSUME AccessIInv, NEW q \in Requests, NEW p \in People, NEW disabled \in BOOLEAN,
         A!LookUser(q, p, disabled)
  PROVE  AccessIInv'
<1> DEFINE X == [A!Idle EXCEPT !.op = "disable", !.at = "write", !.person = p, !.flag = disabled]
<1>1. /\ request' = [request EXCEPT ![q] = X] /\ UNCHANGED A!Tables
      /\ member[p].role \notin {"none", "owner"}
  BY DEF A!LookUser
<1>2. X \in AccessRequest /\ X.op = "disable" /\ X.at = "write" /\ X.person = p /\ X.wrote = {}
  BY DEF A!Idle, AccessRequest
<1> HIDE DEF X
<1>3. Finds(X)
  BY <1>1, <1>2 DEF Finds
<1> QED BY <1>1, <1>2, <1>3, BeginsKeeps

LEMMA LookKeeps ==
  ASSUME AccessIInv, NEW q \in Requests, A!Look(q)
  PROVE  AccessIInv'
<1>1. Finds(request[q]) /\ request[q].at = "look" /\ UNCHANGED A!Tables
  BY DEF AccessIInv, A!Look
<1>2. CASE request[q].op = "accept"
  <2>1. A!Goes(q, IF A!Account(request[q].person) THEN "member" ELSE "account")
    BY <1>2 DEF A!Look
  <2>2. CASE A!Account(request[q].person)
    BY <1>1, <1>2, <2>1, <2>2, GoesKeeps
  <2>3. CASE ~ A!Account(request[q].person)
    BY <1>1, <1>2, <2>1, <2>3, GoesKeeps
  <2> QED BY <2>2, <2>3
<1>3. CASE request[q].op = "signup"
  <2>1. A!Goes(q, "consume") \/ A!Ends(q)
    BY <1>3 DEF A!Look
  <2> QED BY <1>1, <1>3, <2>1, GoesKeeps, AccessEndsKeeps
<1>4. request[q].op \in {"accept", "signup"}
  BY <1>1 DEF Finds, AccessIInv, AccessShaped, AccessRequest
<1> QED BY <1>2, <1>3, <1>4

LEMMA InsertAccountKeeps ==
  ASSUME AccessIInv, NEW q \in Requests, A!InsertAccount(q)
  PROVE  AccessIInv'
<1> DEFINE p == request[q].person
           at == IF request[q].op = "accept" THEN "member" ELSE "commit"
           X == [request[q] EXCEPT !.wrote = @ \cup {<<"account", p>>}, !.at = at]
<1>1. /\ Finds(request[q]) /\ request[q].at = "account" /\ UNCHANGED A!Tables
      /\ A!Unlocked(q, <<"account", p>>) /\ request[q] \in AccessRequest
  BY DEF AccessIInv, A!InsertAccount, AccessShaped
<1>2. CASE A!Account(p)
  BY <1>1, <1>2, AccessEndsKeeps DEF A!InsertAccount
<1>3. CASE ~ A!Account(p)
  <2>1. A!Writes(q, <<"account", p>>, at)
    BY <1>3 DEF A!InsertAccount
  <2>2. request[q].op \in {"accept", "signup"} /\ p \in People
    BY <1>1 DEF Finds, Accepting, SigningUp, AccessIInv, Addressed, Guests, AccessRequest
  <2>3. <<"account", p>> \in Rows
    BY <2>2 DEF Rows
  <2>4. /\ X.at = at /\ X.op = request[q].op /\ X.person = p /\ X.id = request[q].id
        /\ X.role = request[q].role /\ X.wrote = request[q].wrote \cup {<<"account", p>>}
    <3> SUFFICES request[q].wrote \cup {<<"account", p>>} \in SUBSET Rows
      BY <1>1, <2>3 DEF AccessRequest
    <3> QED BY <1>1, <2>3 DEF AccessRequest
  <2>5. Finds(X)
    <3> HIDE DEF X
    <3> QED BY <1>1, <2>2, <2>4 DEF Finds, Accepting, SigningUp
  <2> QED BY <1>1, <1>3, <2>1, <2>2, <2>3, <2>5, WritesKeeps
<1> QED BY <1>2, <1>3

LEMMA InsertMemberKeeps ==
  ASSUME AccessIInv, NEW q \in Requests, A!InsertMember(q)
  PROVE  AccessIInv'
<1> DEFINE p == request[q].person
           key == <<"member", p>>
           X == [request[q] EXCEPT !.wrote = @ \cup {key}, !.at = "space"]
<1>1. /\ Finds(request[q]) /\ request[q].at = "member" /\ UNCHANGED A!Tables
      /\ A!Unlocked(q, key) /\ request[q] \in AccessRequest
  BY DEF AccessIInv, A!InsertMember, AccessShaped
<1>2. request[q].op = "accept" /\ Accepting(request[q]) /\ p \in People
  BY <1>1 DEF Finds, Accepting, SigningUp, AccessIInv, Addressed, Guests, AccessRequest
<1>3. CASE member[p].role # "none"
  <2>1. A!Goes(q, "space")
    BY <1>3 DEF A!InsertMember
  <2> QED BY <1>1, <1>2, <1>3, <2>1, GoesKeeps DEF Accepting
<1>4. CASE member[p].role = "none"
  <2>1. A!Writes(q, key, "space")
    BY <1>4 DEF A!InsertMember
  <2>2. key \in Rows
    BY <1>2 DEF Rows
  <2>3. /\ X.at = "space" /\ X.op = "accept" /\ X.person = p /\ X.id = request[q].id
        /\ X.wrote = request[q].wrote \cup {key}
    <3> SUFFICES request[q].wrote \cup {key} \in SUBSET Rows
      BY <1>1, <1>2, <2>2 DEF AccessRequest
    <3> QED BY <1>1, <1>2, <2>2 DEF AccessRequest
  <2>4. Finds(X)
    <3> HIDE DEF X
    <3> QED BY <1>1, <1>2, <2>3 DEF Finds, Accepting
  <2> QED BY <1>1, <1>2, <1>4, <2>1, <2>2, <2>4, WritesKeeps
<1> QED BY <1>3, <1>4

LEMMA InsertSpaceMemberKeeps ==
  ASSUME AccessIInv, NEW q \in Requests, A!InsertSpaceMember(q)
  PROVE  AccessIInv'
<1> DEFINE p == request[q].person
           key == <<"space", p>>
           X == [request[q] EXCEPT !.wrote = @ \cup {key}, !.at = "mark"]
<1>1. /\ Finds(request[q]) /\ request[q].at = "space" /\ UNCHANGED A!Tables
      /\ A!Unlocked(q, key) /\ request[q] \in AccessRequest
  BY DEF AccessIInv, A!InsertSpaceMember, AccessShaped
<1>2. request[q].op = "accept" /\ Accepting(request[q]) /\ p \in People
  BY <1>1 DEF Finds, Accepting, SigningUp, AccessIInv, Addressed, Guests, AccessRequest
<1>3. CASE A!Goes(q, "mark")
  BY <1>1, <1>2, <1>3, GoesKeeps DEF Accepting
<1>4. CASE /\ invitation[request[q].id].space # "none" /\ spaceRole[p] = "none"
           /\ A!Writes(q, key, "mark")
  <2>1. key \in Rows
    BY <1>2 DEF Rows
  <2>2. /\ X.at = "mark" /\ X.op = "accept" /\ X.person = p /\ X.id = request[q].id
        /\ X.wrote = request[q].wrote \cup {key}
    <3> SUFFICES request[q].wrote \cup {key} \in SUBSET Rows
      BY <1>1, <1>2, <2>1 DEF AccessRequest
    <3> QED BY <1>1, <1>2, <2>1 DEF AccessRequest
  <2>3. Finds(X)
    <3> HIDE DEF X
    <3> QED BY <1>1, <1>2, <2>2 DEF Finds, Accepting
  <2> QED BY <1>1, <1>2, <1>4, <2>1, <2>3, WritesKeeps
<1> QED BY <1>3, <1>4 DEF A!InsertSpaceMember

LEMMA MarkAcceptedKeeps ==
  ASSUME AccessIInv, NEW q \in Requests, A!MarkAccepted(q)
  PROVE  AccessIInv'
<1> DEFINE i == request[q].id
           key == <<"invitation", i>>
           X == [request[q] EXCEPT !.wrote = @ \cup {key}, !.at = "commit"]
<1>1. /\ Finds(request[q]) /\ request[q].at = "mark" /\ UNCHANGED A!Tables
      /\ A!Unlocked(q, key) /\ request[q] \in AccessRequest
  BY DEF AccessIInv, A!MarkAccepted, AccessShaped
<1>2. /\ request[q].op = "accept" /\ Accepting(request[q]) /\ i \in Invitations
      /\ request[q].person \in People
  BY <1>1 DEF Finds, Accepting, SigningUp, AccessRequest, AccessIInv, Addressed, Guests
<1>3. CASE A!Ends(q)
  BY <1>1, <1>3, AccessEndsKeeps
<1>4. CASE invitation[i].status = "open" /\ A!Writes(q, key, "commit")
  <2>1. key \in Rows
    BY <1>2 DEF Rows
  <2>2. /\ X.at = "commit" /\ X.op = "accept" /\ X.person = request[q].person /\ X.id = i
        /\ X.wrote = request[q].wrote \cup {key}
    <3> SUFFICES request[q].wrote \cup {key} \in SUBSET Rows
      BY <1>1, <1>2, <2>1 DEF AccessRequest
    <3> QED BY <1>1, <1>2, <2>1 DEF AccessRequest
  <2>3. Finds(X)
    <3> HIDE DEF X
    <3> QED BY <1>1, <1>2, <2>2 DEF Finds, Accepting
  <2> QED BY <1>1, <1>2, <1>4, <2>1, <2>3, WritesKeeps
<1> QED BY <1>3, <1>4 DEF A!MarkAccepted

LEMMA ConsumeKeeps ==
  ASSUME AccessIInv, NEW q \in Requests, A!Consume(q)
  PROVE  AccessIInv'
<1> DEFINE k == request[q].id
           key == <<"code", k>>
           X == [request[q] EXCEPT !.wrote = @ \cup {key}, !.at = "account"]
<1>1. /\ Finds(request[q]) /\ request[q].at = "consume" /\ UNCHANGED A!Tables
      /\ A!Unlocked(q, key) /\ request[q] \in AccessRequest
  BY DEF AccessIInv, A!Consume, AccessShaped
<1>2. /\ request[q].op = "signup" /\ SigningUp(request[q]) /\ k \in Codes
      /\ request[q].person \in People
  BY <1>1 DEF Finds, Accepting, SigningUp, AccessRequest, AccessIInv, Addressed, Guests
<1>3. CASE A!Ends(q)
  BY <1>1, <1>3, AccessEndsKeeps
<1>4. CASE A!Writes(q, key, "account")
  <2>1. key \in Rows
    BY <1>2 DEF Rows
  <2>2. /\ X.at = "account" /\ X.op = "signup" /\ X.person = request[q].person /\ X.id = k
        /\ X.wrote = request[q].wrote \cup {key}
    <3> SUFFICES request[q].wrote \cup {key} \in SUBSET Rows
      BY <1>1, <1>2, <2>1 DEF AccessRequest
    <3> QED BY <1>1, <1>2, <2>1 DEF AccessRequest
  <2>3. Finds(X)
    <3> HIDE DEF X
    <3> QED BY <1>1, <1>2, <2>2 DEF Finds, SigningUp
  <2> QED BY <1>1, <1>2, <1>4, <2>1, <2>3, WritesKeeps
<1> QED BY <1>3, <1>4 DEF A!Consume

-----------------------------------------------------------------------------
\* The steps that change the tables.
LEMMA CreateSpaceKeeps ==
  ASSUME AccessIInv, NEW p \in People, A!CreateSpace(p)
  PROVE  AccessIInv'
<1>1. /\ member[p].role # "none" /\ owner = None /\ owner' = p
      /\ spaceRole' = [spaceRole EXCEPT ![p] = "owner"]
      /\ UNCHANGED <<made, member, invitation, code, request>>
  BY DEF A!CreateSpace, A!Active
<1>2. spaceRole' \in [People -> A!Roles \cup {"none"}] /\ spaceRole'[p] = "owner"
      /\ \A r \in People : r # p => spaceRole'[r] = spaceRole[r]
  BY <1>1 DEF AccessIInv, AccessShaped, A!Roles
<1>3. AccessShaped'
  BY <1>1, <1>2 DEF AccessIInv, AccessShaped
<1>4. Addressed'
  BY <1>1, AccessAssumption DEF AccessIInv, Addressed
<1>5. ASSUME NEW q \in Requests PROVE Finds(request[q])' /\ Inserts(request[q])'
  <2>1. Finds(request[q]) /\ Inserts(request[q]) /\ request[q].op \notin {"role", "remove"}
    BY <1>1 DEF AccessIInv, Finds
  <2>2. Finds(request[q])'
    BY <1>1, <2>1 DEF Finds, Accepting, SigningUp, A!Account
  <2>3. <<"space", request[q].person>> \notin request[q].wrote
    BY <1>1, <2>1 DEF Inserts, Finds, Accepting, AccessIInv, Addressed
  <2> QED BY <1>1, <2>1, <2>2, <2>3 DEF Inserts, A!Account
<1>6. Owners'
  BY <1>1, <1>2, AccessAssumption DEF AccessIInv, Owners
<1> QED
  BY <1>1, <1>3, <1>4, <1>5, <1>6 DEF AccessIInv, Exclusive, OneOrigin, MembersInvited,
         A!Account, A!Invited

LEMMA CreateInvitationKeeps ==
  ASSUME AccessIInv, NEW i \in Invitations, NEW p \in Guests, NEW role \in {"viewer", "admin"},
         NEW space \in {"none", "viewer"}, A!CreateInvitation(i, p, role, space)
  PROVE  AccessIInv'
<1>1. /\ invitation[i].status = "none" /\ (space # "none" => owner # None)
      /\ invitation' = [invitation EXCEPT ![i].status = "open", ![i].person = p, ![i].role = role,
                                          ![i].space = space]
      /\ UNCHANGED <<made, member, spaceRole, owner, code, request>>
  BY DEF A!CreateInvitation
<1>2. invitation[i] \in Invitation /\ p \in People
  BY DEF AccessIInv, AccessShaped, Guests
<1>3. /\ invitation'[i] \in Invitation /\ invitation'[i].status = "open"
      /\ invitation'[i].person = p /\ invitation'[i].role = role /\ invitation'[i].space = space
      /\ invitation'[i].accepted = invitation[i].accepted
      /\ \A j \in Invitations : j # i => invitation'[j] = invitation[j]
  BY <1>1, <1>2 DEF AccessIInv, AccessShaped, Invitation
<1>4. invitation' \in [Invitations -> Invitation]
  BY <1>1, <1>3 DEF AccessIInv, AccessShaped
<1>5. AccessShaped'
  BY <1>1, <1>4 DEF AccessIInv, AccessShaped
<1>6. Addressed'
  BY <1>1, <1>3 DEF AccessIInv, Addressed
<1>7. ASSUME NEW q \in Requests PROVE Finds(request[q])' /\ Inserts(request[q])'
  <2>1. Finds(request[q]) /\ Inserts(request[q])
    BY DEF AccessIInv
  <2>2. request[q].op = "accept" => request[q].id \in Invitations /\ request[q].id # i
    BY <1>1, <2>1 DEF Finds, Accepting
  <2>3. Finds(request[q])'
    BY <1>1, <1>3, <2>1, <2>2 DEF Finds, Accepting, SigningUp, A!Account
  <2>4. Inserts(request[q])'
    BY ZenonT(60), <1>1, <1>3, <2>1, <2>2 DEF Inserts, Finds, Accepting, SigningUp, A!Account
  <2> QED BY <2>3, <2>4
<1>8. Exclusive' /\ OneOrigin' /\ Owners'
  BY <1>1 DEF AccessIInv, Exclusive, OneOrigin, Owners
<1>9. MembersInvited'
  <2>1. \A g \in Guests : \A j \in A!Invited(g) : j # i /\ j \in A!Invited(g)'
    BY <1>1, <1>3 DEF A!Invited
  <2>2. ASSUME NEW g \in Guests, member'[g].role # "none"
        PROVE  A!Account(g)' /\ \E j \in A!Invited(g)' : invitation'[j].role = member'[g].role
    <3>1. PICK j \in A!Invited(g) : invitation[j].role = member[g].role
      BY <1>1, <2>2 DEF AccessIInv, MembersInvited
    <3>2. j \in A!Invited(g)' /\ invitation'[j].role = member'[g].role
      BY <1>1, <1>3, <2>1, <3>1 DEF A!Invited
    <3>3. A!Account(g)'
      BY <1>1, <2>2 DEF AccessIInv, MembersInvited, A!Account
    <3> QED BY <3>2, <3>3
  <2>3. ASSUME NEW j \in Invitations
        PROVE  /\ invitation'[j].accepted = (IF invitation'[j].status = "accepted" THEN 1 ELSE 0)
               /\ invitation'[j].accepted = 1 => member'[invitation'[j].person].role # "none"
    <3>1. CASE j = i
      <4>1. invitation[i].accepted = 0
        BY <1>1 DEF AccessIInv, MembersInvited
      <4> QED BY <1>3, <3>1, <4>1
    <3>2. CASE j # i
      <4>1. invitation'[j] = invitation[j] /\ member' = member
        BY <1>1, <1>3, <3>2
      <4> QED BY <4>1 DEF AccessIInv, MembersInvited
    <3> QED BY <3>1, <3>2
  <2>4. \A k \in Codes : code'[k].status = "consumed" => made'[code'[k].person] = {k}
    BY <1>1 DEF AccessIInv, MembersInvited
  <2> QED BY <2>2, <2>3, <2>4 DEF MembersInvited
<1> QED BY <1>5, <1>6, <1>7, <1>8, <1>9 DEF AccessIInv

LEMMA RevokeInvitationKeeps ==
  ASSUME AccessIInv, NEW i \in Invitations, A!RevokeInvitation(i)
  PROVE  AccessIInv'
<1>1. /\ invitation[i].status = "open"
      /\ \A q \in Requests : <<"invitation", i>> \notin request[q].wrote
      /\ invitation' = [invitation EXCEPT ![i].status = "revoked"]
      /\ UNCHANGED <<made, member, spaceRole, owner, code, request>>
  BY DEF A!RevokeInvitation
<1>2. invitation[i] \in Invitation
  BY DEF AccessIInv, AccessShaped
<1>3. /\ invitation'[i] \in Invitation /\ invitation'[i].status = "revoked"
      /\ invitation'[i].person = invitation[i].person /\ invitation'[i].role = invitation[i].role
      /\ invitation'[i].space = invitation[i].space
      /\ invitation'[i].accepted = invitation[i].accepted
      /\ \A j \in Invitations : j # i => invitation'[j] = invitation[j]
  BY <1>1, <1>2 DEF AccessIInv, AccessShaped, Invitation
<1>4. invitation' \in [Invitations -> Invitation]
  BY <1>1, <1>3 DEF AccessIInv, AccessShaped
<1>5. AccessShaped'
  BY <1>1, <1>4 DEF AccessIInv, AccessShaped
<1>6. Addressed'
  BY <1>1, <1>3 DEF AccessIInv, Addressed
<1>7. ASSUME NEW q \in Requests PROVE Finds(request[q])' /\ Inserts(request[q])'
  <2>1. Finds(request[q]) /\ Inserts(request[q])
    BY DEF AccessIInv
  <2>2. request[q].op = "accept" => request[q].id \in Invitations
    BY <2>1 DEF Finds, Accepting
  <2>3. \A j \in Invitations : /\ invitation'[j].person = invitation[j].person
                               /\ invitation'[j].space = invitation[j].space
                               /\ invitation[j].status # "none" => invitation'[j].status # "none"
    BY <1>1, <1>3
  <2>4. Finds(request[q])'
    BY <1>1, <2>1, <2>3 DEF Finds, Accepting, SigningUp, A!Account
  <2>5. <<"invitation", request[q].id>> \in request[q].wrote => request[q].id # i
    BY <1>1
  <2> QED BY <1>1, <1>3, <2>1, <2>2, <2>3, <2>4, <2>5 DEF Inserts, A!Account
<1>8. Exclusive' /\ OneOrigin' /\ Owners'
  BY <1>1 DEF AccessIInv, Exclusive, OneOrigin, Owners
<1>9. MembersInvited'
  <2>1. \A g \in Guests : \A j \in A!Invited(g) : j # i /\ j \in A!Invited(g)'
    BY <1>1, <1>3 DEF A!Invited
  <2>2. ASSUME NEW g \in Guests, member'[g].role # "none"
        PROVE  A!Account(g)' /\ \E j \in A!Invited(g)' : invitation'[j].role = member'[g].role
    <3>1. PICK j \in A!Invited(g) : invitation[j].role = member[g].role
      BY <1>1, <2>2 DEF AccessIInv, MembersInvited
    <3>2. j \in A!Invited(g)' /\ invitation'[j].role = member'[g].role
      BY <1>1, <1>3, <2>1, <3>1 DEF A!Invited
    <3>3. A!Account(g)'
      BY <1>1, <2>2 DEF AccessIInv, MembersInvited, A!Account
    <3> QED BY <3>2, <3>3
  <2> QED BY SMTT(20), <1>1, <1>3, <2>2 DEF AccessIInv, MembersInvited
<1> QED BY <1>5, <1>6, <1>7, <1>8, <1>9 DEF AccessIInv

\* When a request ends, the rows it wrote are nobody's.
LEMMA Ended ==
  ASSUME AccessIInv, NEW q \in Requests, A!Ends(q)
  PROVE  /\ request' \in [Requests -> AccessRequest] /\ request'[q] = A!Idle
         /\ \A r \in Requests : r # q => /\ request'[r] = request[r]
                                        /\ request[r].wrote \cap request[q].wrote = {}
         /\ Exclusive'
<1>1. /\ request' \in [Requests -> AccessRequest] /\ request'[q] = A!Idle
      /\ \A r \in Requests : r # q => request'[r] = request[r]
  BY IdleRequest DEF AccessIInv, AccessShaped, A!Ends
<1>2. Exclusive'
  BY <1>1, IdleRequest DEF AccessIInv, Exclusive
<1> QED BY <1>1, <1>2 DEF AccessIInv, Exclusive

\* An idle request has found out nothing.
LEMMA IdleFinds ==
  ASSUME NEW X, X = A!Idle
  PROVE  Finds(X) /\ Inserts(X)
BY IdleRequest DEF Finds, Inserts

LEMMA RequestCodeKeeps ==
  ASSUME AccessIInv, NEW q \in Requests, NEW k \in Codes, NEW p \in Guests, A!RequestCode(q, k, p)
  PROVE  AccessIInv'
<1> DEFINE X == [A!Idle EXCEPT !.op = "code", !.at = "send", !.person = p, !.id = k]
<1>1. /\ code[k].status = "none" /\ request[q].op = "none"
      /\ code' = [code EXCEPT ![k].status = "stored", ![k].person = p]
      /\ request' = [request EXCEPT ![q] = X]
      /\ UNCHANGED <<made, member, spaceRole, owner, invitation>>
  BY DEF A!RequestCode, A!Begins
<1>2. X \in AccessRequest /\ X.op = "code" /\ X.at = "send" /\ X.id = k /\ X.wrote = {}
  BY DEF A!Idle, AccessRequest, Guests
<1> HIDE DEF X
<1>3. request' \in [Requests -> AccessRequest] /\ request'[q] = X
      /\ \A r \in Requests : r # q => request'[r] = request[r]
  BY <1>1, <1>2 DEF AccessIInv, AccessShaped
<1>4. code[k] \in Code /\ p \in People
  BY DEF AccessIInv, AccessShaped, Guests
<1>5. /\ code' \in [Codes -> Code] /\ code'[k].status = "stored" /\ code'[k].person = p
      /\ \A j \in Codes : j # k => code'[j] = code[j]
  BY <1>1, <1>4 DEF AccessIInv, AccessShaped, Code
<1>6. AccessShaped'
  BY <1>1, <1>3, <1>5 DEF AccessIInv, AccessShaped
<1>7. Addressed'
  BY <1>1, <1>5 DEF AccessIInv, Addressed
<1>8. ASSUME NEW r \in Requests PROVE Finds(request[r])' /\ Inserts(request[r])'
  <2>1. CASE r = q
    BY <1>2, <1>3, <1>5, <2>1 DEF Finds, Inserts
  <2>2. CASE r # q
    <3>1. Finds(request[r]) /\ Inserts(request[r]) /\ request'[r] = request[r]
      BY <1>3, <2>2 DEF AccessIInv
    <3>2. request[r].op = "signup" => request[r].id # k
      BY <1>1, <3>1 DEF Finds, SigningUp
    <3>3. Finds(request[r])'
      BY <1>1, <1>5, <3>1, <3>2 DEF Finds, Accepting, SigningUp, A!Account
    <3>4. Inserts(request[r])'
      BY <1>1, <1>5, <3>1 DEF Inserts, A!Account
    <3> QED BY <3>3, <3>4
  <2> QED BY <2>1, <2>2
<1>9. Exclusive'
  BY <1>2, <1>3 DEF AccessIInv, Exclusive
<1>10. MembersInvited'
  BY SMTT(30), <1>1, <1>5 DEF AccessIInv, MembersInvited, A!Invited, A!Account
<1> QED BY <1>1, <1>6, <1>7, <1>8, <1>9, <1>10 DEF AccessIInv, OneOrigin, Owners

LEMMA SendFailsKeeps ==
  ASSUME AccessIInv, NEW q \in Requests, A!SendFails(q)
  PROVE  AccessIInv'
<1> DEFINE k == request[q].id
<1>1. /\ request[q].at = "send" /\ code' = [code EXCEPT ![k].status = "deleted"] /\ A!Ends(q)
      /\ UNCHANGED <<made, member, spaceRole, owner, invitation>>
  BY DEF A!SendFails
<1>2. k \in Codes /\ code[k].status # "none" /\ code[k] \in Code
  BY <1>1 DEF AccessIInv, AccessShaped, AccessRequest, Finds, Accepting, SigningUp
<1> HIDE DEF k
<1>3. /\ code' \in [Codes -> Code] /\ code'[k].status = "deleted"
         /\ code'[k].person = code[k].person
      /\ \A j \in Codes : j # k => code'[j] = code[j]
  BY <1>1, <1>2 DEF AccessIInv, AccessShaped, Code
<1>4. /\ request' \in [Requests -> AccessRequest] /\ request'[q] = A!Idle
      /\ \A r \in Requests : r # q => request'[r] = request[r]
      /\ Exclusive'
  BY <1>1, Ended
<1>5. AccessShaped'
  BY <1>1, <1>3, <1>4 DEF AccessIInv, AccessShaped
<1>6. Addressed'
  BY <1>1, <1>2, <1>3 DEF AccessIInv, Addressed
<1>7. ASSUME NEW r \in Requests PROVE Finds(request[r])' /\ Inserts(request[r])'
  <2>1. CASE r = q
    BY <1>4, <2>1, IdleRequest DEF Finds, Inserts
  <2>2. CASE r # q
    <3>1. Finds(request[r]) /\ Inserts(request[r]) /\ request'[r] = request[r]
      BY <1>4, <2>2 DEF AccessIInv
    <3>2. \A j \in Codes : code'[j].person = code[j].person
                          /\ (code[j].status # "none" => code'[j].status # "none")
      BY <1>3
    <3> QED BY <1>1, <3>1, <3>2 DEF Finds, Accepting, SigningUp, Inserts, A!Account
  <2> QED BY <2>1, <2>2
<1>8. MembersInvited'
  BY <1>1, <1>3 DEF AccessIInv, MembersInvited, A!Invited, A!Account
<1> QED BY <1>1, <1>4, <1>5, <1>6, <1>7, <1>8 DEF AccessIInv, OneOrigin, Owners

LEMMA CommitSignupKeeps ==
  ASSUME AccessIInv, NEW q \in Requests, A!CommitSignup(q)
  PROVE  AccessIInv'
<1> DEFINE k == request[q].id
           p == request[q].person
<1>1. /\ request[q].op = "signup" /\ request[q].at = "commit"
      /\ made' = [made EXCEPT ![p] = @ \cup {k}]
      /\ code' = [code EXCEPT ![k].status = "consumed"] /\ A!Ends(q)
      /\ UNCHANGED <<member, spaceRole, owner, invitation>>
  BY DEF A!CommitSignup
<1>2. /\ k \in Codes /\ code[k].status # "none" /\ code[k] \in Code /\ p = code[k].person
      /\ <<"account", p>> \in request[q].wrote /\ p \in Guests
  BY <1>1 DEF AccessIInv, AccessShaped, Finds, SigningUp, Addressed
<1>3. made[p] = {} /\ p \in People
  BY <1>2 DEF AccessIInv, Inserts, A!Account, Guests
<1>4. /\ request' \in [Requests -> AccessRequest] /\ request'[q] = A!Idle
      /\ \A r \in Requests : r # q => /\ request'[r] = request[r]
                                     /\ <<"account", p>> \notin request[r].wrote
      /\ Exclusive'
  BY <1>1, <1>2, Ended
<1> HIDE DEF k, p
<1>5. /\ code' \in [Codes -> Code] /\ code'[k].status = "consumed" /\ code'[k].person = p
      /\ \A j \in Codes : j # k => code'[j] = code[j]
  BY <1>1, <1>2 DEF AccessIInv, AccessShaped, Code
<1>6. /\ made' \in [People -> SUBSET ({"setup"} \cup Invitations \cup Codes)]
      /\ made'[p] = {k} /\ \A r \in People : r # p => made'[r] = made[r]
  BY <1>1, <1>2, <1>3 DEF AccessIInv, AccessShaped
<1>7. AccessShaped'
  BY <1>1, <1>4, <1>5, <1>6 DEF AccessIInv, AccessShaped
<1>8. Addressed'
  BY <1>1, <1>2, <1>5 DEF AccessIInv, Addressed
<1>9. \A r \in People : A!Account(r) => A!Account(r)'
  BY <1>6 DEF A!Account
<1>10. ASSUME NEW r \in Requests PROVE Finds(request[r])' /\ Inserts(request[r])'
  <2>1. CASE r = q
    BY <1>4, <2>1, IdleRequest DEF Finds, Inserts
  <2>2. CASE r # q
    <3>1. Finds(request[r]) /\ Inserts(request[r]) /\ request'[r] = request[r]
          /\ <<"account", p>> \notin request[r].wrote
      BY <1>4, <2>2 DEF AccessIInv
    <3>2. \A j \in Codes : code'[j].person = code[j].person
                          /\ (code[j].status # "none" => code'[j].status # "none")
      BY <1>2, <1>5
    <3>3. request[r].op \in {"accept", "signup"} => request[r].person \in People
      BY <3>1 DEF Finds, Accepting, SigningUp, AccessIInv, Addressed, Guests
    <3>4. Accepting(request[r]) /\ request[r].op = "accept" => Accepting(request[r])'
      BY <1>1, <1>9, <3>1, <3>3 DEF Accepting
    <3>5. SigningUp(request[r]) => SigningUp(request[r])'
      BY <1>1, <3>1, <3>2 DEF SigningUp
    <3>6. Finds(request[r])'
      BY <1>1, <3>1, <3>2, <3>4, <3>5 DEF Finds
    <3>7. <<"account", request[r].person>> \in request[r].wrote => ~ A!Account(request[r].person)'
      BY <1>6, <3>1 DEF Inserts, A!Account
    <3> QED BY <1>1, <3>1, <3>6, <3>7 DEF Inserts
  <2> QED BY <2>1, <2>2
<1>11. OneOrigin'
  BY <1>6 DEF AccessIInv, OneOrigin
<1>12. MembersInvited'
  <2>1. \A j \in Codes : code'[j].status = "consumed" => made'[code'[j].person] = {j}
    <3> SUFFICES ASSUME NEW j \in Codes, code'[j].status = "consumed"
                 PROVE  made'[code'[j].person] = {j}
      OBVIOUS
    <3>1. CASE j = k
      BY <1>5, <1>6, <3>1
    <3>2. CASE j # k
      <4>1. code'[j] = code[j] /\ made[code[j].person] = {j} /\ code[j].person \in People
        BY <1>5, <3>2 DEF AccessIInv, MembersInvited, Addressed, Guests
      <4> QED BY <1>3, <1>6, <4>1
    <3> QED BY <3>1, <3>2
  <2>2. \A g \in Guests : member'[g].role # "none" =>
              A!Account(g)' /\ \E i \in A!Invited(g)' : invitation'[i].role = member'[g].role
    BY <1>1, <1>9 DEF AccessIInv, MembersInvited, A!Invited, Guests
  <2> QED BY <1>1, <2>1, <2>2 DEF AccessIInv, MembersInvited
<1> QED BY <1>1, <1>4, <1>7, <1>8, <1>10, <1>11, <1>12 DEF AccessIInv, Owners

LEMMA WriteSpaceMemberKeeps ==
  ASSUME AccessIInv, NEW q \in Requests, A!WriteSpaceMember(q)
  PROVE  AccessIInv'
<1> DEFINE p == request[q].person
<1>1. /\ request[q].op \in {"role", "remove"} /\ A!Unlocked(q, <<"space", p>>)
      /\ spaceRole' = [spaceRole EXCEPT ![p] = request[q].role] /\ A!Ends(q)
      /\ UNCHANGED <<made, member, owner, invitation, code>>
  BY DEF A!WriteSpaceMember
<1>2. /\ p \in People /\ owner # None /\ p # owner
      /\ request[q].role \in {"none", "admin"}
      /\ request[q].role # "none" => member[p].role # "none"
  BY <1>1 DEF AccessIInv, AccessShaped, AccessRequest, Finds, Guests
<1>3. /\ request' \in [Requests -> AccessRequest] /\ request'[q] = A!Idle
      /\ \A r \in Requests : r # q => /\ request'[r] = request[r]
                                     /\ <<"space", p>> \notin request[r].wrote
      /\ Exclusive'
  BY <1>1, Ended DEF A!Unlocked
<1>4. /\ spaceRole' \in [People -> A!Roles \cup {"none"}] /\ spaceRole'[p] = request[q].role
      /\ \A r : r # p => spaceRole'[r] = spaceRole[r]
  BY <1>1, <1>2 DEF AccessIInv, AccessShaped, A!Roles
<1>5. AccessShaped'
  BY <1>1, <1>3, <1>4 DEF AccessIInv, AccessShaped
<1>6. ASSUME NEW r \in Requests PROVE Finds(request[r])' /\ Inserts(request[r])'
  <2>1. CASE r = q
    BY <1>3, <2>1, IdleRequest DEF Finds, Inserts
  <2>2. CASE r # q
    <3>1. Finds(request[r]) /\ Inserts(request[r]) /\ request'[r] = request[r]
          /\ <<"space", p>> \notin request[r].wrote
      BY <1>3, <2>2 DEF AccessIInv
    <3>2. Finds(request[r])'
      BY <1>1, <3>1 DEF Finds, Accepting, SigningUp, A!Account
    <3>3. <<"space", request[r].person>> \in request[r].wrote =>
             spaceRole'[request[r].person] = spaceRole[request[r].person]
      BY <1>4, <3>1
    <3> QED BY <1>1, <3>1, <3>2, <3>3 DEF Inserts, A!Account
  <2> QED BY <2>1, <2>2
<1>7. Owners'
  BY <1>1, <1>2, <1>4 DEF AccessIInv, Owners
<1> QED
  BY <1>1, <1>3, <1>5, <1>6, <1>7 DEF AccessIInv, Addressed, OneOrigin, MembersInvited,
         A!Invited, A!Account

LEMMA WriteUserKeeps ==
  ASSUME AccessIInv, NEW q \in Requests, A!WriteUser(q)
  PROVE  AccessIInv'
<1> DEFINE p == request[q].person
<1>1. /\ request[q].op = "disable"
      /\ member' = [member EXCEPT ![p].disabled = request[q].flag] /\ A!Ends(q)
      /\ UNCHANGED <<made, spaceRole, owner, invitation, code>>
  BY DEF A!WriteUser
<1>2. p \in People /\ member[p].role \notin {"none", "owner"} /\ request[q].flag \in BOOLEAN
  BY <1>1 DEF AccessIInv, AccessShaped, AccessRequest, Finds
<1>3. /\ request' \in [Requests -> AccessRequest] /\ request'[q] = A!Idle
      /\ \A r \in Requests : r # q => request'[r] = request[r]
      /\ Exclusive'
  BY <1>1, Ended
<1> HIDE DEF p
<1>4. /\ member' \in [People -> [role : A!Roles \cup {"none"}, disabled : BOOLEAN]]
      /\ \A r \in People : member'[r].role = member[r].role
      /\ \A r : r # p => member'[r] = member[r]
  BY <1>1, <1>2 DEF AccessIInv, AccessShaped
<1>5. AccessShaped'
  BY <1>1, <1>3, <1>4 DEF AccessIInv, AccessShaped
<1>6. \A r : member'[r] = member[r] \/ r = p
  BY <1>4
<1>7. member'[p].role = member[p].role
  BY <1>2, <1>4
<1>8. \A r : member'[r].role = member[r].role
  BY <1>6, <1>7
<1>9. ASSUME NEW r \in Requests PROVE Finds(request[r])' /\ Inserts(request[r])'
  <2>1. CASE r = q
    BY <1>3, <2>1, IdleRequest DEF Finds, Inserts
  <2>2. CASE r # q
    <3>1. Finds(request[r]) /\ Inserts(request[r]) /\ request'[r] = request[r]
      BY <1>3, <2>2 DEF AccessIInv
    <3> QED BY <1>1, <1>8, <3>1 DEF Finds, Accepting, SigningUp, Inserts, A!Account
  <2> QED BY <2>1, <2>2
<1>10. Owners'
  <2>1. member'[Founder] = member[Founder]
    BY <1>2, <1>6 DEF AccessIInv, Owners
  <2> QED BY <1>1, <1>8, <2>1 DEF AccessIInv, Owners
<1>11. MembersInvited'
  BY <1>1, <1>8 DEF AccessIInv, MembersInvited, A!Invited, A!Account
<1> QED BY <1>1, <1>3, <1>5, <1>9, <1>10, <1>11 DEF AccessIInv, Addressed, OneOrigin

LEMMA CommitAcceptanceKeeps ==
  ASSUME AccessIInv, NEW q \in Requests, A!CommitAcceptance(q)
  PROVE  AccessIInv'
<1> DEFINE i == request[q].id
           p == request[q].person
           wrote == {key[1] : key \in request[q].wrote}
           account == <<"account", p>> \in request[q].wrote
           joins == <<"member", p>> \in request[q].wrote
           enters == <<"space", p>> \in request[q].wrote
<1>1. /\ request[q].op = "accept" /\ request[q].at = "commit"
      /\ made' = [made EXCEPT ![p] = IF "account" \in wrote THEN @ \cup {i} ELSE @]
      /\ member' = [member EXCEPT ![p] =
                       IF "member" \in wrote THEN [role |-> invitation[i].role, disabled |-> FALSE] ELSE @]
      /\ spaceRole' = [spaceRole EXCEPT ![p] = IF "space" \in wrote THEN invitation[i].space ELSE @]
      /\ invitation' = [invitation EXCEPT ![i].status = "accepted", ![i].accepted = @ + 1]
      /\ A!Ends(q)
      /\ UNCHANGED <<owner, code>>
  BY DEF A!CommitAcceptance
<1>2. Finds(request[q]) /\ Inserts(request[q]) /\ Accepting(request[q])
  BY <1>1 DEF AccessIInv, Finds
<1>3. /\ i \in Invitations /\ p = invitation[i].person /\ p \in Guests /\ p \in People
      /\ <<"invitation", i>> \in request[q].wrote /\ invitation[i].status = "open"
      /\ A!Account(p) \/ account
      /\ member[p].role # "none" \/ joins
      /\ account => made[p] = {}
      /\ joins => member[p].role = "none"
      /\ enters => spaceRole[p] = "none" /\ invitation[i].space # "none" /\ owner # None
      /\ invitation[i].role \in {"viewer", "admin"} /\ invitation[i].space \in {"none", "viewer"}
      /\ invitation[i].accepted = 0 /\ invitation[i] \in Invitation
  BY <1>1, <1>2 DEF AccessIInv, Accepting, Inserts, Addressed, Guests, A!Account,
         MembersInvited, AccessShaped, Invitation
<1>4. ("account" \in wrote <=> account) /\ ("member" \in wrote <=> joins)
      /\ ("space" \in wrote <=> enters)
  <2>1. \A key \in request[q].wrote :
           key \in {<<"account", p>>, <<"member", p>>, <<"space", p>>, <<"invitation", i>>, <<"code", i>>}
    BY <1>2 DEF Inserts
  <2>2. account => "account" \in wrote
    <3> SUFFICES ASSUME account PROVE \E key \in request[q].wrote : key[1] = "account"
      OBVIOUS
    <3> QED OBVIOUS
  <2>3. joins => "member" \in wrote
    <3> SUFFICES ASSUME joins PROVE \E key \in request[q].wrote : key[1] = "member"
      OBVIOUS
    <3> QED OBVIOUS
  <2>4. enters => "space" \in wrote
    <3> SUFFICES ASSUME enters PROVE \E key \in request[q].wrote : key[1] = "space"
      OBVIOUS
    <3> QED OBVIOUS
  <2> QED BY <2>1, <2>2, <2>3, <2>4
<1>5. /\ request' \in [Requests -> AccessRequest] /\ request'[q] = A!Idle
      /\ \A r \in Requests : r # q => /\ request'[r] = request[r]
                                     /\ request[r].wrote \cap request[q].wrote = {}
      /\ Exclusive'
  BY <1>1, Ended
<1> HIDE DEF i, p, wrote
<1>6. /\ made' \in [People -> SUBSET ({"setup"} \cup Invitations \cup Codes)]
      /\ made'[p] = IF account THEN {i} ELSE made[p]
      /\ \A r \in People : r # p => made'[r] = made[r]
  BY <1>1, <1>3, <1>4 DEF AccessIInv, AccessShaped
<1>7. /\ member' \in [People -> [role : A!Roles \cup {"none"}, disabled : BOOLEAN]]
      /\ member'[p] = IF joins THEN [role |-> invitation[i].role, disabled |-> FALSE] ELSE member[p]
      /\ \A r \in People : r # p => member'[r] = member[r]
  BY <1>1, <1>3, <1>4 DEF AccessIInv, AccessShaped, A!Roles
<1>8. /\ spaceRole' \in [People -> A!Roles \cup {"none"}]
      /\ spaceRole'[p] = IF enters THEN invitation[i].space ELSE spaceRole[p]
      /\ \A r \in People : r # p => spaceRole'[r] = spaceRole[r]
  BY <1>1, <1>3, <1>4 DEF AccessIInv, AccessShaped, A!Roles
<1>9. /\ invitation' \in [Invitations -> Invitation]
      /\ invitation'[i].status = "accepted" /\ invitation'[i].accepted = 1
      /\ \A j \in Invitations :
            /\ j # i => invitation'[j] = invitation[j]
            /\ invitation'[j].person = invitation[j].person
               /\ invitation'[j].role = invitation[j].role
            /\ invitation'[j].space = invitation[j].space
            /\ invitation[j].status # "none" => invitation'[j].status # "none"
  <2>1. /\ invitation'[i] \in Invitation
        /\ invitation'[i].status = "accepted" /\ invitation'[i].accepted = 1
        /\ invitation'[i].person = invitation[i].person
           /\ invitation'[i].role = invitation[i].role
        /\ invitation'[i].space = invitation[i].space
    BY <1>1, <1>3 DEF AccessIInv, AccessShaped, Invitation
  <2>2. \A j \in Invitations : j # i => invitation'[j] = invitation[j]
    BY <1>1, <1>3 DEF AccessIInv, AccessShaped
  <2>3. invitation' \in [Invitations -> Invitation]
    BY <1>1, <2>1, <2>2 DEF AccessIInv, AccessShaped
  <2> QED BY <2>1, <2>2, <2>3
<1>10. AccessShaped'
  BY <1>1, <1>5, <1>6, <1>7, <1>8, <1>9 DEF AccessIInv, AccessShaped
<1>11. Addressed'
  BY <1>1, <1>9, <1>3 DEF AccessIInv, Addressed
<1>12. \A r \in People : A!Account(r) => A!Account(r)'
  BY <1>3, <1>6 DEF A!Account
<1>13. \A r \in People : member[r].role # "none" => member'[r] = member[r]
  BY <1>3, <1>7
<1>14. ASSUME NEW r \in Requests PROVE Finds(request[r])' /\ Inserts(request[r])'
  <2>1. CASE r = q
    BY <1>5, <2>1, IdleRequest DEF Finds, Inserts
  <2>2. CASE r # q
    <3>1. Finds(request[r]) /\ Inserts(request[r]) /\ request'[r] = request[r]
          /\ request[r].wrote \cap request[q].wrote = {}
      BY <1>5, <2>2 DEF AccessIInv
    <3>2. request[r].op \in {"accept", "signup", "role", "remove", "disable"}
          => request[r].person \in People
      BY <3>1 DEF Finds, Accepting, SigningUp, AccessIInv, Addressed, Guests
    <3>3. request[r].op = "accept" => Accepting(request[r])'
      BY <1>9, <1>12, <1>13, <3>1, <3>2 DEF Accepting, Finds
    <3>4. SigningUp(request[r]) => SigningUp(request[r])'
      BY <1>1, <3>1 DEF SigningUp
    <3>5. Finds(request[r])'
      BY <1>1, <1>13, <3>1, <3>2, <3>3, <3>4 DEF Finds
    <3>6. <<"account", request[r].person>> \in request[r].wrote => ~ A!Account(request[r].person)'
      BY <1>6, <3>1 DEF Inserts, A!Account
    <3>7. <<"member", request[r].person>> \in request[r].wrote
          => member'[request[r].person].role = "none"
      BY <1>7, <3>1 DEF Inserts
    <3>8. <<"space", request[r].person>> \in request[r].wrote =>
             /\ request[r].op = "accept" /\ spaceRole'[request[r].person] = "none"
             /\ invitation'[request[r].id].space # "none"
      BY <1>8, <1>9, <3>1 DEF Inserts, Finds, Accepting
    <3>9. <<"invitation", request[r].id>> \in request[r].wrote =>
             request[r].op = "accept" /\ invitation'[request[r].id].status = "open"
      BY <1>3, <1>9, <3>1 DEF Inserts, Finds, Accepting
    <3> QED BY <3>1, <3>5, <3>6, <3>7, <3>8, <3>9 DEF Inserts
  <2> QED BY <2>1, <2>2
<1>15. OneOrigin'
  BY <1>6 DEF AccessIInv, OneOrigin
<1>16. MembersInvited'
  <2>1. ASSUME NEW g \in Guests, member'[g].role # "none"
        PROVE  A!Account(g)' /\ \E j \in A!Invited(g)' : invitation'[j].role = member'[g].role
    <3>1. CASE g = p /\ joins
      <4>1. A!Account(g)'
        BY <1>3, <1>6, <3>1 DEF A!Account
      <4>2. i \in A!Invited(g)' /\ invitation'[i].role = member'[g].role
        BY <1>3, <1>7, <1>9, <3>1 DEF A!Invited
      <4> QED BY <4>1, <4>2
    <3>2. CASE ~ (g = p /\ joins)
      <4>1. member'[g] = member[g] /\ g \in People
        BY <1>7, <3>2 DEF Guests
      <4>2. PICK j \in A!Invited(g) : invitation[j].role = member[g].role
        BY <2>1, <4>1 DEF AccessIInv, MembersInvited
      <4>3. j \in A!Invited(g)' /\ invitation'[j].role = member'[g].role
        BY <1>3, <1>9, <4>1, <4>2 DEF A!Invited
      <4>4. A!Account(g)'
        BY <1>12, <2>1, <4>1 DEF AccessIInv, MembersInvited
      <4> QED BY <4>3, <4>4
    <3> QED BY <3>1, <3>2
  <2>2. ASSUME NEW j \in Invitations
        PROVE  /\ invitation'[j].accepted = (IF invitation'[j].status = "accepted" THEN 1 ELSE 0)
               /\ invitation'[j].accepted = 1 => member'[invitation'[j].person].role # "none"
    <3>1. CASE j = i
      BY <1>3, <1>7, <1>9, <3>1
    <3>2. CASE j # i
      <4>1. invitation'[j] = invitation[j]
        BY <1>9, <3>2
      <4>2. /\ invitation[j].accepted = (IF invitation[j].status = "accepted" THEN 1 ELSE 0)
            /\ invitation[j].accepted = 1 =>
                  member[invitation[j].person].role # "none" /\ invitation[j].person \in People
        BY DEF AccessIInv, MembersInvited, Addressed, Guests
      <4> QED BY <1>13, <4>1, <4>2
    <3> QED BY <3>1, <3>2
  <2>3. ASSUME NEW k \in Codes, code'[k].status = "consumed"
        PROVE  made'[code'[k].person] = {k}
    <3>1. code'[k] = code[k] /\ made[code[k].person] = {k} /\ code[k].person \in People
      BY <1>1, <2>3 DEF AccessIInv, MembersInvited, Addressed, Guests
    <3> QED BY <1>3, <1>6, <3>1
  <2> QED BY <2>1, <2>2, <2>3 DEF MembersInvited
<1>17. Owners'
  <2>1. member'[Founder] = member[Founder] /\ Founder \in People
    BY <1>3, <1>7, AccessAssumption DEF Guests
  <2>2. \A g \in Guests : member'[g].role # "owner"
    BY <1>3, <1>7 DEF AccessIInv, Owners, Guests
  <2>3. \A g \in People : spaceRole'[g] = "owner" <=> g = owner
    BY <1>3, <1>8 DEF AccessIInv, Owners
  <2>4. \A g \in People : spaceRole'[g] # "none" => member'[g].role # "none" /\ owner # None
    BY <1>3, <1>7, <1>8, <1>13 DEF AccessIInv, Owners
  <2> QED BY <1>1, <2>1, <2>2, <2>3, <2>4 DEF AccessIInv, Owners
<1> QED BY <1>5, <1>10, <1>11, <1>14, <1>15, <1>16, <1>17 DEF AccessIInv

LEMMA AccessNextKeeps ==
  ASSUME AccessIInv, A!Next
  PROVE  AccessIInv'
<1>1. \A q \in Requests : A!CodeSent(q) \/ A!Die(q) => AccessIInv'
  BY AccessEndsKeeps DEF A!CodeSent, A!Die
<1>2. \A q \in Requests, p \in Guests :
         A!LookSpaceMember(q, "role", p, "admin") \/ A!LookSpaceMember(q, "remove", p, "none")
         => AccessIInv'
  BY LookSpaceMemberKeeps
<1> QED
  BY <1>1, <1>2, CreateSpaceKeeps, CreateInvitationKeeps, RevokeInvitationKeeps, AcceptKeeps,
     VerifyKeeps, RequestCodeKeeps, LookKeeps, InsertAccountKeeps, InsertMemberKeeps,
     InsertSpaceMemberKeeps, MarkAcceptedKeeps, CommitAcceptanceKeeps, SendFailsKeeps,
     ConsumeKeeps,
     CommitSignupKeeps, LookUserKeeps, WriteSpaceMemberKeeps, WriteUserKeeps
     DEF A!Next, Guests

LEMMA AccessStutterKeeps ==
  ASSUME AccessIInv, UNCHANGED A!accessVars
  PROVE  AccessIInv'
<1>1. UNCHANGED <<made, member, spaceRole, owner, invitation, code, request>>
  BY DEF A!accessVars
<1>2. AccessShaped'
  BY <1>1 DEF AccessIInv, AccessShaped
<1>3. ASSUME NEW q \in Requests PROVE Finds(request[q])' /\ Inserts(request[q])'
  <2>1. Finds(request[q]) /\ Inserts(request[q])
    BY DEF AccessIInv
  <2> QED BY <1>1, <2>1 DEF Finds, Inserts, Accepting, SigningUp, A!Account
<1>4. Addressed' /\ Exclusive' /\ OneOrigin' /\ MembersInvited' /\ Owners'
  BY <1>1 DEF AccessIInv, Addressed, Exclusive, OneOrigin, MembersInvited, Owners, A!Account,
          A!Invited
<1> QED BY <1>2, <1>3, <1>4 DEF AccessIInv

LEMMA AccessIInvEntry == AccessIInv => A!TypeOK /\ A!EntryOnce /\ A!OwnersStay
<1> SUFFICES ASSUME AccessIInv PROVE A!TypeOK /\ A!EntryOnce /\ A!OwnersStay
  OBVIOUS
<1>1. A!TypeOK
  <2>1. \A q \in Requests : request[q] \in AccessRequest
    BY DEF AccessIInv, AccessShaped
  <2>2. \A i \in Invitations : invitation[i] \in Invitation
    BY DEF AccessIInv, AccessShaped
  <2>3. \A k \in Codes : code[k] \in Code
    BY DEF AccessIInv, AccessShaped
  <2> QED BY <2>1, <2>2, <2>3 DEF A!TypeOK, AccessIInv, AccessShaped, AccessRequest, Invitation,
                 Code
<1>2. A!EntryOnce
  <2>1. \A p \in People : Cardinality(made[p]) <= 1
    <3> SUFFICES ASSUME NEW p \in People PROVE Cardinality(made[p]) <= 1
      OBVIOUS
    <3>1. made[p] = {} \/ \E x : made[p] = {x}
      BY DEF AccessIInv, OneOrigin
    <3>2. Cardinality({}) = 0 /\ \A x : Cardinality({x}) = 1
      BY FS_EmptySet, FS_Singleton
    <3>3. Cardinality(made[p]) = 0 \/ Cardinality(made[p]) = 1
      BY <3>1, <3>2
    <3> QED BY <3>3
  <2>2. \A p \in People : A!Cardinality(made[p]) = Cardinality(made[p])
    BY DEF A!Cardinality, Cardinality
  <2> QED BY <2>1, <2>2 DEF AccessIInv, MembersInvited, Guests, A!EntryOnce
<1>3. A!OwnersStay
  <2>1. \A p \in People : member[p].role = "owner" <=> p = Founder
    BY AccessAssumption DEF AccessIInv, Owners, Guests
  <2>2. {p \in People : member[p].role = "owner"} = {Founder}
    BY <2>1, AccessAssumption
  <2>3. {p \in People : spaceRole[p] = "owner"} = {owner} \ {None}
    BY AccessAssumption DEF AccessIInv, Owners, AccessShaped
  <2> QED BY <2>2, <2>3 DEF AccessIInv, Owners, A!OwnersStay
<1> QED BY <1>1, <1>2, <1>3

(***************************************************************************)
(* Resources.  Documents: what a request found when it looked is true      *)
(* until a version is inserted.                                            *)
(***************************************************************************)
Version == [document : Documents, number : 1..MaxVersions, file : Files,
            profile : Profiles, blob : 1..MaxBlobs, raced : BOOLEAN]

ResourceShaped ==
    /\ versions \subseteq Version /\ IsFiniteSet(versions) /\ Cardinality(versions) <= MaxVersions
    /\ \E n \in 0..MaxBlobs : DOMAIN blob = 1..n
    /\ \A b \in DOMAIN blob : blob[b] \in Files
    /\ held \subseteq Requests

\* A row refers to a blob that is stored and holds its file.
Stored(b, f) == b \in DOMAIN blob /\ blob[b] = f

Numbered ==
    \A d \in Documents :
        /\ {v.number : v \in R!Of(d)} = 1..Cardinality(R!Of(d))
        /\ \A v, w \in R!Of(d) :
              v.number < w.number /\ v.file = w.file /\ v.profile = w.profile => w.raced

\* What a request found when it looked is true until a version is inserted.
Looked(u) ==
    /\ u.at \in {"idle", "reserve", "put", "insert"}
    /\ u.at # "idle" =>
          /\ u.document \in Documents /\ u.file \in Files /\ u.profile \in Profiles
          /\ u.seen \in Nat /\ u.seen <= Cardinality(versions)
          /\ u.seen = Cardinality(versions) => R!Same(R!Of(u.document), u.file, u.profile) = {}
    /\ u.at = "insert" => Stored(u.blob, u.file)

ResourceIInv ==
    /\ ResourceShaped /\ Numbered
    /\ \A v \in versions : Stored(v.blob, v.file)
    /\ DOMAIN upload = Requests /\ \A q \in Requests : Looked(upload[q])

-----------------------------------------------------------------------------
\* The library's operators are the same inside the instance.
LEMMA Counted == ASSUME NEW X PROVE R!Cardinality(X) = Cardinality(X)
BY DEF R!Cardinality, Cardinality

LEMMA ResourceInitIInv == R!Init => ResourceIInv
<1> SUFFICES ASSUME R!Init PROVE ResourceIInv
  OBVIOUS
<1>1. Cardinality(versions) = 0 /\ IsFiniteSet(versions) /\ versions = {}
  BY FS_EmptySet DEF R!Init
<1>2. DOMAIN blob = 1..0
  BY DEF R!Init
<1>3. ResourceShaped
  BY <1>1, <1>2, StoreAssumption DEF ResourceShaped, R!Init
<1>4. Numbered
  <2> SUFFICES ASSUME NEW d \in Documents
               PROVE  {v.number : v \in R!Of(d)} = 1..Cardinality(R!Of(d)) /\ R!Of(d) = {}
    BY DEF Numbered
  <2>1. R!Of(d) = {} /\ Cardinality(R!Of(d)) = 0
    BY <1>1 DEF R!Of
  <2> QED BY <2>1
<1> QED BY <1>1, <1>3, <1>4 DEF ResourceIInv, R!Init, Looked, R!Idle

\* The versions of a document are finitely many, and no more than all.
LEMMA OfFinite ==
  ASSUME ResourceShaped, NEW d
  PROVE  /\ IsFiniteSet(R!Of(d)) /\ Cardinality(R!Of(d)) \in Nat /\ Cardinality(versions) \in Nat
         /\ Cardinality(R!Of(d)) <= Cardinality(versions)
<1>1. R!Of(d) \subseteq versions
  BY DEF R!Of
<1> QED BY <1>1, FS_Subset, FS_CardinalityType DEF ResourceShaped

\* The latest version of a document bears the number of its versions.
LEMMA LatestIs ==
  ASSUME ResourceShaped, Numbered, NEW d \in Documents, R!Of(d) # {}
  PROVE  R!Latest(d) \in R!Of(d) /\ R!Latest(d).number = Cardinality(R!Of(d))
<1> DEFINE n == Cardinality(R!Of(d))
<1>1. n \in Nat /\ n # 0
  BY OfFinite, FS_EmptySet
<1>2. {v.number : v \in R!Of(d)} = 1..n
  BY DEF Numbered
<1> HIDE DEF n
<1>3. PICK v \in R!Of(d) : v.number = n
  BY <1>1, <1>2
<1>4. \A w \in R!Of(d) : w.number \in 1..n
  BY <1>2
<1>5. \A w \in R!Of(d) : w.number <= v.number
  BY <1>1, <1>3, <1>4
<1>6. R!Latest(d) \in R!Of(d) /\ \A w \in R!Of(d) : w.number <= R!Latest(d).number
  BY <1>5 DEF R!Latest
<1>7. n <= R!Latest(d).number /\ R!Latest(d).number \in 1..n
  BY <1>3, <1>4, <1>6
<1> QED BY <1>1, <1>6, <1>7 DEF n

\* A row with the next number keeps the documents numbered, and what the requests have
\* seen is then fewer versions than there are.
LEMMA InsertedKeeps ==
  ASSUME ResourceIInv, NEW d \in Documents, NEW f \in Files, NEW profile \in Profiles, NEW b,
         NEW raced \in BOOLEAN, R!Inserted(d, f, profile, b, raced), Stored(b, f),
         ~ raced => R!Same(R!Of(d), f, profile) = {},
         blob' = blob, held' \subseteq Requests, DOMAIN upload' = Requests,
         \A q \in Requests : upload'[q] = upload[q] \/ upload'[q] = R!Idle
  PROVE  ResourceIInv'
<1> DEFINE n == Cardinality(R!Of(d))
           ver == [document |-> d, number |-> n + 1, file |-> f, profile |-> profile, blob |-> b,
                   raced |-> raced]
<1>1. n \in Nat /\ n <= Cardinality(versions) /\ IsFiniteSet(R!Of(d))
      /\ Cardinality(versions) \in Nat /\ Cardinality(versions) < MaxVersions
  BY OfFinite, Counted DEF ResourceIInv, R!Inserted
<1>2. (IF R!Of(d) = {} THEN 1 ELSE R!Latest(d).number + 1) = n + 1
  <2>1. CASE R!Of(d) = {}
    BY <2>1, FS_EmptySet
  <2>2. CASE R!Of(d) # {}
    BY <2>2, LatestIs DEF ResourceIInv
  <2> QED BY <2>1, <2>2
<1>3. versions' = versions \cup {ver}
  BY <1>2 DEF R!Inserted
<1>4. {v.number : v \in R!Of(d)} = 1..n
  BY DEF ResourceIInv, Numbered
<1>5. \A v \in R!Of(d) : v.number \in 1..n
  BY <1>4
<1>6. ver.document = d /\ ver.number = n + 1 /\ ver.file = f /\ ver.profile = profile
      /\ ver.blob = b /\ ver.raced = raced
  OBVIOUS
<1>7. ver \in Version
  <2>1. PICK m \in 0..MaxBlobs : DOMAIN blob = 1..m
    BY DEF ResourceIInv, ResourceShaped
  <2>2. b \in 1..MaxBlobs
    BY <2>1, StoreAssumption DEF Stored
  <2>3. n + 1 \in 1..MaxVersions
    BY <1>1, StoreAssumption
  <2> QED BY <2>2, <2>3 DEF Version
<1> HIDE DEF ver, n
<1>8. ver \notin versions
  <2> SUFFICES ASSUME ver \in versions PROVE FALSE
    OBVIOUS
  <2>1. ver \in R!Of(d)
    BY <1>6 DEF R!Of
  <2> QED BY <1>1, <1>5, <1>6, <2>1
<1>9. R!Of(d)' = R!Of(d) \cup {ver} /\ \A e \in Documents : e # d => R!Of(e)' = R!Of(e)
  BY <1>3, <1>6 DEF R!Of
<1>10. /\ IsFiniteSet(versions') /\ Cardinality(versions') = Cardinality(versions) + 1
       /\ Cardinality(R!Of(d)') = n + 1
  <2>1. ver \notin R!Of(d)
    BY <1>8 DEF R!Of
  <2> QED BY <1>1, <1>3, <1>8, <1>9, <2>1, FS_AddElement DEF ResourceIInv, ResourceShaped, n
<1>11. ResourceShaped'
  BY <1>1, <1>3, <1>7, <1>10, StoreAssumption DEF ResourceIInv, ResourceShaped
<1>12. Numbered'
  <2>1. ASSUME NEW e \in Documents, e # d
        PROVE  /\ {v.number : v \in R!Of(e)'} = 1..Cardinality(R!Of(e)')
               /\ \A v, w \in R!Of(e)' :
                     v.number < w.number /\ v.file = w.file /\ v.profile = w.profile => w.raced
    BY <1>9, <2>1 DEF ResourceIInv, Numbered
  <2>2. {v.number : v \in R!Of(d)'} = 1..Cardinality(R!Of(d)')
    <3>1. {v.number : v \in R!Of(d)'} = {v.number : v \in R!Of(d)} \cup {n + 1}
      BY <1>6, <1>9
    <3> QED BY <1>1, <1>4, <1>10, <3>1
  <2>3. ASSUME NEW v \in R!Of(d)', NEW w \in R!Of(d)',
               v.number < w.number, v.file = w.file, v.profile = w.profile
        PROVE  w.raced
    <3>1. v \in R!Of(d)
      <4>1. w.number <= n + 1
        BY <1>1, <1>5, <1>6, <1>9
      <4> SUFFICES ASSUME v = ver PROVE FALSE
        BY <1>9
      <4> QED BY <1>1, <1>5, <1>6, <1>9, <2>3, <4>1
    <3>2. CASE w = ver
      <4>1. v \in R!Same(R!Of(d), f, profile)
        BY <1>6, <2>3, <3>1, <3>2 DEF R!Same
      <4> QED BY <1>6, <3>2, <4>1
    <3>3. CASE w # ver
      BY <1>9, <2>3, <3>1, <3>3 DEF ResourceIInv, Numbered
    <3> QED BY <3>2, <3>3
  <2> QED BY <2>1, <2>2, <2>3 DEF Numbered
<1>13. ASSUME NEW v \in versions' PROVE Stored(v.blob, v.file)'
  BY <1>3, <1>6 DEF ResourceIInv, Stored
<1>14. ASSUME NEW q \in Requests PROVE Looked(upload[q])'
  <2>1. CASE upload'[q] = R!Idle
    BY <2>1 DEF Looked, R!Idle
  <2>2. CASE upload'[q] = upload[q]
    <3>1. Looked(upload[q])
      BY DEF ResourceIInv
    <3>2. upload[q].at # "idle" => upload[q].seen <= Cardinality(versions')
          /\ upload[q].seen # Cardinality(versions')
      BY <1>1, <1>10, <3>1 DEF Looked
    <3> QED BY <2>2, <3>1, <3>2 DEF Looked, Stored
  <2> QED BY <2>1, <2>2
<1> QED BY <1>11, <1>12, <1>13, <1>14 DEF ResourceIInv

\* A step of one request that inserts nothing and changes no blob.
LEMMA ResourceRequestMoves ==
  ASSUME ResourceIInv, NEW q \in Requests, NEW u, upload' = [upload EXCEPT ![q] = u],
         Looked(u), UNCHANGED <<versions, blob>>, held' \subseteq Requests
  PROVE  ResourceIInv'
<1>1. DOMAIN upload' = Requests /\ upload'[q] = u
      /\ \A r \in Requests : r # q => upload'[r] = upload[r]
  BY DEF ResourceIInv
<1>2. ResourceShaped' /\ Numbered'
  BY DEF ResourceIInv, ResourceShaped, Numbered, R!Of
<1>3. ASSUME NEW r \in Requests PROVE Looked(upload[r])'
  <2>1. Looked(upload'[r])
    BY <1>1 DEF ResourceIInv
  <2> QED BY <2>1 DEF Looked, R!Same, R!Of, Stored
<1> QED BY <1>1, <1>2, <1>3 DEF ResourceIInv, Stored

LEMMA ResourceEndsKeeps ==
  ASSUME ResourceIInv, NEW q \in Requests, R!Ends(q), UNCHANGED <<versions, blob>>,
         held' \subseteq Requests
  PROVE  ResourceIInv'
<1>1. Looked(R!Idle)
  BY DEF Looked, R!Idle
<1> QED BY <1>1, ResourceRequestMoves DEF R!Ends

LEMMA UploadKeeps ==
  ASSUME ResourceIInv, NEW q \in Requests, NEW d \in Documents, NEW f \in Files,
         NEW profile \in Profiles,
         R!UploadResource(q, d, f, profile) \/ R!ReplaceResourceVersion(q, d, f, profile)
  PROVE  ResourceIInv'
<1>1. PICK do, b : /\ R!Begins(q, do, d, f, profile, b)
                   /\ R!Same(R!Of(d), f, profile) = {}
                   /\ b = 0 \/ Stored(b, f)
  <2>1. CASE R!UploadResource(q, d, f, profile)
    <3>1. R!Begins(q, "upload", d, f, profile, 0) /\ R!Same(R!Of(d), f, profile) = {}
      BY <2>1 DEF R!UploadResource, R!Same, R!Of
    <3> QED BY <3>1
  <2>2. CASE R!ReplaceResourceVersion(q, d, f, profile)
    <3>1. R!Same(R!Of(d), f, profile) = {}
      BY <2>2 DEF R!ReplaceResourceVersion
    <3>2. \/ R!Begins(q, "replace", d, f, profile, 0)
          \/ \E v \in R!Same(versions, f, profile) :
               R!Begins(q, "replace", d, f, profile, IF v.blob \in DOMAIN blob THEN v.blob ELSE 0)
      BY <2>2 DEF R!ReplaceResourceVersion
    <3>3. \A v \in R!Same(versions, f, profile) : Stored(v.blob, f)
      BY DEF R!Same, ResourceIInv
    <3>4. \E b : R!Begins(q, "replace", d, f, profile, b) /\ (b = 0 \/ Stored(b, f))
      BY <3>2, <3>3 DEF Stored
    <3> QED BY <3>1, <3>4
  <2> QED BY <2>1, <2>2
<1> DEFINE u == [op |-> do, at |-> IF b = 0 THEN "reserve" ELSE "insert", document |-> d,
                 file |-> f, profile |-> profile, blob |-> b, seen |-> Cardinality(versions)]
<1>2. upload' = [upload EXCEPT ![q] = u] /\ UNCHANGED <<versions, blob, held>>
  BY <1>1, Counted DEF R!Begins
<1>3. Cardinality(versions) \in Nat
  BY OfFinite DEF ResourceIInv
<1>4. Looked(u)
  BY <1>1, <1>3 DEF Looked
<1> HIDE DEF u
<1> QED BY <1>2, <1>4, ResourceRequestMoves DEF ResourceIInv, ResourceShaped

LEMMA ResourceReserveKeeps ==
  ASSUME ResourceIInv, NEW q \in Requests, R!Reserve(q)
  PROVE  ResourceIInv'
<1> DEFINE u == [upload[q] EXCEPT !.at = "put"]
<1>1. Looked(upload[q]) /\ upload[q].at = "reserve"
  BY DEF ResourceIInv, R!Reserve
<1>2. upload' = [upload EXCEPT ![q] = u] /\ UNCHANGED <<versions, blob>>
      /\ held' \subseteq Requests
  BY DEF R!Reserve, R!Goes, ResourceIInv, ResourceShaped
<1>3. Looked(u)
  BY <1>1 DEF Looked
<1> HIDE DEF u
<1> QED BY <1>2, <1>3, ResourceRequestMoves

\* The path of a new blob is one that no blob has.
LEMMA NewPath ==
  ASSUME NEW n \in Nat
  PROVE  R!Max(1..n \cup {0}) = n
<1>1. n \in 1..n \cup {0} /\ \A y \in 1..n \cup {0} : n >= y
  OBVIOUS
<1>2. \A x \in 1..n \cup {0} : (\A y \in 1..n \cup {0} : x >= y) => x = n
  <2> SUFFICES ASSUME NEW x \in 1..n \cup {0}, \A y \in 1..n \cup {0} : x >= y PROVE x = n
    OBVIOUS
  <2>1. x >= n /\ x <= n /\ x \in Nat
    BY <1>1
  <2> QED BY <2>1
<1> QED BY <1>1, <1>2 DEF R!Max

LEMMA PutImmutableKeeps ==
  ASSUME ResourceIInv, NEW q \in Requests, R!PutImmutable(q)
  PROVE  ResourceIInv'
<1>1. PICK n \in 0..MaxBlobs : DOMAIN blob = 1..n
  BY DEF ResourceIInv, ResourceShaped
<1>2. R!Max(DOMAIN blob \cup {0}) = n /\ n \in Nat
  BY <1>1, NewPath, StoreAssumption
<1> DEFINE b == n + 1
           u == [upload[q] EXCEPT !.at = "insert", !.blob = b]
<1>3. /\ upload[q].at = "put" /\ b <= MaxBlobs
      /\ blob' = [k \in DOMAIN blob \cup {b} |-> IF k = b THEN upload[q].file ELSE blob[k]]
      /\ upload' = [upload EXCEPT ![q] = u]
      /\ UNCHANGED <<versions, held>>
  BY <1>2 DEF R!PutImmutable
<1>4. DOMAIN blob' = 1..b /\ b \in 0..MaxBlobs /\ b \notin DOMAIN blob
  BY <1>1, <1>2, <1>3, StoreAssumption
<1>5. \A c, f : Stored(c, f) => Stored(c, f)'
  BY <1>3, <1>4 DEF Stored
<1>6. blob'[b] = upload[q].file /\ b \in DOMAIN blob'
  BY <1>2, <1>3, <1>4
<1>7. ResourceShaped' /\ Numbered'
  <2>1. \A c \in DOMAIN blob' : blob'[c] \in Files
    <3>1. upload[q].file \in Files
      BY <1>3 DEF ResourceIInv, Looked
    <3> QED BY <1>3, <3>1 DEF ResourceIInv, ResourceShaped
  <2>2. ResourceShaped'
    BY <1>3, <1>4, <2>1 DEF ResourceIInv, ResourceShaped
  <2> QED BY <1>3, <2>2 DEF ResourceIInv, Numbered, R!Of
<1>8. DOMAIN upload' = Requests /\ upload'[q] = u
      /\ \A r \in Requests : r # q => upload'[r] = upload[r]
  BY <1>3 DEF ResourceIInv
<1>9. ASSUME NEW r \in Requests PROVE Looked(upload[r])'
  <2>1. CASE r # q
    <3>1. Looked(upload[r]) /\ upload'[r] = upload[r]
      BY <1>8, <2>1 DEF ResourceIInv
    <3> QED BY ZenonT(60), <1>3, <1>5, <3>1 DEF Looked, R!Same, R!Of
  <2>2. CASE r = q
    <3>1. Looked(upload[q]) /\ upload[q].at = "put"
      BY <1>3 DEF ResourceIInv
    <3>2. /\ u.at = "insert" /\ u.document = upload[q].document /\ u.file = upload[q].file
          /\ u.profile = upload[q].profile /\ u.seen = upload[q].seen
      OBVIOUS
    <3>3. u.blob \in DOMAIN blob' /\ blob'[u.blob] = u.file
      BY <1>6, <3>2
    <3> HIDE DEF u
    <3>4. upload'[r] = u
      BY <1>8, <2>2
    <3>5. /\ u.document \in Documents /\ u.file \in Files /\ u.profile \in Profiles
          /\ u.seen \in Nat /\ u.seen <= Cardinality(versions)
          /\ u.seen = Cardinality(versions) => R!Same(R!Of(u.document), u.file, u.profile) = {}
      BY <3>1, <3>2 DEF Looked
    <3>6. \A e, f, profile : R!Same(R!Of(e), f, profile)' = R!Same(R!Of(e), f, profile)
      BY <1>3 DEF R!Same, R!Of
    <3> QED BY <1>3, <3>2, <3>3, <3>4, <3>5, <3>6 DEF Looked, Stored
  <2> QED BY <2>1, <2>2
<1>10. ASSUME NEW v \in versions' PROVE Stored(v.blob, v.file)'
  BY <1>3, <1>5 DEF ResourceIInv
<1> QED BY <1>7, <1>8, <1>9, <1>10 DEF ResourceIInv

LEMMA InsertVersionKeeps ==
  ASSUME ResourceIInv, NEW q \in Requests, R!InsertVersion(q)
  PROVE  ResourceIInv'
<1> DEFINE u == upload[q]
           raced == Cardinality(versions) # u.seen
<1>1. /\ Looked(u) /\ u.at = "insert" /\ raced \in BOOLEAN
      /\ R!Inserted(u.document, u.file, u.profile, u.blob, raced)
      /\ held' = held \ {q} /\ R!Ends(q) /\ blob' = blob
  BY Counted DEF ResourceIInv, R!InsertVersion
<1>2. DOMAIN upload' = Requests /\ \A r \in Requests : upload'[r] = upload[r] \/ upload'[r] = R!Idle
  BY <1>1 DEF R!Ends, ResourceIInv
<1>3. held' \subseteq Requests
  BY <1>1 DEF ResourceIInv, ResourceShaped
<1>4. /\ u.document \in Documents /\ u.file \in Files /\ u.profile \in Profiles
      /\ Stored(u.blob, u.file) /\ (~ raced => R!Same(R!Of(u.document), u.file, u.profile) = {})
  BY <1>1 DEF Looked
<1> HIDE DEF u, raced
<1> QED BY <1>1, <1>2, <1>3, <1>4, InsertedKeeps

LEMMA RecompileKeeps ==
  ASSUME ResourceIInv, NEW d \in Documents, NEW profile \in Profiles,
         R!RecompileResourceVersion(d, profile)
  PROVE  ResourceIInv'
<1> DEFINE v == R!Latest(d)
<1>1. /\ R!Of(d) # {} /\ R!Same(R!Of(d), v.file, profile) = {}
      /\ R!Inserted(d, v.file, profile, v.blob, FALSE) /\ UNCHANGED <<blob, held, upload>>
  BY DEF R!RecompileResourceVersion
<1>2. v \in versions
  BY <1>1, LatestIs DEF ResourceIInv, R!Of
<1>3. v.file \in Files /\ Stored(v.blob, v.file)
  BY <1>2 DEF ResourceIInv, ResourceShaped, Version
<1> HIDE DEF v
<1> QED BY <1>1, <1>3, InsertedKeeps DEF ResourceIInv, ResourceShaped

LEMMA ResourceNextKeeps ==
  ASSUME ResourceIInv, R!Next
  PROVE  ResourceIInv'
<1>1. ASSUME NEW q \in Requests, R!QuotaExceeded(q) \/ R!Fails(q) \/ R!Die(q) PROVE ResourceIInv'
  BY <1>1, ResourceEndsKeeps DEF R!QuotaExceeded, R!Fails, R!Die, ResourceIInv, ResourceShaped
<1>2. ASSUME NEW q \in Requests, R!Lapse(q) PROVE ResourceIInv'
  <2>1. held' \subseteq Requests /\ UNCHANGED <<versions, blob, upload>>
    BY <1>2 DEF R!Lapse, ResourceIInv, ResourceShaped
  <2>2. ResourceShaped' /\ Numbered'
    BY <2>1 DEF ResourceIInv, ResourceShaped, Numbered, R!Of
  <2>3. ASSUME NEW r \in Requests PROVE Looked(upload[r])'
    BY <2>1 DEF ResourceIInv, Looked, R!Same, R!Of, Stored
  <2> QED BY <2>1, <2>2, <2>3 DEF ResourceIInv, Stored
<1> QED
  BY <1>1, <1>2, UploadKeeps, ResourceReserveKeeps, PutImmutableKeeps, InsertVersionKeeps,
         RecompileKeeps
     DEF R!Next

LEMMA ResourceStutterKeeps ==
  ASSUME ResourceIInv, UNCHANGED R!resourceVars
  PROVE  ResourceIInv'
<1>1. UNCHANGED <<versions, blob, held, upload>>
  BY DEF R!resourceVars
<1>2. ResourceShaped' /\ Numbered'
  BY <1>1 DEF ResourceIInv, ResourceShaped, Numbered, R!Of
<1>3. ASSUME NEW r \in Requests PROVE Looked(upload[r])'
  BY <1>1 DEF ResourceIInv, Looked, R!Same, R!Of, Stored
<1> QED BY <1>1, <1>2, <1>3 DEF ResourceIInv, Stored

LEMMA ResourceIInvLinked == ResourceIInv => R!TypeOK /\ R!VersionsLinked
<1> SUFFICES ASSUME ResourceIInv PROVE R!TypeOK /\ R!VersionsLinked
  OBVIOUS
<1>2. R!TypeOK
  <2>1. DOMAIN blob \subseteq 1..MaxBlobs
    BY StoreAssumption DEF ResourceIInv, ResourceShaped
  <2> QED BY <2>1 DEF ResourceIInv, ResourceShaped, Version, Looked, R!TypeOK
<1>1. \A v \in versions : v.blob \in DOMAIN blob /\ blob[v.blob] = v.file
  BY DEF ResourceIInv, Stored
<1> QED BY <1>1, <1>2, Counted DEF ResourceIInv, Numbered, R!VersionsLinked, R!Missing

(***************************************************************************)
(* SkillInstallations.  Installations: the entry of the unique index       *)
(* belongs to the one request that will commit.                            *)
(***************************************************************************)
SkillDigest == [manifest : BOOLEAN, text : {"one", "two", "none"}]

InstallRequest == [op : {"none", "install", "resolve", "revoke"},
            at : {"idle", "read", "find", "lock", "insert", "commit", "revoke", "resolve"},
            digest : SkillDigest, row : Nat, locks : SUBSET Nat]

SkillShaped ==
    /\ directory \in I!Directory \cup {I!NoDirectory}
    /\ installed \in Seq(I!Row)
    /\ installing \in [Requests -> InstallRequest]
    /\ resolved \in I!Directory \cup {I!NoDirectory}

\* What a request pins was read of a directory that was there; the row it waits for
\* is one of the table.
Read(q) ==
    /\ installing[q].at \in {"find", "lock", "insert", "commit", "resolve"} =>
          installing[q].digest \in I!Directory
    /\ installing[q].at = "lock" => installing[q].row \in DOMAIN installed

\* The entry of the index belongs to one request, and to the one that will commit:
\* it disables the only row that is enabled.
Indexed(q) ==
    /\ installing[q].at = "commit" => I!Index \in installing[q].locks
       /\ I!Enabled \subseteq {installing[q].row}
    /\ I!Index \in installing[q].locks => I!Unlocked(q, I!Index)

SkillIInv == SkillShaped /\ I!OneEnabled /\ \A q \in Requests : Read(q) /\ Indexed(q)

-----------------------------------------------------------------------------
LEMMA Directories ==
    /\ I!Directory \subseteq SkillDigest /\ I!NoDirectory \in SkillDigest
       /\ I!NoDirectory \notin I!Directory
    /\ I!Idle \in InstallRequest
BY DEF I!Directory, SkillDigest, I!NoDirectory, I!Idle, InstallRequest

LEMMA SkillInitIInv == I!Init => SkillIInv
<1> SUFFICES ASSUME I!Init PROVE SkillIInv
  OBVIOUS
<1>1. SkillShaped
  BY Directories DEF I!Init, SkillShaped
<1>2. I!OneEnabled
  BY DEF I!Init, I!OneEnabled, I!Enabled
<1>3. \A q \in Requests : Read(q) /\ Indexed(q)
  BY DEF I!Init, I!Idle, Read, Indexed
<1> QED BY <1>1, <1>2, <1>3 DEF SkillIInv

\* A step of one request keeps the invariant if what it leaves behind does.
LEMMA SkillRequestMoves ==
    ASSUME SkillIInv, NEW q \in Requests, NEW X \in InstallRequest,
           installing' = [installing EXCEPT ![q] = X],
           directory' = directory,
           installed' \in Seq(I!Row), DOMAIN installed \subseteq DOMAIN installed',
           resolved' \in I!Directory \cup {I!NoDirectory}, I!OneEnabled',
           X.at \in {"find", "lock", "insert", "commit", "resolve"} => X.digest \in I!Directory,
           X.at = "lock" => X.row \in DOMAIN installed,
           X.at = "commit" => I!Index \in X.locks /\ I!Enabled' \subseteq {X.row},
           I!Index \in X.locks => I!Unlocked(q, I!Index),
           \A r \in Requests \ {q} : installing[r].at = "commit"
           => I!Enabled' \subseteq {installing[r].row}
    PROVE  SkillIInv'
<1>1. SkillShaped'
  BY Directories DEF SkillIInv, SkillShaped
<1>2. installing'[q] = X /\ \A r \in Requests \ {q} : installing'[r] = installing[r]
  BY DEF SkillIInv, SkillShaped
<1>3. ASSUME NEW r \in Requests PROVE Read(r)'
  BY <1>2 DEF SkillIInv, Read
<1>4. ASSUME NEW r \in Requests PROVE Indexed(r)'
  <2>1. CASE r = q
    BY <2>1, <1>2 DEF I!Unlocked, Indexed
  <2>2. CASE r # q
    <3>1. installing'[r] = installing[r] /\ Indexed(r)
      BY <2>2, <1>2 DEF SkillIInv
    <3>2. I!Index \in installing[r].locks => I!Index \notin X.locks
      BY <2>2 DEF I!Unlocked
    <3>3. I!Index \in installing[r].locks
          => \A s \in Requests \ {r} : I!Index \notin installing'[s].locks
      BY <3>1, <3>2, <1>2 DEF Indexed, I!Unlocked
    <3> QED BY <2>2, <3>1, <3>3 DEF Indexed, I!Unlocked
  <2> QED BY <2>1, <2>2
<1> QED BY <1>1, <1>3, <1>4 DEF SkillIInv

\* The same for a step that writes nothing but where the request stands.
LEMMA OnlyRequestMoves ==
    ASSUME SkillIInv, NEW q \in Requests, NEW X \in InstallRequest,
           installing' = [installing EXCEPT ![q] = X],
           UNCHANGED <<directory, edits, installed, resolved>>,
           X.at \in {"find", "lock", "insert", "commit", "resolve"} => X.digest \in I!Directory,
           X.at = "lock" => X.row \in DOMAIN installed,
           X.at = "commit" => I!Index \in X.locks /\ I!Enabled \subseteq {X.row},
           I!Index \in X.locks => I!Unlocked(q, I!Index)
    PROVE  SkillIInv'
<1>1. I!OneEnabled' /\ I!Enabled' = I!Enabled
  BY DEF SkillIInv, I!OneEnabled, I!Enabled
<1>2. \A r \in Requests \ {q} : installing[r].at = "commit"
      => I!Enabled' \subseteq {installing[r].row}
  BY <1>1 DEF SkillIInv, Indexed
<1>3. /\ installed' \in Seq(I!Row) /\ DOMAIN installed \subseteq DOMAIN installed'
      /\ resolved' \in I!Directory \cup {I!NoDirectory}
  BY DEF SkillIInv, SkillShaped
<1> QED BY <1>1, <1>2, <1>3, SkillRequestMoves

-----------------------------------------------------------------------------
\* Disabling a row changes nothing else of the table.
LEMMA DisabledRows ==
    ASSUME NEW rows \in Seq(I!Row), NEW i \in Nat
    PROVE  /\ I!Disabled(rows, i) \in Seq(I!Row)
           /\ Len(I!Disabled(rows, i)) = Len(rows)
           /\ DOMAIN I!Disabled(rows, i) = DOMAIN rows
           /\ \A k \in DOMAIN rows :
                 /\ I!Disabled(rows, i)[k].digest = rows[k].digest
                 /\ I!Disabled(rows, i)[k].executable = rows[k].executable
                 /\ I!Disabled(rows, i)[k].enabled <=> (k # i /\ rows[k].enabled)
<1>1. DOMAIN rows = 1..Len(rows) /\ \A k \in DOMAIN rows : rows[k] \in I!Row
  OBVIOUS
<1>2. \A k \in DOMAIN rows : I!Disabled(rows, i)[k] \in I!Row
  BY <1>1 DEF I!Disabled, I!Row
<1>3. I!Disabled(rows, i) \in [1..Len(rows) -> I!Row]
  BY <1>1, <1>2 DEF I!Disabled
<1>4. I!Disabled(rows, i) \in Seq(I!Row) /\ Len(I!Disabled(rows, i)) = Len(rows)
  BY <1>3
<1>5. ASSUME NEW k \in DOMAIN rows
      PROVE  /\ I!Disabled(rows, i)[k].digest = rows[k].digest
             /\ I!Disabled(rows, i)[k].executable = rows[k].executable
             /\ I!Disabled(rows, i)[k].enabled <=> (k # i /\ rows[k].enabled)
  BY <1>1 DEF I!Disabled, I!Row
<1> QED BY <1>1, <1>3, <1>4, <1>5

\* An installation commits: it disables the only row enabled and adds its own.
LEMMA InstallCommits ==
    ASSUME SkillIInv, NEW q \in Requests, I!CommitInstall(q)
    PROVE  SkillIInv'
<1> DEFINE rows == I!Disabled(installed, installing[q].row)
           new == [digest |-> installing[q].digest,
                   executable |-> installing[q].digest.manifest, enabled |-> TRUE]
<1>1. installing \in [Requests -> InstallRequest] /\ installed \in Seq(I!Row)
      /\ installing[q] \in InstallRequest
  BY DEF SkillIInv, SkillShaped
<1>2. I!Enabled \subseteq {installing[q].row} /\ installing[q].digest \in I!Directory
      /\ I!Unlocked(q, I!Index)
  BY DEF I!CommitInstall, SkillIInv, Read, Indexed
<1>3. new \in I!Row
  BY <1>2 DEF I!Row, I!Directory
<1>4. /\ rows \in Seq(I!Row) /\ Len(rows) = Len(installed) /\ DOMAIN rows = DOMAIN installed
      /\ \A k \in DOMAIN installed :
            /\ rows[k].digest = installed[k].digest
            /\ rows[k].executable = installed[k].executable
            /\ rows[k].enabled <=> (k # installing[q].row /\ installed[k].enabled)
  BY <1>1, DisabledRows DEF InstallRequest
<1> HIDE DEF rows, new
<1>5. installed' = Append(rows, new) /\ installing' = [installing EXCEPT ![q] = I!Idle]
      /\ resolved' = resolved
  BY DEF I!CommitInstall, I!Ends, rows, new
<1>6. /\ installed' \in Seq(I!Row) /\ Len(installed') = Len(installed) + 1
      /\ DOMAIN installed' = 1..(Len(installed) + 1) /\ DOMAIN installed = 1..Len(installed)
      /\ installed'[Len(installed) + 1] = new
      /\ \A k \in 1..Len(installed) : installed'[k] = rows[k]
  BY <1>1, <1>3, <1>4, <1>5
<1>7. \A k \in 1..Len(installed) : ~ rows[k].enabled
  BY <1>2, <1>4, <1>6 DEF I!Enabled
<1>8. I!Enabled' \subseteq {Len(installed')}
  BY <1>1, <1>6, <1>7 DEF I!Enabled
<1>9. \A i \in DOMAIN installed' : installed'[i].executable <=> installed'[i].digest.manifest
  <2> SUFFICES ASSUME NEW i \in 1..(Len(installed) + 1)
               PROVE  installed'[i].executable <=> installed'[i].digest.manifest
    BY <1>6
  <2>1. CASE i = Len(installed) + 1
    BY <2>1, <1>6 DEF new
  <2>2. CASE i \in 1..Len(installed)
    BY <2>2, <1>4, <1>6 DEF SkillIInv, I!OneEnabled
  <2> QED BY <2>1, <2>2, <1>1
<1>10. resolved' # I!NoDirectory => \E i \in DOMAIN installed' : installed'[i].digest = resolved'
  BY <1>1, <1>4, <1>5, <1>6 DEF SkillIInv, I!OneEnabled
<1>11. I!OneEnabled'
  BY <1>8, <1>9, <1>10 DEF I!OneEnabled
<1>12. \A r \in Requests \ {q} : installing[r].at # "commit"
  BY <1>2 DEF SkillIInv, Indexed, I!Unlocked
<1>13. directory' = directory /\ resolved' \in I!Directory \cup {I!NoDirectory}
  BY DEF I!CommitInstall, SkillIInv, SkillShaped
<1>14. /\ I!Idle \in InstallRequest /\ I!Idle.at = "idle" /\ I!Index \notin I!Idle.locks
       /\ DOMAIN installed \subseteq DOMAIN installed'
  BY <1>1, <1>6, Directories DEF I!Idle
<1> QED BY <1>5, <1>6, <1>11, <1>12, <1>13, <1>14, SkillRequestMoves

\* A revocation disables at most one row.
LEMMA RevocationCommits ==
    ASSUME SkillIInv, NEW q \in Requests, I!RevokeRow(q)
    PROVE  SkillIInv'
<1>1. installed \in Seq(I!Row) /\ installing[q] \in InstallRequest /\ installing[q].row \in Nat
  BY DEF SkillIInv, SkillShaped, InstallRequest
<1>2. /\ installed' \in Seq(I!Row) /\ Len(installed') = Len(installed)
      /\ DOMAIN installed' = DOMAIN installed
      /\ \A k \in DOMAIN installed :
            /\ installed'[k].digest = installed[k].digest
            /\ installed'[k].executable = installed[k].executable
            /\ installed'[k].enabled => installed[k].enabled
  BY <1>1, DisabledRows DEF I!RevokeRow
<1>3. I!Enabled' \subseteq I!Enabled
  BY <1>2 DEF I!Enabled
<1>4. resolved' = resolved /\ directory' = directory
      /\ installing' = [installing EXCEPT ![q] = I!Idle]
  BY DEF I!RevokeRow, I!Ends
<1>5. I!OneEnabled'
  BY <1>2, <1>3, <1>4 DEF SkillIInv, I!OneEnabled
<1>6. \A r \in Requests \ {q} : installing[r].at = "commit"
      => I!Enabled' \subseteq {installing[r].row}
  BY <1>3 DEF SkillIInv, Indexed
<1>7. /\ I!Idle \in InstallRequest /\ I!Idle.at = "idle" /\ I!Index \notin I!Idle.locks
      /\ resolved' \in I!Directory \cup {I!NoDirectory}
  BY <1>4, Directories DEF I!Idle, SkillIInv, SkillShaped
<1> QED BY <1>2, <1>4, <1>5, <1>6, <1>7, SkillRequestMoves

\* What a resolution makes visible is pinned.
LEMMA ResolutionEnds ==
    ASSUME SkillIInv, NEW q \in Requests, I!Resolve(q)
    PROVE  SkillIInv'
<1>1. installed' = installed /\ directory' = directory
      /\ installing' = [installing EXCEPT ![q] = I!Idle]
  BY DEF I!Resolve, I!Ends
<1>2. resolved' = resolved \/ \E i \in DOMAIN installed : resolved' = installed[i].digest
  BY DEF I!Resolve, I!Enabled
<1>3. installed \in Seq(I!Row) /\ \A i \in DOMAIN installed : installed[i].digest \in I!Directory
  <2>1. installed \in Seq(I!Row)
    BY DEF SkillIInv, SkillShaped
  <2>2. \A i \in DOMAIN installed : installed[i] \in I!Row
    BY <2>1
  <2> QED BY <2>1, <2>2 DEF I!Row
<1>4. resolved' \in I!Directory \cup {I!NoDirectory}
  BY <1>2, <1>3 DEF SkillIInv, SkillShaped
<1>5. I!Enabled' = I!Enabled
  BY <1>1 DEF I!Enabled
<1>6. I!OneEnabled'
  BY <1>1, <1>2, <1>5 DEF SkillIInv, I!OneEnabled
<1>7. \A r \in Requests \ {q} : installing[r].at = "commit"
      => I!Enabled' \subseteq {installing[r].row}
  BY <1>5 DEF SkillIInv, Indexed
<1>8. I!Idle \in InstallRequest /\ I!Idle.at = "idle" /\ I!Index \notin I!Idle.locks
  BY Directories DEF I!Idle
<1> QED BY <1>1, <1>3, <1>4, <1>6, <1>7, <1>8, SkillRequestMoves

-----------------------------------------------------------------------------
LEMMA SkillNextKeeps == ASSUME SkillIInv, I!Next PROVE SkillIInv'
<1>1. ASSUME NEW content \in I!Directory \cup {I!NoDirectory}, I!Edit(content) PROVE SkillIInv'
  <2>1. SkillShaped'
    BY <1>1, Directories DEF I!Edit, SkillIInv, SkillShaped
  <2>2. I!OneEnabled'
    BY <1>1 DEF I!Edit, SkillIInv, I!OneEnabled, I!Enabled
  <2>3. \A q \in Requests : (Read(q) /\ Indexed(q))'
    BY <1>1 DEF I!Edit, SkillIInv, Read, Indexed, I!Enabled, I!Unlocked
  <2> QED BY <2>1, <2>2, <2>3 DEF SkillIInv
<1>2. ASSUME NEW q \in Requests, NEW do \in {"install", "resolve"}, I!List(q, do) PROVE SkillIInv'
  <2> DEFINE X == [I!Idle EXCEPT !.op = do, !.at = "read", !.digest.manifest = directory.manifest]
  <2>1. X \in InstallRequest /\ X.at = "read" /\ X.locks = {}
    BY Directories DEF SkillIInv, SkillShaped, I!Directory, I!NoDirectory, I!Idle,
       InstallRequest, SkillDigest
  <2>2. installing' = [installing EXCEPT ![q] = X]
        /\ UNCHANGED <<directory, edits, installed, resolved>>
    BY <1>2 DEF I!List
  <2> HIDE DEF X
  <2> QED BY <2>1, <2>2, OnlyRequestMoves
<1>3. ASSUME NEW q \in Requests, NEW X \in InstallRequest, X.at \in {"idle", "read", "revoke"},
             X.locks = {},
             installing' = [installing EXCEPT ![q] = X],
             UNCHANGED <<directory, edits, installed, resolved>>
      PROVE  SkillIInv'
  BY <1>3, OnlyRequestMoves
<1>4. ASSUME NEW q \in Requests, I!Ends(q), UNCHANGED <<directory, edits, installed, resolved>>
      PROVE  SkillIInv'
  BY <1>3, <1>4, Directories DEF I!Ends, I!Idle
<1>5. ASSUME NEW q \in Requests, I!ReadFiles(q) PROVE SkillIInv'
  <2>1. CASE directory = I!NoDirectory \/ (installing[q].digest.manifest /\ ~ directory.manifest)
    BY <1>4, <1>5, <2>1 DEF I!ReadFiles
  <2>2. CASE ~ (directory = I!NoDirectory \/ (installing[q].digest.manifest /\ ~ directory.manifest))
    <3> DEFINE X == [installing[q] EXCEPT
                        !.at = IF installing[q].op = "install" THEN "find" ELSE "resolve",
                        !.digest.text = directory.text]
    <3>1. installing[q] \in InstallRequest /\ directory \in I!Directory /\ Indexed(q)
      BY <2>2 DEF SkillIInv, SkillShaped
    <3>2. X \in InstallRequest /\ X.at \in {"find", "resolve"} /\ X.digest \in I!Directory
          /\ X.locks = installing[q].locks
      BY <3>1 DEF InstallRequest, I!Directory, SkillDigest
    <3>3. installing' = [installing EXCEPT ![q] = X]
          /\ UNCHANGED <<directory, edits, installed, resolved>>
      BY <1>5, <2>2 DEF I!ReadFiles, SkillIInv, SkillShaped
    <3> HIDE DEF X
    <3> QED BY <3>1, <3>2, <3>3, OnlyRequestMoves DEF Indexed
  <2> QED BY <2>1, <2>2
<1>6. ASSUME NEW q \in Requests, I!Find(q) PROVE SkillIInv'
  <2> DEFINE X == [installing[q] EXCEPT
                      !.row = IF I!Enabled = {} THEN 0 ELSE CHOOSE i \in I!Enabled : TRUE,
                      !.at = IF I!Enabled = {} THEN "insert" ELSE "lock"]
  <2>1. installing[q] \in InstallRequest /\ Indexed(q) /\ installing[q].digest \in I!Directory
    BY <1>6 DEF SkillIInv, SkillShaped, I!Find, Read
  <2>2. I!Enabled # {} => (CHOOSE i \in I!Enabled : TRUE) \in DOMAIN installed
    BY DEF I!Enabled
  <2>3. DOMAIN installed \subseteq Nat
    BY DEF SkillIInv, SkillShaped
  <2>4. /\ X \in InstallRequest /\ X.at \in {"insert", "lock"} /\ X.locks = installing[q].locks
        /\ X.digest = installing[q].digest /\ (X.at = "lock" => X.row \in DOMAIN installed)
    BY <2>1, <2>2, <2>3 DEF InstallRequest
  <2>5. installing' = [installing EXCEPT ![q] = X]
        /\ UNCHANGED <<directory, edits, installed, resolved>>
    BY <1>6 DEF I!Find, SkillIInv, SkillShaped
  <2> HIDE DEF X
  <2> QED BY <2>1, <2>4, <2>5, OnlyRequestMoves DEF Indexed
<1>7. ASSUME NEW q \in Requests, I!LockCurrent(q) PROVE SkillIInv'
  <2>1. installing[q] \in InstallRequest /\ Indexed(q) /\ installing[q].digest \in I!Directory
        /\ installing[q].row \in DOMAIN installed /\ installing[q].row \in Nat \ {0}
    BY <1>7 DEF SkillIInv, SkillShaped, I!LockCurrent, Read
  <2>2. CASE ~ installed[installing[q].row].enabled
    <3> DEFINE X == [installing[q] EXCEPT !.at = "insert", !.row = 0]
    <3>1. X \in InstallRequest /\ X.at = "insert" /\ X.locks = installing[q].locks
          /\ X.digest = installing[q].digest
      BY <2>1 DEF InstallRequest
    <3>2. installing' = [installing EXCEPT ![q] = X]
          /\ UNCHANGED <<directory, edits, installed, resolved>>
      BY <1>7, <2>2 DEF I!LockCurrent, SkillIInv, SkillShaped
    <3> HIDE DEF X
    <3> QED BY <2>1, <3>1, <3>2, OnlyRequestMoves DEF Indexed
  <2>3. CASE I!Ends(q)
    BY <1>4, <1>7, <2>3 DEF I!LockCurrent
  <2>4. CASE installing' = [installing EXCEPT ![q].at = "insert", ![q].locks = @ \cup {installing[q].row}]
    <3> DEFINE X == [installing[q] EXCEPT !.at = "insert", !.locks = @ \cup {installing[q].row}]
    <3>1. /\ X \in InstallRequest /\ X.at = "insert" /\ X.digest = installing[q].digest
          /\ X.locks = installing[q].locks \cup {installing[q].row}
      BY <2>1 DEF InstallRequest
    <3>2. installing' = [installing EXCEPT ![q] = X]
          /\ UNCHANGED <<directory, edits, installed, resolved>>
      BY <1>7, <2>4 DEF I!LockCurrent, SkillIInv, SkillShaped
    <3>3. I!Index \in X.locks => I!Unlocked(q, I!Index)
      BY <2>1, <3>1 DEF I!Index, Indexed
    <3> HIDE DEF X
    <3> QED BY <2>1, <3>1, <3>2, <3>3, OnlyRequestMoves
  <2> QED BY <1>7, <2>2, <2>3, <2>4 DEF I!LockCurrent
<1>8. ASSUME NEW q \in Requests, I!InsertRow(q) PROVE SkillIInv'
  <2>1. CASE I!Enabled \subseteq {installing[q].row}
    <3> DEFINE X == [installing[q] EXCEPT !.at = "commit", !.locks = @ \cup {I!Index}]
    <3>1. installing[q] \in InstallRequest /\ installing[q].digest \in I!Directory
      BY <1>8 DEF SkillIInv, SkillShaped, I!InsertRow, Read
    <3>2. /\ X \in InstallRequest /\ X.at = "commit" /\ X.digest = installing[q].digest
          /\ X.row = installing[q].row /\ X.locks = installing[q].locks \cup {0}
      <4>1. X = [installing[q] EXCEPT !.at = "commit", !.locks = installing[q].locks \cup {0}]
        BY <3>1 DEF InstallRequest, I!Index
      <4>2. installing[q].locks \cup {0} \in SUBSET Nat
        BY <3>1 DEF InstallRequest
      <4> QED BY <3>1, <4>1, <4>2 DEF InstallRequest
    <3>3. /\ installing' = [installing EXCEPT ![q] = X]
             /\ UNCHANGED <<directory, edits, installed, resolved>>
          /\ I!Unlocked(q, I!Index)
      BY <1>8, <2>1 DEF I!InsertRow, SkillIInv, SkillShaped
    <3> HIDE DEF X
    <3> QED BY <2>1, <3>1, <3>2, <3>3, OnlyRequestMoves DEF I!Index
  <2>2. CASE ~ (I!Enabled \subseteq {installing[q].row})
    BY <1>4, <1>8, <2>2 DEF I!InsertRow
  <2> QED BY <2>1, <2>2
<1>9. ASSUME NEW q \in Requests, I!Revoke(q) PROVE SkillIInv'
  <2> DEFINE X == [I!Idle EXCEPT !.op = "revoke", !.at = "revoke", !.row = CHOOSE i \in I!Enabled : TRUE]
  <2>1. (CHOOSE i \in I!Enabled : TRUE) \in Nat
    BY <1>9 DEF I!Revoke, I!Enabled, SkillIInv, SkillShaped
  <2>2. X \in InstallRequest /\ X.at = "revoke" /\ X.locks = {}
    BY <2>1, Directories DEF I!Idle, InstallRequest
  <2>3. installing' = [installing EXCEPT ![q] = X]
        /\ UNCHANGED <<directory, edits, installed, resolved>>
    BY <1>9 DEF I!Revoke
  <2> HIDE DEF X
  <2> QED BY <1>3, <2>2, <2>3
<1>10. ASSUME NEW q \in Requests, I!Die(q) PROVE SkillIInv'
  BY <1>4, <1>10 DEF I!Die
<1> QED
  BY <1>1, <1>2, <1>5, <1>6, <1>7, <1>8, <1>9, <1>10, InstallCommits, RevocationCommits,
     ResolutionEnds DEF I!Next

LEMMA SkillStutterKeeps == SkillIInv /\ UNCHANGED I!installationVars => SkillIInv'
BY DEF I!installationVars, SkillIInv, SkillShaped, I!OneEnabled, Read, Indexed, I!Enabled,
   I!Unlocked

(***************************************************************************)
(* ModelGateway.  The model calls and their budgets: the locks of a        *)
(* transaction keep what it has read true until it commits, a window       *)
(* counts the calls that paid in it, and whoever is waited for has come    *)
(* further in the one order of the statements.                             *)
(***************************************************************************)
Refusals == {"MODEL_BUDGET_EXCEEDED", "MODEL_PROVIDER_BUDGET_EXCEEDED",
             "MODEL_CAPABILITY_UNAVAILABLE"}

GatewayCall == [at : G!Places, policy : {"local_only", "cloud_allowed"},
                user : Users \cup {None}, provider : 1..(Len(Providers) + 1),
                over : BOOLEAN, begun : 0..MaxTime, pending : Seq(G!Counter),
                result : G!Errors \cup {"answer", None}]

\* What a call has left to try, the provider it is at and the counters that charges, as
\* functions of the call.
Tries(X) ==
    {i \in DOMAIN Providers :
        /\ i >= X.provider
        /\ Providers[i] \in Cloud => X.policy = "cloud_allowed"}
Tried(X) == Providers[G!Min(Tries(X))]
TwoCounters(X) == <<"organization", Tried(X)>>
ThreeCounters(X) == <<"organization", Tried(X), X.user>>
Charges(X) == IF X.user = None THEN TwoCounters(X) ELSE ThreeCounters(X)

\* The statement that charges a counter is the same for every call.
Place(k) == IF k = "organization" THEN 1 ELSE IF k \in Users THEN 3 ELSE 2

\* A call that is charging holds the locks of the counters it has read, and they are
\* still what it read; one that was charged has paid each of its counters once, in a
\* window that is not later than the present one.
Pending(c, X, r, l) ==
    /\ Len(X.pending) <= Len(Charges(X))
    /\ \A i \in 1..Len(X.pending) :
          /\ X.pending[i] = G!Counted(r[Charges(X)[i]], X.begun)
          /\ X.pending[i].count <= G!Limit(Charges(X)[i])
          /\ l[Charges(X)[i]] = c
Pays(X, P) == \E w \in [G!Range(Charges(X)) -> 0..MaxTime] : P = {<<k, w[k]>> : k \in G!Range(Charges(X))}
Standing(c, X, r, l, P, s) ==
    /\ X.at \in {"charge", "request", "wait"} => Tries(X) # {}
    /\ X.at \in {"idle", "health", "charge"} => P = {} /\ X.result = None
    /\ X.at = "charge" => Pending(c, X, r, l)
    /\ X.at \in {"request", "wait"} => P # {}
    /\ P # {} => Tries(X) # {} /\ Pays(X, P) /\ X.result \notin Refusals
    /\ \A k \in G!Counters, t \in 0..MaxTime : <<k, t>> \in P => t <= r[k].since
    /\ s # None => P # {} /\ s = Tried(X)

GatewayTyped ==
    /\ clock \in 0..MaxTime
    /\ row \in [G!Counters -> G!Counter]
    /\ rowLock \in [G!Counters -> Calls \cup {None}]
    /\ call \in [Calls -> GatewayCall]
    /\ aborted \subseteq Calls
    /\ paid \in [Calls -> SUBSET (G!Counters \X (0..MaxTime))]
    /\ sentTo \in [Calls -> G!Range(Providers) \cup {None}]
    /\ accepted \in Nat

\* A lock is held by a call that is charging and has read that counter.
Holding(d, k, X) ==
    X.at = "charge" /\ \E i \in 1..Len(X.pending) : i <= Len(Charges(X)) /\ Charges(X)[i] = k
LocksRead == \A k \in G!Counters : rowLock[k] # None => Holding(rowLock[k], k, call[rowLock[k]])

CountersAgree ==
    \A k \in G!Counters \ {"mutation"} :
        row[k].count = Cardinality(G!Payers(k)) /\ row[k].count <= G!Limit(k)

MutationsCounted == accepted <= row["mutation"].count /\ accepted <= MutationLimit

GatewayIInv ==
    /\ GatewayTyped /\ LocksRead /\ CountersAgree /\ MutationsCounted
    /\ \A c \in Calls : Standing(c, call[c], row, rowLock, paid[c], sentTo[c])

-----------------------------------------------------------------------------
\* Calls, providers, users and the two other counters are told apart by their keys.
LEMMA KeysApart ==
  /\ IsFiniteSet(Calls) /\ None \notin Calls \cup G!Errors
  /\ G!Range(Providers) \cap Users = {}
  /\ \A k \in {None, "organization", "mutation"} : k \notin G!Range(Providers) \cup Users \cup Cloud
BY GatewayAssumption, KeysAssumption DEF G!Range

LEMMA LimitsAre ==
  /\ OrganizationLimit \in Nat /\ ProviderLimit \in Nat /\ UserLimit \in Nat
     /\ MutationLimit \in Nat
  /\ MaxTime \in Nat /\ Window \in Nat /\ Window > 0
BY GatewayAssumption

LEMMA SmallestTried ==
  ASSUME NEW S \in SUBSET Nat, S # {}
  PROVE  G!Min(S) \in S
<1>1. \E x \in S : \A y \in S : x <= y
  <2>1. \A s \in SUBSET Nat : s # {} => \E x \in s : \A y \in s : ~ (<<y, x>> \in OpToRel(<, Nat))
    BY NatLessThanWellFounded, WFMin
  <2>2. PICK x \in S : \A y \in S : ~ (<<y, x>> \in OpToRel(<, Nat))
    BY <2>1
  <2>3. \A y \in S : ~ (y < x)
    BY <2>2 DEF OpToRel
  <2>4. \A y \in S : x <= y
    BY <2>3
  <2> QED BY <2>4
<1> QED BY <1>1 DEF G!Min

LEMMA Joined ==
  ASSUME NEW a, NEW b, NEW u
  PROVE  <<a, b>> \o <<>> = <<a, b>> /\ <<a, b>> \o <<u>> = <<a, b, u>>
<1> DEFINE S == {a, b, u}
           two == <<a, b>>
           one == <<u>>
           all == <<a, b, u>>
<1>1. /\ two \in Seq(S) /\ Len(two) = 2 /\ two[1] = a /\ two[2] = b
      /\ one \in Seq(S) /\ Len(one) = 1 /\ one[1] = u
      /\ all \in Seq(S) /\ Len(all) = 3 /\ all[1] = a /\ all[2] = b /\ all[3] = u
  OBVIOUS
<1> HIDE DEF two, one, all, S
<1>2. two \o <<>> = two
  BY <1>1, ConcatEmptySeq
<1>3. /\ two \o one \in Seq(S) /\ Len(two \o one) = 3
      /\ \A i \in 1..3 : (two \o one)[i] = IF i <= 2 THEN two[i] ELSE one[i - 2]
  BY SMTT(20), <1>1, ConcatProperties
<1>4. \A i \in 1..3 : (two \o one)[i] = all[i]
  BY <1>1, <1>3
<1>5. two \o one = all
  BY <1>1, <1>3, <1>4, SeqEqual
<1> QED BY <1>2, <1>5 DEF two, one, all

LEMMA CallsAre ==
  ASSUME NEW c \in Calls
  PROVE  /\ G!Candidates(c) = Tries(call[c]) /\ G!Provider(c) = Tried(call[c])
         /\ G!Left(c) <=> Tries(call[c]) # {}
         /\ G!Entries(c) = Charges(call[c])
<1>1. G!Candidates(c) = Tries(call[c])
  BY DEF G!Candidates, Tries
<1>2. G!Provider(c) = Tried(call[c])
  BY <1>1 DEF G!Provider, G!Turn, Tried
<1>3. G!Entries(c) = Charges(call[c])
  BY <1>2, Joined DEF G!Entries, Charges, TwoCounters, ThreeCounters
<1> QED BY <1>1, <1>2, <1>3 DEF G!Left

LEMMA ProvidersAre ==
  /\ Len(Providers) \in Nat /\ DOMAIN Providers = 1..Len(Providers)
  /\ \A i \in DOMAIN Providers : Providers[i] \in G!Range(Providers)
BY GatewayAssumption DEF G!Range

LEMMA TriedIs ==
  ASSUME NEW X \in GatewayCall, Tries(X) # {}
  PROVE  /\ G!Min(Tries(X)) \in DOMAIN Providers
         /\ G!Min(Tries(X)) + 1 \in 1..(Len(Providers) + 1)
         /\ Tried(X) \in G!Range(Providers)
         /\ Tried(X) \in Cloud => X.policy = "cloud_allowed"
<1>1. Tries(X) \in SUBSET Nat
  BY ProvidersAre DEF Tries
<1>2. G!Min(Tries(X)) \in Tries(X)
  BY <1>1, SmallestTried
<1> QED BY <1>2, ProvidersAre DEF Tries, Tried

LEMMA ChargesAre ==
  ASSUME NEW X \in GatewayCall, Tries(X) # {}
  PROVE  /\ Len(Charges(X)) \in {2, 3} /\ DOMAIN Charges(X) = 1..Len(Charges(X))
         /\ \A i \in 1..Len(Charges(X)) :
               /\ Charges(X)[i] \in G!Counters \ {"mutation"}
               /\ Place(Charges(X)[i]) = i
         /\ Charges(X)[2] = Tried(X)
         /\ G!Range(Charges(X)) = {Charges(X)[i] : i \in 1..Len(Charges(X))}
         /\ G!Range(Charges(X)) \subseteq G!Counters \ {"mutation"}
<1>1. Tried(X) \in G!Range(Providers) /\ X.user \in Users \cup {None}
  BY TriedIs DEF GatewayCall
<1>2. CASE X.user = None
  <2>1. Charges(X) = <<"organization", Tried(X)>>
    BY <1>2 DEF Charges, TwoCounters
  <2>2. Place("organization") = 1 /\ Place(Tried(X)) = 2
    BY <1>1, KeysApart, LimitsAre DEF Place
  <2>3. {"organization", Tried(X)} \subseteq G!Counters \ {"mutation"}
    BY <1>1, KeysApart, LimitsAre DEF G!Counters
  <2>4. /\ Len(Charges(X)) = 2 /\ DOMAIN Charges(X) = 1..2
        /\ Charges(X)[1] = "organization" /\ Charges(X)[2] = Tried(X)
    BY <2>1
  <2> QED BY <2>2, <2>3, <2>4 DEF G!Range
<1>3. CASE X.user # None
  <2>1. Charges(X) = <<"organization", Tried(X), X.user>> /\ X.user \in Users
    BY <1>1, <1>3 DEF Charges, ThreeCounters
  <2>2. Place("organization") = 1 /\ Place(Tried(X)) = 2 /\ Place(X.user) = 3
    BY <1>1, <2>1, KeysApart, LimitsAre DEF Place
  <2>3. {"organization", Tried(X), X.user} \subseteq G!Counters \ {"mutation"}
    BY <1>1, <2>1, KeysApart, LimitsAre DEF G!Counters
  <2>4. /\ Len(Charges(X)) = 3 /\ DOMAIN Charges(X) = 1..3
        /\ Charges(X)[1] = "organization" /\ Charges(X)[2] = Tried(X) /\ Charges(X)[3] = X.user
    BY <2>1
  <2> QED BY <2>2, <2>3, <2>4 DEF G!Range
<1> QED BY <1>2, <1>3

LEMMA CountedIs ==
  ASSUME NEW r \in G!Counter, NEW now \in 0..MaxTime
  PROVE  /\ G!Counted(r, now) \in G!Counter
         /\ \/ /\ r.since + Window > now
               /\ G!Counted(r, now).count = r.count + 1 /\ G!Counted(r, now).since = r.since
            \/ /\ r.since < now
               /\ G!Counted(r, now).count = 1 /\ G!Counted(r, now).since = now
BY KeysApart, LimitsAre DEF G!Counted, G!Counter

LEMMA LimitIs == ASSUME NEW k PROVE G!Limit(k) \in Nat
BY KeysApart, LimitsAre DEF G!Limit

-----------------------------------------------------------------------------
LEMMA GatewayInitIInv == G!Init => GatewayIInv
<1> SUFFICES ASSUME G!Init PROVE GatewayIInv
  OBVIOUS
<1>1. G!NoCall \in GatewayCall /\ G!NoCall.at = "idle" /\ G!NoCall.result = None
  <2>1. <<>> \in Seq(G!Counter) /\ 1 \in 1..(Len(Providers) + 1) /\ 0 \in 0..MaxTime
    BY ProvidersAre, KeysApart, LimitsAre
  <2> QED BY <2>1 DEF G!NoCall, GatewayCall, G!Places, G!Errors
<1>2. GatewayTyped
  BY <1>1, KeysApart, LimitsAre DEF G!Init, GatewayTyped, G!Counter
<1>3. LocksRead /\ MutationsCounted
  BY KeysApart, LimitsAre DEF G!Init, LocksRead, MutationsCounted, G!Counters
<1>4. CountersAgree
  <2> SUFFICES ASSUME NEW k \in G!Counters \ {"mutation"}
               PROVE  row[k].count = Cardinality(G!Payers(k)) /\ row[k].count <= G!Limit(k)
    BY DEF CountersAgree
  <2>1. G!Payers(k) = {}
    BY DEF G!Init, G!Payers
  <2>2. row[k].count = 0
    BY DEF G!Init
  <2> QED BY <2>1, <2>2, FS_EmptySet, LimitIs
<1>5. ASSUME NEW c \in Calls PROVE Standing(c, call[c], row, rowLock, paid[c], sentTo[c])
  <2>1. call[c].at = "idle" /\ paid[c] = {} /\ sentTo[c] = None /\ call[c].result = None
    BY <1>1 DEF G!Init
  <2> QED BY <2>1 DEF Standing
<1> QED BY <1>2, <1>3, <1>4, <1>5 DEF GatewayIInv

-----------------------------------------------------------------------------
\* What a call knows stays true while its locks are kept and windows only move on.
LEMMA StandsOn ==
  ASSUME NEW d \in Calls, NEW X \in GatewayCall, NEW r \in [G!Counters -> G!Counter], NEW l,
         NEW r2 \in [G!Counters -> G!Counter], NEW l2, NEW P, NEW s, Standing(d, X, r, l, P, s),
         \A k \in G!Counters : l[k] = d => l2[k] = d /\ r2[k] = r[k],
         \A k \in G!Counters : r[k].since <= r2[k].since
  PROVE  Standing(d, X, r2, l2, P, s)
<1>1. X.at = "charge" => Pending(d, X, r2, l2)
  <2> SUFFICES ASSUME X.at = "charge" PROVE Pending(d, X, r2, l2)
    OBVIOUS
  <2>1. Pending(d, X, r, l) /\ Tries(X) # {}
    BY DEF Standing
  <2>2. Len(X.pending) \in Nat
    BY DEF GatewayCall
  <2>3. \A i \in 1..Len(X.pending) : Charges(X)[i] \in G!Counters
    BY <2>1, <2>2, ChargesAre DEF Pending
  <2> QED BY <2>1, <2>3 DEF Pending
<1>2. \A k \in G!Counters, t \in 0..MaxTime : <<k, t>> \in P => t <= r2[k].since
  <2>1. \A k \in G!Counters : r[k].since \in Nat /\ r2[k].since \in Nat
    BY DEF G!Counter
  <2>2. \A k \in G!Counters, t \in 0..MaxTime : <<k, t>> \in P => t <= r[k].since
    BY DEF Standing
  <2> QED BY <2>1, <2>2
<1> QED BY <1>1, <1>2 DEF Standing

\* A step of one call that leaves the counters and what was paid alone.
LEMMA CallMoves ==
  ASSUME GatewayIInv, NEW c \in Calls, NEW X \in GatewayCall,
         NEW S \in G!Range(Providers) \cup {None},
         call' = [call EXCEPT ![c] = X], sentTo' = [sentTo EXCEPT ![c] = S],
         UNCHANGED <<clock, row, paid, accepted>>, aborted' \subseteq Calls,
         rowLock' \in [G!Counters -> Calls \cup {None}],
         \A k \in G!Counters : rowLock'[k] = rowLock[k] \/ ({rowLock[k], rowLock'[k]} \subseteq {c, None}),
         \A k \in G!Counters : rowLock'[k] = c => Holding(c, k, X),
         Standing(c, X, row, rowLock', paid[c], S)
  PROVE  GatewayIInv'
<1>1. GatewayTyped /\ LocksRead /\ CountersAgree /\ MutationsCounted
  BY DEF GatewayIInv
<1>2. /\ call'[c] = X /\ \A d \in Calls : d # c => call'[d] = call[d]
      /\ sentTo'[c] = S /\ \A d \in Calls : d # c => sentTo'[d] = sentTo[d]
  BY <1>1 DEF GatewayTyped
<1>3. GatewayTyped'
  BY <1>1 DEF GatewayTyped
<1>4. LocksRead'
  <2> SUFFICES ASSUME NEW k \in G!Counters, rowLock'[k] # None
               PROVE  Holding(rowLock'[k], k, call'[rowLock'[k]])
    BY DEF LocksRead
  <2>1. CASE rowLock'[k] = c
    BY <1>2, <2>1
  <2>2. CASE rowLock'[k] # c
    <3>1. rowLock[k] = rowLock'[k] /\ rowLock[k] \in Calls
      BY <2>2, <1>1 DEF GatewayTyped
    <3> QED BY <1>1, <1>2, <2>2, <3>1 DEF LocksRead
  <2> QED BY <2>1, <2>2
<1>5. CountersAgree' /\ MutationsCounted'
  BY <1>1 DEF CountersAgree, MutationsCounted, G!Payers
<1>6. ASSUME NEW d \in Calls PROVE Standing(d, call'[d], row', rowLock', paid'[d], sentTo'[d])
  <2>1. CASE d = c
    BY <1>2, <2>1
  <2>2. CASE d # c
    <3>1. Standing(d, call[d], row, rowLock, paid[d], sentTo[d]) /\ call[d] \in GatewayCall
          /\ row \in [G!Counters -> G!Counter]
      BY <1>1 DEF GatewayIInv, GatewayTyped
    <3>2. \A k \in G!Counters : rowLock[k] = d => rowLock'[k] = d
      BY <2>2, KeysApart, LimitsAre
    <3>3. \A k \in G!Counters : row[k].since <= row[k].since
      BY <3>1 DEF G!Counter
    <3>4. Standing(d, call[d], row, rowLock', paid[d], sentTo[d])
      BY <3>1, <3>2, <3>3, StandsOn
    <3> QED BY <1>2, <2>2, <3>4
  <2> QED BY <2>1, <2>2
<1> QED BY <1>3, <1>4, <1>5, <1>6 DEF GatewayIInv

\* Which locks a call can have.
LEMMA CallIs ==
  ASSUME GatewayIInv, NEW c \in Calls
  PROVE  /\ call[c] \in GatewayCall /\ Standing(c, call[c], row, rowLock, paid[c], sentTo[c])
         /\ sentTo[c] \in G!Range(Providers) \cup {None}
         /\ rowLock \in [G!Counters -> Calls \cup {None}] /\ row \in [G!Counters -> G!Counter]
         /\ clock \in 0..MaxTime /\ c # None /\ sentTo = [sentTo EXCEPT ![c] = sentTo[c]]
         /\ aborted \subseteq Calls
         /\ call[c].at # "charge" => \A k \in G!Counters : rowLock[k] # c
         /\ paid[c] = {} => sentTo[c] = None
<1>1. GatewayTyped /\ LocksRead /\ Standing(c, call[c], row, rowLock, paid[c], sentTo[c])
  BY DEF GatewayIInv
<1>2. c # None
  BY KeysApart, LimitsAre
<1>3. call[c].at # "charge" => \A k \in G!Counters : rowLock[k] # c
  BY <1>1, <1>2 DEF LocksRead, Holding
<1>4. paid[c] = {} => sentTo[c] = None
  BY <1>1 DEF Standing
<1> QED BY <1>1, <1>2, <1>3, <1>4 DEF GatewayTyped

LEMMA ReleasedIs ==
  ASSUME GatewayIInv, NEW c \in Calls, rowLock' = G!Released(c)
  PROVE  /\ rowLock' \in [G!Counters -> Calls \cup {None}]
         /\ \A k \in G!Counters : rowLock'[k] = rowLock[k] \/ ({rowLock[k], rowLock'[k]} \subseteq {c, None})
         /\ \A k \in G!Counters : rowLock'[k] # c
BY CallIs DEF G!Released

\* A call moves to a place where it charges nothing, was charged nothing and has
\* nothing to send.
LEMMA IdlesKeeps ==
  ASSUME GatewayIInv, NEW c \in Calls, NEW X \in GatewayCall, call' = [call EXCEPT ![c] = X],
         X.at = "done" \/ (X.at = "health" /\ X.result = None), paid[c] = {},
         (rowLock' = rowLock /\ call[c].at # "charge") \/ rowLock' = G!Released(c),
         UNCHANGED <<clock, row, aborted, paid, sentTo, accepted>>
  PROVE  GatewayIInv'
<1>1. /\ rowLock' \in [G!Counters -> Calls \cup {None}]
      /\ \A k \in G!Counters : rowLock'[k] = rowLock[k] \/ ({rowLock[k], rowLock'[k]} \subseteq {c, None})
      /\ \A k \in G!Counters : rowLock'[k] # c
  <2>1. CASE rowLock' = rowLock /\ call[c].at # "charge"
    BY <2>1, CallIs
  <2>2. CASE rowLock' = G!Released(c)
    BY <2>2, ReleasedIs
  <2> QED BY <2>1, <2>2
<1>2. sentTo[c] = None /\ aborted' \subseteq Calls /\ sentTo' = [sentTo EXCEPT ![c] = sentTo[c]]
      /\ sentTo[c] \in G!Range(Providers) \cup {None}
  BY CallIs
<1>3. Standing(c, X, row, rowLock', paid[c], sentTo[c])
  BY <1>2 DEF Standing
<1> QED BY <1>1, <1>2, <1>3, CallMoves

LEMMA BeginKeeps ==
  ASSUME GatewayIInv, NEW c \in Calls, NEW policy \in {"local_only", "cloud_allowed"},
         NEW user \in Users \cup {None}, G!Begin(c, policy, user)
  PROVE  GatewayIInv'
<1> DEFINE X == [G!NoCall EXCEPT !.at = "health", !.policy = policy, !.user = user]
<1>1. <<>> \in Seq(G!Counter) /\ 1 \in 1..(Len(Providers) + 1) /\ 0 \in 0..MaxTime
  BY ProvidersAre, KeysApart, LimitsAre
<1>2. X \in GatewayCall /\ X.at = "health" /\ X.result = None
  BY <1>1 DEF G!NoCall, GatewayCall, G!Places, G!Errors
<1>3. call' = [call EXCEPT ![c] = X] /\ call[c].at = "idle"
      /\ UNCHANGED <<clock, row, rowLock, aborted, paid, sentTo, accepted>>
  BY DEF G!Begin
<1> HIDE DEF X
<1>4. paid[c] = {}
  BY <1>3, CallIs DEF Standing
<1> QED BY <1>2, <1>3, <1>4, IdlesKeeps

LEMMA HealthyKeeps ==
  ASSUME GatewayIInv, NEW c \in Calls, G!Healthy(c)
  PROVE  GatewayIInv'
<1> DEFINE X == [call[c] EXCEPT !.at = "charge", !.begun = clock, !.pending = <<>>]
<1>1. /\ call[c].at = "health" /\ Tries(call[c]) # {} /\ call[c] \in GatewayCall
      /\ clock \in 0..MaxTime /\ UNCHANGED <<clock, row, rowLock, aborted, paid, sentTo, accepted>>
  BY CallIs, CallsAre DEF G!Healthy
<1>2. /\ X \in GatewayCall /\ X.at = "charge" /\ X.pending = <<>> /\ X.result = call[c].result
      /\ X.provider = call[c].provider /\ X.policy = call[c].policy
  <2>1. <<>> \in Seq(G!Counter)
    OBVIOUS
  <2> QED BY <1>1, <2>1 DEF GatewayCall, G!Places
<1>3. call' = [call EXCEPT ![c] = X]
  BY <1>1 DEF G!Healthy, GatewayIInv, GatewayTyped
<1> HIDE DEF X
<1>4. Tries(X) # {}
  BY <1>1, <1>2 DEF Tries
<1>5. paid[c] = {} /\ sentTo[c] = None /\ X.result = None
  BY <1>1, <1>2, CallIs DEF Standing
<1>6. Pending(c, X, row, rowLock)
  <2>1. Len(X.pending) = 0 /\ Len(Charges(X)) \in {2, 3}
    BY <1>2, <1>4, ChargesAre
  <2> QED BY <2>1 DEF Pending
<1>7. Standing(c, X, row, rowLock', paid[c], sentTo[c])
  BY <1>1, <1>2, <1>4, <1>5, <1>6 DEF Standing
<1>8. /\ rowLock' \in [G!Counters -> Calls \cup {None}] /\ aborted' \subseteq Calls
      /\ \A k \in G!Counters : rowLock'[k] = rowLock[k] /\ rowLock'[k] # c
      /\ sentTo' = [sentTo EXCEPT ![c] = sentTo[c]]
         /\ sentTo[c] \in G!Range(Providers) \cup {None}
      /\ UNCHANGED <<clock, row, paid, accepted>>
  BY <1>1, CallIs
<1> QED BY <1>2, <1>3, <1>7, <1>8, CallMoves

LEMMA UnhealthyKeeps ==
  ASSUME GatewayIInv, NEW c \in Calls, G!Unhealthy(c) \/ G!NoneLeft(c)
  PROVE  GatewayIInv'
<1>1. call[c].at = "health" /\ call[c] \in GatewayCall /\ paid[c] = {} /\ call[c].result = None
      /\ UNCHANGED <<clock, row, rowLock, aborted, paid, sentTo, accepted>>
  BY CallIs DEF G!Unhealthy, G!NoneLeft, Standing
<1>2. CASE G!Unhealthy(c)
  <2> DEFINE X == [call[c] EXCEPT !.provider = G!Turn(c) + 1]
  <2>1. G!Turn(c) + 1 \in 1..(Len(Providers) + 1)
    BY <1>1, <1>2, TriedIs, CallsAre DEF G!Unhealthy, G!Turn
  <2>2. X \in GatewayCall /\ X.at = "health" /\ X.result = None
    BY <1>1, <2>1 DEF GatewayCall
  <2>3. call' = [call EXCEPT ![c] = X]
    BY <1>2 DEF G!Unhealthy, GatewayIInv, GatewayTyped
  <2> HIDE DEF X
  <2> QED BY <1>1, <2>2, <2>3, IdlesKeeps
<1>3. CASE G!NoneLeft(c)
  <2> DEFINE e == IF call[c].over THEN "MODEL_PROVIDER_BUDGET_EXCEEDED"
                                  ELSE "MODEL_CAPABILITY_UNAVAILABLE"
             X == [call[c] EXCEPT !.at = "done", !.result = e]
  <2>1. X \in GatewayCall /\ X.at = "done"
    BY <1>1 DEF GatewayCall, G!Places, G!Errors
  <2>2. call' = [call EXCEPT ![c] = X]
    BY <1>3 DEF G!NoneLeft, G!Ends, GatewayIInv, GatewayTyped
  <2> HIDE DEF X
  <2> QED BY <1>1, <2>1, <2>2, IdlesKeeps
<1> QED BY <1>2, <1>3

\* One more counter: its lock is free, and the call will add itself to what it read.
LEMMA ChargeKeeps ==
  ASSUME GatewayIInv, NEW c \in Calls, G!Charge(c)
  PROVE  GatewayIInv'
<1> DEFINE Y == call[c]
           n == Len(Y.pending)
           k0 == Charges(Y)[n + 1]
           new == G!Counted(row[k0], Y.begun)
           X == [Y EXCEPT !.pending = Append(Y.pending, new)]
<1>1. /\ Y \in GatewayCall /\ Standing(c, Y, row, rowLock, paid[c], sentTo[c]) /\ Y.at = "charge"
      /\ G!Entries(c) = Charges(Y) /\ n < Len(Charges(Y)) /\ n \in Nat
      /\ Y.pending \in Seq(G!Counter) /\ Y.begun \in 0..MaxTime
  BY CallIs, CallsAre DEF G!Charge, G!Charging, GatewayCall
<1>2. Tries(Y) # {} /\ paid[c] = {} /\ Pending(c, Y, row, rowLock) /\ sentTo[c] = None
      /\ Y.result = None
  BY <1>1 DEF Standing
<1>3. Len(Charges(Y)) \in {2, 3} /\ n + 1 \in 1..Len(Charges(Y))
      /\ \A i \in 1..Len(Charges(Y)) : Charges(Y)[i] \in G!Counters /\ Place(Charges(Y)[i]) = i
  BY <1>1, <1>2, ChargesAre
<1>4. /\ G!NextKey(c) = k0 /\ G!NewCounter(c) = new /\ k0 \in G!Counters
  BY <1>1, <1>3 DEF G!NextKey, G!NewCounter
<1>5. /\ rowLock[k0] = None /\ new.count <= G!Limit(k0) /\ rowLock' = [rowLock EXCEPT ![k0] = c]
      /\ call' = [call EXCEPT ![c].pending = Append(@, new)]
      /\ UNCHANGED <<clock, row, aborted, paid, sentTo, accepted>>
  BY <1>4 DEF G!Charge
<1>6. new \in G!Counter
  BY <1>1, <1>4, CallIs, CountedIs
<1>7. Append(Y.pending, new) \in Seq(G!Counter) /\ Len(Append(Y.pending, new)) = n + 1
      /\ \A i \in 1..n : Append(Y.pending, new)[i] = Y.pending[i]
      /\ Append(Y.pending, new)[n + 1] = new
  BY <1>1, <1>6
<1>8. /\ X \in GatewayCall /\ X.at = "charge" /\ X.pending = Append(Y.pending, new)
      /\ X.provider = Y.provider /\ X.policy = Y.policy /\ X.user = Y.user /\ X.begun = Y.begun
      /\ X.result = Y.result
  BY <1>1, <1>7 DEF GatewayCall
<1>9. call' = [call EXCEPT ![c] = X]
  BY <1>5 DEF GatewayIInv, GatewayTyped
<1> HIDE DEF X
<1>10. Tries(X) = Tries(Y)
  BY <1>8 DEF Tries
<1>11. Charges(X) = Charges(Y)
  BY <1>8, <1>10 DEF Charges, TwoCounters, ThreeCounters, Tried
<1>12. /\ rowLock \in [G!Counters -> Calls \cup {None}]
          /\ rowLock' \in [G!Counters -> Calls \cup {None}]
       /\ rowLock'[k0] = c /\ \A k \in G!Counters : k # k0 => rowLock'[k] = rowLock[k]
  BY <1>4, <1>5, CallIs
<1> HIDE DEF Y, n, k0, new
<1>13. Pending(c, X, row, rowLock')
  <2>1. Len(X.pending) <= Len(Charges(X))
    BY <1>1, <1>3, <1>7, <1>8, <1>11
  <2>2. ASSUME NEW i \in 1..Len(X.pending)
        PROVE  /\ X.pending[i] = G!Counted(row[Charges(X)[i]], X.begun)
               /\ X.pending[i].count <= G!Limit(Charges(X)[i])
               /\ rowLock'[Charges(X)[i]] = c
    <3>1. i \in 1..(n + 1)
      BY <1>7, <1>8, <2>2
    <3>2. CASE i = n + 1
      <4>1. Charges(X)[i] = k0 /\ X.pending[i] = new
        BY <1>7, <1>8, <1>11, <3>2 DEF k0
      <4> QED BY <1>5, <1>8, <1>12, <4>1 DEF new
    <3>3. CASE i # n + 1
      <4>1. i \in 1..n /\ X.pending[i] = Y.pending[i] /\ Charges(X)[i] = Charges(Y)[i]
        BY <1>1, <1>7, <1>8, <1>11, <3>1, <3>3
      <4>2. i \in 1..Len(Y.pending) /\ i \in 1..Len(Charges(Y)) /\ i # n + 1
        BY <1>1, <1>3, <3>3, <4>1 DEF n
      <4>3. Charges(Y)[i] # k0 /\ Charges(Y)[i] \in G!Counters
        BY <1>3, <4>2 DEF k0
      <4> QED BY <1>2, <1>8, <1>12, <4>1, <4>2, <4>3 DEF Pending
    <3> QED BY <3>2, <3>3
  <2> QED BY <2>1, <2>2 DEF Pending
<1>14. Standing(c, X, row, rowLock', paid[c], sentTo[c])
  BY <1>2, <1>8, <1>10, <1>13 DEF Standing
<1>15. \A k \in G!Counters : rowLock'[k] = c => Holding(c, k, X)
  <2> SUFFICES ASSUME NEW k \in G!Counters, rowLock'[k] = c PROVE Holding(c, k, X)
    OBVIOUS
  <2>1. CASE k = k0
    <3>1. n + 1 \in 1..Len(X.pending) /\ n + 1 <= Len(Charges(X)) /\ Charges(X)[n + 1] = k
      BY <1>1, <1>3, <1>7, <1>8, <1>11, <2>1 DEF k0
    <3> QED BY <1>8, <3>1 DEF Holding
  <2>2. CASE k # k0
    <3>1. rowLock[k] = c /\ Holding(c, k, call[c])
      BY <1>12, <2>2, CallIs DEF GatewayIInv, LocksRead
    <3>2. PICK i \in 1..Len(Y.pending) : i <= Len(Charges(Y)) /\ Charges(Y)[i] = k
      BY <3>1 DEF Holding, Y
    <3>3. i \in 1..Len(X.pending)
      BY <1>1, <1>7, <1>8 DEF n
    <3> QED BY <1>8, <1>11, <3>2, <3>3 DEF Holding
  <2> QED BY <2>1, <2>2
<1>16. \A k \in G!Counters : rowLock'[k] = rowLock[k] \/ ({rowLock[k], rowLock'[k]} \subseteq {c, None})
  BY <1>5, <1>12
<1>17. sentTo' = [sentTo EXCEPT ![c] = sentTo[c]] /\ sentTo[c] \in G!Range(Providers) \cup {None}
       /\ aborted' \subseteq Calls
  BY <1>5, CallIs
<1> QED BY <1>5, <1>8, <1>9, <1>12, <1>14, <1>15, <1>16, <1>17, CallMoves

LEMMA RefuseKeeps ==
  ASSUME GatewayIInv, NEW c \in Calls, G!Refuse(c)
  PROVE  GatewayIInv'
<1>1. call[c].at = "charge" /\ call[c] \in GatewayCall /\ paid[c] = {} /\ Tries(call[c]) # {}
      /\ call[c].result = None /\ rowLock' = G!Released(c)
         /\ UNCHANGED <<clock, row, aborted, paid, sentTo, accepted>>
  BY CallIs DEF G!Refuse, G!Charging, Standing
<1>2. CASE G!NextKey(c) = G!Provider(c)
  <2> DEFINE X == [call[c] EXCEPT !.at = "health", !.over = TRUE, !.provider = G!Turn(c) + 1]
  <2>1. G!Turn(c) + 1 \in 1..(Len(Providers) + 1)
    BY <1>1, TriedIs, CallsAre DEF G!Turn
  <2>2. X \in GatewayCall /\ X.at = "health" /\ X.result = None
    BY <1>1, <2>1 DEF GatewayCall, G!Places
  <2>3. call' = [call EXCEPT ![c] = X]
    BY <1>2 DEF G!Refuse, GatewayIInv, GatewayTyped
  <2> HIDE DEF X
  <2> QED BY <1>1, <2>2, <2>3, IdlesKeeps
<1>3. CASE G!NextKey(c) # G!Provider(c)
  <2> DEFINE X == [call[c] EXCEPT !.at = "done", !.result = "MODEL_BUDGET_EXCEEDED"]
  <2>1. X \in GatewayCall /\ X.at = "done"
    BY <1>1 DEF GatewayCall, G!Places, G!Errors
  <2>2. call' = [call EXCEPT ![c] = X]
    BY <1>3 DEF G!Refuse, G!Ends, GatewayIInv, GatewayTyped
  <2> HIDE DEF X
  <2> QED BY <1>1, <2>1, <2>2, IdlesKeeps
<1> QED BY <1>2, <1>3

\* A call that is past its charge moves on or ends without giving anything back.
LEMMA ChargedKeeps ==
  ASSUME GatewayIInv, NEW c \in Calls, G!Send(c) \/ G!SendFails(c) \/ G!Answered(c) \/ G!AnswerFails(c)
  PROVE  GatewayIInv'
<1>1. /\ call[c].at \in {"request", "wait"} /\ call[c] \in GatewayCall
      /\ Standing(c, call[c], row, rowLock, paid[c], sentTo[c]) /\ paid[c] # {}
      /\ UNCHANGED <<clock, row, rowLock, aborted, paid, accepted>>
      /\ rowLock \in [G!Counters -> Calls \cup {None}] /\ aborted \subseteq Calls
      /\ \A k \in G!Counters : rowLock[k] # c
  BY CallIs DEF G!Send, G!SendFails, G!Answered, G!AnswerFails, Standing
<1>2. ASSUME NEW X \in GatewayCall, NEW S \in {sentTo[c], Tried(call[c])},
             call' = [call EXCEPT ![c] = X], sentTo' = [sentTo EXCEPT ![c] = S],
             X.at \in {"wait", "done"}, X.result \notin Refusals,
             X.provider = call[c].provider, X.policy = call[c].policy, X.user = call[c].user
      PROVE  GatewayIInv'
  <2>1. Tries(X) = Tries(call[c]) /\ Tries(call[c]) # {}
    BY <1>1, <1>2 DEF Tries, Standing
  <2>2. Tried(X) = Tried(call[c])
    BY <2>1 DEF Tried
  <2>3. Charges(X) = Charges(call[c])
    BY <1>2, <2>2 DEF Charges, TwoCounters, ThreeCounters
  <2>4. S \in G!Range(Providers) \cup {None}
    BY <1>1, <2>1, CallIs, TriedIs
  <2>5. Standing(c, X, row, rowLock', paid[c], S)
    BY <1>1, <1>2, <2>1, <2>2, <2>3 DEF Standing, Pays
  <2> QED BY <1>1, <1>2, <2>4, <2>5, CallMoves
<1>3. CASE G!Send(c)
  <2> DEFINE X == [call[c] EXCEPT !.at = "wait"]
  <2>1. /\ X \in GatewayCall /\ X.at = "wait" /\ X.result = call[c].result
        /\ X.provider = call[c].provider /\ X.policy = call[c].policy /\ X.user = call[c].user
    BY <1>1 DEF GatewayCall, G!Places
  <2>2. call' = [call EXCEPT ![c] = X] /\ sentTo' = [sentTo EXCEPT ![c] = Tried(call[c])]
    BY <1>3, CallsAre DEF G!Send, G!Goes, GatewayIInv, GatewayTyped
  <2>3. X.result \notin Refusals
    BY <1>1, <2>1 DEF Standing
  <2> HIDE DEF X
  <2> QED BY <1>2, <2>1, <2>2, <2>3
<1>4. CASE G!SendFails(c) \/ G!Answered(c) \/ G!AnswerFails(c)
  <2>1. PICK e \in {"answer", "MODEL_PROVIDER_CANCELLED", "MODEL_PROVIDER_TIMEOUT",
                    "MODEL_PROVIDER_UNAVAILABLE"} : G!Ends(c, e)
    BY <1>4 DEF G!SendFails, G!Answered, G!AnswerFails
  <2> DEFINE X == [call[c] EXCEPT !.at = "done", !.result = e]
  <2>2. /\ X \in GatewayCall /\ X.at = "done" /\ X.result = e
        /\ X.provider = call[c].provider /\ X.policy = call[c].policy /\ X.user = call[c].user
    BY <1>1 DEF GatewayCall, G!Places, G!Errors
  <2>3. call' = [call EXCEPT ![c] = X]
    BY <2>1 DEF G!Ends, GatewayIInv, GatewayTyped
  <2>4. sentTo' = [sentTo EXCEPT ![c] = sentTo[c]]
    BY <1>4, CallIs DEF G!SendFails, G!Answered, G!AnswerFails
  <2>5. X.result \notin Refusals
    BY <2>2 DEF Refusals
  <2> HIDE DEF X
  <2> QED BY <1>2, <2>2, <2>3, <2>4, <2>5
<1> QED BY <1>3, <1>4

\* Aborting and dying change what becomes of a call, not what it was charged.
LEMMA AbortKeeps ==
  ASSUME GatewayIInv, NEW c \in Calls, G!Abort(c)
  PROVE  GatewayIInv'
<1>1. /\ UNCHANGED <<clock, row, rowLock, call, paid, sentTo, accepted>>
         /\ aborted' \subseteq Calls
  BY CallIs DEF G!Abort
<1>2. GatewayTyped' /\ LocksRead' /\ CountersAgree' /\ MutationsCounted'
  BY <1>1 DEF GatewayIInv, GatewayTyped, LocksRead, CountersAgree, MutationsCounted, G!Payers
<1> QED BY <1>1, <1>2 DEF GatewayIInv

LEMMA DieKeeps ==
  ASSUME GatewayIInv, NEW c \in Calls, G!Die(c)
  PROVE  GatewayIInv'
<1> DEFINE X == [call[c] EXCEPT !.at = "died"]
<1>1. /\ rowLock' = G!Released(c) /\ UNCHANGED <<clock, row, aborted, paid, sentTo, accepted>>
      /\ call[c] \in GatewayCall /\ Standing(c, call[c], row, rowLock, paid[c], sentTo[c])
  BY CallIs DEF G!Die
<1>2. /\ X \in GatewayCall /\ X.at = "died" /\ X.result = call[c].result
      /\ X.provider = call[c].provider /\ X.policy = call[c].policy /\ X.user = call[c].user
  BY <1>1 DEF GatewayCall, G!Places
<1>3. call' = [call EXCEPT ![c] = X]
  BY DEF G!Die, G!Goes, GatewayIInv, GatewayTyped
<1> HIDE DEF X
<1>4. Tries(X) = Tries(call[c])
  BY <1>2 DEF Tries
<1>5. Tried(X) = Tried(call[c])
  BY <1>4 DEF Tried
<1>6. Charges(X) = Charges(call[c])
  BY <1>2, <1>5 DEF Charges, TwoCounters, ThreeCounters
<1>7. Standing(c, X, row, rowLock', paid[c], sentTo[c])
  BY <1>1, <1>2, <1>4, <1>5, <1>6 DEF Standing, Pays
<1>8. /\ sentTo' = [sentTo EXCEPT ![c] = sentTo[c]]
         /\ sentTo[c] \in G!Range(Providers) \cup {None}
      /\ aborted' \subseteq Calls
  BY <1>1, CallIs
<1>9. /\ rowLock' \in [G!Counters -> Calls \cup {None}]
      /\ \A k \in G!Counters : rowLock'[k] = rowLock[k] \/ ({rowLock[k], rowLock'[k]} \subseteq {c, None})
      /\ \A k \in G!Counters : rowLock'[k] # c
  BY <1>1, ReleasedIs
<1> QED BY <1>1, <1>2, <1>3, <1>7, <1>8, <1>9, CallMoves

\* What committing writes: every counter of the call is what the call computed.
LEMMA StoredIs ==
  ASSUME GatewayIInv, NEW c \in Calls, call[c].at = "charge", ~ G!Charging(c)
  PROVE  /\ G!Range(Charges(call[c])) \subseteq G!Counters \ {"mutation"}
         /\ call[c].begun \in 0..MaxTime
         /\ \A k \in G!Range(Charges(call[c])) :
               /\ G!Stored(c)[k] = G!Counted(row[k], call[c].begun)
               /\ G!Stored(c)[k].count <= G!Limit(k) /\ rowLock[k] = c
         /\ \A k \in G!Counters \ G!Range(Charges(call[c])) :
               G!Stored(c)[k] = row[k] /\ rowLock[k] # c
         /\ G!Stored(c) \in [G!Counters -> G!Counter]
<1> DEFINE Y == call[c]
           E == G!Range(Charges(Y))
<1>1. /\ Y \in GatewayCall /\ Tries(Y) # {} /\ Pending(c, Y, row, rowLock)
      /\ G!Entries(c) = Charges(Y) /\ Len(Y.pending) \in Nat /\ Y.begun \in 0..MaxTime
      /\ row \in [G!Counters -> G!Counter]
  BY CallIs, CallsAre DEF Standing, GatewayCall
<1>2. /\ Len(Charges(Y)) \in {2, 3} /\ DOMAIN Charges(Y) = 1..Len(Charges(Y))
      /\ \A i \in 1..Len(Charges(Y)) : Charges(Y)[i] \in G!Counters /\ Place(Charges(Y)[i]) = i
      /\ E = {Charges(Y)[i] : i \in 1..Len(Charges(Y))} /\ E \subseteq G!Counters \ {"mutation"}
  BY <1>1, ChargesAre
<1>3. Len(Y.pending) = Len(Charges(Y))
  BY <1>1, <1>2 DEF G!Charging, Pending
<1>4. ASSUME NEW k \in E
      PROVE  /\ G!Stored(c)[k] = G!Counted(row[k], Y.begun)
             /\ G!Stored(c)[k].count <= G!Limit(k) /\ rowLock[k] = c
  <2>1. PICK i \in 1..Len(Charges(Y)) : Charges(Y)[i] = k
    BY <1>2
  <2>2. (CHOOSE j \in DOMAIN G!Entries(c) : G!Entries(c)[j] = k) = i
    BY <1>1, <1>2, <2>1
  <2>3. G!Stored(c)[k] = Y.pending[i]
    BY <1>1, <1>2, <2>2 DEF G!Stored
  <2> QED BY <1>1, <1>3, <2>1, <2>3 DEF Pending
<1>5. ASSUME NEW k \in G!Counters \ E PROVE G!Stored(c)[k] = row[k] /\ rowLock[k] # c
  <2>1. G!Stored(c)[k] = row[k]
    BY <1>1 DEF G!Stored
  <2>2. rowLock[k] # c
    <3> SUFFICES ASSUME rowLock[k] = c PROVE FALSE
      OBVIOUS
    <3>1. Holding(c, k, Y)
      BY CallIs DEF GatewayIInv, LocksRead
    <3> QED BY <1>2, <1>3, <3>1 DEF Holding
  <2> QED BY <2>1, <2>2
<1>6. \A k \in G!Counters : G!Stored(c)[k] \in G!Counter
  BY <1>1, <1>4, <1>5, CountedIs
<1>7. G!Stored(c) \in [G!Counters -> G!Counter]
  <2>1. G!Stored(c) = [k \in G!Counters |-> G!Stored(c)[k]]
    BY DEF G!Stored
  <2> QED BY <1>6, <2>1
<1> QED BY <1>1, <1>2, <1>4, <1>5, <1>7

\* The transaction commits: the counters are as they were read, whoever else waited
\* has read none of them, and exactly this call is added to their windows.
LEMMA CommitKeeps ==
  ASSUME GatewayIInv, NEW c \in Calls, G!Commit(c)
  PROVE  GatewayIInv'
<1> DEFINE Y == call[c]
           E == G!Range(Charges(Y))
           X == [Y EXCEPT !.at = "request"]
           P == {<<k, row'[k].since>> : k \in E}
<1>1. /\ Y.at = "charge" /\ ~ G!Charging(c) /\ row' = G!Stored(c) /\ rowLock' = G!Released(c)
      /\ UNCHANGED <<clock, aborted, sentTo, accepted>> /\ G!Entries(c) = Charges(Y)
  BY CallsAre DEF G!Commit
<1>2. /\ Y \in GatewayCall /\ Standing(c, Y, row, rowLock, paid[c], sentTo[c]) /\ Tries(Y) # {}
      /\ paid[c] = {} /\ sentTo[c] = None /\ Y.result = None /\ row \in [G!Counters -> G!Counter]
      /\ c # None /\ GatewayTyped /\ LocksRead /\ CountersAgree /\ MutationsCounted
  BY <1>1, CallIs DEF Standing, GatewayIInv
<1>3. /\ E \subseteq G!Counters \ {"mutation"} /\ Y.begun \in 0..MaxTime
      /\ row' \in [G!Counters -> G!Counter]
      /\ \A k \in E : row'[k] = G!Counted(row[k], Y.begun) /\ row'[k].count <= G!Limit(k)
         /\ rowLock[k] = c
      /\ \A k \in G!Counters \ E : row'[k] = row[k] /\ rowLock[k] # c
  BY <1>1, StoredIs
<1>4. /\ call' = [call EXCEPT ![c] = X] /\ paid' = [paid EXCEPT ![c] = P]
  BY <1>1, <1>2 DEF G!Commit, G!Goes, GatewayTyped
<1>5. /\ X \in GatewayCall /\ X.at = "request" /\ X.result = None
      /\ X.provider = Y.provider /\ X.policy = Y.policy /\ X.user = Y.user
  BY <1>2 DEF GatewayCall, G!Places
<1>6. Tries(X) = Tries(Y)
  BY <1>5 DEF Tries
<1>7. Charges(X) = Charges(Y)
  BY <1>5, <1>6 DEF Charges, TwoCounters, ThreeCounters, Tried
<1> HIDE DEF X
<1>8. \A k \in G!Counters : row[k] \in G!Counter /\ row'[k] \in G!Counter
  BY <1>2, <1>3
<1>9. \A k \in G!Counters : row[k].since <= row'[k].since /\ row'[k].since \in 0..MaxTime
  <2> SUFFICES ASSUME NEW k \in G!Counters
               PROVE  row[k].since <= row'[k].since /\ row'[k].since \in 0..MaxTime
    OBVIOUS
  <2>1. row[k].since \in Nat /\ row'[k].since \in 0..MaxTime
    BY <1>8 DEF G!Counter
  <2>2. CASE k \in E
    <3>1. row'[k] = G!Counted(row[k], Y.begun)
      BY <1>3, <2>2
    <3> QED BY <1>3, <1>8, <2>1, <3>1, CountedIs
  <2>3. CASE k \notin E
    BY <1>3, <2>1, <2>3
  <2> QED BY <2>2, <2>3
<1>10. E # {}
  <2>1. 1 \in 1..Len(Charges(Y)) /\ E = {Charges(Y)[i] : i \in 1..Len(Charges(Y))}
    BY <1>2, ChargesAre
  <2> QED BY <2>1
<1>11. P \in SUBSET (G!Counters \X (0..MaxTime)) /\ P # {}
  <2>1. \A k \in E : <<k, row'[k].since>> \in G!Counters \X (0..MaxTime)
    BY <1>3, <1>9
  <2>2. PICK k \in E : TRUE
    BY <1>10
  <2>3. <<k, row'[k].since>> \in P
    OBVIOUS
  <2> QED BY <2>1, <2>3
<1>12. /\ call'[c] = X /\ paid'[c] = P
       /\ \A d \in Calls : d # c => call'[d] = call[d] /\ paid'[d] = paid[d]
  BY <1>2, <1>4 DEF GatewayTyped
<1>13. /\ rowLock' \in [G!Counters -> Calls \cup {None}]
       /\ \A k \in G!Counters : rowLock'[k] = IF rowLock[k] = c THEN None ELSE rowLock[k]
  BY <1>1, <1>2 DEF G!Released, GatewayTyped
<1>14. GatewayTyped'
  BY <1>1, <1>2, <1>3, <1>4, <1>5, <1>11, <1>13 DEF GatewayTyped
<1>15. LocksRead'
  <2> SUFFICES ASSUME NEW k \in G!Counters, rowLock'[k] # None
               PROVE  Holding(rowLock'[k], k, call'[rowLock'[k]])
    BY DEF LocksRead
  <2>1. rowLock'[k] = rowLock[k] /\ rowLock'[k] \in Calls /\ rowLock'[k] # c
    BY <1>13, <1>2
  <2>2. Holding(rowLock[k], k, call[rowLock[k]])
    BY <1>2, <2>1 DEF LocksRead
  <2> QED BY <1>12, <2>1, <2>2
<1>16. CountersAgree'
  <2> SUFFICES ASSUME NEW k \in G!Counters \ {"mutation"}
               PROVE  row'[k].count = Cardinality(G!Payers(k)') /\ row'[k].count <= G!Limit(k)
    BY DEF CountersAgree
  <2>1. /\ row[k].count = Cardinality(G!Payers(k)) /\ row[k].count <= G!Limit(k)
        /\ G!Payers(k) = {d \in Calls : <<k, row[k].since>> \in paid[d]}
        /\ G!Payers(k)' = {d \in Calls : <<k, row'[k].since>> \in paid'[d]}
    BY <1>2 DEF CountersAgree, G!Payers
  <2>2. IsFiniteSet(G!Payers(k)) /\ c \notin G!Payers(k)
    BY <1>2, <2>1, KeysApart, LimitsAre, FS_Subset
  <2>3. CASE k \notin E
    <3>1. <<k, row'[k].since>> \notin P
      BY <2>3
    <3>2. row'[k] = row[k]
      BY <1>3, <2>3
    <3>3. \A d \in Calls : <<k, row'[k].since>> \in paid'[d] <=> <<k, row[k].since>> \in paid[d]
      <4> SUFFICES ASSUME NEW d \in Calls
          PROVE <<k, row'[k].since>> \in paid'[d] <=> <<k, row[k].since>> \in paid[d]
        OBVIOUS
      <4>1. CASE d = c
        BY <1>2, <1>12, <3>1, <4>1
      <4>2. CASE d # c
        BY <1>12, <3>2, <4>2
      <4> QED BY <4>1, <4>2
    <3>4. G!Payers(k)' = G!Payers(k)
      BY <2>1, <3>3
    <3> QED BY <2>1, <3>2, <3>4
  <2>4. CASE k \in E
    <3>1. /\ row'[k] = G!Counted(row[k], Y.begun) /\ row'[k].count <= G!Limit(k)
          /\ <<k, row'[k].since>> \in P /\ row[k].since \in 0..MaxTime
          /\ row[k].since \in Int /\ row'[k].since \in 0..MaxTime /\ row[k].count \in Nat
      BY <1>3, <1>8, <1>9, <2>4 DEF G!Counter
    <3>2. CASE row'[k].since = row[k].since /\ row'[k].count = row[k].count + 1
      <4>1. G!Payers(k)' = G!Payers(k) \cup {c}
        BY <1>12, <2>1, <3>1, <3>2
      <4> QED BY ZenonT(60), <2>1, <2>2, <3>1, <3>2, <4>1, FS_AddElement
    <3>3. CASE row[k].since < row'[k].since /\ row'[k].count = 1
      <4>1. \A d \in Calls : d # c => <<k, row'[k].since>> \notin paid'[d]
        <5> SUFFICES ASSUME NEW d \in Calls, d # c, <<k, row'[k].since>> \in paid[d]
                     PROVE  FALSE
          BY <1>12
        <5>1. row'[k].since <= row[k].since
          BY <3>1 DEF GatewayIInv, Standing
        <5> QED BY <3>1, <3>3, <5>1
      <4>2. G!Payers(k)' = {c}
        BY <1>12, <2>1, <3>1, <4>1
      <4> QED BY <3>1, <3>3, <4>2, FS_Singleton
    <3> QED BY <1>3, <1>8, <3>1, <3>2, <3>3, CountedIs
  <2> QED BY <2>3, <2>4
<1>17. MutationsCounted'
  BY <1>1, <1>2, <1>3 DEF MutationsCounted, G!Counters
<1>18. ASSUME NEW d \in Calls PROVE Standing(d, call'[d], row', rowLock', paid'[d], sentTo'[d])
  <2>1. CASE d = c
    <3>1. Pays(X, P)
      <4>1. [k \in E |-> row'[k].since] \in [E -> 0..MaxTime]
            /\ P = {<<k, [j \in E |-> row'[j].since][k]>> : k \in E}
        BY <1>3, <1>9
      <4> QED BY <1>7, <4>1 DEF Pays
    <3>2. X.result \notin Refusals
      BY <1>5, KeysApart, LimitsAre DEF Refusals, G!Errors
    <3>3. \A k \in G!Counters, t \in 0..MaxTime : <<k, t>> \in P => t <= row'[k].since
      BY <1>9
    <3>4. Standing(c, X, row', rowLock', P, None)
      BY <1>2, <1>5, <1>6, <1>11, <3>1, <3>2, <3>3 DEF Standing
    <3> QED BY <1>1, <1>2, <1>12, <2>1, <3>4
  <2>2. CASE d # c
    <3>1. Standing(d, call[d], row, rowLock, paid[d], sentTo[d]) /\ call[d] \in GatewayCall
      BY <1>2 DEF GatewayIInv, GatewayTyped
    <3>2. \A k \in G!Counters : rowLock[k] = d => rowLock'[k] = d /\ row'[k] = row[k]
      <4> SUFFICES ASSUME NEW k \in G!Counters, rowLock[k] = d PROVE rowLock'[k] = d
                          /\ row'[k] = row[k]
        OBVIOUS
      <4>1. k \in G!Counters \ E
        BY <1>3, <2>2
      <4>2. row'[k] = row[k]
        BY <1>3, <4>1
      <4>3. rowLock[k] # c
        BY <2>2
      <4>4. rowLock'[k] = rowLock[k]
        BY <1>13, <4>3
      <4> QED BY <4>2, <4>4
    <3>3. Standing(d, call[d], row', rowLock', paid[d], sentTo[d])
      BY <1>2, <1>3, <1>9, <3>1, <3>2, StandsOn
    <3> QED BY <1>1, <1>12, <2>2, <3>3
  <2> QED BY <2>1, <2>2
<1> QED BY <1>14, <1>15, <1>16, <1>17, <1>18 DEF GatewayIInv

LEMMA NeverMutating == ASSUME GatewayIInv PROVE rowLock["mutation"] = None
<1> SUFFICES ASSUME rowLock["mutation"] # None PROVE FALSE
  OBVIOUS
<1> DEFINE d == rowLock["mutation"]
<1>1. "mutation" \in G!Counters /\ d \in Calls /\ Holding(d, "mutation", call[d])
  BY DEF GatewayIInv, GatewayTyped, LocksRead, G!Counters
<1>2. call[d].at = "charge" /\ call[d] \in GatewayCall /\ Tries(call[d]) # {}
  BY <1>1, CallIs DEF Holding, Standing
<1>3. PICK i \in 1..Len(call[d].pending) :
         i <= Len(Charges(call[d])) /\ Charges(call[d])[i] = "mutation"
  BY <1>1 DEF Holding
<1>4. i \in 1..Len(Charges(call[d]))
  BY <1>2, <1>3, ChargesAre DEF GatewayCall
<1> QED BY <1>2, <1>3, <1>4, ChargesAre

LEMMA MutateKeeps ==
  ASSUME GatewayIInv, G!Mutate
  PROVE  GatewayIInv'
<1> DEFINE old == row["mutation"]
           counter == G!Counted(old, clock)
<1>1. /\ row' = [row EXCEPT !["mutation"] = counter]
      /\ accepted' = (IF counter.since = old.since THEN accepted ELSE 0)
                     + (IF counter.count <= MutationLimit THEN 1 ELSE 0)
      /\ UNCHANGED <<clock, rowLock, call, aborted, paid, sentTo>>
  BY DEF G!Mutate
<1>2. /\ GatewayTyped /\ LocksRead /\ CountersAgree /\ MutationsCounted
         /\ "mutation" \in G!Counters /\ old \in G!Counter
      /\ clock \in 0..MaxTime /\ accepted \in Nat /\ MutationLimit \in Nat
      /\ row \in [G!Counters -> G!Counter]
  BY KeysApart, LimitsAre DEF GatewayIInv, GatewayTyped, G!Counters
<1>3. /\ counter \in G!Counter
      /\ \/ counter.count = old.count + 1 /\ counter.since = old.since
         \/ counter.count = 1 /\ counter.since # old.since /\ old.since < counter.since
  <2>1. old.since \in Nat /\ clock \in Nat
    BY <1>2 DEF G!Counter
  <2> QED BY <1>2, <2>1, CountedIs
<1>4. old.count \in Nat /\ old.since \in Nat /\ counter.count \in Nat /\ counter.since \in Nat
  BY <1>2, <1>3 DEF G!Counter
<1> HIDE DEF old, counter
<1>5. /\ row' \in [G!Counters -> G!Counter] /\ row'["mutation"] = counter
      /\ \A k \in G!Counters \ {"mutation"} : row'[k] = row[k]
  BY <1>1, <1>2, <1>3
<1>6. accepted' \in Nat /\ accepted' <= counter.count /\ accepted' <= MutationLimit
  <2>1. accepted <= old.count /\ accepted <= MutationLimit
    BY <1>2 DEF MutationsCounted, old
  <2>2. CASE counter.count = old.count + 1 /\ counter.since = old.since
    <3>1. accepted' = accepted + (IF counter.count <= MutationLimit THEN 1 ELSE 0)
      BY <1>1, <2>2
    <3> QED BY <1>2, <1>4, <2>1, <2>2, <3>1
  <2>3. CASE counter.count = 1 /\ counter.since # old.since
    <3>1. accepted' = 0 + (IF counter.count <= MutationLimit THEN 1 ELSE 0)
      BY <1>1, <2>3
    <3> QED BY <1>2, <1>4, <2>3, <3>1
  <2> QED BY <1>3, <2>2, <2>3
<1>7. GatewayTyped'
  BY <1>1, <1>2, <1>5, <1>6 DEF GatewayTyped
<1>8. LocksRead' /\ MutationsCounted'
  BY <1>1, <1>2, <1>5, <1>6 DEF LocksRead, MutationsCounted
<1>9. CountersAgree'
  BY <1>1, <1>2, <1>5 DEF CountersAgree, G!Payers
<1>10. \A k \in G!Counters : row[k].since <= row'[k].since
  <2> SUFFICES ASSUME NEW k \in G!Counters PROVE row[k].since <= row'[k].since
    OBVIOUS
  <2>1. CASE k = "mutation"
    BY <1>3, <1>4, <1>5, <2>1 DEF old
  <2>2. CASE k # "mutation"
    <3>1. row'[k] = row[k] /\ row[k].since \in Nat
      BY <1>2, <1>5, <2>2 DEF G!Counter
    <3> QED BY <3>1
  <2> QED BY <2>1, <2>2
<1>11. ASSUME NEW d \in Calls PROVE Standing(d, call'[d], row', rowLock', paid'[d], sentTo'[d])
  <2>1. Standing(d, call[d], row, rowLock, paid[d], sentTo[d]) /\ call[d] \in GatewayCall
        /\ d # None
    BY CallIs
  <2>2. \A k \in G!Counters : rowLock[k] = d => rowLock[k] = d /\ row'[k] = row[k]
    BY <1>5, <2>1, NeverMutating
  <2>3. Standing(d, call[d], row', rowLock, paid[d], sentTo[d])
    BY <1>2, <1>5, <1>10, <2>1, <2>2, StandsOn
  <2> QED BY <1>1, <2>3
<1> QED BY <1>7, <1>8, <1>9, <1>11 DEF GatewayIInv

LEMMA StillKeeps ==
  ASSUME GatewayIInv, UNCHANGED <<row, rowLock, call, aborted, paid, sentTo, accepted>>,
         clock' \in 0..MaxTime
  PROVE  GatewayIInv'
<1>1. GatewayTyped' /\ LocksRead' /\ CountersAgree' /\ MutationsCounted'
  BY DEF GatewayIInv, GatewayTyped, LocksRead, CountersAgree, MutationsCounted, G!Payers
<1> QED BY <1>1 DEF GatewayIInv

LEMMA GatewayNextKeeps == ASSUME GatewayIInv, [G!Next]_(G!gatewayVars) PROVE GatewayIInv'
<1>1. CASE UNCHANGED G!gatewayVars
  BY <1>1, StillKeeps DEF G!gatewayVars, GatewayIInv, GatewayTyped
<1>2. CASE G!Tick
  <2>1. clock' \in 0..MaxTime
    BY <1>2, KeysApart, LimitsAre DEF G!Tick, GatewayIInv, GatewayTyped
  <2> QED BY <1>2, <2>1, StillKeeps DEF G!Tick
<1>3. CASE G!Mutate
  BY <1>3, MutateKeeps
<1>4. ASSUME NEW c \in Calls, NEW policy \in {"local_only", "cloud_allowed"},
             NEW user \in Users \cup {None}, G!Begin(c, policy, user)
      PROVE  GatewayIInv'
  BY <1>4, BeginKeeps
<1>5. ASSUME NEW c \in Calls,
             \/ G!Healthy(c) \/ G!Unhealthy(c) \/ G!NoneLeft(c) \/ G!Charge(c) \/ G!Refuse(c) \/ G!Commit(c)
             \/ G!Send(c) \/ G!SendFails(c) \/ G!Answered(c) \/ G!AnswerFails(c) \/ G!Abort(c) \/ G!Die(c)
      PROVE  GatewayIInv'
  BY <1>5, HealthyKeeps, UnhealthyKeeps, ChargeKeeps, RefuseKeeps, CommitKeeps, ChargedKeeps,
     AbortKeeps, DieKeeps
<1> QED BY <1>1, <1>2, <1>3, <1>4, <1>5 DEF G!Next, G!CallNext, G!MutationNext

-----------------------------------------------------------------------------
LEMMA GatewayTypes == ASSUME GatewayIInv PROVE G!TypeOK
<1>1. \A c \in Calls : paid[c] \subseteq G!Counters \X (0..MaxTime)
  BY DEF GatewayIInv, GatewayTyped
<1> QED BY <1>1 DEF GatewayIInv, GatewayTyped, G!TypeOK, GatewayCall

\* As many entries as counters were paid.
LEMMA PaidOnce ==
  ASSUME NEW X \in GatewayCall, Tries(X) # {}, NEW P, Pays(X, P)
  PROVE  /\ {entry[1] : entry \in P} = G!Range(Charges(X))
         /\ Cardinality(P) = Cardinality(G!Range(Charges(X)))
<1> DEFINE E == G!Range(Charges(X))
<1>1. PICK w \in [E -> 0..MaxTime] : P = {<<k, w[k]>> : k \in E}
  BY DEF Pays
<1>2. {entry[1] : entry \in P} = E
  <2>1. ASSUME NEW k \in E PROVE k \in {entry[1] : entry \in P}
    <3>1. <<k, w[k]>> \in P /\ <<k, w[k]>>[1] = k
      BY <1>1
    <3> QED BY <3>1
  <2>2. ASSUME NEW entry \in P PROVE entry[1] \in E
    BY <1>1
  <2> QED BY <2>1, <2>2
<1>3. IsFiniteSet(E)
  <2>1. Len(Charges(X)) \in {2, 3} /\ E = {Charges(X)[i] : i \in 1..Len(Charges(X))}
    BY ChargesAre
  <2>2. IsFiniteSet(1..Len(Charges(X)))
    BY <2>1, FS_Interval
  <2> DEFINE f == [i \in 1..Len(Charges(X)) |-> Charges(X)[i]]
  <2>3. f \in Surjection(1..Len(Charges(X)), E)
    BY <2>1 DEF Surjection
  <2> HIDE DEF f
  <2> QED BY <2>2, <2>3, FS_Surjection
<1>4. Cardinality(P) = Cardinality(E)
  <2> DEFINE f == [k \in E |-> <<k, w[k]>>]
  <2> HIDE DEF E
  <2>1. f \in Bijection(E, P)
    <3>1. f \in [E -> P]
      BY <1>1
    <3>2. \A a, b \in E : f[a] = f[b] => a = b
      OBVIOUS
    <3>3. \A entry \in P : \E k \in E : f[k] = entry
      BY <1>1
    <3> HIDE DEF f
    <3> QED BY <3>1, <3>2, <3>3, Fun_IsBij
  <2> HIDE DEF f
  <2>2. ExistsBijection(E, P)
    BY <2>1 DEF ExistsBijection
  <2> QED BY <1>3, <2>2, FS_Bijection
<1> QED BY <1>2, <1>4

LEMMA GatewayBudget == ASSUME GatewayIInv PROVE G!BudgetKept
<1>1. \A k \in G!Counters \ {"mutation"} : row[k].count = Cardinality(G!Payers(k))
      /\ row[k].count <= G!Limit(k)
  BY DEF GatewayIInv, CountersAgree
<1>2. accepted <= MutationLimit
  BY DEF GatewayIInv, MutationsCounted
<1>3. ASSUME NEW c \in Calls
      PROVE  /\ paid[c] # {} =>
                   {entry[1] : entry \in paid[c]} = G!Range(G!Entries(c))
                   /\ Cardinality(paid[c]) = Cardinality(G!Range(G!Entries(c)))
             /\ call[c].result \in Refusals => paid[c] = {}
             /\ sentTo[c] # None => \E entry \in paid[c] : entry[1] = sentTo[c]
  <2>1. /\ G!Entries(c) = Charges(call[c]) /\ call[c] \in GatewayCall
        /\ Standing(c, call[c], row, rowLock, paid[c], sentTo[c])
    BY CallIs, CallsAre
  <2>2. paid[c] # {} => Tries(call[c]) # {} /\ Pays(call[c], paid[c])
        /\ call[c].result \notin Refusals
    BY <2>1 DEF Standing
  <2>3. paid[c] # {} =>
             {entry[1] : entry \in paid[c]} = G!Range(G!Entries(c))
             /\ Cardinality(paid[c]) = Cardinality(G!Range(G!Entries(c)))
    BY <2>1, <2>2, PaidOnce
  <2>4. ASSUME sentTo[c] # None PROVE \E entry \in paid[c] : entry[1] = sentTo[c]
    <3>1. paid[c] # {} /\ sentTo[c] = Tried(call[c])
      BY <2>1, <2>4 DEF Standing
    <3>2. sentTo[c] \in G!Range(G!Entries(c))
      <4>1. Len(Charges(call[c])) \in {2, 3} /\ Charges(call[c])[2] = sentTo[c]
            /\ G!Range(Charges(call[c])) = {Charges(call[c])[i] : i \in 1..Len(Charges(call[c]))}
        BY <2>1, <2>2, <3>1, ChargesAre
      <4>2. 2 \in 1..Len(Charges(call[c]))
        BY <4>1
      <4> QED BY <2>1, <4>1, <4>2
    <3> QED BY <2>3, <3>1, <3>2
  <2> QED BY <2>2, <2>3, <2>4
<1>4. \A X : G!Cardinality(X) = Cardinality(X)
  BY DEF G!Cardinality, Cardinality
<1> QED BY <1>1, <1>2, <1>3, <1>4 DEF G!BudgetKept, Refusals

LEMMA GatewayLocal == ASSUME GatewayIInv PROVE G!LocalStaysLocal
<1> SUFFICES ASSUME NEW c \in Calls, call[c].policy = "local_only",
                    sentTo[c] \in Cloud PROVE FALSE
  BY DEF G!LocalStaysLocal
<1>1. sentTo[c] # None
  BY KeysApart, LimitsAre
<1>2. paid[c] # {} /\ sentTo[c] = Tried(call[c]) /\ Tries(call[c]) # {} /\ call[c] \in GatewayCall
  BY <1>1, CallIs DEF Standing
<1> QED BY <1>2, TriedIs

\* Whoever is waited for has read more counters than whoever waits.
LEMMA WaitsUp ==
  ASSUME GatewayIInv, NEW c \in Calls, NEW d \in Calls, d \in G!Waits(c)
  PROVE  Len(call[c].pending) \in 0..2 /\ Len(call[c].pending) < Len(call[d].pending)
<1> DEFINE Y == call[c]
           n == Len(Y.pending)
<1>1. G!Charging(c) /\ rowLock[G!NextKey(c)] = d
  BY DEF G!Waits
<1>2. /\ Y \in GatewayCall /\ Y.at = "charge" /\ Tries(Y) # {} /\ G!Entries(c) = Charges(Y)
      /\ n \in Nat /\ n < Len(Charges(Y))
  BY <1>1, CallIs, CallsAre DEF G!Charging, Standing, GatewayCall
<1>3. Len(Charges(Y)) \in {2, 3} /\ n + 1 \in 1..Len(Charges(Y))
      /\ \A i \in 1..Len(Charges(Y)) : Charges(Y)[i] \in G!Counters /\ Place(Charges(Y)[i]) = i
  BY <1>2, ChargesAre
<1>4. G!NextKey(c) \in G!Counters /\ Place(G!NextKey(c)) = n + 1
  BY <1>2, <1>3 DEF G!NextKey
<1>5. d # None /\ Holding(d, G!NextKey(c), call[d])
  BY <1>1, <1>4, CallIs DEF GatewayIInv, LocksRead
<1>6. call[d] \in GatewayCall /\ Tries(call[d]) # {} /\ Len(call[d].pending) \in Nat
  BY <1>5, CallIs DEF Holding, Standing, GatewayCall
<1>7. PICK i \in 1..Len(call[d].pending) :
         i <= Len(Charges(call[d])) /\ Charges(call[d])[i] = G!NextKey(c)
  BY <1>5 DEF Holding
<1>8. i \in 1..Len(Charges(call[d])) /\ Place(G!NextKey(c)) = i
  BY <1>6, <1>7, ChargesAre
<1>9. i = n + 1
  BY <1>4, <1>8
<1> HIDE DEF n, Y
<1>10. n < Len(call[d].pending)
  BY <1>2, <1>6, <1>7, <1>9
<1>11. n \in 0..2
  BY <1>2, <1>3
<1> QED BY <1>10, <1>11 DEF n, Y

LEMMA GatewayNoCycle == ASSUME GatewayIInv PROVE G!NoWaitCycle
<1> SUFFICES ASSUME NEW S \in SUBSET Calls, S # {},
                    \A c \in S : G!Waits(c) \cap S # {} PROVE FALSE
  BY DEF G!NoWaitCycle
<1> DEFINE Length(c) == Len(call[c].pending)
<1>1. ASSUME NEW c \in S PROVE \E d \in S : Length(c) \in 0..2 /\ Length(c) < Length(d)
  BY WaitsUp
<1> HIDE DEF Length
<1>2. PICK a \in S : Length(a) \in 0..2
  BY <1>1
<1>3. PICK b \in S : Length(b) \in 0..2 /\ Length(a) < Length(b)
  BY <1>1
<1>4. PICK d \in S : Length(d) \in 0..2 /\ Length(b) < Length(d)
  BY <1>1
<1>5. PICK e \in S : Length(e) \in 0..2 /\ Length(d) < Length(e)
  BY <1>1
<1> QED BY <1>2, <1>3, <1>4, <1>5

-----------------------------------------------------------------------------
(***************************************************************************)
(* The parts together.  A step belongs to the part of the behaviour, and   *)
(* leaves the variables of the others as they are.                         *)
(***************************************************************************)
OrganizationIInv ==
    /\ part = "storage" => QuotaIInv
    /\ part \in {"gateway", "mutations"} => GatewayIInv
    /\ part = "turn" => TurnIInv
    /\ part = "access" => AccessIInv
    /\ part = "resources" => ResourceIInv
    /\ part = "installations" => SkillIInv /\ edits \in 0..MaxEdits

LEMMA OrganizationInitIInv == OrganizationInit => OrganizationIInv
BY QuotaInitIInv, GatewayInitIInv, TurnInitIInv, AccessInitIInv, ResourceInitIInv, SkillInitIInv, TurnAssumption,
   StoreAssumption DEF OrganizationInit, I!Init, OrganizationIInv

LEMMA OrganizationNextKeeps ==
  ASSUME OrganizationIInv, [OrganizationNext /\ part' = part]_<<organizationVars, part>>
  PROVE  OrganizationIInv'
<1>1. part' = part
  BY DEF OrganizationNext, organizationVars
<1>2. ASSUME part = "storage" PROVE QuotaIInv'
  <2>1. QuotaIInv
    BY <1>2 DEF OrganizationIInv
  <2>2. Next \/ UNCHANGED vars
    BY <1>2 DEF OrganizationNext, organizationVars
  <2> QED BY <2>1, <2>2, QuotaNextKeeps, QuotaStutterKeeps
<1>3. ASSUME part = "turn" PROVE TurnIInv'
  <2>1. TurnIInv
    BY <1>3 DEF OrganizationIInv
  <2>2. T!Next \/ UNCHANGED T!turnVars
    BY <1>3 DEF OrganizationNext, organizationVars, turnVars, T!turnVars
  <2>3. CASE T!Next
    BY <2>1, <2>3, TurnNextKeeps, TurnAssumption
  <2>4. CASE UNCHANGED T!turnVars
    BY <2>1, <2>4, OutsideKeeps
  <2> QED BY <2>2, <2>3, <2>4
<1>4. ASSUME part = "access" PROVE AccessIInv'
  <2>1. AccessIInv
    BY <1>4 DEF OrganizationIInv
  <2>2. A!Next \/ UNCHANGED A!accessVars
    BY <1>4 DEF OrganizationNext, organizationVars, accessVars, A!accessVars
  <2> QED BY <2>1, <2>2, AccessNextKeeps, AccessStutterKeeps
<1>5. ASSUME part = "resources" PROVE ResourceIInv'
  <2>1. ResourceIInv
    BY <1>5 DEF OrganizationIInv
  <2>2. R!Next \/ UNCHANGED R!resourceVars
    BY <1>5 DEF OrganizationNext, organizationVars, resourceVars, R!resourceVars
  <2> QED BY <2>1, <2>2, ResourceNextKeeps, ResourceStutterKeeps
<1>6. ASSUME part = "installations" PROVE SkillIInv' /\ edits' \in 0..MaxEdits
  <2>1. SkillIInv /\ edits \in 0..MaxEdits
    BY <1>6 DEF OrganizationIInv
  <2>2. I!Next \/ UNCHANGED I!installationVars
    BY <1>6 DEF OrganizationNext, organizationVars, installationVars, I!installationVars
  <2>3. edits' \in 0..MaxEdits
    <3>1. edits' = edits \/ (edits < MaxEdits /\ edits' = edits + 1)
      BY <2>2 DEF I!Next, I!Edit, I!List, I!ReadFiles, I!Find, I!LockCurrent, I!InsertRow,
         I!CommitInstall, I!Revoke, I!RevokeRow, I!Resolve, I!Die, I!installationVars
    <3> QED BY <2>1, <3>1, StoreAssumption
  <2> QED BY <2>1, <2>2, <2>3, SkillNextKeeps, SkillStutterKeeps
<1>7. ASSUME part \in {"gateway", "mutations"} PROVE GatewayIInv'
  <2>1. GatewayIInv
    BY <1>7 DEF OrganizationIInv
  <2>2. G!CallNext \/ G!MutationNext \/ UNCHANGED G!gatewayVars
    BY <1>7 DEF OrganizationNext, organizationVars, gatewayVars, G!gatewayVars
  <2> QED BY <2>1, <2>2, GatewayNextKeeps DEF G!Next
<1> QED BY <1>1, <1>2, <1>3, <1>4, <1>5, <1>6, <1>7 DEF OrganizationIInv

LEMMA OrganizationInductive == OrganizationSpec => []OrganizationIInv
BY OrganizationInitIInv, OrganizationNextKeeps, PTL DEF OrganizationSpec

(* Every variable of the part that runs has the type its module gives it, for any   *)
(* number of writers, people, requests, documents and model calls.                  *)
THEOREM OrganizationTyped == OrganizationSpec => []OrganizationTypeOK
<1>1. OrganizationIInv => OrganizationTypeOK
  <2> SUFFICES ASSUME OrganizationIInv PROVE OrganizationTypeOK
    OBVIOUS
  <2>1. part = "installations" => I!TypeOK
    BY DEF OrganizationIInv, SkillIInv, SkillShaped, InstallRequest, I!TypeOK
  <2> QED
    BY <2>1, QuotaIInvAccount, GatewayTypes, TurnIInvHonest, AccessIInvEntry, ResourceIInvLinked
       DEF OrganizationIInv, OrganizationTypeOK
<1> QED BY <1>1, OrganizationInductive, PTL

(* However the uploads and derived writes of an organization overlap, fail and   *)
(* die, what is reserved stays within the quota; used and reserved bytes exceed  *)
(* it by no more than what slipped through a named gap; and a write that ended   *)
(* holds nothing back (packages/core reserveStorage, uploadResource).            *)
THEOREM AccountKeptHolds == OrganizationSpec => []AccountKept
<1>1. OrganizationIInv => AccountKept
  BY QuotaIInvAccount DEF OrganizationIInv, AccountKept
<1> QED BY <1>1, OrganizationInductive, PTL

(* Only one operation at a time decides about the organization's storage.        *)
THEOREM DecisionsExclusive ==
    Spec => []\A v, w \in Writers :
                  /\ op[v].pc \in {"reserved", "decide"}
                  /\ op[w].pc \in {"reserved", "decide"}
                  => v = w
<1>1. QuotaIInv => \A v, w \in Writers :
                  /\ op[v].pc \in {"reserved", "decide"}
                  /\ op[w].pc \in {"reserved", "decide"}
                  => v = w
  BY DEF QuotaIInv, LockHeld
<1>2. QuotaIInv /\ [Next]_vars => QuotaIInv'
  BY QuotaNextKeeps, QuotaStutterKeeps
<1> QED BY <1>1, <1>2, QuotaInitIInv, PTL DEF Spec

(* However model calls of any number of users overlap, are refused, aborted or die,  *)
(* each counter of a budget counts exactly the calls charged in its window and is     *)
(* never over its limit; a call pays all its counters before it is sent, and only to  *)
(* a provider its data may reach; and calls never wait for each other in a circle      *)
(* (packages/core createModelInvocationBudgetGuard, ModelGateway.invoke).              *)
THEOREM BudgetKeptHolds == OrganizationSpec => []BudgetKept
<1>1. OrganizationIInv => BudgetKept
  BY GatewayBudget, GatewayLocal, GatewayNoCycle DEF OrganizationIInv, BudgetKept
<1> QED BY <1>1, OrganizationInductive, PTL

(* A turn of any of the three loops, with any number of model calls: an answer is  *)
(* generated only by a call that succeeded and from evidence, the protocol's        *)
(* notices come in order and once, it asks four times at most, and after the        *)
(* bindings were revoked the session is told nothing more (packages/agent-runtime). *)
THEOREM TurnHonestHolds == OrganizationSpec => []TurnHonest
<1>1. OrganizationIInv => TurnHonest
  BY TurnIInvHonest DEF OrganizationIInv, TurnHonest
<1> QED BY <1>1, OrganizationInductive, PTL

(* For any number of requests, people, invitations and codes: an account is made     *)
(* once at most, by the one code or invitation that was used; the organization has  *)
(* its founder as only owner and the space the owner it was created with            *)
(* (packages/core acceptInvitation, trial signup, setOrganizationMemberRole).        *)
THEOREM AccessKeptHolds == OrganizationSpec => []AccessKept
<1>1. OrganizationIInv => AccessKept
  BY AccessIInvEntry DEF OrganizationIInv, AccessKept
<1> QED BY <1>1, OrganizationInductive, PTL

(* For any number of overlapping uploads, replacements and recompilations: the        *)
(* versions of a document are numbered without gaps, each row's blob is stored and   *)
(* holds its file, and two versions alike were raced (packages/core uploadResource). *)
THEOREM VersionsLinkedHolds == OrganizationSpec => []VersionsLinked
<1>1. OrganizationIInv => VersionsLinked
  BY ResourceIInvLinked DEF OrganizationIInv, VersionsLinked
<1> QED BY <1>1, OrganizationInductive, PTL

(* However installations, revocations and changes of the directory overlap, one      *)
(* installation of a skill is enabled at most, the last one inserted; a skill is      *)
(* executable only as its manifest said; and only what was pinned becomes visible.   *)
THEOREM OneEnabledHolds == OrganizationSpec => []OneEnabled
<1>1. OrganizationIInv => OneEnabled
  BY DEF OrganizationIInv, SkillIInv, OneEnabled
<1> QED BY <1>1, OrganizationInductive, PTL
=============================================================================
