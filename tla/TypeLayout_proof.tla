-------------------------- MODULE TypeLayout_proof ---------------------------
(***************************************************************************)
(* The invariants of TypeLayout for any types and signatures, and with     *)
(* fields defined at any time.  Type() caches what it has built, half-way  *)
(* through a call that throws too; the ffi_types that the types in use     *)
(* have cached are there with all that they lead to, so that an ffi_cif,   *)
(* old or new, never refers to memory that was collected.                  *)
(*                                                                         *)
(* Where types are WellDeclared, a signature once rejected stays so; and   *)
(* if fields are defined before their struct's first use, libffi lays out  *)
(* what it passes as C does.                                               *)
(***************************************************************************)
EXTENDS TypeLayout, TLAPS, FiniteSetTheorems, WellFoundedInduction

-----------------------------------------------------------------------------
(* Numbers.                                                                *)

\* Every non-empty set of numbers has a least element.
LEMMA Least ==
  ASSUME NEW T \in SUBSET Nat, T # {}
  PROVE  \E n \in T : \A m \in T : n <= m
<1> DEFINE R == {ss \in Nat \X Nat : ss[1] < ss[2]}
<1>1. OpToRel(<, Nat) = R
  BY Zenon DEF OpToRel
<1>2. IsWellFoundedOn(R, Nat)
  BY <1>1, NatLessThanWellFounded, Zenon
<1>3. \A x, y \in Nat : <<x, y>> \in R <=> x < y
  OBVIOUS
<1> HIDE DEF R
<1>4. PICK n \in T : \A m \in T : ~(<<m, n>> \in R)
  BY <1>2, WFMin, Zenon
<1>5. \A m \in T : ~(m < n)
  BY <1>3, <1>4
<1> QED
  BY <1>5

\* Induction, as a fact about sets.
LEMMA Induction ==
  ASSUME NEW S \in SUBSET Nat, 0 \in S, \A n \in S : n + 1 \in S
  PROVE  S = Nat
<1> DEFINE T == Nat \ S
<1> SUFFICES ASSUME T # {} PROVE FALSE
  OBVIOUS
<1>1. PICK n \in T : \A m \in T : n <= m
  BY Least
<1>2. n # 0 /\ n - 1 \in Nat /\ ~(n <= n - 1) /\ (n - 1) + 1 = n
  OBVIOUS
<1>3. n - 1 \in S
  BY <1>1, <1>2
<1> QED
  BY <1>2, <1>3

-----------------------------------------------------------------------------
(* What recursion computes.                                                *)

\* Reach goes one edge further for every node there is.
LEMMA ReachDef ==
  ASSUME NEW edges, Cardinality(DOMAIN edges) \in Nat, NEW S
  PROVE  \E reach :
           /\ reach[0] = S
           /\ \A n \in 1..Cardinality(DOMAIN edges) :
                reach[n] = reach[n - 1] \union UNION {edges[v] : v \in reach[n - 1]}
           /\ Reach(edges, S) = reach[Cardinality(DOMAIN edges)]
<1> DEFINE Onward(T) == T \union UNION {edges[v] : v \in T}
           N == Cardinality(DOMAIN edges)
           Solves(f, k) == f = [n \in 0..k |-> IF n = 0 THEN S ELSE Onward(f[n - 1])]
           K == {k \in Nat : \E f : Solves(f, k)}
<1>1. 0 \in K
  <2> DEFINE f == [n \in 0..0 |-> S]
  <2>1. Solves(f, 0)
    OBVIOUS
  <2> QED
    BY <2>1
<1>2. ASSUME NEW k \in K PROVE k + 1 \in K
  <2> HIDE DEF Onward
  <2>1. PICK f : Solves(f, k)
    OBVIOUS
  <2> DEFINE g == [n \in 0..(k + 1) |-> IF n = 0 THEN S ELSE Onward(f[n - 1])]
  <2>2. \A n \in 0..k : g[n] = f[n]
    BY <2>1, SMTT(30)
  <2>3. \A n \in 0..(k + 1) : n # 0 => g[n - 1] = f[n - 1]
    <3>1. \A n \in 0..(k + 1) : n # 0 => n - 1 \in 0..k
      OBVIOUS
    <3> HIDE DEF g
    <3> QED
      BY <2>2, <3>1
  <2>4. g = [n \in 0..(k + 1) |-> IF n = 0 THEN S ELSE Onward(g[n - 1])]
    BY <2>3
  <2>5. Solves(g, k + 1)
    BY <2>4, Zenon
  <2>6. k + 1 \in Nat
    OBVIOUS
  <2> HIDE DEF g, Solves
  <2> QED
    BY <2>5, <2>6
<1>3. K = Nat
  BY <1>1, <1>2, Induction
<1>4. N \in K
  BY <1>3, Zenon
<1>5. \E f : Solves(f, N)
  BY <1>4
<1> DEFINE reach == CHOOSE f : Solves(f, N)
<1>6. Solves(reach, N)
  BY <1>5, Zenon
<1>7. Reach(edges, S) = reach[N]
  BY Zenon DEF Reach
<1> HIDE DEF reach, Onward
<1>8. reach[0] = S /\ \A n \in 1..N : reach[n] = Onward(reach[n - 1])
  BY <1>6
<1> QED
  BY <1>7, <1>8, Zenon DEF Onward

\* A set that holds S and is closed holds all that S leads to.
LEMMA ReachLeast ==
  ASSUME NEW edges, Cardinality(DOMAIN edges) \in Nat, NEW S, NEW C, S \subseteq C,
         \A v \in C : edges[v] \subseteq C
  PROVE  Reach(edges, S) \subseteq C
<1>1. PICK reach :
        /\ reach[0] = S
        /\ \A n \in 1..Cardinality(DOMAIN edges) :
             reach[n] = reach[n - 1] \union UNION {edges[v] : v \in reach[n - 1]}
        /\ Reach(edges, S) = reach[Cardinality(DOMAIN edges)]
  BY ReachDef
<1> DEFINE N == Cardinality(DOMAIN edges)
           K == {n \in Nat : n <= N => reach[n] \subseteq C}
<1>2. 0 \in K
  BY <1>1
<1>3. ASSUME NEW n \in K PROVE n + 1 \in K
  <2> SUFFICES ASSUME n + 1 <= N PROVE reach[n + 1] \subseteq C
    OBVIOUS
  <2>1. n + 1 \in 1..N /\ (n + 1) - 1 = n /\ reach[n] \subseteq C
    OBVIOUS
  <2>2. reach[n + 1] = reach[n] \union UNION {edges[v] : v \in reach[n]}
    BY <1>1, <2>1
  <2> QED
    BY <2>1, <2>2
<1>4. K = Nat
  BY <1>2, <1>3, Induction
<1>5. N \in K
  BY <1>4, Zenon
<1> QED
  BY <1>1, <1>5

\* It holds S itself, and is closed.
LEMMA ReachClosed ==
  ASSUME NEW edges, IsFiniteSet(DOMAIN edges),
         \A v \in DOMAIN edges : edges[v] \subseteq DOMAIN edges,
         NEW S \in SUBSET DOMAIN edges
  PROVE  /\ S \subseteq Reach(edges, S) /\ Reach(edges, S) \subseteq DOMAIN edges
         /\ \A v \in Reach(edges, S) : edges[v] \subseteq Reach(edges, S)
<1> DEFINE N == Cardinality(DOMAIN edges)
           Closed(T) == \A v \in T : edges[v] \subseteq T
<1>1. N \in Nat
  BY FS_CardinalityType
<1>2. PICK reach :
        /\ reach[0] = S
        /\ \A n \in 1..N :
             reach[n] = reach[n - 1] \union UNION {edges[v] : v \in reach[n - 1]}
        /\ Reach(edges, S) = reach[N]
  BY <1>1, ReachDef
<1> DEFINE P(T, n) == /\ S \subseteq T /\ T \subseteq DOMAIN edges
                      /\ Closed(T) \/ Cardinality(T) >= n
           K == {n \in Nat : n <= N => P(reach[n], n)}
<1>3. 0 \in K
  <2>1. Cardinality(S) \in Nat
    BY FS_Subset, FS_CardinalityType
  <2> QED
    BY <1>2, <2>1
<1>4. ASSUME NEW n \in K PROVE n + 1 \in K
  <2>0. n \in Nat /\ (n <= N => P(reach[n], n))
    BY Zenon
  <2> SUFFICES ASSUME n + 1 <= N PROVE P(reach[n + 1], n + 1)
    BY <2>0
  <2> DEFINE T == reach[n]
             U == T \union UNION {edges[v] : v \in T}
  <2>1. n \in Nat /\ n + 1 \in 1..N /\ (n + 1) - 1 = n /\ P(T, n)
    <3> HIDE DEF P, K
    <3> QED
      BY <1>1, <2>0
  <2>2. reach[n + 1] = U
    BY <1>2, <2>1
  <2> HIDE DEF T, Closed, K
  <2>3. S \subseteq U /\ T \subseteq U /\ U \subseteq DOMAIN edges
    BY <2>1
  <2>4. Closed(T) => U = T
    BY DEF Closed
  <2>5. U = T => Closed(T)
    BY DEF Closed
  <2> HIDE DEF U
  <2>6. Closed(U) \/ Cardinality(U) >= n + 1
    <3>1. CASE U = T
      BY <2>5, <3>1
    <3>2. CASE U # T
      <4>1. IsFiniteSet(U) /\ IsFiniteSet(T)
        BY <2>3, FS_Subset
      <4>2. /\ Cardinality(T) < Cardinality(U)
            /\ Cardinality(T) \in Nat /\ Cardinality(U) \in Nat
        <5>1. Cardinality(T) <= Cardinality(U) /\ (Cardinality(T) = Cardinality(U) => T = U)
          BY <2>3, <4>1, FS_Subset
        <5>2. Cardinality(T) \in Nat /\ Cardinality(U) \in Nat
          BY <4>1, FS_CardinalityType
        <5> QED
          BY <3>2, <5>1, <5>2
      <4>3. Cardinality(T) >= n
        BY <2>1, <2>4, <3>2
      <4> QED
        BY <2>1, <4>2, <4>3
    <3> QED
      BY <3>1, <3>2
  <2> QED
    BY <2>2, <2>3, <2>6
<1> HIDE DEF P
<1>5. K = Nat
  BY <1>3, <1>4, Induction
<1>6. N \in K
  BY <1>1, <1>5, Zenon
<1>7. P(reach[N], N)
  BY <1>6
<1>8. Closed(reach[N])
  <2> DEFINE T == reach[N]
  <2>1. T \subseteq DOMAIN edges /\ (Closed(T) \/ Cardinality(T) >= N)
    BY <1>7 DEF P
  <2>2. CASE Cardinality(T) >= N
    <3>1. T = DOMAIN edges
      <4> HIDE DEF T
      <4>1. IsFiniteSet(T)
        BY <2>1, FS_Subset
      <4>2. /\ Cardinality(T) \in Nat /\ Cardinality(T) <= N
            /\ Cardinality(T) = N => T = DOMAIN edges
        BY <2>1, <4>1, FS_Subset, FS_CardinalityType
      <4> QED
        BY <1>1, <2>2, <4>2
    <3> QED
      BY <3>1
  <2> QED
    BY <2>1, <2>2
<1> QED
  BY <1>2, <1>7, <1>8 DEF P

\* Calls of Type() are made with one place less on the stack.
LEMMA TypeWithinDef ==
  \A n \in 0..Nesting : TypeWithin[n] =
    [s \in Calls |-> [t \in Types |->
       LET set == Property(s.own, t) IN
       IF n = 0 THEN Asserts(s)
       ELSE IF set # "undefined" THEN Returns(s, set)
       ELSE NewType(TypeWithin[n - 1], s, t)]]
<1> DEFINE Last == [s \in Calls |-> [t \in Types |-> Asserts(s)]]
           More(call) == [s \in Calls |-> [t \in Types |->
                            LET set == Property(s.own, t) IN
                            IF set # "undefined" THEN Returns(s, set)
                            ELSE NewType(call, s, t)]]
           Body(f, n) == [s \in Calls |-> [t \in Types |->
                            LET set == Property(s.own, t) IN
                            IF n = 0 THEN Asserts(s)
                            ELSE IF set # "undefined" THEN Returns(s, set)
                            ELSE NewType(f[n - 1], s, t)]]
           Solves(f, k) == f = [n \in 0..k |-> Body(f, n)]
           K == {k \in Nat : \E f : Solves(f, k)}
<1>0. Nesting \in Nat
  <2>1. IsFiniteSet(Structs)
    BY KindAssumption, FS_Subset DEF Structs
  <2> QED
    BY <2>1, FS_CardinalityType DEF Nesting
<1>1. \A f, n : Body(f, n) = IF n = 0 THEN Last ELSE More(f[n - 1])
  OBVIOUS
<1> HIDE DEF Body, Last, More
<1>2. 0 \in K
  <2> DEFINE f == [n \in 0..0 |-> Last]
  <2>1. f = [n \in 0..0 |-> Body(f, n)]
    BY <1>1
  <2>2. Solves(f, 0)
    BY <2>1, Zenon
  <2> HIDE DEF f, Solves
  <2> QED
    BY <2>2
<1>3. ASSUME NEW k \in K PROVE k + 1 \in K
  <2>0. k \in Nat
    BY Zenon
  <2>1. PICK f : Solves(f, k)
    BY Zenon
  <2> HIDE DEF K
  <2> DEFINE g == [n \in 0..(k + 1) |-> IF n = 0 THEN Last ELSE More(f[n - 1])]
  <2>2. \A n \in 0..k : g[n] = f[n]
    <3>1. \A n \in 0..k : f[n] = Body(f, n)
      BY <2>1
    <3>2. \A n \in 0..k : f[n] = IF n = 0 THEN Last ELSE More(f[n - 1])
      BY <1>1, <3>1
    <3> QED
      BY <2>0, <3>2
  <2>3. \A n \in 0..(k + 1) : n # 0 => g[n - 1] = f[n - 1]
    <3>1. \A n \in 0..(k + 1) : n # 0 => n - 1 \in 0..k
      BY <2>0
    <3> HIDE DEF g
    <3> QED
      BY <2>2, <3>1
  <2>4. \A n \in 0..(k + 1) : Body(g, n) = IF n = 0 THEN Last ELSE More(f[n - 1])
    <3> HIDE DEF g
    <3> QED
      BY <1>1, <2>3
  <2>5. g = [n \in 0..(k + 1) |-> Body(g, n)]
    BY <2>4
  <2>6. Solves(g, k + 1)
    BY <2>5, Zenon
  <2>7. k + 1 \in Nat
    BY <2>0
  <2> HIDE DEF g, Solves
  <2> QED
    BY <2>6, <2>7 DEF K
<1>4. K = Nat
  BY <1>2, <1>3, Induction
<1>5. Nesting \in K
  BY <1>0, <1>4, Zenon
<1>6. \E f : Solves(f, Nesting)
  BY <1>5
<1>7. Solves(TypeWithin, Nesting)
  BY <1>6, Zenon DEF TypeWithin, Body
<1>8. \A n \in 0..Nesting : TypeWithin[n] = Body(TypeWithin, n)
  <2> HIDE DEF K
  <2> QED
    BY <1>7
<1> QED
  BY <1>8, Zenon DEF Body

\* TypeOfEach goes through its types one by one.
LEMMA TypeOfEachDef ==
  ASSUME NEW call, NEW s, NEW ts \in Seq(Types)
  PROVE  \E each : /\ each[0] = s
                   /\ \A i \in 1..Len(ts) : each[i] = Then(call, each[i - 1], ts[i])
                   /\ TypeOfEach(call, s, ts) = each[Len(ts)]
<1> DEFINE Solves(f, k) ==
             f = [i \in 0..k |-> IF i = 0 THEN s ELSE Then(call, f[i - 1], ts[i])]
           K == {k \in Nat : \E f : Solves(f, k)}
<1>1. 0 \in K
  <2> DEFINE f == [i \in 0..0 |-> s]
  <2>1. Solves(f, 0)
    OBVIOUS
  <2> QED
    BY <2>1
<1>2. ASSUME NEW k \in K PROVE k + 1 \in K
  <2>1. PICK f : Solves(f, k)
    OBVIOUS
  <2> DEFINE g == [i \in 0..(k + 1) |-> IF i = 0 THEN s ELSE Then(call, f[i - 1], ts[i])]
  <2>2. \A i \in 0..k : g[i] = f[i]
    BY <2>1, SMTT(30)
  <2>3. \A i \in 0..(k + 1) : i # 0 => g[i - 1] = f[i - 1]
    <3>1. \A i \in 0..(k + 1) : i # 0 => i - 1 \in 0..k
      OBVIOUS
    <3> HIDE DEF g
    <3> QED
      BY <2>2, <3>1
  <2>4. g = [i \in 0..(k + 1) |-> IF i = 0 THEN s ELSE Then(call, g[i - 1], ts[i])]
    BY <2>3
  <2>5. Solves(g, k + 1)
    BY <2>4, Zenon
  <2>6. k + 1 \in Nat
    OBVIOUS
  <2> HIDE DEF g, Solves
  <2> QED
    BY <2>5, <2>6
<1>3. K = Nat
  BY <1>1, <1>2, Induction
<1>4. \E f : Solves(f, Len(ts))
  <2>1. Len(ts) \in Nat
    OBVIOUS
  <2>2. Len(ts) \in K
    BY <1>3, <2>1, Zenon
  <2> QED
    BY <2>2
<1> DEFINE each == CHOOSE f : Solves(f, Len(ts))
<1>5. Solves(each, Len(ts))
  BY <1>4, Zenon
<1>6. TypeOfEach(call, s, ts) = each[Len(ts)]
  BY Zenon DEF TypeOfEach
<1> HIDE DEF each
<1>7. each[0] = s /\ \A i \in 1..Len(ts) : each[i] = Then(call, each[i - 1], ts[i])
  BY <1>5
<1> QED
  BY <1>6, <1>7, Zenon

\* A field is as many elements as it counts for.
Counts(f) == IF Fixed(f) THEN LenOf[f] ELSE 1

LEMMA ElementsDef ==
  ASSUME NEW fs \in Seq(Types), NEW ffiTypes
  PROVE  \E all : /\ all[0] = <<>>
                  /\ \A i \in 1..Len(fs) :
                       all[i] = all[i - 1] \o [j \in 1..Counts(fs[i]) |-> ffiTypes[i]]
                  /\ Elements(fs, ffiTypes) = all[Len(fs)]
<1> DEFINE More(x, i) == x \o [j \in 1..(IF Fixed(fs[i]) THEN LenOf[fs[i]] ELSE 1) |->
                                  ffiTypes[i]]
           Solves(f, k) ==
             f = [i \in 0..k |-> IF i = 0 THEN <<>> ELSE More(f[i - 1], i)]
           K == {k \in Nat : \E f : Solves(f, k)}
<1>1. 0 \in K
  <2> DEFINE f == [i \in 0..0 |-> <<>>]
  <2>1. Solves(f, 0)
    OBVIOUS
  <2> QED
    BY <2>1
<1>2. ASSUME NEW k \in K PROVE k + 1 \in K
  <2> HIDE DEF More
  <2>1. PICK f : Solves(f, k)
    OBVIOUS
  <2> DEFINE g == [i \in 0..(k + 1) |-> IF i = 0 THEN <<>> ELSE More(f[i - 1], i)]
  <2>2. \A i \in 0..k : g[i] = f[i]
    BY <2>1, SMTT(30)
  <2>3. \A i \in 0..(k + 1) : i # 0 => g[i - 1] = f[i - 1]
    <3>1. \A i \in 0..(k + 1) : i # 0 => i - 1 \in 0..k
      OBVIOUS
    <3> HIDE DEF g
    <3> QED
      BY <2>2, <3>1
  <2>4. g = [i \in 0..(k + 1) |-> IF i = 0 THEN <<>> ELSE More(g[i - 1], i)]
    BY <2>3
  <2>5. Solves(g, k + 1)
    BY <2>4, Zenon
  <2>6. k + 1 \in Nat
    OBVIOUS
  <2> HIDE DEF g, Solves
  <2> QED
    BY <2>5, <2>6
<1>3. K = Nat
  BY <1>1, <1>2, Induction
<1>4. \E f : Solves(f, Len(fs))
  <2>1. Len(fs) \in Nat
    OBVIOUS
  <2>2. Len(fs) \in K
    BY <1>3, <2>1, Zenon
  <2> QED
    BY <2>2
<1> DEFINE all == CHOOSE f : Solves(f, Len(fs))
<1>5. Solves(all, Len(fs))
  BY <1>4, Zenon
<1>6. Elements(fs, ffiTypes) = all[Len(fs)]
  BY Zenon DEF Elements
<1>7. all[0] = <<>> /\ \A i \in 1..Len(fs) : all[i] = More(all[i - 1], i)
  <2> HIDE DEF all, More
  <2> QED
    BY <1>5
<1> HIDE DEF all
<1> QED
  BY <1>6, <1>7, Zenon DEF Counts

-----------------------------------------------------------------------------
(* What Type() does to the types.                                          *)

\* An element is the ffi_type of a field, or of the elements of one.
Direct(u, e) == \E i \in 1..defined[u] : Member(Declared[u][i]) = e

\* Only a struct has an ffi_type built for it, its own, and elements with it.
Typed(owns, elems) ==
  /\ \A t \in Structs : /\ owns[t] \in {t, "unset"}
                        /\ owns[t] = "unset" => elems[t] = <<>>
  /\ \A t \in Types \ Structs : owns[t] \notin Structs

\* The structs among the elements have their own ffi_types.
Built(owns, elems) ==
  \A u \in Structs : owns[u] = u =>
    \A e \in Range(elems[u]) \intersect Structs : owns[e] = e /\ Direct(u, e)

\* A scalar's own ffi_type has its size, if the types inherit their sizes.
Fits(t, p) == SizeInC[NameOf[t]] # 0 => FFI_TYPES[p] = SizeInC[NameOf[t]]

Fitting(owns) ==
  InheritsItsWidth =>
    \A t \in Scalars : owns[t] \in {"unset", "undefined"} \/ Fits(t, owns[t])

\* What holds whenever Type() is called, and when it returns or throws.
Fine(s) == /\ s \in Calls
           /\ Typed(s.own, s.elements) /\ Built(s.own, s.elements)
           /\ Fitting(s.own)

\* What is cached stays.
Grown(s, r) ==
  \A u \in Structs : s.own[u] # "unset" =>
    r.own[u] = s.own[u] /\ r.elements[u] = s.elements[u]

\* A struct's ffi_type is its own, and a scalar's has its size.
Stands(p, t, owns) ==
  /\ p \in FfiTypes
  /\ p \in Structs => p = t /\ owns[p] = p
  /\ InheritsItsWidth /\ t \in Scalars => Fits(t, p)

\* A call of Type(t) in state s that comes back in state r.
Back(s, t, r) ==
  /\ Fine(r) /\ Grown(s, r)
  /\ ~r.threw => \E p \in FfiTypes : r.got = Append(s.got, p) /\ Stands(p, t, r.own)

LEMMA Names ==
  /\ DOMAIN FFI_TYPES = {"void", "char", "uint8", "int", "uint32", "int32", "uint64",
                         "int64", "longlong", "ulonglong", "double", "pointer"}
  /\ Structs \subseteq Types /\ Scalars \subseteq Types /\ Arrays \subseteq Types
  /\ \A t \in Types : t # "unset" /\ t # "undefined" /\ t \notin DOMAIN FFI_TYPES
  /\ "pointer" \in FfiTypes /\ "pointer" \notin Structs
  /\ "unset" \notin FfiTypes /\ "undefined" \notin FfiTypes
<1>1. DOMAIN FFI_TYPES = {"void", "char", "uint8", "int", "uint32", "int32", "uint64",
                         "int64", "longlong", "ulonglong", "double", "pointer"}
  BY DEF FFI_TYPES
<1>2. Structs \subseteq Types /\ Scalars \subseteq Types /\ Arrays \subseteq Types
  BY DEF Structs, Scalars, Arrays
<1>3. \A t \in Types : t # "unset" /\ t # "undefined" /\ t \notin DOMAIN FFI_TYPES
  BY KindAssumption
<1> QED
  BY <1>1, <1>2, <1>3 DEF FfiTypes

\* A scalar's prototypes are scalars.
LEMMA ChainOf ==
  ASSUME NEW t \in Scalars
  PROVE  /\ DOMAIN Chain[t] = 1..Len(Chain[t]) /\ Len(Chain[t]) \in Nat
         /\ \A n \in DOMAIN Chain[t] : Chain[t][n] \in Scalars
BY ScalarAssumption

LEMMA FirstIn ==
  ASSUME NEW N \in SUBSET Nat, N # {}
  PROVE  First(N) \in N
<1>1. \E n \in N : \A m \in N : n <= m
  BY Least
<1> QED
  BY <1>1, Zenon DEF First

\* An ffi_type that is set already is returned.
LEMMA PropertyStands ==
  ASSUME NEW s, Fine(s), NEW t \in Types, Property(s.own, t) # "undefined"
  PROVE  Stands(Property(s.own, t), t, s.own)
<1> DEFINE set == {n \in DOMAIN Chain[t] : s.own[Chain[t][n]] # "unset"}
           p == Property(s.own, t)
<1>1. s.own \in [Types -> OwnProperties] /\ Typed(s.own, s.elements)
  BY DEF Fine, Calls
<1>2. CASE Kind[t] \in {"pointer", "function"}
  <2>1. p = "pointer" /\ t \notin Scalars
    BY <1>2 DEF Property, Scalars
  <2> QED
    BY <2>1, Names DEF Stands
<1>3. CASE t \in Scalars /\ set # {}
  <2>0. set \subseteq Nat
    BY <1>3, ChainOf
  <2>1. First(set) \in set
    <3> HIDE DEF set
    <3> QED
      BY <1>3, <2>0, FirstIn
  <2> DEFINE c == Chain[t][First(set)]
  <2>2. c \in Scalars /\ s.own[c] # "unset"
    BY <1>3, <2>1, ChainOf
  <2>3. p = s.own[c]
    BY <1>3 DEF Property, Scalars
  <2> HIDE DEF c, p, set
  <2>4. c \in Types \ Structs
    BY <2>2 DEF Scalars, Structs
  <2>5. p \in FfiTypes \ Structs
    BY <1>1, <2>2, <2>3, <2>4 DEF Typed, OwnProperties, p
  <2>6. InheritsItsWidth => Fits(t, p)
    <3> SUFFICES ASSUME InheritsItsWidth PROVE Fits(t, p)
      OBVIOUS
    <3>1. Fits(c, p)
      BY <2>2, <2>3, <2>5, Names DEF Fine, Fitting
    <3>2. SizeInC[NameOf[t]] # 0 => SizeInC[NameOf[c]] = SizeInC[NameOf[t]]
      <4>1. c \in Range(Chain[t])
        BY <2>1 DEF c, set, Range
      <4> QED
        BY <1>3, <4>1 DEF InheritsItsWidth
    <3> QED
      BY <3>1, <3>2 DEF Fits
  <2> QED
    BY <2>5, <2>6 DEF Stands, p
<1>4. CASE Kind[t] \in {"array", "struct"} /\ s.own[t] # "unset"
  <2>1. p = s.own[t] /\ t \notin Scalars
    BY <1>4 DEF Property, Scalars
  <2> HIDE DEF p
  <2> QED
    BY <1>1, <1>4, <2>1 DEF Stands, Typed, OwnProperties, p
<1>5. CASE /\ Kind[t] \notin {"pointer", "function"}
           /\ ~(t \in Scalars /\ set # {})
           /\ ~(Kind[t] \in {"array", "struct"} /\ s.own[t] # "unset")
  <2>1. p = "undefined"
    BY <1>5 DEF Property
  <2> QED
    BY <2>1
<1> QED
  BY <1>2, <1>3, <1>4, <1>5

\* Only properties of scalars change.
LEMMA ScalarsChange ==
  ASSUME NEW s, Fine(s), NEW r, r \in Calls, r.elements = s.elements,
         \A u \in Structs : r.own[u] = s.own[u],
         \A u \in Types \ Structs : r.own[u] \notin Structs,
         Fitting(r.own)
  PROVE  Fine(r) /\ Grown(s, r)
<1>1. Structs \subseteq Types
  BY DEF Structs
<1>2. Typed(r.own, r.elements)
  BY DEF Fine, Typed
<1>3. Built(r.own, r.elements)
  BY DEF Fine, Built
<1> QED
  BY <1>2, <1>3 DEF Fine, Grown

\* A result that is no struct's.
LEMMA ReturnsBack ==
  ASSUME NEW s, Fine(s), NEW t \in Types, NEW p, Stands(p, t, s.own)
  PROVE  Back(s, t, Returns(s, p)) /\ Returns(s, p).threw = s.threw
<1> DEFINE r == Returns(s, p)
<1>1. s \in Calls /\ p \in FfiTypes
  BY DEF Fine, Stands
<1>2. /\ r \in Calls /\ r.own = s.own /\ r.elements = s.elements /\ r.threw = s.threw
      /\ r.got = Append(s.got, p)
  <2> DEFINE g == Append(s.got, p)
  <2>1. g \in Seq(FfiTypes)
    BY <1>1 DEF Calls
  <2>2. r = [s EXCEPT !.got = g]
    BY <1>1 DEF Returns, Calls
  <2> HIDE DEF g
  <2>3. /\ r \in Calls /\ r.own = s.own /\ r.elements = s.elements /\ r.got = g
        /\ r.threw = s.threw
    BY <1>1, <2>1, <2>2 DEF Calls
  <2> QED
    BY <2>3 DEF g
<1> HIDE DEF r
<1>3. Fine(r) /\ Grown(s, r)
  BY <1>2 DEF Fine, Grown
<1> QED
  BY <1>1, <1>2, <1>3 DEF Back, r

\* The assertion at the end of Type().
LEMMA AssertsBack ==
  ASSUME NEW s, Fine(s), NEW t \in Types
  PROVE  Back(s, t, Asserts(s))
<1> DEFINE r == Asserts(s)
<1>1. s \in Calls
  BY DEF Fine
<1>2. r \in Calls /\ r.own = s.own /\ r.elements = s.elements /\ r.threw
  BY <1>1 DEF Asserts, Calls
<1> HIDE DEF r
<1>3. Fine(r) /\ Grown(s, r)
  BY <1>2 DEF Fine, Grown
<1> QED
  BY <1>2, <1>3 DEF Back, r

\* FFI_TYPES[type.name] has the size of the type.
LEMMA EntryFits ==
  ASSUME InheritsItsWidth, NEW t \in Scalars, Entry(t) # "undefined"
  PROVE  Fits(t, Entry(t))
<1> DEFINE n == NameOf[t]
<1>1. n \in DOMAIN FFI_TYPES /\ n \in DOMAIN SizeInC /\ Entry(t) = n
      /\ (n = "longlong" => LongSize = 8)
  BY DEF Entry, InheritsItsWidth
<1> HIDE DEF n
<1>2. SizeInC[n] # 0 => FFI_TYPES[n] = SizeInC[n]
  BY <1>1 DEF SizeInC, FFI_TYPES, PointerSize
<1> QED
  BY <1>1, <1>2 DEF Fits, n

LEMMA CStringFits ==
  ASSUME NEW t \in Scalars, NameOf[t] = "CString"
  PROVE  Fits(t, "pointer")
BY DEF Fits, SizeInC, FFI_TYPES, PointerSize

\* The loop up the prototypes.
LEMMA NamedBack ==
  ASSUME NEW s, Fine(s), NEW t \in Scalars
  PROVE  /\ Back(s, t, NamedType(s, t))
         /\ InheritsItsWidth /\ SizeInC[NameOf[t]] # 0 =>
              NamedType(s, t).threw = s.threw
<1> DEFINE named == {n \in DOMAIN Chain[t] : Entry(Chain[t][n]) # "undefined"}
           visited == {Chain[t][n] : n \in {m \in DOMAIN Chain[t] :
                                              \A k \in named : m <= k}}
           owns == [c \in Types |-> IF c \in visited THEN Entry(c) ELSE s.own[c]]
           r == [s EXCEPT !.own = owns]
           q == [s EXCEPT !.own[t] = "pointer"]
<1>1. s \in Calls /\ t \in Types /\ t \notin Structs
  BY DEF Fine, Scalars, Structs
<1>2. \A c : Entry(c) \in OwnProperties /\ Entry(c) \notin Structs
              /\ (Entry(c) # "undefined" => Entry(c) \in FfiTypes)
  BY Names DEF Entry, OwnProperties, FfiTypes
<1>3. CASE NameOf[t] = "CString"
  <2>1. /\ q \in Calls /\ q.elements = s.elements
        /\ \A u \in Types : q.own[u] = IF u = t THEN "pointer" ELSE s.own[u]
    BY <1>1, Names DEF Calls, OwnProperties
  <2> HIDE DEF q
  <2>2. /\ \A u \in Structs : q.own[u] = s.own[u]
        /\ \A u \in Types \ Structs : q.own[u] \notin Structs
    BY <1>1, <2>1, Names DEF Fine, Typed
  <2>8. Fitting(q.own)
    <3>1. \A u \in Scalars : u \in Types
      BY Names
    <3> QED
      BY <1>3, <2>1, <3>1, CStringFits DEF Fine, Fitting
  <2>3. Fine(q) /\ Grown(s, q)
    BY <2>1, <2>2, <2>8, ScalarsChange
  <2>4. Stands("pointer", t, q.own)
    BY <1>3, CStringFits, Names DEF Stands
  <2>5. Back(q, t, Returns(q, "pointer")) /\ Returns(q, "pointer").threw = q.threw
    BY <1>1, <2>3, <2>4, ReturnsBack
  <2>6. q.got = s.got /\ q.threw = s.threw
    BY <1>1 DEF q, Calls
  <2>7. NamedType(s, t) = Returns(q, "pointer")
    BY <1>3 DEF NamedType, q
  <2> QED
    BY <2>3, <2>5, <2>6, <2>7 DEF Back, Grown
<1>4. CASE NameOf[t] # "CString"
  <2>1. visited \subseteq Scalars
    BY ChainOf
  <2> HIDE DEF visited, named
  <2>2. owns \in [Types -> OwnProperties]
    BY <1>1, <1>2 DEF Calls
  <2>3. /\ \A u \in Structs : owns[u] = s.own[u]
        /\ \A u \in Types \ Structs : owns[u] \notin Structs
    BY <1>2, <2>1 DEF Fine, Typed, Structs, Scalars
  <2>8. Fitting(owns)
    <3> SUFFICES ASSUME InheritsItsWidth, NEW u \in Scalars
                 PROVE  owns[u] \in {"unset", "undefined"} \/ Fits(u, owns[u])
      BY DEF Fitting
    <3>1. owns[u] = IF u \in visited THEN Entry(u) ELSE s.own[u]
      BY Names
    <3> QED
      BY <3>1, EntryFits DEF Fine, Fitting
  <2> HIDE DEF owns
  <2>4. r \in Calls /\ r.elements = s.elements /\ r.own = owns /\ r.got = s.got
        /\ r.threw = s.threw
    BY <1>1, <2>2 DEF Calls
  <2> HIDE DEF r
  <2>5. Fine(r) /\ Grown(s, r)
    BY <2>3, <2>4, <2>8, ScalarsChange
  <2>6. CASE named = {}
    <3>1. NamedType(s, t) = Asserts(r)
      BY <1>4, <2>6 DEF NamedType, r, owns, named, visited
    <3>2. Back(r, t, Asserts(r))
      BY <1>1, <2>5, AssertsBack
    <3>3. ~(InheritsItsWidth /\ SizeInC[NameOf[t]] # 0)
      BY <1>4, <2>6 DEF InheritsItsWidth, named, Range
    <3> QED
      BY <2>4, <2>5, <3>1, <3>2, <3>3 DEF Back, Grown
  <2>7. CASE named # {}
    <3> DEFINE p == Entry(Chain[t][First(named)])
    <3>1. NamedType(s, t) = Returns(r, p)
      BY <1>4, <2>7 DEF NamedType, r, owns, named, visited
    <3>0. named \subseteq Nat
      BY ChainOf DEF named
    <3>2. First(named) \in named
      BY <2>7, <3>0, FirstIn
    <3>3. p # "undefined"
      BY <3>2 DEF named
    <3>6. InheritsItsWidth => Fits(t, p)
      <4> SUFFICES ASSUME InheritsItsWidth PROVE Fits(t, p)
        OBVIOUS
      <4> DEFINE c == Chain[t][First(named)]
      <4>1. c \in Scalars /\ c \in Range(Chain[t])
        BY <3>2, ChainOf DEF named, Range
      <4> HIDE DEF c
      <4>2. Fits(c, p)
        BY <3>3, <4>1, EntryFits DEF c
      <4> HIDE DEF p
      <4> QED
        BY <4>1, <4>2 DEF Fits, InheritsItsWidth
    <3>4. Stands(p, t, r.own)
      BY <1>2, <3>3, <3>6 DEF Stands
    <3> HIDE DEF p
    <3>5. Back(r, t, Returns(r, p)) /\ Returns(r, p).threw = r.threw
      BY <1>1, <2>5, <3>4, ReturnsBack
    <3> QED
      BY <2>4, <2>5, <3>1, <3>5 DEF Back, Grown
  <2> QED
    BY <2>6, <2>7
<1> QED
  BY <1>3, <1>4

\* What has been cached by one call is there for the next.
LEMMA GrownOn ==
  ASSUME NEW s, NEW r, NEW q, Grown(s, r), Grown(r, q)
  PROVE  Grown(s, q)
BY DEF Grown

LEMMA StandsOn ==
  ASSUME NEW s, NEW r, Grown(s, r), NEW p, NEW t, Stands(p, t, s.own)
  PROVE  Stands(p, t, r.own)
<1>1. CASE p \in Structs
  <2>1. s.own[p] = p /\ p # "unset"
    BY <1>1, Names DEF Stands
  <2> QED
    BY <1>1, <2>1 DEF Grown, Stands
<1>2. CASE p \notin Structs
  BY <1>2 DEF Stands
<1> QED
  BY <1>1, <1>2

\* A function that may stand for Type().
Calling(call) ==
  \A s : Fine(s) => \A t \in Types : Back(s, t, call[s][t])

\* Calls of Type() one after the other, up to one that throws.
LEMMA EachBack ==
  ASSUME NEW call, Calling(call), NEW s, Fine(s), s.got = <<>>, NEW ts \in Seq(Types)
  PROVE  LET r == TypeOfEach(call, s, ts) IN
         /\ Fine(r) /\ Grown(s, r)
         /\ ~r.threw => /\ Len(r.got) = Len(ts)
                        /\ \A i \in 1..Len(ts) : Stands(r.got[i], ts[i], r.own)
<1>1. PICK each : /\ each[0] = s
                  /\ \A i \in 1..Len(ts) : each[i] = Then(call, each[i - 1], ts[i])
                  /\ TypeOfEach(call, s, ts) = each[Len(ts)]
  BY TypeOfEachDef
<1> DEFINE P(r, n) == /\ Fine(r) /\ Grown(s, r)
                      /\ ~r.threw => /\ Len(r.got) = n
                                     /\ \A i \in 1..n : Stands(r.got[i], ts[i], r.own)
           K == {n \in Nat : n <= Len(ts) => P(each[n], n)}
<1>2. 0 \in K
  <2>1. P(s, 0)
    BY DEF Grown
  <2> QED
    BY <1>1, <2>1
<1>3. ASSUME NEW n \in K PROVE n + 1 \in K
  <2>0. n \in Nat /\ (n <= Len(ts) => P(each[n], n))
    BY Zenon
  <2> SUFFICES ASSUME n + 1 <= Len(ts) PROVE P(each[n + 1], n + 1)
    BY <2>0
  <2> DEFINE q == each[n]
             t == ts[n + 1]
             r == each[n + 1]
  <2>1. n + 1 \in 1..Len(ts) /\ (n + 1) - 1 = n /\ P(q, n) /\ t \in Types
    <3> HIDE DEF P, K
    <3> QED
      BY <2>0
  <2>2. r = IF q.threw THEN q ELSE call[q][t]
    BY <1>1, <2>1 DEF Then
  <2> HIDE DEF q, r, K
  <2>3. CASE q.threw
    <3>1. P(q, n + 1)
      BY <2>1, <2>3
    <3>2. r = q
      BY <2>2, <2>3
    <3>3. P(r, n + 1)
      BY <3>1, <3>2
    <3> QED
      BY <3>3 DEF r
  <2>4. CASE ~q.threw
    <3>1. Back(q, t, r)
      BY <2>1, <2>2, <2>4 DEF Calling
    <3>2. Fine(r) /\ Grown(s, r) /\ Grown(q, r)
      BY <2>1, <3>1, GrownOn DEF Back
    <3>3. ASSUME ~r.threw
          PROVE  Len(r.got) = n + 1 /\ \A i \in 1..(n + 1) : Stands(r.got[i], ts[i], r.own)
      <4>1. PICK p \in FfiTypes : r.got = Append(q.got, p) /\ Stands(p, t, r.own)
        BY <3>1, <3>3 DEF Back
      <4>2. q.got \in Seq(FfiTypes) /\ Len(q.got) = n
        BY <2>1, <2>4 DEF Fine, Calls
      <4>3. /\ Len(r.got) = n + 1 /\ r.got[n + 1] = p
            /\ \A i \in 1..n : r.got[i] = q.got[i]
        BY <4>1, <4>2
      <4>4. \A i \in 1..n : Stands(r.got[i], ts[i], r.own)
        <5> SUFFICES ASSUME NEW i \in 1..n PROVE Stands(r.got[i], ts[i], r.own)
          OBVIOUS
        <5>1. Stands(q.got[i], ts[i], q.own)
          BY <2>1, <2>4
        <5>2. Stands(q.got[i], ts[i], r.own)
          BY <3>2, <5>1, StandsOn
        <5> QED
          BY <4>3, <5>2
      <4>5. \A i \in 1..(n + 1) : i \in 1..n \/ i = n + 1
        BY <2>0
      <4>6. Stands(r.got[n + 1], ts[n + 1], r.own)
        BY <4>1, <4>3
      <4> QED
        BY <4>3, <4>4, <4>5, <4>6
    <3>4. P(r, n + 1)
      BY <3>2, <3>3
    <3> QED
      BY <3>4 DEF r
  <2> QED
    BY <2>3, <2>4, Zenon
<1> HIDE DEF P
<1>4. K = Nat
  BY <1>2, <1>3, Induction
<1>5. Len(ts) \in Nat
  OBVIOUS
<1>6. Len(ts) \in K
  BY <1>4, <1>5, Zenon
<1>7. P(each[Len(ts)], Len(ts))
  BY <1>5, <1>6
<1> QED
  BY <1>1, <1>7 DEF P

\* The elements of a struct are ffi_types of its fields.
LEMMA ElementsOf ==
  ASSUME NEW fs \in Seq(Types), NEW ffiTypes \in Seq(FfiTypes), Len(ffiTypes) = Len(fs)
  PROVE  /\ Elements(fs, ffiTypes) \in Seq(FfiTypes)
         /\ \A e \in Range(Elements(fs, ffiTypes)) : \E i \in 1..Len(fs) : e = ffiTypes[i]
<1>1. PICK all : /\ all[0] = <<>>
                 /\ \A i \in 1..Len(fs) :
                      all[i] = all[i - 1] \o [j \in 1..Counts(fs[i]) |-> ffiTypes[i]]
                 /\ Elements(fs, ffiTypes) = all[Len(fs)]
  BY ElementsDef
<1> DEFINE From == {p \in FfiTypes : \E i \in 1..Len(fs) : p = ffiTypes[i]}
           K == {n \in Nat : n <= Len(fs) => all[n] \in Seq(From)}
<1>2. 0 \in K
  <2> HIDE DEF From
  <2>1. <<>> \in Seq(From)
    OBVIOUS
  <2>2. all[0] \in Seq(From)
    BY <1>1, <2>1
  <2> QED
    BY <2>2
<1>3. ASSUME NEW n \in K PROVE n + 1 \in K
  <2>0. n \in Nat /\ (n <= Len(fs) => all[n] \in Seq(From))
    BY Zenon
  <2> HIDE DEF K
  <2> SUFFICES ASSUME n + 1 <= Len(fs) PROVE all[n + 1] \in Seq(From)
    BY <2>0 DEF K
  <2>1. /\ n + 1 \in 1..Len(fs) /\ (n + 1) - 1 = n /\ all[n] \in Seq(From)
        /\ fs[n + 1] \in Types
    BY <2>0
  <2>2. Counts(fs[n + 1]) \in Nat
    BY <2>1, OthersAssumption DEF Counts, Fixed, Arrays
  <2>3. ffiTypes[n + 1] \in From
    BY <2>1
  <2> HIDE DEF From
  <2> DEFINE more == [j \in 1..Counts(fs[n + 1]) |-> ffiTypes[n + 1]]
  <2>4. more \in Seq(From)
    BY <2>2, <2>3
  <2>5. all[n + 1] = all[n] \o more
    BY <1>1, <2>1
  <2> HIDE DEF more
  <2> QED
    BY <2>1, <2>4, <2>5
<1>4. K = Nat
  BY <1>2, <1>3, Induction
<1>5. Len(fs) \in Nat
  OBVIOUS
<1>6. Len(fs) \in K
  BY <1>4, <1>5, Zenon
<1>7. Elements(fs, ffiTypes) \in Seq(From)
  BY <1>1, <1>5, <1>6
<1>8. Range(Elements(fs, ffiTypes)) \subseteq From
  <2> HIDE DEF From
  <2> QED
    BY <1>7 DEF Range
<1> QED
  BY <1>7, <1>8

\* The fields that the program has defined so far.
DefinedOK == \A t \in Structs : defined[t] \in 0..Len(Declared[t])

LEMMA FieldsOf ==
  ASSUME DefinedOK, NEW t \in Structs
  PROVE  /\ fields(t) \in Seq(Types) /\ Len(fields(t)) = defined[t] /\ defined[t] \in Nat
         /\ \A i \in 1..defined[t] : fields(t)[i] = Declared[t][i]
         /\ ElementTypes(fields(t)) \in Seq(Types)
         /\ Len(ElementTypes(fields(t))) = defined[t]
         /\ \A i \in 1..defined[t] : ElementTypes(fields(t))[i] = Member(Declared[t][i])
<1>1. Declared[t] \in Seq(Types) /\ defined[t] \in 0..Len(Declared[t])
  BY OthersAssumption DEF DefinedOK
<1>2. /\ fields(t) \in Seq(Types) /\ Len(fields(t)) = defined[t] /\ defined[t] \in Nat
      /\ \A i \in 1..defined[t] : fields(t)[i] = Declared[t][i]
  BY <1>1 DEF fields
<1> DEFINE fs == fields(t)
<1> HIDE DEF fs
<1>3. fs \in Seq(Types) /\ Len(fs) = defined[t] /\ DOMAIN fs = 1..defined[t]
  BY <1>2 DEF fs
<1>4. \A f \in Types : Member(f) \in Types
  BY OthersAssumption DEF Member, Fixed, Arrays
<1>5. ElementTypes(fs) = [i \in 1..defined[t] |-> Member(fs[i])]
  BY <1>3 DEF ElementTypes, Member
<1>6. \A i \in 1..defined[t] : Member(fs[i]) \in Types
  BY <1>3, <1>4
<1>7. /\ ElementTypes(fs) \in Seq(Types) /\ Len(ElementTypes(fs)) = defined[t]
      /\ \A i \in 1..defined[t] : ElementTypes(fs)[i] = Member(fs[i])
  BY <1>2, <1>5, <1>6
<1> QED
  BY <1>2, <1>7 DEF fs

\* A struct's ffi_type is cached once its fields all have theirs.
LEMMA StructBack ==
  ASSUME DefinedOK, NEW call, Calling(call), NEW s, Fine(s), NEW t \in Structs,
         s.own[t] = "unset"
  PROVE  Back(s, t, StructType(call, s, t))
<1> DEFINE fs == fields(t)
           ts == ElementTypes(fs)
           s0 == [s EXCEPT !.got = <<>>]
           r == TypeOfEach(call, s0, ts)
           es == Elements(fs, r.got)
           q == [r EXCEPT !.own[t] = t, !.elements[t] = es, !.got = Append(s.got, t)]
<1>1. StructType(call, s, t) = IF r.threw THEN r ELSE q
  BY DEF StructType
<1>2. s0 \in Calls /\ s0.own = s.own /\ s0.elements = s.elements /\ s0.got = <<>>
  <2>1. s \in Calls /\ <<>> \in Seq(FfiTypes)
    BY DEF Fine
  <2> QED
    BY <2>1 DEF Calls
<1>3. Fine(s0)
  BY <1>2 DEF Fine
<1> HIDE DEF s0
<1>4. ts \in Seq(Types) /\ Len(ts) = defined[t] /\ fs \in Seq(Types) /\ Len(fs) = defined[t]
      /\ \A i \in 1..defined[t] : ts[i] = Member(Declared[t][i])
  BY FieldsOf
<1> HIDE DEF fs, ts
<1>5. /\ Fine(r) /\ Grown(s0, r)
      /\ ~r.threw => /\ Len(r.got) = Len(ts)
                     /\ \A i \in 1..Len(ts) : Stands(r.got[i], ts[i], r.own)
  BY <1>2, <1>3, <1>4, EachBack
<1>6. Grown(s, r)
  BY <1>2, <1>5 DEF Grown
<1> HIDE DEF r
<1>7. CASE r.threw
  BY <1>1, <1>5, <1>6, <1>7 DEF Back
<1>8. CASE ~r.threw
  <2>1. r \in Calls /\ r.got \in Seq(FfiTypes) /\ Len(r.got) = Len(fs)
    BY <1>4, <1>5, <1>8 DEF Fine, Calls
  <2>2. /\ es \in Seq(FfiTypes)
        /\ \A e \in Range(es) : \E i \in 1..Len(fs) : e = r.got[i]
    BY <1>4, <2>1, ElementsOf
  <2> HIDE DEF es
  <2> DEFINE g == Append(s.got, t)
  <2>3. t \in Types /\ t \in FfiTypes /\ t \in OwnProperties /\ g \in Seq(FfiTypes)
    BY DEF Structs, FfiTypes, OwnProperties, Fine, Calls
  <2> HIDE DEF g
  <2>4. q = [r EXCEPT !.own[t] = t, !.elements[t] = es, !.got = g]
    BY DEF g
  <2> HIDE DEF q
  <2>5. /\ q \in Calls /\ q.got = g /\ q.threw = r.threw
        /\ \A u \in Types : q.own[u] = IF u = t THEN t ELSE r.own[u]
        /\ \A u \in Structs : q.elements[u] = IF u = t THEN es ELSE r.elements[u]
    BY <2>1, <2>2, <2>3, <2>4 DEF Calls
  <2>6. Typed(q.own, q.elements)
    BY <1>5, <2>3, <2>5, Names DEF Fine, Typed
  <2>7. Built(q.own, q.elements)
    <3> SUFFICES ASSUME NEW u \in Structs, q.own[u] = u,
                        NEW e \in Range(q.elements[u]), e \in Structs
                 PROVE  q.own[e] = e /\ Direct(u, e)
      BY DEF Built
    <3>1. CASE u = t
      <4>1. PICK i \in 1..defined[t] : e = r.got[i]
        BY <1>4, <2>2, <2>5, <3>1
      <4>2. Stands(e, ts[i], r.own)
        BY <1>4, <1>5, <1>8, <4>1
      <4>3. e = ts[i] /\ r.own[e] = e
        BY <4>2 DEF Stands
      <4>4. Direct(u, e)
        BY <1>4, <3>1, <4>1, <4>3 DEF Direct
      <4> QED
        BY <2>5, <4>3, <4>4, Names
    <3>2. CASE u # t
      BY <1>5, <2>5, <3>2, Names DEF Fine, Built
    <3> QED
      BY <3>1, <3>2
  <2>12. Fitting(q.own)
    <3>1. \A u \in Scalars : u \in Types /\ u # t
      BY DEF Scalars, Structs
    <3> QED
      BY <1>5, <2>5, <3>1 DEF Fine, Fitting
  <2>8. Fine(q)
    BY <2>5, <2>6, <2>7, <2>12 DEF Fine
  <2>9. Grown(s, q)
    BY <1>6, <2>5, Names DEF Grown
  <2>10. Stands(t, t, q.own)
    <3>1. t \notin Scalars
      BY DEF Scalars, Structs
    <3> QED
      BY <2>3, <2>5, <3>1 DEF Stands
  <2>11. Back(s, t, q)
    BY <2>3, <2>5, <2>8, <2>9, <2>10 DEF Back, g
  <2> QED
    BY <1>1, <1>8, <2>11 DEF q
<1> QED
  BY <1>7, <1>8

\* A call is the body of Type().
LEMMA TypeWithinApplied ==
  ASSUME NEW n \in 0..Nesting, NEW s \in Calls, NEW t \in Types
  PROVE  TypeWithin[n][s][t] =
           LET set == Property(s.own, t) IN
           IF n = 0 THEN Asserts(s)
           ELSE IF set # "undefined" THEN Returns(s, set)
           ELSE NewType(TypeWithin[n - 1], s, t)
<1> DEFINE Call(x, u) == LET set == Property(x.own, u) IN
                         IF n = 0 THEN Asserts(x)
                         ELSE IF set # "undefined" THEN Returns(x, set)
                         ELSE NewType(TypeWithin[n - 1], x, u)
<1>1. TypeWithin[n] = [x \in Calls |-> [u \in Types |-> Call(x, u)]]
  BY TypeWithinDef
<1> HIDE DEF Call
<1>2. TypeWithin[n][s][t] = Call(s, t)
  BY <1>1
<1> QED
  BY <1>2 DEF Call

\* By induction on the depth of the stack.
LEMMA WithinBack ==
  ASSUME DefinedOK
  PROVE  \A n \in 0..Nesting : Calling(TypeWithin[n])
<1> DEFINE K == {n \in Nat : n <= Nesting => Calling(TypeWithin[n])}
<1>0. Nesting \in Nat
  <2>1. IsFiniteSet(Structs)
    BY KindAssumption, FS_Subset DEF Structs
  <2> QED
    BY <2>1, FS_CardinalityType DEF Nesting
<1>1. ASSUME NEW n \in 0..Nesting, NEW s, Fine(s), NEW t \in Types
      PROVE  TypeWithin[n][s][t] =
               LET set == Property(s.own, t) IN
               IF n = 0 THEN Asserts(s)
               ELSE IF set # "undefined" THEN Returns(s, set)
               ELSE NewType(TypeWithin[n - 1], s, t)
  BY <1>1, TypeWithinApplied DEF Fine
<1>2. 0 \in K
  <2>1. 0 \in 0..Nesting
    BY <1>0
  <2>2. ASSUME NEW s, Fine(s), NEW t \in Types PROVE Back(s, t, TypeWithin[0][s][t])
    BY <1>1, <2>1, <2>2, AssertsBack
  <2> QED
    BY <2>2 DEF Calling
<1>3. ASSUME NEW n \in K PROVE n + 1 \in K
  <2>0. n \in Nat /\ (n <= Nesting => Calling(TypeWithin[n]))
    BY Zenon
  <2> HIDE DEF K
  <2> SUFFICES ASSUME n + 1 <= Nesting PROVE Calling(TypeWithin[n + 1])
    BY <2>0 DEF K
  <2>1. Calling(TypeWithin[n]) /\ n + 1 \in 0..Nesting /\ n + 1 # 0 /\ (n + 1) - 1 = n
    BY <1>0, <2>0
  <2> SUFFICES ASSUME NEW s, Fine(s), NEW t \in Types
               PROVE  Back(s, t, TypeWithin[n + 1][s][t])
    BY DEF Calling
  <2> DEFINE set == Property(s.own, t)
             r == TypeWithin[n + 1][s][t]
  <2>2. r = IF set # "undefined" THEN Returns(s, set) ELSE NewType(TypeWithin[n], s, t)
    BY <1>1, <2>1
  <2> HIDE DEF r
  <2>3. CASE set # "undefined"
    <3>1. Stands(set, t, s.own)
      BY <2>3, PropertyStands
    <3> QED
      BY <2>2, <2>3, <3>1, ReturnsBack DEF r
  <2>4. CASE set = "undefined" /\ Kind[t] = "array"
    <3>1. r = Returns(s, "pointer")
      BY <2>2, <2>4 DEF NewType
    <3>2. Stands("pointer", t, s.own)
      BY <2>4, Names DEF Stands, Scalars
    <3> QED
      BY <3>1, <3>2, ReturnsBack DEF r
  <2>5. CASE set = "undefined" /\ Kind[t] = "struct"
    <3>1. r = StructType(TypeWithin[n], s, t)
      BY <2>2, <2>5 DEF NewType
    <3>2. t \in Structs
      BY <2>5 DEF Structs
    <3>3. s.own[t] = "unset"
      <4>1. s.own[t] # "unset" => set = s.own[t]
        BY <2>5 DEF Property, Scalars
      <4>2. s.own[t] \in {t, "unset"}
        BY <3>2 DEF Fine, Typed
      <4> QED
        BY <2>5, <4>1, <4>2, Names
    <3> QED
      BY <2>1, <3>1, <3>2, <3>3, StructBack DEF r
  <2>6. CASE set = "undefined" /\ Kind[t] = "scalar"
    <3>1. r = NamedType(s, t)
      BY <2>2, <2>6 DEF NewType
    <3>2. t \in Scalars
      BY <2>6 DEF Scalars
    <3> QED
      BY <3>1, <3>2, NamedBack DEF r
  <2>7. CASE set = "undefined" /\ Kind[t] \in {"pointer", "function"}
    BY <2>7 DEF Property, Scalars
  <2>8. Kind[t] \in {"scalar", "pointer", "function", "array", "struct"}
    BY KindAssumption
  <2> QED
    BY <2>3, <2>4, <2>5, <2>6, <2>7, <2>8
<1>4. K = Nat
  BY <1>2, <1>3, Induction
<1>5. ASSUME NEW n \in 0..Nesting PROVE Calling(TypeWithin[n])
  <2>1. n \in Nat /\ n <= Nesting
    BY <1>0
  <2>2. n \in K
    BY <1>4, <2>1, Zenon
  <2> QED
    BY <2>1, <2>2
<1> QED
  BY <1>5

LEMMA TypeBack ==
  ASSUME DefinedOK
  PROVE  Calling(Type)
<1>1. IsFiniteSet(Structs)
  BY KindAssumption, FS_Subset DEF Structs
<1>2. Nesting \in 0..Nesting
  BY <1>1, FS_CardinalityType DEF Nesting
<1> QED
  BY <1>2, WithinBack DEF Type

-----------------------------------------------------------------------------
(* What the program and the ffi_cifs refer to.                             *)

\* Inside, InUse, Holds and Pinned, with their variables as parameters.
Follow(d) ==
  [t \in Composites |->
     (IF t \in Structs THEN Range(SubSeq(Declared[t], 1, d[t])) ELSE {ElemOf[t]})
       \intersect Composites]

Used(d, k) == Reach(Follow(d), k \intersect Composites) \intersect Structs

Holding(elems) == [p \in Structs |-> Range(elems[p]) \intersect Structs]

Pins(elems, ps) == Reach(Holding(elems), ps \intersect Structs)

LEMMA Graph ==
  /\ IsFiniteSet(Composites) /\ Cardinality(Composites) \in Nat
  /\ IsFiniteSet(Structs) /\ Cardinality(Structs) \in Nat
  /\ \A d : /\ DOMAIN Follow(d) = Composites
            /\ \A v \in Composites : Follow(d)[v] \subseteq Composites
  /\ \A elems : /\ DOMAIN Holding(elems) = Structs
                /\ \A v \in Structs : Holding(elems)[v] = Range(elems[v]) \intersect Structs
<1>1. Composites \subseteq Types /\ Structs \subseteq Types
  BY Names DEF Composites
<1>2. IsFiniteSet(Composites) /\ IsFiniteSet(Structs)
  BY <1>1, KindAssumption, FS_Subset
<1>3. Cardinality(Composites) \in Nat /\ Cardinality(Structs) \in Nat
  BY <1>2, FS_CardinalityType
<1>4. \A d : /\ DOMAIN Follow(d) = Composites
             /\ \A v \in Composites : Follow(d)[v] \subseteq Composites
  BY DEF Follow
<1> QED
  BY <1>2, <1>3, <1>4 DEF Holding

LEMMA FollowClosed ==
  ASSUME NEW d, NEW S \in SUBSET Composites
  PROVE  LET R == Reach(Follow(d), S) IN
         /\ S \subseteq R /\ R \subseteq Composites
         /\ \A v \in R : Follow(d)[v] \subseteq R
<1>1. /\ IsFiniteSet(DOMAIN Follow(d))
      /\ \A v \in DOMAIN Follow(d) : Follow(d)[v] \subseteq DOMAIN Follow(d)
      /\ DOMAIN Follow(d) = Composites
  BY Graph
<1> QED
  BY <1>1, ReachClosed, Zenon

\* A field's type is in use with the struct.
LEMMA FollowField ==
  ASSUME NEW d, NEW t \in Structs, d[t] \in 0..Len(Declared[t])
  PROVE  /\ \A i \in 1..d[t] : {Declared[t][i]} \intersect Composites \subseteq Follow(d)[t]
         /\ \A v \in Follow(d)[t] : \E i \in 1..d[t] : v = Declared[t][i]
<1> DEFINE fs == SubSeq(Declared[t], 1, d[t])
<1>1. Declared[t] \in Seq(Types)
  BY OthersAssumption
<1>2. DOMAIN fs = 1..d[t] /\ \A i \in 1..d[t] : fs[i] = Declared[t][i]
  BY <1>1
<1> HIDE DEF fs
<1>3. t \in Composites
  BY DEF Composites
<1>4. Follow(d)[t] = Range(fs) \intersect Composites
  BY <1>3 DEF Follow, fs
<1> QED
  BY <1>2, <1>4 DEF Range

\* So is what its ffi_type has as an element.
LEMMA UsedClosed ==
  ASSUME NEW d, \A t \in Structs : d[t] \in 0..Len(Declared[t]),
         NEW k \in SUBSET Structs
  PROVE  /\ k \subseteq Used(d, k) /\ Used(d, k) \subseteq Structs
         /\ \A u \in Used(d, k) : \A e \in Structs :
              (\E i \in 1..d[u] : Member(Declared[u][i]) = e) => e \in Used(d, k)
<1> DEFINE S == k \intersect Composites
           R == Reach(Follow(d), S)
<1>1. /\ S \subseteq R /\ R \subseteq Composites
      /\ \A v \in R : Follow(d)[v] \subseteq R
  BY FollowClosed
<1> HIDE DEF R
<1>2. k \subseteq R
  BY <1>1 DEF Composites
<1>3. ASSUME NEW u \in R, u \in Structs, NEW e \in Structs, NEW i \in 1..d[u],
             Member(Declared[u][i]) = e
      PROVE  e \in R
  <2> DEFINE f == Declared[u][i]
  <2>0. d[u] \in 0..Len(Declared[u]) /\ Declared[u] \in Seq(Types)
    BY <1>3, OthersAssumption
  <2>1. f \in Types
    BY <2>0
  <2>2. f \in Composites => f \in R
    BY <1>1, <1>3, <2>0, FollowField
  <2> HIDE DEF f
  <2>3. Member(f) = e
    BY <1>3 DEF f
  <2>4. CASE Fixed(f)
    <3>1. f \in Arrays /\ f \notin Structs /\ ElemOf[f] = e
      BY <2>1, <2>3, <2>4 DEF Fixed, Arrays, Structs, Member
    <3>2. f \in Composites /\ e \in Composites
      BY <3>1 DEF Composites
    <3>3. Follow(d)[f] = {e}
      BY <3>1, <3>2 DEF Follow
    <3> QED
      BY <1>1, <2>2, <3>2, <3>3
  <2>5. CASE ~Fixed(f)
    BY <2>2, <2>3, <2>5 DEF Member, Composites
  <2> QED
    BY <2>4, <2>5
<1> QED
  BY <1>1, <1>2, <1>3 DEF Used, R

\* The fewer types are kept, the fewer are in use.
LEMMA UsedLess ==
  ASSUME NEW d, NEW k \in SUBSET Structs, NEW j \in SUBSET k
  PROVE  Used(d, j) \subseteq Used(d, k)
<1> DEFINE S == k \intersect Composites
           T == j \intersect Composites
           R == Reach(Follow(d), S)
<1>1. /\ S \subseteq R /\ R \subseteq Composites
      /\ \A v \in R : Follow(d)[v] \subseteq R
  BY FollowClosed
<1> HIDE DEF R
<1>2. T \subseteq R
  BY <1>1
<1> HIDE DEF T
<1>3. Reach(Follow(d), T) \subseteq R
  BY <1>1, <1>2, Graph, ReachLeast
<1> QED
  BY <1>3 DEF Used, R, T

\* A new field whose type is in use already takes no other struct into use.
LEMMA UsedMore ==
  ASSUME NEW d, \A t \in Structs : d[t] \in 0..Len(Declared[t]),
         NEW k \in SUBSET Structs, NEW t \in Structs, d[t] < Len(Declared[t]),
         NEW c, \A u \in Structs : c[u] = IF u = t THEN d[t] + 1 ELSE d[u],
         Used(d, {Declared[t][d[t] + 1]}) \subseteq Used(d, k)
  PROVE  Used(c, k) \subseteq Used(d, k)
<1> DEFINE f == Declared[t][d[t] + 1]
           S == k \intersect Composites
           F == {f} \intersect Composites
           R == Reach(Follow(d), S)
           Q == Reach(Follow(d), F)
<1>1. /\ S \subseteq R /\ R \subseteq Composites
      /\ \A v \in R : Follow(d)[v] \subseteq R
  BY FollowClosed
<1>2. /\ F \subseteq Q /\ Q \subseteq Composites
      /\ \A v \in Q : Follow(d)[v] \subseteq Q
  BY FollowClosed
<1>3. Q \intersect Structs \subseteq R \intersect Structs
  BY DEF Used
<1>0. /\ d[t] \in Nat /\ d[t] \in 0..Len(Declared[t])
      /\ c[t] = d[t] + 1 /\ c[t] \in 0..Len(Declared[t])
  <2>1. Declared[t] \in Seq(Types) /\ d[t] \in 0..Len(Declared[t])
    BY OthersAssumption
  <2> QED
    BY <2>1
<1>4. \A v \in Composites : Follow(c)[v] \subseteq Follow(d)[v] \union F
  <2> SUFFICES ASSUME NEW v \in Composites PROVE Follow(c)[v] \subseteq Follow(d)[v] \union F
    OBVIOUS
  <2>1. CASE v = t
    <3> SUFFICES ASSUME NEW w \in Follow(c)[t] PROVE w \in Follow(d)[t] \union F
      BY <2>1
    <3>1. PICK i \in 1..c[t] : w = Declared[t][i]
      BY <1>0, FollowField
    <3>2. w \in Composites
      BY Graph, <2>1
    <3>3. CASE i = d[t] + 1
      BY <3>1, <3>2, <3>3
    <3>4. CASE i # d[t] + 1
      <4>1. i \in 1..d[t]
        BY <1>0, <3>4
      <4> QED
        BY <1>0, <3>1, <3>2, <4>1, FollowField
    <3> QED
      BY <3>3, <3>4
  <2>2. CASE v # t
    BY <2>2 DEF Follow
  <2> QED
    BY <2>1, <2>2
<1> DEFINE C == R \union Q
<1> HIDE DEF R, Q, F, f
<1>5. S \subseteq C /\ C \subseteq Composites
  BY <1>1, <1>2
<1>6. \A v \in C : Follow(c)[v] \subseteq C
  BY <1>1, <1>2, <1>4
<1> HIDE DEF C, S
<1>7. Reach(Follow(c), S) \subseteq C
  BY <1>5, <1>6, Graph, ReachLeast
<1> QED
  BY <1>3, <1>7 DEF Used, C, R, S

\* What ffi_types lead to leads nowhere else, and nothing less does not.
LEMMA PinsClosed ==
  ASSUME NEW elems, NEW ps
  PROVE  /\ ps \intersect Structs \subseteq Pins(elems, ps) /\ Pins(elems, ps) \subseteq Structs
         /\ \A u \in Pins(elems, ps) :
              Range(elems[u]) \intersect Structs \subseteq Pins(elems, ps)
<1> DEFINE S == ps \intersect Structs
           R == Reach(Holding(elems), S)
<1>0. \A v \in Structs : Holding(elems)[v] \subseteq Structs
  BY Graph
<1>1. /\ S \subseteq R /\ R \subseteq Structs
      /\ \A v \in R : Holding(elems)[v] \subseteq R
  BY <1>0, Graph, ReachClosed, Zenon
<1> HIDE DEF R
<1> QED
  BY <1>1, Graph DEF Pins, R

LEMMA PinsLeast ==
  ASSUME NEW elems, NEW ps, NEW C \in SUBSET Structs, ps \intersect Structs \subseteq C,
         \A u \in C : Range(elems[u]) \intersect Structs \subseteq C
  PROVE  Pins(elems, ps) \subseteq C
<1>1. \A u \in C : Holding(elems)[u] \subseteq C
  BY Graph
<1> QED
  BY <1>1, Graph, ReachLeast DEF Pins

LEMMA Words ==
  /\ InUse = Used(defined, kept)
  /\ \A t : Reached({t}) = Used(defined, {t})
  /\ \A ps : Pinned(ps) = Pins(elements, ps)
  /\ InUse' = Used(defined', kept')
<1>1. Inside = Follow(defined) /\ Holds = Holding(elements)
  BY DEF Inside, Follow, fields, Holds, Holding
<1>2. Inside' = Follow(defined')
  BY DEF Inside, Follow, fields
<1> QED
  BY <1>1, <1>2 DEF InUse, Reached, Pinned, Used, Pins

-----------------------------------------------------------------------------
(* The inductive invariant.                                                *)

\* What a type that is in use has cached is there: the next CIF() will use it.
UsedAlive == \A u \in Used(defined, kept) : own[u] = u => u \in alive

PinnedAlive == \A cif \in cifs : Pins(elements, Range(cif.ffiTypes)) \subseteq alive

LInv == TypeOK /\ Fine(Now) /\ UsedAlive /\ PinnedAlive

LEMMA TypeOKDefined ==
  ASSUME TypeOK
  PROVE  DefinedOK /\ kept \in SUBSET Structs
BY DEF TypeOK, DefinedOK

LEMMA FineNow ==
  Fine(Now) <=> /\ own \in [Types -> OwnProperties]
                /\ elements \in [Structs -> Seq(FfiTypes)]
                /\ Typed(own, elements) /\ Built(own, elements) /\ Fitting(own)
<1>1. Now.own = own /\ Now.elements = elements
  BY DEF Now
<1>2. Now \in Calls <=> own \in [Types -> OwnProperties]
                        /\ elements \in [Structs -> Seq(FfiTypes)]
  BY DEF Now, Calls
<1> QED
  BY <1>1, <1>2 DEF Fine

LEMMA LInvInit ==
  ASSUME Init
  PROVE  LInv
<1>1. \A t \in Types : /\ FfiTypeAtLoad(t) \in OwnProperties \ Structs
                       /\ t \in Structs => FfiTypeAtLoad(t) = "unset"
  <2> DEFINE D == DOMAIN FFI_TYPES \union {"unset", "undefined"}
  <2>1. D \subseteq OwnProperties \ Structs
    BY Names DEF OwnProperties, FfiTypes
  <2>2. \A t \in Types : FfiTypeAtLoad(t) \in D
    <3> SUFFICES ASSUME NEW t \in Types PROVE FfiTypeAtLoad(t) \in D
      OBVIOUS
    <3>1. \A n : NamedAtLoad(n) \in D
      BY Names DEF NamedAtLoad
    <3> QED
      BY <3>1 DEF FfiTypeAtLoad
  <2>3. \A t \in Structs : FfiTypeAtLoad(t) = "unset"
    BY DEF FfiTypeAtLoad, Structs, Scalars
  <2> HIDE DEF D
  <2> QED
    BY <2>1, <2>2, <2>3
<1>2. /\ own \in [Types -> OwnProperties]
      /\ \A t \in Types : own[t] \notin Structs
      /\ \A t \in Structs : own[t] = "unset"
  BY <1>1, Names DEF Init
<1>3. elements \in [Structs -> Seq(FfiTypes)] /\ \A t \in Structs : elements[t] = <<>>
  BY DEF Init
<1>4. Typed(own, elements) /\ Built(own, elements)
  BY <1>2, <1>3, Names DEF Typed, Built
<1>9. Fitting(own)
  <2>0. own = [t \in Types |-> FfiTypeAtLoad(t)]
    BY DEF Init
  <2> SUFFICES ASSUME InheritsItsWidth, NEW t \in Scalars
               PROVE  own[t] \in {"unset", "undefined"} \/ Fits(t, own[t])
    BY DEF Fitting
  <2> DEFINE n == NameOf[t]
  <2>1. own[t] \in {"unset", "undefined"} \/ own[t] = NamedAtLoad(n)
    BY <2>0, Names DEF FfiTypeAtLoad
  <2>2. n \in DOMAIN SizeInC /\ (n = "longlong" => LongSize = 8)
    BY DEF InheritsItsWidth
  <2> HIDE DEF n
  <2>3. LongSize \in {4, 8}
    BY OthersAssumption
  <2>4. NamedAtLoad(n) = "unset" \/ SizeInC[n] = 0 \/ FFI_TYPES[NamedAtLoad(n)] = SizeInC[n]
    BY <2>2, <2>3 DEF NamedAtLoad, SizeInC, FFI_TYPES, PointerSize
  <2> QED
    BY <2>1, <2>4 DEF Fits, n
<1>5. Fine(Now)
  BY <1>2, <1>3, <1>4, <1>9, FineNow
<1>6. defined \in [Structs -> Nat] /\ \A t \in Structs : defined[t] <= Len(Declared[t])
  BY OthersAssumption DEF Init
<1>7. TypeOK
  BY <1>2, <1>3, <1>6 DEF TypeOK, Init
<1>8. \A u \in Used(defined, kept) : own[u] # u
  <2>1. Used(defined, kept) \subseteq Structs
    BY DEF Used
  <2> QED
    BY <1>2, <2>1, Names
<1> QED
  BY <1>5, <1>7, <1>8 DEF LInv, UsedAlive, PinnedAlive, Init

LEMMA DefineFieldKeeps ==
  ASSUME LInv, NEW t \in Structs, DefineField(t)
  PROVE  LInv'
<1>1. /\ UNCHANGED <<own, elements, cifs, rejected, kept, alive>>
      /\ defined[t] < Len(Declared[t])
      /\ defined' = [defined EXCEPT ![t] = @ + 1]
  BY DEF DefineField, memory
<1>2. /\ defined \in [Structs -> Nat] /\ kept \in SUBSET Structs
      /\ \A u \in Structs : defined[u] \in 0..Len(Declared[u])
      /\ Declared[t] \in Seq(Types)
  BY TypeOKDefined, OthersAssumption DEF LInv, UsedAlive, PinnedAlive, DefinedOK, TypeOK
<1>3. \A u \in Structs : defined'[u] = IF u = t THEN defined[t] + 1 ELSE defined[u]
  BY <1>1, <1>2
<1>4. defined' \in [Structs -> Nat] /\ \A u \in Structs : defined'[u] <= Len(Declared[u])
  BY <1>1, <1>2
<1>5. Used(defined, {Declared[t][defined[t] + 1]}) \subseteq Used(defined, kept)
  BY Words DEF DefineField
<1>6. Used(defined', kept) \subseteq Used(defined, kept)
  BY <1>1, <1>2, <1>3, <1>5, UsedMore
<1>7. TypeOK'
  BY <1>1, <1>4 DEF LInv, UsedAlive, PinnedAlive, TypeOK
<1>8. Fine(Now)'
  <2>1. \A u \in Structs : \A e : Direct(u, e) => Direct(u, e)'
    <3>1. \A u \in Structs : 1..defined[u] \subseteq 1..(defined'[u])
      BY <1>2, <1>3
    <3> QED
      BY <3>1 DEF Direct
  <2>2. Built(own, elements)'
    BY <1>1, <2>1, FineNow DEF LInv, UsedAlive, PinnedAlive, Built
  <2>3. Typed(own, elements)'
    BY <1>1, FineNow DEF LInv, UsedAlive, PinnedAlive, Typed
  <2>4. Fitting(own)'
    BY <1>1, FineNow DEF LInv, UsedAlive, PinnedAlive, Fitting
  <2> QED
    BY <1>1, <2>2, <2>3, <2>4, FineNow DEF LInv, UsedAlive, PinnedAlive, Fine, Calls, Now
<1> QED
  BY <1>1, <1>6, <1>7, <1>8 DEF LInv, UsedAlive, PinnedAlive

LEMMA ForgetKeeps ==
  ASSUME LInv, NEW t \in Structs, Forget(t)
  PROVE  LInv'
<1>1. /\ UNCHANGED <<defined, own, elements, cifs, rejected, alive>>
      /\ kept' \in SUBSET kept
  BY DEF Forget, memory
<1>2. kept \in SUBSET Structs
  BY TypeOKDefined DEF LInv, UsedAlive, PinnedAlive
<1>3. Used(defined, kept') \subseteq Used(defined, kept)
  BY <1>1, <1>2, UsedLess
<1>4. TypeOK'
  BY <1>1 DEF LInv, UsedAlive, PinnedAlive, TypeOK
<1>5. Fine(Now)'
  BY <1>1 DEF LInv, UsedAlive, PinnedAlive, Fine, Now, Built, Typed, Direct, Fitting
<1> QED
  BY <1>1, <1>3, <1>4, <1>5 DEF LInv, UsedAlive, PinnedAlive

LEMMA DropCifKeeps ==
  ASSUME LInv, NEW cif \in cifs, DropCif(cif)
  PROVE  LInv'
<1>1. /\ UNCHANGED <<defined, own, elements, kept, rejected, alive>>
      /\ cifs' \subseteq cifs
  BY DEF DropCif, memory
<1>2. TypeOK'
  BY <1>1 DEF LInv, UsedAlive, PinnedAlive, TypeOK
<1>3. Fine(Now)'
  BY <1>1 DEF LInv, UsedAlive, PinnedAlive, Fine, Now, Built, Typed, Direct, Fitting
<1> QED
  BY <1>1, <1>2, <1>3 DEF LInv, UsedAlive, PinnedAlive

LEMMA CollectKeeps ==
  ASSUME LInv, NEW t \in Structs, Collect(t)
  PROVE  LInv'
<1>1. /\ UNCHANGED <<defined, own, elements, kept, rejected, cifs>>
      /\ alive' = alive \ {t} /\ t \notin Reachable
  BY DEF Collect, memory
<1>2. TypeOK'
  BY <1>1 DEF LInv, UsedAlive, PinnedAlive, TypeOK
<1>3. Fine(Now)'
  BY <1>1 DEF LInv, UsedAlive, PinnedAlive, Fine, Now, Built, Typed, Direct, Fitting
<1> DEFINE seeds == {u \in Used(defined, kept) : own[u] = u}
                      \union UNION {CifPins(cif) : cif \in cifs}
<1>4. Reachable = Pins(elements, seeds)
  BY Words DEF Reachable
<1> HIDE DEF seeds
<1>5. /\ seeds \intersect Structs \subseteq Reachable /\ Reachable \subseteq Structs
      /\ \A u \in Reachable : Range(elements[u]) \intersect Structs \subseteq Reachable
  BY <1>4, PinsClosed
<1>6. \A u \in Used(defined, kept) : own[u] = u => u # t
  BY <1>1, <1>5 DEF seeds, Used
<1>7. ASSUME NEW cif \in cifs PROVE t \notin Pins(elements, Range(cif.ffiTypes))
  <2>1. Range(cif.ffiTypes) \subseteq seeds
    BY <1>7 DEF seeds, CifPins
  <2>2. Pins(elements, Range(cif.ffiTypes)) \subseteq Reachable
    BY <1>5, <2>1, PinsLeast
  <2> QED
    BY <1>1, <2>2
<1> QED
  BY <1>1, <1>2, <1>3, <1>6, <1>7 DEF LInv, UsedAlive, PinnedAlive

LEMMA CIFKeeps ==
  ASSUME LInv, NEW sig \in Signatures, CIF(sig)
  PROVE  LInv'
<1> DEFINE r == TypeOfEach(Type, Now, sig)
<1>1. /\ Throws(sig, r) \/ BadAbi(r) \/ Prepare(sig, r)
      /\ own' = r.own
      /\ elements' = r.elements
      /\ alive' = alive \union {t \in Structs : r.own[t] # own[t]}
      /\ UNCHANGED <<defined, kept>>
      /\ Range(sig) \intersect Structs \subseteq Used(defined, kept)
  BY Words DEF CIF
<1>2. sig \in Seq(Types)
  BY OthersAssumption
<1>3. /\ Fine(r) /\ Grown(Now, r)
      /\ ~r.threw => /\ Len(r.got) = Len(sig)
                     /\ \A i \in 1..Len(sig) : Stands(r.got[i], sig[i], r.own)
  <2>1. Calling(Type) /\ Fine(Now) /\ Now.got = <<>>
    BY TypeOKDefined, TypeBack DEF LInv, UsedAlive, PinnedAlive, Now
  <2> QED
    BY <1>2, <2>1, EachBack
<1>4. /\ \/ cifs' = cifs
         \/ /\ ~r.threw
            /\ cifs' \subseteq cifs \union {[sig |-> sig, ffiTypes |-> r.got]}
      /\ rejected' \subseteq rejected \union {sig}
  BY <1>1 DEF Throws, BadAbi, Prepare
<1> HIDE DEF r
<1>5. Fine(Now)'
  <2>1. r.own \in [Types -> OwnProperties] /\ r.elements \in [Structs -> Seq(FfiTypes)]
        /\ Typed(r.own, r.elements) /\ Built(r.own, r.elements) /\ Fitting(r.own)
    BY <1>3 DEF Fine, Calls
  <2>2. Now' \in Calls /\ Now'.own = own' /\ Now'.elements = elements'
    BY <1>1, <2>1 DEF Now, Calls
  <2>3. Typed(own, elements)' /\ Built(own, elements)' /\ Fitting(own)'
    BY <1>1, <2>1 DEF Typed, Built, Direct, Fitting
  <2> QED
    BY <2>2, <2>3 DEF Fine, Built, Typed, Direct, Fitting
<1>6. /\ own' \in [Types -> OwnProperties]
      /\ \A t \in Structs : /\ own'[t] \in {t, "unset"}
                            /\ own'[t] = "unset" => elements'[t] = <<>>
                            /\ own[t] \in {t, "unset"}
                            /\ own[t] = t => own'[t] = t /\ elements'[t] = elements[t]
  BY <1>1, <1>3, Names DEF LInv, TypeOK, Fine, Typed, Calls, Grown, Now
<1>7. alive \subseteq alive' /\ alive' \subseteq {t \in Structs : own'[t] = t}
      /\ \A t \in Structs : own'[t] = t => own[t] = t \/ t \in alive'
  BY <1>1, <1>6 DEF LInv, UsedAlive, PinnedAlive, TypeOK
<1>8. TypeOK'
  <2>1. \A cif \in cifs' : Len(cif.ffiTypes) = Len(cif.sig)
    BY <1>3, <1>4 DEF LInv, UsedAlive, PinnedAlive, TypeOK
  <2>2. rejected' \subseteq Signatures
    BY <1>4 DEF LInv, UsedAlive, PinnedAlive, TypeOK
  <2>3. \A t \in Structs : defined[t] <= Len(Declared[t])
    BY DEF LInv, UsedAlive, PinnedAlive, TypeOK
  <2> QED
    BY <1>1, <1>6, <1>7, <2>1, <2>2, <2>3 DEF LInv, UsedAlive, PinnedAlive, TypeOK
<1>9. \A u \in Used(defined, kept)' : own'[u] = u => u \in alive'
  BY <1>1, <1>7 DEF LInv, UsedAlive, PinnedAlive, Used
<1>10. ASSUME NEW cif \in cifs PROVE Pins(elements', Range(cif.ffiTypes)) \subseteq alive'
  <2> DEFINE ps == Range(cif.ffiTypes)
             C == Pins(elements, ps)
  <2>1. C \subseteq alive
    BY <1>10 DEF LInv, UsedAlive, PinnedAlive
  <2>2. /\ ps \intersect Structs \subseteq C /\ C \subseteq Structs
        /\ \A u \in C : Range(elements[u]) \intersect Structs \subseteq C
    BY PinsClosed
  <2> HIDE DEF C, ps
  <2>3. \A u \in C : elements'[u] = elements[u]
    BY <1>6, <2>1, <2>2 DEF LInv, UsedAlive, PinnedAlive, TypeOK
  <2>4. Pins(elements', ps) \subseteq C
    BY <2>2, <2>3, PinsLeast
  <2> QED
    BY <1>7, <2>1, <2>4 DEF ps
<1>11. ~r.threw => Pins(elements', Range(r.got)) \subseteq alive'
  <2> SUFFICES ASSUME ~r.threw PROVE Pins(elements', Range(r.got)) \subseteq alive'
    OBVIOUS
  <2> DEFINE C == {u \in Used(defined, kept) : own'[u] = u}
  <2>1. C \subseteq Structs /\ C \subseteq alive'
    BY <1>1, <1>9 DEF Used
  <2>2. Range(r.got) \intersect Structs \subseteq C
    <3> SUFFICES ASSUME NEW p \in Range(r.got), p \in Structs PROVE p \in C
      OBVIOUS
    <3>1. r.got \in Seq(FfiTypes) /\ Len(r.got) = Len(sig)
      BY <1>3 DEF Fine, Calls
    <3>2. PICK i \in 1..Len(sig) : p = r.got[i]
      BY <3>1 DEF Range
    <3>3. p = sig[i] /\ r.own[p] = p
      BY <1>3, <3>2 DEF Stands
    <3>4. p \in Range(sig)
      BY <1>2, <3>3 DEF Range
    <3> QED
      BY <1>1, <3>3, <3>4
  <2>3. \A u \in C : Range(elements'[u]) \intersect Structs \subseteq C
    <3> SUFFICES ASSUME NEW u \in C, NEW e \in Range(elements'[u]), e \in Structs
                 PROVE  e \in C
      OBVIOUS
    <3>1. r.own[e] = e /\ Direct(u, e)
      BY <1>1, <1>3, <2>1 DEF Fine, Built
    <3>2. kept \in SUBSET Structs /\ \A t \in Structs : defined[t] \in 0..Len(Declared[t])
      BY TypeOKDefined DEF LInv, UsedAlive, PinnedAlive, DefinedOK
    <3>3. e \in Used(defined, kept)
      BY <3>1, <3>2, UsedClosed DEF Direct
    <3> QED
      BY <1>1, <3>1, <3>3
  <2> HIDE DEF C
  <2> QED
    BY <2>1, <2>2, <2>3, PinsLeast
<1>12. \A cif \in cifs' : Pins(elements', Range(cif.ffiTypes)) \subseteq alive'
  BY <1>4, <1>10, <1>11
<1> QED
  BY <1>5, <1>8, <1>9, <1>12 DEF LInv, UsedAlive, PinnedAlive

\* Every step of the program and of the collector keeps it.
THEOREM LInvHolds == Spec => []LInv
<1>1. Init => LInv
  BY LInvInit
<1>2. LInv /\ [Next]_vars => LInv'
  <2> SUFFICES ASSUME LInv, [Next]_vars PROVE LInv'
    OBVIOUS
  <2>1. ASSUME NEW sig \in Signatures, CIF(sig) PROVE LInv'
    BY <2>1, CIFKeeps
  <2>2. ASSUME NEW sig \in Variadic, NEW n \in 0..(Len(sig) - 1), CIF_var(sig, n)
        PROVE  LInv'
    BY <2>2, CIFKeeps, OthersAssumption DEF CIF_var
  <2>3. ASSUME NEW t \in Structs, DefineField(t) \/ Forget(t) \/ Collect(t) PROVE LInv'
    BY <2>3, DefineFieldKeeps, ForgetKeeps, CollectKeeps
  <2>4. ASSUME NEW cif \in cifs, DropCif(cif) PROVE LInv'
    BY <2>4, DropCifKeeps
  <2>5. CASE UNCHANGED vars
    <3>1. TypeOK'
      BY <2>5 DEF LInv, UsedAlive, PinnedAlive, TypeOK, vars, memory
    <3> QED
      BY <2>5, <3>1
         DEF LInv, UsedAlive, PinnedAlive, Fine, Now, Built, Typed, Direct, Fitting,
             vars, memory
  <2> QED
    BY <2>1, <2>2, <2>3, <2>4, <2>5 DEF Next
<1> QED
  BY <1>1, <1>2, PTL DEF Spec

\* Every variable has its type; a struct has its own ffi_type or none, and one
\* that has none has no elements, whatever calls have thrown before.
THEOREM TypeCorrect == Spec => []TypeOK
<1>1. LInv => TypeOK
  BY DEF LInv, UsedAlive, PinnedAlive
<1> QED
  BY <1>1, LInvHolds, PTL

\* The memory that an ffi_cif in use leads to is never collected, for any nesting
\* of structs and arrays, any number of ffi_cifs, and fields defined late.
THEOREM MemoryKept == Spec => []CifMemoryAlive
<1>1. LInv => CifMemoryAlive
  BY Words DEF LInv, UsedAlive, PinnedAlive, CifMemoryAlive
<1> QED
  BY <1>1, LInvHolds, PTL

\* Type() finds an ffi_type of the right size for any scalar, however many of its
\* prototypes' properties earlier calls have set to undefined.
THEOREM Resolves ==
  ASSUME InheritsItsWidth
  PROVE  Spec => []ResolvesToItsWidth
<1>1. ASSUME LInv, NEW t \in Scalars, SizeInC[NameOf[t]] # 0
      PROVE  ~Type[Now][t].threw /\ FFI_TYPES[Type[Now][t].got[1]] = SizeInC[NameOf[t]]
  <2> DEFINE r == Type[Now][t]
             set == Property(Now.own, t)
  <2>1. Fine(Now) /\ Now.got = <<>> /\ Now.threw = FALSE /\ t \in Types
    BY <1>1, Names DEF LInv, UsedAlive, PinnedAlive, Now
  <2>2. r = IF set # "undefined" THEN Returns(Now, set)
            ELSE NewType(TypeWithin[Nesting - 1], Now, t)
    <3>1. Nesting \in Nat /\ Nesting # 0 /\ Nesting \in 0..Nesting
      BY Graph DEF Nesting
    <3> QED
      BY <2>1, <3>1, TypeWithinApplied DEF Type, Fine
  <2> HIDE DEF r
  <2>3. Back(Now, t, r) /\ r.threw = FALSE
    <3>1. CASE set # "undefined"
      <4>1. Stands(set, t, Now.own)
        BY <2>1, <3>1, PropertyStands
      <4> HIDE DEF set
      <4>2. r = Returns(Now, set)
        BY <2>2, <3>1
      <4> QED
        BY <2>1, <4>1, <4>2, ReturnsBack
    <3>2. CASE set = "undefined"
      <4>1. Kind[t] = "scalar"
        BY DEF Scalars
      <4>2. r = NamedType(Now, t)
        BY <2>2, <3>2, <4>1 DEF NewType
      <4> QED
        BY <1>1, <2>1, <4>2, NamedBack
    <3> QED
      BY <3>1, <3>2
  <2>4. PICK p \in FfiTypes : r.got = Append(<<>>, p) /\ Stands(p, t, r.own)
    BY <2>1, <2>3 DEF Back
  <2>5. r.got[1] = p
    BY <2>4
  <2> QED
    BY <1>1, <2>3, <2>4, <2>5 DEF Stands, Fits, r
<1>2. LInv => ResolvesToItsWidth
  BY <1>1 DEF ResolvesToItsWidth
<1> QED
  BY <1>2, LInvHolds, PTL

-----------------------------------------------------------------------------
(* Layouts, one after the other, as DeclaredLayout and LibffiLayout put    *)
(* them together.                                                          *)

Layouts == [size : Nat, alignment : Nat, scalars : Seq(Nat \X Nat)]

Nothing == [size |-> 0, alignment |-> 0, scalars |-> <<>>]

\* Layouts one after the other, without the padding at the end.
Row(ls) ==
  LET placed[i \in 0..Len(ls)] ==
        IF i = 0 THEN Nothing ELSE Place(placed[i - 1], ls[i])
  IN placed[Len(ls)]

Padded(l) == [l EXCEPT !.size = AlignUp(@, l.alignment)]

\* Row() puts one layout after the other.
LEMMA RowDef ==
  ASSUME NEW ls, Len(ls) \in Nat
  PROVE  \E placed : /\ placed[0] = Nothing
                     /\ \A i \in 1..Len(ls) : placed[i] = Place(placed[i - 1], ls[i])
                     /\ Row(ls) = placed[Len(ls)]
<1> DEFINE Solves(f, k) ==
             f = [i \in 0..k |-> IF i = 0 THEN Nothing ELSE Place(f[i - 1], ls[i])]
           K == {k \in Nat : \E f : Solves(f, k)}
<1>1. 0 \in K
  <2> DEFINE f == [i \in 0..0 |-> Nothing]
  <2>1. Solves(f, 0)
    OBVIOUS
  <2> QED
    BY <2>1
<1>2. ASSUME NEW k \in K PROVE k + 1 \in K
  <2>1. PICK f : Solves(f, k)
    OBVIOUS
  <2> DEFINE g == [i \in 0..(k + 1) |-> IF i = 0 THEN Nothing ELSE Place(f[i - 1], ls[i])]
  <2>2. \A i \in 0..k : g[i] = f[i]
    BY <2>1, SMTT(30)
  <2>3. \A i \in 0..(k + 1) : i # 0 => g[i - 1] = f[i - 1]
    <3>1. \A i \in 0..(k + 1) : i # 0 => i - 1 \in 0..k
      OBVIOUS
    <3> HIDE DEF g
    <3> QED
      BY <2>2, <3>1
  <2>4. g = [i \in 0..(k + 1) |-> IF i = 0 THEN Nothing ELSE Place(g[i - 1], ls[i])]
    BY <2>3
  <2>5. Solves(g, k + 1)
    BY <2>4, Zenon
  <2>6. k + 1 \in Nat
    OBVIOUS
  <2> HIDE DEF g, Solves
  <2> QED
    BY <2>5, <2>6
<1>3. K = Nat
  BY <1>1, <1>2, Induction
<1>4. Len(ls) \in K
  BY <1>3, Zenon
<1>5. \E f : Solves(f, Len(ls))
  BY <1>4
<1> DEFINE placed == CHOOSE f : Solves(f, Len(ls))
<1>6. Solves(placed, Len(ls))
  BY <1>5, Zenon
<1>7. Row(ls) = placed[Len(ls)]
  BY Zenon DEF Row
<1> HIDE DEF placed
<1>8. placed[0] = Nothing /\ \A i \in 1..Len(ls) : placed[i] = Place(placed[i - 1], ls[i])
  BY <1>6
<1> QED
  BY <1>7, <1>8, Zenon

\* A struct is a row with padding at its end.
LEMMA StructLayoutRow ==
  ASSUME NEW ls
  PROVE  StructLayout(ls) = Padded(Row(ls))
BY Zenon DEF StructLayout, Row, Padded, Nothing

\* A row of n + 1 is a row of n and one more.
LEMMA RowMore ==
  ASSUME NEW ls, Len(ls) \in Nat, NEW ms, Len(ms) = Len(ls) + 1,
         \A i \in 1..Len(ls) : ms[i] = ls[i]
  PROVE  Row(ms) = Place(Row(ls), ms[Len(ms)])
<1>1. PICK f : /\ f[0] = Nothing
               /\ \A i \in 1..Len(ls) : f[i] = Place(f[i - 1], ls[i])
               /\ Row(ls) = f[Len(ls)]
  BY RowDef
<1>2. Len(ms) \in Nat
  OBVIOUS
<1>3. PICK g : /\ g[0] = Nothing
               /\ \A i \in 1..Len(ms) : g[i] = Place(g[i - 1], ms[i])
               /\ Row(ms) = g[Len(ms)]
  BY <1>2, RowDef
<1> DEFINE K == {i \in Nat : i <= Len(ls) => g[i] = f[i]}
<1>4. 0 \in K
  BY <1>1, <1>3
<1>5. ASSUME NEW i \in K PROVE i + 1 \in K
  <2> SUFFICES ASSUME i + 1 <= Len(ls) PROVE g[i + 1] = f[i + 1]
    OBVIOUS
  <2>1. i + 1 \in 1..Len(ls) /\ i + 1 \in 1..Len(ms) /\ (i + 1) - 1 = i /\ g[i] = f[i]
    OBVIOUS
  <2> QED
    BY <1>1, <1>3, <2>1
<1>6. K = Nat
  BY <1>4, <1>5, Induction
<1>7. Len(ls) \in K
  BY <1>6, Zenon
<1>8. g[Len(ls)] = f[Len(ls)]
  BY <1>7
<1>9. Len(ms) \in 1..Len(ms) /\ Len(ms) - 1 = Len(ls)
  OBVIOUS
<1> QED
  BY <1>1, <1>3, <1>8, <1>9

\* The row of no layouts.
LEMMA RowNone ==
  ASSUME NEW ls, Len(ls) = 0
  PROVE  Row(ls) = Nothing
BY RowDef

\* AlignUp() of numbers is a number.
LEMMA AlignNat ==
  ASSUME NEW n \in Nat, NEW a \in Nat
  PROVE  AlignUp(n, a) \in Nat /\ AlignUp(n, a) >= n
<1>1. CASE a = 0
  BY <1>1 DEF AlignUp
<1>2. CASE a # 0
  <2> DEFINE q == (n + a - 1) \div a
             m == (n + a - 1) % a
  <2>1. n + a - 1 \in Nat /\ a \in Nat \ {0}
    BY <1>2
  <2>2. q \in Nat /\ m \in 0..(a - 1) /\ n + a - 1 = q * a + m
    BY <2>1, SMTT(30)
  <2>3. AlignUp(n, a) = q * a
    BY <1>2 DEF AlignUp
  <2> HIDE DEF q, m
  <2>4. q * a = n + a - 1 - m
    BY <2>2
  <2> QED
    BY <2>2, <2>3, <2>4
<1> QED
  BY <1>1, <1>2

\* The sizes of scalars, and so the alignments, are powers of two.
Alignments == {1, 4, 8}

\* What is aligned stays where it is.
LEMMA AlignTwice ==
  ASSUME NEW n \in Nat, NEW a \in Alignments
  PROVE  AlignUp(AlignUp(n, a), a) = AlignUp(n, a)
<1>1. CASE a = 1
  BY <1>1 DEF AlignUp
<1>2. CASE a = 4
  BY <1>2 DEF AlignUp
<1>3. CASE a = 8
  BY <1>3 DEF AlignUp
<1> QED
  BY <1>1, <1>2, <1>3 DEF Alignments

\* Aligning what follows an aligned offset.
LEMMA AlignSum ==
  ASSUME NEW m \in Nat, NEW n \in Nat, NEW a \in Alignments,
         AlignUp(m, a) = m, AlignUp(n, a) = n
  PROVE  AlignUp(m + n, a) = m + n
<1>1. CASE a = 1
  BY <1>1 DEF AlignUp
<1>2. CASE a = 4
  BY <1>2 DEF AlignUp
<1>3. CASE a = 8
  BY <1>3 DEF AlignUp
<1> QED
  BY <1>1, <1>2, <1>3 DEF Alignments

\* The scalars of a layout at an offset.
Shift(at, s) == [i \in DOMAIN s |-> <<at + s[i][1], s[i][2]>>]

\* Offsets that are shifted are offsets.
LEMMA ShiftType ==
  ASSUME NEW at \in Nat, NEW s \in Seq(Nat \X Nat)
  PROVE  /\ Shift(at, s) \in Seq(Nat \X Nat) /\ Len(Shift(at, s)) = Len(s)
         /\ \A i \in 1..Len(s) : Shift(at, s)[i] = <<at + s[i][1], s[i][2]>>
<1>1. \A i \in 1..Len(s) : <<at + s[i][1], s[i][2]>> \in Nat \X Nat
  OBVIOUS
<1>2. Shift(at, s) = [i \in 1..Len(s) |-> <<at + s[i][1], s[i][2]>>]
  BY DEF Shift
<1> QED
  BY <1>1, <1>2

\* Shifting adds up.
LEMMA ShiftTwice ==
  ASSUME NEW m \in Nat, NEW n \in Nat, NEW s \in Seq(Nat \X Nat)
  PROVE  Shift(m, Shift(n, s)) = Shift(m + n, s)
<1>1. /\ Shift(n, s) \in Seq(Nat \X Nat) /\ Len(Shift(n, s)) = Len(s)
      /\ \A i \in 1..Len(s) : Shift(n, s)[i] = <<n + s[i][1], s[i][2]>>
  BY ShiftType
<1>2. DOMAIN Shift(n, s) = 1..Len(s) /\ DOMAIN s = 1..Len(s)
  BY <1>1
<1>3. \A i \in 1..Len(s) : <<m + Shift(n, s)[i][1], Shift(n, s)[i][2]>>
                           = <<(m + n) + s[i][1], s[i][2]>>
  <2> SUFFICES ASSUME NEW i \in 1..Len(s)
               PROVE  <<m + Shift(n, s)[i][1], Shift(n, s)[i][2]>>
                      = <<(m + n) + s[i][1], s[i][2]>>
    OBVIOUS
  <2>1. s[i] \in Nat \X Nat
    OBVIOUS
  <2>2. Shift(n, s)[i][1] = n + s[i][1] /\ Shift(n, s)[i][2] = s[i][2]
    <3>1. Shift(n, s)[i] = <<n + s[i][1], s[i][2]>>
      BY <1>1, Zenon
    <3> QED
      BY <3>1
  <2>3. m + (n + s[i][1]) = (m + n) + s[i][1]
    BY <2>1
  <2> QED
    BY <2>2, <2>3
<1> QED
  BY <1>2, <1>3 DEF Shift

\* A sequence after another.
LEMMA Joined ==
  ASSUME NEW S, NEW s \in Seq(S), NEW t \in Seq(S)
  PROVE  /\ s \o t \in Seq(S) /\ Len(s \o t) = Len(s) + Len(t)
         /\ Len(s) \in Nat /\ Len(t) \in Nat
         /\ \A i \in 1..Len(s) : (s \o t)[i] = s[i]
         /\ \A i \in 1..Len(t) : (s \o t)[Len(s) + i] = t[i]
  OBVIOUS

\* Sequences are equal if their entries are.
LEMMA SameSeq ==
  ASSUME NEW S, NEW s \in Seq(S), NEW t \in Seq(S), Len(s) = Len(t),
         \A i \in 1..Len(s) : s[i] = t[i]
  PROVE  s = t
  OBVIOUS

\* Shifting what is joined shifts both.
LEMMA ShiftBoth ==
  ASSUME NEW m \in Nat, NEW s \in Seq(Nat \X Nat), NEW t \in Seq(Nat \X Nat)
  PROVE  Shift(m, s \o t) = Shift(m, s) \o Shift(m, t)
<1> DEFINE P == Nat \X Nat
           u == s \o t
           x == Shift(m, s)
           y == Shift(m, t)
           z == Shift(m, u)
           v == x \o y
<1>1. /\ u \in Seq(P) /\ Len(u) = Len(s) + Len(t) /\ Len(s) \in Nat /\ Len(t) \in Nat
      /\ \A i \in 1..Len(s) : u[i] = s[i]
      /\ \A i \in 1..Len(t) : u[Len(s) + i] = t[i]
  <2> HIDE DEF P
  <2>1. s \in Seq(P) /\ t \in Seq(P)
    BY DEF P
  <2> HIDE DEF u
  <2>2. u = s \o t
    BY DEF u
  <2> QED
    BY <2>1, <2>2, Joined
<1>2. /\ z \in Seq(P) /\ Len(z) = Len(u)
      /\ \A i \in 1..Len(u) : z[i] = <<m + u[i][1], u[i][2]>>
  BY <1>1, ShiftType
<1>3. /\ x \in Seq(P) /\ Len(x) = Len(s)
      /\ \A i \in 1..Len(s) : x[i] = <<m + s[i][1], s[i][2]>>
      /\ y \in Seq(P) /\ Len(y) = Len(t)
      /\ \A i \in 1..Len(t) : y[i] = <<m + t[i][1], t[i][2]>>
  BY ShiftType
<1> HIDE DEF P, u, x, y, z
<1>4. /\ v \in Seq(P) /\ Len(v) = Len(u)
      /\ \A i \in 1..Len(s) : v[i] = x[i]
      /\ \A i \in 1..Len(t) : v[Len(s) + i] = y[i]
  <2> HIDE DEF v
  <2>0. v = x \o y /\ x \in Seq(P) /\ y \in Seq(P)
    BY <1>3 DEF v
  <2>1. /\ v \in Seq(P) /\ Len(v) = Len(x) + Len(y)
        /\ \A i \in 1..Len(x) : v[i] = x[i]
        /\ \A i \in 1..Len(y) : v[Len(x) + i] = y[i]
    BY <2>0, Joined
  <2> QED
    BY <1>1, <1>3, <2>1, Zenon
<1> HIDE DEF v
<1>5. ASSUME NEW i \in 1..Len(u) PROVE z[i] = v[i]
  <2>1. CASE i <= Len(s)
    <3>1. i \in 1..Len(s)
      BY <1>1, <2>1
    <3>2. u[i] = s[i] /\ v[i] = x[i]
      BY <1>1, <1>4, <3>1
    <3>3. z[i] = <<m + s[i][1], s[i][2]>>
      BY <1>2, <3>2
    <3>4. x[i] = <<m + s[i][1], s[i][2]>>
      BY <1>3, <3>1
    <3> QED
      BY <3>2, <3>3, <3>4, Zenon
  <2>2. CASE i > Len(s)
    <3>1. PICK j \in 1..Len(t) : i = Len(s) + j
      <4>1. i - Len(s) \in 1..Len(t) /\ i = Len(s) + (i - Len(s))
        BY <1>1, <2>2
      <4> QED
        BY <4>1
    <3>2. u[i] = t[j] /\ v[i] = y[j]
      BY <1>1, <1>4, <3>1
    <3>3. z[i] = <<m + t[j][1], t[j][2]>>
      BY <1>2, <3>2
    <3>4. y[j] = <<m + t[j][1], t[j][2]>>
      BY <1>3
    <3> QED
      BY <3>2, <3>3, <3>4, Zenon
  <2>3. i \in Int /\ Len(s) \in Int
    BY <1>1
  <2> QED
    BY <2>1, <2>2, <2>3
<1>6. z = v
  BY <1>2, <1>4, <1>5, SameSeq
<1> QED
  BY <1>6 DEF u, v, x, y, z

\* The part of a struct in front of a field, and a layout with its padding.
Front(b) == b \in Layouts /\ b.alignment \in Alignments \union {0}
Whole(l) == l \in Layouts /\ l.alignment \in Alignments /\ AlignUp(l.size, l.alignment) = l.size

\* Place(), field by field.
LEMMA PlaceDef ==
  ASSUME NEW b \in Layouts, NEW l, l \in Layouts
  PROVE  /\ Place(b, l).size = AlignUp(b.size, l.alignment) + l.size
         /\ Place(b, l).alignment = Larger(b.alignment, l.alignment)
         /\ Place(b, l).scalars = b.scalars \o Shift(AlignUp(b.size, l.alignment), l.scalars)
         /\ Place(b, l) \in Layouts
<1>1. b.size \in Nat /\ b.alignment \in Nat /\ b.scalars \in Seq(Nat \X Nat)
      /\ l.size \in Nat /\ l.alignment \in Nat /\ l.scalars \in Seq(Nat \X Nat)
  BY DEF Front, Layouts
<1> DEFINE at == AlignUp(b.size, l.alignment)
<1>2. at \in Nat
  BY <1>1, AlignNat
<1> HIDE DEF at
<1>3. Place(b, l) = [size |-> at + l.size, alignment |-> Larger(b.alignment, l.alignment),
                     scalars |-> b.scalars \o Shift(at, l.scalars)]
  BY DEF Place, Shift, at
<1>4. b.scalars \o Shift(at, l.scalars) \in Seq(Nat \X Nat)
  BY <1>1, <1>2, ShiftType
<1>5. Larger(b.alignment, l.alignment) \in Nat
  BY <1>1 DEF Larger
<1> DEFINE more == b.scalars \o Shift(at, l.scalars)
           big == Larger(b.alignment, l.alignment)
<1> HIDE DEF more, big
<1>6. /\ Place(b, l) = [size |-> at + l.size, alignment |-> big, scalars |-> more]
      /\ at + l.size \in Nat /\ big \in Nat /\ more \in Seq(Nat \X Nat)
  BY <1>1, <1>2, <1>3, <1>4, <1>5 DEF more, big
<1>7. /\ Place(b, l).size = at + l.size /\ Place(b, l).alignment = big
      /\ Place(b, l).scalars = more /\ Place(b, l) \in Layouts
  BY <1>6 DEF Layouts
<1> QED
  BY <1>7 DEF at, more, big

\* What has been placed stays in front of what comes next.
LEMMA PlaceWhole ==
  ASSUME NEW b, Front(b), NEW l, Whole(l)
  PROVE  Front(Place(b, l)) /\ Place(b, l).alignment \in Alignments
<1>1. l \in Layouts /\ l.alignment \in Alignments /\ b.alignment \in Alignments \union {0}
  BY DEF Whole, Front
<1>2. Larger(b.alignment, l.alignment) \in Alignments
  BY <1>1 DEF Larger, Alignments
<1> QED
  BY <1>1, <1>2, PlaceDef DEF Front

\* Joining is associative.
LEMMA JoinedThrice ==
  ASSUME NEW S, NEW s \in Seq(S), NEW t \in Seq(S), NEW u \in Seq(S)
  PROVE  (s \o t) \o u = s \o (t \o u)
  OBVIOUS

\* Layouts are equal if their fields are.
LEMMA SameLayout ==
  ASSUME NEW x \in Layouts, NEW y \in Layouts,
         x.size = y.size, x.alignment = y.alignment, x.scalars = y.scalars
  PROVE  x = y
BY DEF Layouts

\* Where the alignment is the same it does not matter what is placed first.
LEMMA PlaceTwice ==
  ASSUME NEW b, Front(b), NEW k, Whole(k), NEW l, Whole(l), l.alignment = k.alignment
  PROVE  /\ Whole(Place(k, l)) /\ Place(k, l).alignment = k.alignment
         /\ Place(Place(b, k), l) = Place(b, Place(k, l))
<1> DEFINE a == k.alignment
           at == AlignUp(b.size, a)
           P == Nat \X Nat
<1>1. /\ b \in Layouts /\ k \in Layouts /\ l \in Layouts /\ a \in Alignments /\ a \in Nat
      /\ b.size \in Nat /\ k.size \in Nat /\ l.size \in Nat
      /\ b.scalars \in Seq(P) /\ k.scalars \in Seq(P) /\ l.scalars \in Seq(P)
      /\ AlignUp(k.size, a) = k.size /\ AlignUp(l.size, a) = l.size
      /\ b.alignment \in Nat
  BY DEF Front, Whole, Layouts, Alignments
<1> HIDE DEF a, P
<1>2. at \in Nat /\ AlignUp(at, a) = at
  BY <1>1, AlignNat, AlignTwice
<1>3. AlignUp(at + k.size, a) = at + k.size /\ AlignUp(k.size + l.size, a) = k.size + l.size
  BY <1>1, <1>2, AlignSum
<1> HIDE DEF at
<1>4. Front(k) /\ Front(Place(b, k)) /\ Place(b, k) \in Layouts
  BY <1>1, PlaceWhole DEF Front, Whole
<1>5. /\ Place(b, k).size = at + k.size
      /\ Place(b, k).alignment = Larger(b.alignment, a)
      /\ Place(b, k).scalars = b.scalars \o Shift(at, k.scalars)
  BY <1>1, PlaceDef DEF at, a
<1>6. /\ Place(k, l).size = k.size + l.size
      /\ Place(k, l).alignment = Larger(a, a)
      /\ Place(k, l).scalars = k.scalars \o Shift(k.size, l.scalars)
      /\ Place(k, l) \in Layouts
  <2>1. k \in Layouts /\ l \in Layouts /\ l.alignment = a /\ k.alignment = a
    BY <1>1 DEF a
  <2>2. /\ Place(k, l).size = AlignUp(k.size, l.alignment) + l.size
        /\ Place(k, l).alignment = Larger(k.alignment, l.alignment)
        /\ Place(k, l).scalars = k.scalars \o Shift(AlignUp(k.size, l.alignment), l.scalars)
        /\ Place(k, l) \in Layouts
    BY <2>1, PlaceDef, Zenon
  <2> QED
    BY <1>1, <2>1, <2>2
<1>7. Larger(a, a) = a /\ Larger(Larger(b.alignment, a), a) = Larger(b.alignment, a)
  BY <1>1 DEF Larger
<1>8. Whole(Place(k, l)) /\ Place(k, l).alignment = a
  BY <1>1, <1>3, <1>6, <1>7 DEF Whole
<1> DEFINE x == Place(Place(b, k), l)
           y == Place(b, Place(k, l))
<1>9. /\ x.size = (at + k.size) + l.size
      /\ x.alignment = Larger(b.alignment, a)
      /\ x.scalars = (b.scalars \o Shift(at, k.scalars)) \o Shift(at + k.size, l.scalars)
      /\ x \in Layouts
  <2> DEFINE bk == Place(b, k)
  <2> HIDE DEF bk
  <2>1. /\ bk \in Layouts /\ bk.size = at + k.size /\ bk.alignment = Larger(b.alignment, a)
        /\ bk.scalars = b.scalars \o Shift(at, k.scalars)
    BY <1>4, <1>5 DEF bk
  <2>2. x = Place(bk, l)
    BY DEF bk
  <2> HIDE DEF x
  <2>3. l.alignment = a
    BY DEF a
  <2>4. /\ x.size = AlignUp(bk.size, a) + l.size /\ x.alignment = Larger(bk.alignment, a)
        /\ x.scalars = bk.scalars \o Shift(AlignUp(bk.size, a), l.scalars)
        /\ x \in Layouts
    BY <1>1, <2>1, <2>2, <2>3, PlaceDef
  <2> QED
    BY <1>3, <1>7, <2>1, <2>4
<1>10. /\ y.size = at + (k.size + l.size)
       /\ y.alignment = Larger(b.alignment, a)
       /\ y.scalars = b.scalars \o Shift(at, k.scalars \o Shift(k.size, l.scalars))
       /\ y \in Layouts
  <2> DEFINE kl == Place(k, l)
  <2> HIDE DEF kl
  <2>1. /\ kl \in Layouts /\ kl.size = k.size + l.size /\ kl.alignment = a
        /\ kl.scalars = k.scalars \o Shift(k.size, l.scalars)
    BY <1>6, <1>7 DEF kl
  <2>2. y = Place(b, kl)
    BY DEF kl
  <2> HIDE DEF y
  <2>3. /\ y.size = AlignUp(b.size, a) + kl.size /\ y.alignment = Larger(b.alignment, a)
        /\ y.scalars = b.scalars \o Shift(AlignUp(b.size, a), kl.scalars) /\ y \in Layouts
    BY <1>1, <2>1, <2>2, PlaceDef
  <2>4. AlignUp(b.size, a) = at
    BY DEF at
  <2>5. y.size = at + kl.size /\ y.scalars = b.scalars \o Shift(at, kl.scalars)
    BY <2>3, <2>4, Zenon
  <2> QED
    BY <2>1, <2>3, <2>5, Zenon
<1>11. x.scalars = y.scalars
  <2>1. /\ Shift(k.size, l.scalars) \in Seq(P) /\ Shift(at, k.scalars) \in Seq(P)
        /\ Shift(at + k.size, l.scalars) \in Seq(P) /\ at + k.size \in Nat
    <3>1. at + k.size \in Nat
      BY <1>1, <1>2
    <3>2. \A m \in Nat : \A s \in Seq(P) : Shift(m, s) \in Seq(P)
      BY ShiftType DEF P
    <3> QED
      BY <1>1, <1>2, <3>1, <3>2, Zenon
  <2>2. Shift(at, k.scalars \o Shift(k.size, l.scalars))
        = Shift(at, k.scalars) \o Shift(at, Shift(k.size, l.scalars))
    <3>1. \A m \in Nat : \A s, t \in Seq(P) : Shift(m, s \o t) = Shift(m, s) \o Shift(m, t)
      BY ShiftBoth, Zenon DEF P
    <3> QED
      BY <1>1, <1>2, <2>1, <3>1, Zenon
  <2>3. Shift(at, Shift(k.size, l.scalars)) = Shift(at + k.size, l.scalars)
    BY <1>1, <1>2, ShiftTwice DEF P
  <2> DEFINE u == Shift(at, k.scalars)
             v == Shift(at + k.size, l.scalars)
  <2> HIDE DEF u, v, x, y
  <2>7. u \in Seq(P) /\ v \in Seq(P) /\ b.scalars \in Seq(P)
    BY <1>1, <2>1 DEF u, v
  <2>8. \A r, s, t \in Seq(P) : (r \o s) \o t = r \o (s \o t)
    BY JoinedThrice
  <2>4. (b.scalars \o u) \o v = b.scalars \o (u \o v)
    BY <2>7, <2>8, Zenon
  <2>5. y.scalars = b.scalars \o (u \o v)
    BY <1>10, <2>2, <2>3 DEF u, v
  <2>6. x.scalars = (b.scalars \o u) \o v
    BY <1>9 DEF u, v
  <2> QED
    BY <2>4, <2>5, <2>6
<1>12. x.size = y.size
  BY <1>1, <1>2, <1>9, <1>10
<1> HIDE DEF x, y
<1>13. x = y
  BY <1>9, <1>10, <1>11, <1>12, SameLayout
<1> QED
  BY <1>8, <1>13 DEF a, x, y

\* The first of a row is at its beginning.
LEMMA PlaceFirst ==
  ASSUME NEW l, Whole(l)
  PROVE  Front(Nothing) /\ Place(Nothing, l) = l
<1>1. Front(Nothing) /\ Nothing \in Layouts
  BY DEF Front, Nothing, Layouts, Alignments
<1>2. l \in Layouts /\ l.alignment \in Alignments /\ l.size \in Nat
      /\ l.scalars \in Seq(Nat \X Nat)
  BY DEF Whole, Layouts
<1>3. AlignUp(0, l.alignment) = 0
  BY <1>2 DEF AlignUp, Alignments
<1>4. Larger(0, l.alignment) = l.alignment
  BY <1>2 DEF Larger, Alignments
<1>5. <<>> \o Shift(0, l.scalars) = l.scalars
  <2> DEFINE P == Nat \X Nat
             s == l.scalars
  <2>1. /\ Shift(0, s) \in Seq(P) /\ Len(Shift(0, s)) = Len(s)
        /\ \A i \in 1..Len(s) : Shift(0, s)[i] = <<0 + s[i][1], s[i][2]>>
    BY <1>2, ShiftType
  <2>2. \A i \in 1..Len(s) : s[i] = <<0 + s[i][1], s[i][2]>>
    <3>1. \A i \in 1..Len(s) : s[i] \in Nat \X Nat
      BY <1>2
    <3> QED
      BY <3>1
  <2> HIDE DEF P, s
  <2>3. s \in Seq(P)
    BY <1>2 DEF P, s
  <2>4. Shift(0, s) = s
    BY <2>1, <2>2, <2>3, SameSeq
  <2>5. <<>> \o s = s
    BY <2>3
  <2> QED
    BY <2>4, <2>5 DEF s
<1> DEFINE x == Place(Nothing, l)
<1>6. x.size = AlignUp(0, l.alignment) + l.size /\ x.alignment = Larger(0, l.alignment)
      /\ x.scalars = <<>> \o Shift(AlignUp(0, l.alignment), l.scalars) /\ x \in Layouts
  <2>1. Nothing.size = 0 /\ Nothing.alignment = 0 /\ Nothing.scalars = <<>>
    BY DEF Nothing
  <2> QED
    BY <1>1, <1>2, <2>1, PlaceDef
<1> HIDE DEF x
<1>7. x.size = l.size
  BY <1>2, <1>3, <1>6
<1>8. x = l
  BY <1>2, <1>3, <1>4, <1>5, <1>6, <1>7, SameLayout
<1> QED
  BY <1>1, <1>8 DEF x

\* An array in a struct takes the place of as many fields.
LEMMA PlaceArray ==
  ASSUME NEW ls, Len(ls) \in Nat, Front(Row(ls)), NEW l, Whole(l),
         NEW c \in Nat \ {0}, NEW ms, Len(ms) = Len(ls) + c,
         \A i \in 1..Len(ls) : ms[i] = ls[i],
         \A i \in (Len(ls) + 1)..Len(ms) : ms[i] = l
  PROVE  /\ Row(ms) = Place(Row(ls), StructLayout([j \in 1..c |-> l]))
         /\ Whole(StructLayout([j \in 1..c |-> l]))
<1> DEFINE Copies(n) == [j \in 1..n |-> l]
           Longer(n, xs) == /\ Len(xs) = Len(ls) + n
                            /\ \A i \in 1..Len(ls) : xs[i] = ls[i]
                            /\ \A i \in (Len(ls) + 1)..Len(xs) : xs[i] = l
           Claim(n) == /\ Whole(Row(Copies(n))) /\ Row(Copies(n)).alignment = l.alignment
                       /\ \A xs : Longer(n, xs) =>
                            Row(xs) = Place(Row(ls), Row(Copies(n)))
           K == {n \in Nat : Claim(n + 1)}
<1>0. \A n \in Nat : Len(Copies(n)) = n /\ \A i \in 1..n : Copies(n)[i] = l
  OBVIOUS
<1> HIDE DEF Copies
<1>1. 0 \in K
  <2>1. Row(Copies(0)) = Nothing
    BY <1>0, RowNone
  <2>2. Row(Copies(1)) = Place(Nothing, l)
    <3>1. Len(Copies(0)) = 0 /\ Len(Copies(1)) = 1 /\ Copies(1)[1] = l
      <4>1. 0 \in Nat /\ 1 \in Nat /\ 1 \in 1..1
        OBVIOUS
      <4> QED
        BY <1>0, <4>1, Zenon
    <3> DEFINE xs == Copies(0)
               ys == Copies(1)
    <3> HIDE DEF xs, ys
    <3>2. Len(xs) = 0 /\ Len(ys) = 1 /\ ys[1] = l /\ Row(xs) = Nothing
      BY <2>1, <3>1 DEF xs, ys
    <3>3. Len(xs) \in Nat /\ Len(ys) = Len(xs) + 1 /\ \A i \in 1..Len(xs) : ys[i] = xs[i]
      BY <3>2
    <3>4. Row(ys) = Place(Row(xs), ys[Len(ys)])
      BY <3>3, RowMore
    <3> QED
      BY <3>2, <3>4 DEF ys
  <2>3. Row(Copies(1)) = l
    BY <2>2, PlaceFirst
  <2>4. ASSUME NEW xs, Longer(1, xs) PROVE Row(xs) = Place(Row(ls), l)
    <3>1. xs[Len(xs)] = l
      BY <2>4
    <3> QED
      BY <2>4, <3>1, RowMore
  <2> HIDE DEF Longer
  <2>5. Claim(1)
    BY <2>3, <2>4
  <2> HIDE DEF Claim
  <2> QED
    BY <2>5
<1>2. ASSUME NEW n \in K PROVE n + 1 \in K
  <2>0. n \in Nat /\ Claim(n + 1)
    BY Zenon
  <2> HIDE DEF K
  <2> DEFINE k == Row(Copies(n + 1))
  <2>1. Whole(k) /\ k.alignment = l.alignment
    BY <2>0
  <2>2. Row(Copies(n + 2)) = Place(k, l)
    <3>1. /\ Len(Copies(n + 1)) = n + 1 /\ Len(Copies(n + 2)) = n + 2
          /\ \A i \in 1..(n + 1) : Copies(n + 1)[i] = l /\ Copies(n + 2)[i] = l
          /\ Copies(n + 2)[n + 2] = l
      BY <1>0, <2>0
    <3>2. n + 1 \in Nat /\ n + 2 = (n + 1) + 1
      BY <2>0
    <3> QED
      BY <3>1, <3>2, RowMore
  <2>3. ASSUME NEW xs, Longer(n + 2, xs) PROVE Row(xs) = Place(Place(Row(ls), k), l)
    <3> DEFINE N == Len(ls) + n + 1
               ys == [i \in 1..N |-> xs[i]]
    <3>1. N \in Nat /\ Len(ys) = N /\ \A i \in 1..N : ys[i] = xs[i]
      BY <2>0
    <3> HIDE DEF ys
    <3>2. Longer(n + 1, ys)
      BY <2>0, <2>3, <3>1
    <3>3. Row(ys) = Place(Row(ls), k)
      <4> HIDE DEF Longer
      <4> QED
        BY <2>0, <3>2
    <3>4. Len(xs) = N + 1 /\ xs[Len(xs)] = l
      BY <2>0, <2>3
    <3> HIDE DEF N, k
    <3>5. Row(xs) = Place(Row(ys), xs[Len(xs)])
      BY <3>1, <3>4, RowMore
    <3> QED
      BY <3>3, <3>4, <3>5
  <2> HIDE DEF Longer, k
  <2>4. /\ Whole(Place(k, l)) /\ Place(k, l).alignment = k.alignment
        /\ Place(Place(Row(ls), k), l) = Place(Row(ls), Place(k, l))
    BY <2>1, PlaceTwice
  <2>5. Claim(n + 2)
    BY <2>1, <2>2, <2>3, <2>4
  <2>6. (n + 1) + 1 = n + 2 /\ n + 1 \in Nat
    BY <2>0
  <2> HIDE DEF Claim
  <2> QED
    BY <2>5, <2>6 DEF K
<1> HIDE DEF Longer, Claim
<1>3. K = Nat
  BY <1>1, <1>2, Induction
<1>4. c - 1 \in Nat /\ (c - 1) + 1 = c
  OBVIOUS
<1>5. c - 1 \in K
  BY <1>3, <1>4, Zenon
<1>6. Claim(c)
  BY <1>4, <1>5
<1>7. Longer(c, ms)
  BY DEF Longer
<1> DEFINE k == Row(Copies(c))
<1>8. Whole(k) /\ Row(ms) = Place(Row(ls), k)
  BY <1>6, <1>7 DEF Claim
<1> HIDE DEF k
<1>9. Padded(k) = k
  BY <1>8 DEF Padded, Whole, Layouts
<1>10. StructLayout([j \in 1..c |-> l]) = k
  <2>1. StructLayout(Copies(c)) = Padded(k)
    BY StructLayoutRow DEF k
  <2> QED
    BY <1>9, <2>1 DEF Copies
<1> QED
  BY <1>8, <1>10

-----------------------------------------------------------------------------
(* Ranks: nothing is inside itself, so what the reference and libffi       *)
(* compute follows the types from the inside out.                          *)

NoneInItself == \A t \in Composites : t \notin Reach(Within, Within[t])

\* Fields and elements have a lower rank.
Ranked(rank) ==
  /\ rank \in [Types -> 0..Cardinality(Composites)]
  /\ \A t \in Structs : \A f \in Range(Declared[t]) : rank[f] < rank[t]
  /\ \A t \in Arrays : rank[ElemOf[t]] < rank[t]

\* If nothing is inside itself, types have ranks.
LEMMA RankExists ==
  ASSUME NoneInItself
  PROVE  \E rank : Ranked(rank)
<1>1. IsFiniteSet(Composites) /\ Composites \subseteq Types
  BY KindAssumption, FS_Subset, Names DEF Composites
<1>2. DOMAIN Within = Composites /\ \A v \in Composites : Within[v] \subseteq Composites
  BY DEF Within
<1> DEFINE D(t) == Reach(Within, {t})
           rank == [t \in Types |-> IF t \in Composites THEN Cardinality(D(t)) ELSE 0]
<1>3. ASSUME NEW S \in SUBSET Composites
      PROVE  /\ S \subseteq Reach(Within, S) /\ Reach(Within, S) \subseteq Composites
             /\ \A v \in Reach(Within, S) : Within[v] \subseteq Reach(Within, S)
  BY <1>1, <1>2, ReachClosed
<1>4. ASSUME NEW S, NEW C, S \subseteq C, \A v \in C : Within[v] \subseteq C
      PROVE  Reach(Within, S) \subseteq C
  <2>1. Cardinality(DOMAIN Within) \in Nat
    BY <1>1, <1>2, FS_CardinalityType
  <2> QED
    BY <1>4, <2>1, ReachLeast
<1>5. ASSUME NEW t \in Composites
      PROVE  t \in D(t) /\ D(t) \subseteq Composites /\ IsFiniteSet(D(t))
             /\ Cardinality(D(t)) \in 1..Cardinality(Composites)
  <2>1. t \in D(t) /\ D(t) \subseteq Composites
    BY <1>3
  <2> HIDE DEF D
  <2>2. IsFiniteSet(D(t))
    BY <1>1, <2>1, FS_Subset
  <2>3. Cardinality(D(t)) # 0
    BY <2>1, <2>2, FS_EmptySet
  <2>4. Cardinality(D(t)) <= Cardinality(Composites)
    BY <1>1, <2>1, FS_Subset
  <2>5. Cardinality(D(t)) \in Nat /\ Cardinality(Composites) \in Nat
    BY <1>1, <2>2, FS_CardinalityType
  <2> QED
    BY <2>1, <2>2, <2>3, <2>4, <2>5
<1>6. ASSUME NEW t \in Composites, NEW e \in Within[t]
      PROVE  Cardinality(D(e)) < Cardinality(D(t))
  <2> DEFINE C == Reach(Within, Within[t])
  <2>0. e \in Composites
    BY <1>2
  <2>1. Within[t] \subseteq C /\ \A v \in C : Within[v] \subseteq C
    BY <1>2, <1>3
  <2>2. t \notin C
    BY DEF NoneInItself
  <2>3. D(e) \subseteq C
    <3> HIDE DEF C
    <3> QED
      BY <1>4, <2>1
  <2>4. C \subseteq D(t)
    <3>1. t \in D(t) /\ \A v \in D(t) : Within[v] \subseteq D(t)
      BY <1>3
    <3>2. Within[t] \subseteq D(t)
      BY <3>1
    <3> HIDE DEF D
    <3> QED
      BY <1>4, <3>1, <3>2
  <2> HIDE DEF C, D
  <2>5. D(e) \subseteq D(t) /\ D(e) # D(t)
    BY <1>5, <2>2, <2>3, <2>4
  <2>6. Cardinality(D(e)) <= Cardinality(D(t)) /\ Cardinality(D(e)) # Cardinality(D(t))
    BY <1>5, <2>5, FS_Subset
  <2> QED
    BY <1>5, <2>0, <2>6
<1> HIDE DEF D
<1>7. rank \in [Types -> 0..Cardinality(Composites)]
  <2>1. Cardinality(Composites) \in Nat
    BY <1>1, FS_CardinalityType
  <2> QED
    BY <1>5, <2>1
<1>8. \A t \in Composites : \A e \in Types :
        e \in Within[t] \/ e \notin Composites => rank[e] < rank[t]
  BY <1>1, <1>5, <1>6
<1> HIDE DEF rank
<1>9. ASSUME NEW t \in Structs, NEW f \in Range(Declared[t]) PROVE rank[f] < rank[t]
  <2>1. t \in Composites /\ f \in Types
    BY OthersAssumption DEF Composites, Range
  <2>2. f \in Composites => f \in Within[t]
    BY <1>9, <2>1 DEF Within
  <2> QED
    BY <1>8, <2>1, <2>2
<1>10. ASSUME NEW t \in Arrays PROVE rank[ElemOf[t]] < rank[t]
  <2>1. t \in Composites /\ ElemOf[t] \in Types /\ t \notin Structs
    BY OthersAssumption DEF Composites, Arrays, Structs
  <2>2. ElemOf[t] \in Composites => ElemOf[t] \in Within[t]
    BY <2>1 DEF Within
  <2> QED
    BY <1>8, <2>1, <2>2
<1> QED
  BY <1>7, <1>9, <1>10 DEF Ranked

\* Structs are nested no deeper than there are structs.
Leveled(level) ==
  /\ level \in [Structs -> 1..Cardinality(Structs)]
  /\ \A t \in Structs : \A n \in DOMAIN Declared[t] :
       Member(Declared[t][n]) \in Structs => level[Member(Declared[t][n])] < level[t]

\* And structs have levels, no more than there are structs.
LEMMA LevelExists ==
  ASSUME NoneInItself
  PROVE  \E level : Leveled(level)
<1>1. PICK rank : Ranked(rank)
  BY RankExists
<1>2. IsFiniteSet(Structs) /\ Structs \subseteq Types
  BY KindAssumption, FS_Subset, Names
<1> DEFINE Lower(t) == {u \in Structs : rank[u] < rank[t]}
           level == [t \in Structs |-> Cardinality(Lower(t)) + 1]
<1>3. \A t \in Structs : rank[t] \in Nat
  BY <1>1, <1>2 DEF Ranked
<1>4. ASSUME NEW S, NEW T, S \subseteq T, T \subseteq Structs, S # T
      PROVE  Cardinality(S) < Cardinality(T) /\ Cardinality(S) \in Nat
             /\ Cardinality(T) \in Nat
  <2>1. IsFiniteSet(S) /\ IsFiniteSet(T)
    BY <1>2, <1>4, FS_Subset
  <2>2. Cardinality(S) \in Nat /\ Cardinality(T) \in Nat
    BY <2>1, FS_CardinalityType
  <2>3. Cardinality(S) <= Cardinality(T) /\ Cardinality(S) # Cardinality(T)
    BY <1>4, <2>1, FS_Subset
  <2> QED
    BY <2>2, <2>3
<1>5. ASSUME NEW t \in Structs PROVE level[t] \in 1..Cardinality(Structs)
  <2>1. Lower(t) \subseteq Structs /\ t \notin Lower(t)
    BY <1>3
  <2> HIDE DEF Lower
  <2>2. Cardinality(Lower(t)) < Cardinality(Structs) /\ Cardinality(Lower(t)) \in Nat
        /\ Cardinality(Structs) \in Nat
    BY <1>4, <2>1
  <2> QED
    BY <2>2
<1>6. ASSUME NEW t \in Structs, NEW e \in Structs, rank[e] < rank[t]
      PROVE  level[e] < level[t]
  <2>1. Lower(e) \subseteq Lower(t) /\ e \in Lower(t) /\ e \notin Lower(e)
        /\ Lower(t) \subseteq Structs
    BY <1>3, <1>6
  <2> HIDE DEF Lower
  <2>2. Cardinality(Lower(e)) < Cardinality(Lower(t)) /\ Cardinality(Lower(e)) \in Nat
        /\ Cardinality(Lower(t)) \in Nat
    BY <1>4, <2>1
  <2> QED
    BY <2>2
<1>7. ASSUME NEW t \in Structs, NEW n \in DOMAIN Declared[t]
      PROVE  rank[Member(Declared[t][n])] < rank[t]
  <2> DEFINE f == Declared[t][n]
  <2>1. f \in Types /\ f \in Range(Declared[t])
    BY OthersAssumption DEF Range
  <2> HIDE DEF f
  <2>2. rank[f] < rank[t]
    BY <1>1, <2>1 DEF Ranked
  <2>3. CASE Fixed(f)
    <3>1. f \in Arrays /\ Member(f) = ElemOf[f] /\ ElemOf[f] \in Types
      BY <2>1, <2>3, OthersAssumption DEF Fixed, Arrays, Member
    <3>2. rank[ElemOf[f]] < rank[f] /\ rank[ElemOf[f]] \in Nat /\ rank[f] \in Nat
          /\ rank[t] \in Nat
      BY <1>1, <1>2, <2>1, <3>1 DEF Ranked
    <3>3. rank[Member(f)] < rank[t]
      BY <2>2, <3>1, <3>2
    <3> QED
      BY <3>3 DEF f
  <2>4. CASE ~Fixed(f)
    <3>1. rank[Member(f)] < rank[t]
      BY <2>2, <2>4 DEF Member
    <3> QED
      BY <3>1 DEF f
  <2> QED
    BY <2>3, <2>4
<1> HIDE DEF level
<1>8. level \in [Structs -> 1..Cardinality(Structs)]
  <2>1. level = [t \in Structs |-> level[t]]
    BY DEF level
  <2> QED
    BY <1>5, <2>1
<1> QED
  BY <1>6, <1>7, <1>8 DEF Leveled

\* The layout of a type is made of those of types of a lower rank.
LEMMA DeclaredLayoutDef ==
  ASSUME NoneInItself, DefinedOK
  PROVE  \A t \in Types : DeclaredLayout[t] =
           IF t \in Structs \/ Fixed(t)
           THEN StructLayout([n \in DOMAIN Parts(t) |-> DeclaredLayout[Parts(t)[n]]])
           ELSE ScalarLayout(IF t \in Scalars THEN SizeInC[NameOf[t]] ELSE PointerSize)
<1>1. PICK rank : Ranked(rank)
  BY RankExists
<1> DEFINE Of(f, t) == [n \in DOMAIN Parts(t) |-> f[Parts(t)[n]]]
           Body(f, t) ==
             IF t \in Structs \/ Fixed(t)
             THEN StructLayout([n \in DOMAIN Parts(t) |-> f[Parts(t)[n]]])
             ELSE ScalarLayout(IF t \in Scalars THEN SizeInC[NameOf[t]] ELSE PointerSize)
           Solves(f, k) == /\ f = [t \in Types |-> f[t]]
                           /\ \A t \in Types : rank[t] < k => f[t] = Body(f, t)
           K == {k \in Nat : \E f : Solves(f, k)}
           N == Cardinality(Composites) + 1
<1>2. N \in Nat /\ \A t \in Types : rank[t] \in Nat /\ rank[t] < N
  <2>1. Cardinality(Composites) \in Nat
    BY Graph
  <2>2. \A t \in Types : rank[t] \in 0..Cardinality(Composites)
    BY <1>1 DEF Ranked
  <2> QED
    BY <2>1, <2>2
<1>3. ASSUME NEW f, NEW g, NEW t \in Types, \A e \in Types : rank[e] < rank[t] => f[e] = g[e]
      PROVE  Body(f, t) = Body(g, t)
  <2>1. CASE t \in Structs \/ Fixed(t)
    <3>1. \A i \in DOMAIN Parts(t) : Parts(t)[i] \in Types /\ rank[Parts(t)[i]] < rank[t]
      <4>1. CASE t \in Structs
        <5>1. /\ DOMAIN fields(t) = 1..defined[t]
              /\ \A i \in 1..defined[t] : fields(t)[i] = Declared[t][i]
              /\ defined[t] \in 0..Len(Declared[t])
          BY <4>1, FieldsOf DEF DefinedOK
        <5>2. \A i \in 1..defined[t] :
                Declared[t][i] \in Types /\ Declared[t][i] \in Range(Declared[t])
          BY <4>1, <5>1, OthersAssumption DEF Range
        <5> QED
          BY <1>1, <4>1, <5>1, <5>2 DEF Ranked, Parts
      <4>2. CASE t \notin Structs
        <5>1. t \in Arrays
          BY <2>1, <4>2 DEF Fixed, Arrays
        <5>2. ElemOf[t] \in Types /\ rank[ElemOf[t]] < rank[t]
          BY <1>1, <5>1, OthersAssumption DEF Ranked
        <5> QED
          BY <4>2, <5>2 DEF Parts
      <4> QED
        BY <4>1, <4>2
    <3>2. Of(f, t) = Of(g, t)
      BY <1>3, <3>1
    <3> QED
      BY <2>1, <3>2, Zenon
  <2>2. CASE ~(t \in Structs \/ Fixed(t))
    BY <2>2
  <2> QED
    BY <2>1, <2>2
<1>4. 0 \in K
  <2> DEFINE f == [t \in Types |-> 0]
  <2>1. f = [t \in Types |-> f[t]] /\ \A t \in Types : ~(rank[t] < 0)
    BY <1>2
  <2> HIDE DEF f, Body
  <2>2. Solves(f, 0)
    BY <2>1
  <2> QED
    BY <2>2
<1>5. ASSUME NEW k \in K PROVE k + 1 \in K
  <2>0. k \in Nat
    BY Zenon
  <2>1. PICK f : Solves(f, k)
    BY Zenon
  <2> HIDE DEF K
  <2> DEFINE g == [t \in Types |-> Body(f, t)]
  <2>2. \A t \in Types : g[t] = Body(f, t)
    BY Zenon
  <2>3. g = [t \in Types |-> g[t]]
    BY <2>2
  <2> HIDE DEF g, Body
  <2>4. \A t \in Types : rank[t] < k => f[t] = g[t]
    BY <2>1, <2>2
  <2>5. ASSUME NEW t \in Types, rank[t] < k + 1 PROVE g[t] = Body(g, t)
    <3>1. \A e \in Types : rank[e] < rank[t] => f[e] = g[e]
      <4>1. \A e \in Types : rank[e] < rank[t] => rank[e] < k
        BY <1>2, <2>0, <2>5
      <4> QED
        BY <2>4, <4>1
    <3>2. Body(f, t) = Body(g, t)
      BY <1>3, <3>1
    <3> QED
      BY <2>2, <3>2
  <2>6. Solves(g, k + 1)
    BY <2>3, <2>5
  <2>7. k + 1 \in Nat
    BY <2>0
  <2> HIDE DEF Solves
  <2> QED
    BY <2>6, <2>7 DEF K
<1>6. K = Nat
  BY <1>4, <1>5, Induction
<1>7. N \in K
  BY <1>2, <1>6, Zenon
<1>8. PICK f : Solves(f, N)
  BY <1>7
<1>9. f = [t \in Types |-> Body(f, t)]
  <2> HIDE DEF Body, N
  <2> QED
    BY <1>2, <1>8
<1> HIDE DEF Solves, K
<1>10. \E h : h = [t \in Types |-> Body(h, t)]
  BY <1>9, Zenon
<1>11. DeclaredLayout = [t \in Types |-> Body(DeclaredLayout, t)]
  BY <1>10, Zenon DEF DeclaredLayout
<1> QED
  BY <1>11, Zenon

\* Structs hold the ffi_types of structs of a lower level.
Nested(elems, level) ==
  \A p \in Structs : \A n \in DOMAIN elems[p] :
    elems[p][n] \in Structs => level[elems[p][n]] < level[p]

\* LibffiLayout satisfies its equation when elements are nested by level.
LEMMA LibffiLayoutDef ==
  ASSUME NEW level, Leveled(level), Nested(elements, level), elements \in [Structs -> Seq(FfiTypes)]
  PROVE  \A p \in FfiTypes : LibffiLayout[p] =
           IF p \in Structs
           THEN LET ls == [i \in DOMAIN elements[p] |-> LibffiLayout[elements[p][i]]] IN
                [StructLayout(ls) EXCEPT !.size = size[p], !.alignment = alignment[p]]
           ELSE ScalarLayout(FFI_TYPES[p])
<1> DEFINE OfElements(f, p) == [i \in DOMAIN elements[p] |-> f[elements[p][i]]]
           Body(f, p) ==
             IF p \in Structs
             THEN LET ls == [i \in DOMAIN elements[p] |-> f[elements[p][i]]] IN
                  [StructLayout(ls) EXCEPT !.size = size[p], !.alignment = alignment[p]]
             ELSE ScalarLayout(FFI_TYPES[p])
           rank == [p \in FfiTypes |-> IF p \in Structs THEN level[p] ELSE 0]
           Solves(f, k) == /\ f = [p \in FfiTypes |-> f[p]]
                           /\ \A p \in FfiTypes : rank[p] < k => f[p] = Body(f, p)
           K == {k \in Nat : \E f : Solves(f, k)}
           N == Cardinality(Structs) + 1
<1>2. N \in Nat /\ \A p \in FfiTypes : rank[p] \in Nat /\ rank[p] < N
  <2>1. Cardinality(Structs) \in Nat
    BY Graph
  <2>2. \A p \in Structs : level[p] \in 1..Cardinality(Structs)
    BY DEF Leveled
  <2> QED
    BY <2>1, <2>2
<1>3. ASSUME NEW f, NEW g, NEW p \in FfiTypes,
             \A e \in FfiTypes : rank[e] < rank[p] => f[e] = g[e]
      PROVE  Body(f, p) = Body(g, p)
  <2>1. CASE p \in Structs
    <3>0. level[p] \in 1..Cardinality(Structs) /\ rank[p] = level[p]
          /\ elements[p] \in Seq(FfiTypes)
      BY <2>1 DEF Leveled
    <3>1. \A i \in DOMAIN elements[p] :
            elements[p][i] \in FfiTypes /\ rank[elements[p][i]] < rank[p]
      BY <2>1, <3>0 DEF Nested
    <3>2. OfElements(f, p) = OfElements(g, p)
      <4> HIDE DEF rank
      <4> QED
        BY <1>3, <3>1
    <3> QED
      BY <2>1, <3>2, Zenon
  <2>2. CASE p \notin Structs
    BY <2>2
  <2> QED
    BY <2>1, <2>2
<1>4. 0 \in K
  <2> DEFINE f == [p \in FfiTypes |-> 0]
  <2>1. f = [p \in FfiTypes |-> f[p]] /\ \A p \in FfiTypes : ~(rank[p] < 0)
    BY <1>2
  <2> HIDE DEF f, Body, rank
  <2>2. Solves(f, 0)
    BY <2>1
  <2> QED
    BY <2>2
<1> HIDE DEF rank
<1>5. ASSUME NEW k \in K PROVE k + 1 \in K
  <2>0. k \in Nat
    BY Zenon
  <2>1. PICK f : Solves(f, k)
    BY Zenon
  <2> HIDE DEF K
  <2> DEFINE g == [p \in FfiTypes |-> Body(f, p)]
  <2>2. \A p \in FfiTypes : g[p] = Body(f, p)
    BY Zenon
  <2>3. g = [p \in FfiTypes |-> g[p]]
    BY <2>2
  <2> HIDE DEF g, Body
  <2>4. \A p \in FfiTypes : rank[p] < k => f[p] = g[p]
    BY <2>1, <2>2
  <2>5. ASSUME NEW p \in FfiTypes, rank[p] < k + 1 PROVE g[p] = Body(g, p)
    <3>1. \A e \in FfiTypes : rank[e] < rank[p] => f[e] = g[e]
      <4>1. \A e \in FfiTypes : rank[e] < rank[p] => rank[e] < k
        BY <1>2, <2>0, <2>5
      <4> QED
        BY <2>4, <4>1
    <3>2. Body(f, p) = Body(g, p)
      BY <1>3, <3>1
    <3> QED
      BY <2>2, <3>2
  <2>6. Solves(g, k + 1)
    BY <2>3, <2>5
  <2>7. k + 1 \in Nat
    BY <2>0
  <2> HIDE DEF Solves
  <2> QED
    BY <2>6, <2>7 DEF K
<1>6. K = Nat
  BY <1>4, <1>5, Induction
<1>7. N \in K
  BY <1>2, <1>6, Zenon
<1>8. PICK f : Solves(f, N)
  BY <1>7
<1>9. f = [p \in FfiTypes |-> Body(f, p)]
  <2> HIDE DEF Body, N
  <2> QED
    BY <1>2, <1>8
<1> HIDE DEF Solves, K
<1>10. \E h : h = [p \in FfiTypes |-> Body(h, p)]
  BY <1>9, Zenon
<1>11. LibffiLayout = [p \in FfiTypes |-> Body(LibffiLayout, p)]
  BY <1>10, Zenon DEF LibffiLayout
<1> QED
  BY <1>11, Zenon

-----------------------------------------------------------------------------
(* A struct whose fixed-length arrays are unrolled into elements has the   *)
(* layout that is declared.                                                *)

\* A scalar for which Type() finds an ffi_type.
Hope(t) == \E c \in Range(Chain[t]) : NamedAtLoad(NameOf[c]) # "unset"

\* The ffi_type that a type should get.
Right(p, t) ==
  /\ p \in FfiTypes
  /\ t \in Structs => p = t
  /\ t \in Scalars => p \notin Structs /\ Hope(t) /\ Fits(t, p)
  /\ t \notin Structs \union Scalars => p = "pointer"

\* The layout of an ffi_type, where structs' have those of their declarations.
LayoutOf(p) == IF p \in Structs THEN DeclaredLayout[p] ELSE ScalarLayout(FFI_TYPES[p])

\* A scalar needs no padding.
LEMMA WholeScalar ==
  ASSUME NEW n \in Alignments
  PROVE  Whole(ScalarLayout(n))
<1> DEFINE l == ScalarLayout(n)
           s == <<<<0, n>>>>
<1>1. n \in Nat /\ s \in Seq(Nat \X Nat)
  BY DEF Alignments
<1> HIDE DEF s
<1>2. l = [size |-> n, alignment |-> n, scalars |-> s]
  BY DEF ScalarLayout, s
<1>3. AlignUp(n, n) = n
  BY DEF Alignments, AlignUp
<1> HIDE DEF l
<1>4. l.size = n /\ l.alignment = n /\ l \in Layouts
  BY <1>1, <1>2 DEF Layouts
<1> QED
  BY <1>3, <1>4 DEF Whole, l

\* All sizes are ones that scalars can be aligned to.
LEMMA Sizes ==
  /\ \A n \in DOMAIN SizeInC : SizeInC[n] \in Alignments \union {0}
  /\ \A n \in DOMAIN FFI_TYPES : FFI_TYPES[n] \in Alignments
  /\ FFI_TYPES["pointer"] = PointerSize /\ PointerSize \in Alignments
BY OthersAssumption DEF SizeInC, FFI_TYPES, PointerSize, Alignments

\* The ffi_type of what is not an array in a struct has its layout.
LEMMA RightLayout ==
  ASSUME WellDeclared, DefinedOK, NEW t \in Types, ~Fixed(t), NEW p, Right(p, t),
         t \in Scalars => SizeInC[NameOf[t]] # 0
  PROVE  LayoutOf(p) = DeclaredLayout[t]
<1>1. DeclaredLayout[t] =
        IF t \in Structs \/ Fixed(t)
        THEN StructLayout([n \in DOMAIN Parts(t) |-> DeclaredLayout[Parts(t)[n]]])
        ELSE ScalarLayout(IF t \in Scalars THEN SizeInC[NameOf[t]] ELSE PointerSize)
  BY DeclaredLayoutDef DEF WellDeclared, NoneInItself
<1>2. CASE t \in Structs
  BY <1>2 DEF Right, LayoutOf
<1>3. CASE t \in Scalars
  <2>1. t \notin Structs /\ p \notin Structs /\ FFI_TYPES[p] = SizeInC[NameOf[t]]
    BY <1>3 DEF Right, Fits, Structs, Scalars
  <2> QED
    BY <1>1, <1>3, <2>1 DEF LayoutOf
<1>4. CASE t \notin Structs \union Scalars
  <2>1. p = "pointer" /\ p \notin Structs
    BY <1>4, Names DEF Right
  <2> QED
    BY <1>1, <1>4, <2>1, Sizes DEF LayoutOf
<1> QED
  BY <1>2, <1>3, <1>4

\* Fields of a struct are no arrays of arrays, and have a size.
LEMMA MemberSized ==
  ASSUME WellDeclared, DefinedOK, NEW t \in Structs, NEW n \in 1..defined[t], NEW p,
         Right(p, Member(Declared[t][n]))
  PROVE  /\ Member(Declared[t][n]) \in Types /\ ~Fixed(Member(Declared[t][n]))
         /\ LayoutOf(p) = DeclaredLayout[Member(Declared[t][n])]
         /\ p \notin Structs => Whole(LayoutOf(p))
<1> DEFINE f == Declared[t][n]
           e == Member(f)
<1>1. f \in Range(Declared[t]) /\ f \in Types
  BY OthersAssumption DEF DefinedOK, Range
<1>2. e \in Types
  BY <1>1, OthersAssumption DEF Member, Fixed, Arrays
<1>3. ~Fixed(e) /\ (e \in Scalars => NameOf[e] # "void")
  BY <1>1 DEF WellDeclared
<1> HIDE DEF e
<1>4. e \in Scalars => SizeInC[NameOf[e]] # 0
  BY <1>3 DEF WellDeclared, Right, Hope, e
<1>5. LayoutOf(p) = DeclaredLayout[e]
  BY <1>2, <1>3, <1>4, RightLayout DEF e
<1>6. ASSUME p \notin Structs PROVE Whole(LayoutOf(p))
  <2>1. p \in DOMAIN FFI_TYPES
    BY <1>6 DEF Right, FfiTypes
  <2> QED
    BY <1>6, <2>1, Sizes, WholeScalar DEF LayoutOf
<1> QED
  BY <1>2, <1>3, <1>5, <1>6 DEF e

\* libffi's struct, in which arrays are unrolled, has the layout of the declared one.
LEMMA Unrolled ==
  ASSUME WellDeclared, DefinedOK, NEW t \in Structs, NEW got \in Seq(FfiTypes),
         Len(got) = defined[t],
         \A n \in 1..defined[t] : /\ Right(got[n], Member(Declared[t][n]))
                                  /\ got[n] \in Structs => Whole(LayoutOf(got[n])),
         NEW es, es = Elements(fields(t), got)
  PROVE  /\ StructLayout([n \in DOMAIN es |-> LayoutOf(es[n])]) = DeclaredLayout[t]
         /\ defined[t] > 0 => Whole(DeclaredLayout[t])
<1> DEFINE fs == fields(t)
           Of(xs) == [n \in DOMAIN xs |-> LayoutOf(xs[n])]
           Declares(i) == [n \in 1..i |-> DeclaredLayout[fs[n]]]
<1>1. /\ fs \in Seq(Types) /\ Len(fs) = defined[t] /\ defined[t] \in Nat
      /\ DOMAIN fs = 1..defined[t]
      /\ \A n \in 1..defined[t] : fs[n] = Declared[t][n]
  BY FieldsOf
<1>2. PICK all : /\ all[0] = <<>>
                 /\ \A i \in 1..Len(fs) :
                      all[i] = all[i - 1] \o [j \in 1..Counts(fs[i]) |-> got[i]]
                 /\ Elements(fs, got) = all[Len(fs)]
  BY <1>1, ElementsDef
<1>3. \A xs \in Seq(FfiTypes) :
        Len(Of(xs)) = Len(xs) /\ Len(xs) \in Nat /\ \A n \in 1..Len(xs) : Of(xs)[n] = LayoutOf(xs[n])
  OBVIOUS
<1>4. \A i \in Nat : Len(Declares(i)) = i /\ \A n \in 1..i : Declares(i)[n] = DeclaredLayout[fs[n]]
  OBVIOUS
<1> DEFINE Claim(i) ==
             /\ all[i] \in Seq(FfiTypes)
             /\ Row(Of(all[i])) = Row(Declares(i))
             /\ Front(Row(Declares(i)))
             /\ i > 0 => Row(Declares(i)).alignment \in Alignments
           K == {i \in Nat : i <= defined[t] => Claim(i)}
<1> HIDE DEF fs, Of, Declares
<1>5. 0 \in K
  <2>1. <<>> \in Seq(FfiTypes) /\ Len(<<>>) = 0
    OBVIOUS
  <2>2. Row(Of(<<>>)) = Nothing /\ Row(Declares(0)) = Nothing
    <3>1. Len(Of(<<>>)) = 0 /\ Len(Declares(0)) = 0
      BY <1>3, <1>4, <2>1
    <3> QED
      BY <3>1, RowNone
  <2>3. Front(Nothing)
    BY DEF Front, Nothing, Layouts, Alignments
  <2>4. Claim(0)
    BY <1>2, <2>1, <2>2, <2>3
  <2> HIDE DEF Claim
  <2> QED
    BY <2>4
<1>6. ASSUME NEW i \in K PROVE i + 1 \in K
  <2>0. i \in Nat /\ (i <= defined[t] => Claim(i))
    BY Zenon
  <2> HIDE DEF K, Claim
  <2> SUFFICES ASSUME i + 1 <= defined[t] PROVE Claim(i + 1)
    BY <2>0 DEF K
  <2> DEFINE n == i + 1
             f == fs[n]
             p == got[n]
             l == LayoutOf(p)
             c == Counts(f)
             more == [j \in 1..c |-> p]
             old == all[i]
             new == all[n]
  <2>1. n \in 1..defined[t] /\ n - 1 = i /\ Claim(i) /\ n \in Nat /\ n > 0
    BY <1>1, <2>0
  <2>2. f \in Types /\ f = Declared[t][n] /\ p \in FfiTypes
    BY <1>1, <2>1
  <2>3. c \in Nat \ {0}
    BY <2>2, OthersAssumption DEF Counts, Fixed, Arrays
  <2>4. /\ Right(p, Member(f)) /\ Member(f) \in Types /\ ~Fixed(Member(f))
        /\ l = DeclaredLayout[Member(f)] /\ Whole(l)
    BY <2>1, <2>2, MemberSized
  <2>5. new = old \o more
    BY <1>1, <1>2, <2>1
  <2>6. old \in Seq(FfiTypes) /\ Row(Of(old)) = Row(Declares(i)) /\ Front(Row(Of(old)))
    BY <2>1 DEF Claim
  <2> HIDE DEF n, f, p, l, c, more, old, new
  <2>7. more \in Seq(FfiTypes) /\ Len(more) = c /\ \A j \in 1..c : more[j] = p
    BY <2>2, <2>3 DEF more
  <2>8. /\ new \in Seq(FfiTypes) /\ Len(new) = Len(old) + c /\ Len(old) \in Nat
        /\ \A j \in 1..Len(old) : new[j] = old[j]
        /\ \A j \in (Len(old) + 1)..Len(new) : new[j] = p
    <3>1. /\ new \in Seq(FfiTypes) /\ Len(new) = Len(old) + Len(more) /\ Len(old) \in Nat
          /\ \A j \in 1..Len(old) : new[j] = old[j]
          /\ \A j \in 1..Len(more) : new[Len(old) + j] = more[j]
      <4>1. old \in Seq(FfiTypes) /\ more \in Seq(FfiTypes)
        BY <2>6, <2>7
      <4>2. /\ old \o more \in Seq(FfiTypes) /\ Len(old \o more) = Len(old) + Len(more)
            /\ Len(old) \in Nat
            /\ \A j \in 1..Len(old) : (old \o more)[j] = old[j]
            /\ \A j \in 1..Len(more) : (old \o more)[Len(old) + j] = more[j]
        BY <4>1, Joined
      <4> QED
        BY <2>5, <4>2
    <3>2. ASSUME NEW j \in (Len(old) + 1)..Len(new) PROVE new[j] = p
      <4>1. j - Len(old) \in 1..c /\ Len(old) + (j - Len(old)) = j
        BY <2>3, <2>7, <3>1
      <4> QED
        BY <2>7, <3>1, <4>1
    <3> QED
      BY <2>7, <3>1, <3>2
  <2>9. Row(Declares(n)) = Place(Row(Declares(i)), DeclaredLayout[f])
    <3>1. /\ Len(Declares(i)) = i /\ Len(Declares(n)) = n
          /\ \A k \in 1..i : Declares(n)[k] = Declares(i)[k]
          /\ Declares(n)[n] = DeclaredLayout[f]
      BY <1>4, <2>0, <2>1 DEF n, f
    <3>2. n = i + 1
      BY DEF n
    <3> QED
      BY <2>0, <3>1, <3>2, RowMore
  <2>10. /\ Len(Of(old)) = Len(old) /\ Len(Of(new)) = Len(old) + c
         /\ \A j \in 1..Len(old) : Of(new)[j] = Of(old)[j]
         /\ \A j \in (Len(old) + 1)..Len(new) : Of(new)[j] = l
    <3>1. /\ Len(Of(old)) = Len(old) /\ Len(Of(new)) = Len(new)
          /\ \A j \in 1..Len(old) : Of(old)[j] = LayoutOf(old[j])
          /\ \A j \in 1..Len(new) : Of(new)[j] = LayoutOf(new[j])
      BY <1>3, <2>6, <2>8
    <3>2. \A j \in 1..Len(old) : j \in 1..Len(new)
      BY <2>3, <2>8
    <3>3. \A j \in (Len(old) + 1)..Len(new) : j \in 1..Len(new)
      BY <2>3, <2>8
    <3> QED
      BY <2>8, <3>1, <3>2, <3>3 DEF l
  <2>11. Row(Of(new)) = Place(Row(Of(old)), DeclaredLayout[f]) /\ Whole(DeclaredLayout[f])
    <3>1. CASE Fixed(f)
      <4>1. f \in Types /\ f \notin Structs /\ Member(f) = ElemOf[f] /\ c = LenOf[f]
        BY <2>2, <3>1 DEF Fixed, Member, Counts, Structs, c
      <4>2. DeclaredLayout[f] =
              StructLayout([k \in DOMAIN Parts(f) |-> DeclaredLayout[Parts(f)[k]]])
        BY <3>1, <4>1, DeclaredLayoutDef DEF WellDeclared, NoneInItself
      <4>3. [k \in DOMAIN Parts(f) |-> DeclaredLayout[Parts(f)[k]]] = [j \in 1..c |-> l]
        BY <2>4, <4>1 DEF Parts
      <4>4. /\ Row(Of(new)) = Place(Row(Of(old)), StructLayout([j \in 1..c |-> l]))
            /\ Whole(StructLayout([j \in 1..c |-> l]))
        <5>1. Len(Of(old)) \in Nat /\ Len(Of(new)) = Len(Of(old)) + c
          BY <2>8, <2>10
        <5>2. \A j \in (Len(Of(old)) + 1)..Len(Of(new)) : Of(new)[j] = l
          BY <2>8, <2>10
        <5> DEFINE xs == Of(old)
                   ys == Of(new)
        <5>3. /\ Len(xs) \in Nat /\ Len(ys) = Len(xs) + c /\ Front(Row(xs))
              /\ \A j \in 1..Len(xs) : ys[j] = xs[j]
              /\ \A j \in (Len(xs) + 1)..Len(ys) : ys[j] = l
          BY <2>6, <2>10, <5>1, <5>2
        <5> HIDE DEF xs, ys
        <5>4. /\ Row(ys) = Place(Row(xs), StructLayout([j \in 1..c |-> l]))
              /\ Whole(StructLayout([j \in 1..c |-> l]))
          <6>1. c \in Nat \ {0} /\ Whole(l)
            BY <2>3, <2>4
          <6> QED
            BY <5>3, <6>1, PlaceArray, Zenon
        <5> QED
          BY <5>4 DEF xs, ys
      <4> QED
        BY <4>2, <4>3, <4>4
    <3>2. CASE ~Fixed(f)
      <4>1. c = 1 /\ l = DeclaredLayout[f]
        BY <2>4, <3>2 DEF Counts, Member, c
      <4>2. Len(Of(old)) \in Nat /\ Len(Of(new)) = Len(Of(old)) + 1
        BY <2>8, <2>10, <4>1
      <4>3. Of(new)[Len(Of(new))] = l
        BY <2>8, <2>10, <4>1
      <4>4. Row(Of(new)) = Place(Row(Of(old)), Of(new)[Len(Of(new))])
        BY <2>10, <4>2, RowMore
      <4> QED
        BY <2>4, <4>1, <4>3, <4>4
    <3> QED
      BY <3>1, <3>2
  <2>12. Front(Row(Declares(n))) /\ Row(Declares(n)).alignment \in Alignments
    BY <2>6, <2>9, <2>11, PlaceWhole
  <2>13. Claim(n)
    BY <2>6, <2>8, <2>9, <2>11, <2>12 DEF Claim, new
  <2> QED
    BY <2>13 DEF n
<1> HIDE DEF Claim
<1>7. K = Nat
  BY <1>5, <1>6, Induction
<1>8. defined[t] \in K
  BY <1>1, <1>7, Zenon
<1>9. Claim(defined[t])
  BY <1>1, <1>8
<1> DEFINE row == Row(Declares(defined[t]))
<1>10. /\ StructLayout(Of(es)) = Padded(row) /\ Front(row)
       /\ defined[t] > 0 => row.alignment \in Alignments
  <2>1. es = all[defined[t]]
    BY <1>1, <1>2 DEF fs
  <2>2. StructLayout(Of(es)) = Padded(Row(Of(es)))
    BY StructLayoutRow
  <2> QED
    BY <1>9, <2>1, <2>2 DEF Claim
<1>11. DeclaredLayout[t] = Padded(row)
  <2>1. t \in Types
    BY DEF Structs
  <2>2. DeclaredLayout[t] =
          StructLayout([n \in DOMAIN Parts(t) |-> DeclaredLayout[Parts(t)[n]]])
    BY <2>1, DeclaredLayoutDef DEF WellDeclared, NoneInItself
  <2>3. [n \in DOMAIN Parts(t) |-> DeclaredLayout[Parts(t)[n]]] = Declares(defined[t])
    BY <1>1 DEF Parts, Declares, fs
  <2> QED
    BY <2>2, <2>3, StructLayoutRow
<1> HIDE DEF row
<1>12. defined[t] > 0 => Whole(Padded(row))
  <2> SUFFICES ASSUME defined[t] > 0 PROVE Whole(Padded(row))
    OBVIOUS
  <2>1. /\ row \in Layouts /\ row.alignment \in Alignments /\ row.size \in Nat
        /\ row.alignment \in Nat
    BY <1>10 DEF Front, Layouts
  <2> DEFINE n == AlignUp(row.size, row.alignment)
  <2>2. n \in Nat /\ AlignUp(n, row.alignment) = n
    BY <2>1, AlignNat, AlignTwice
  <2>3. Padded(row) = [row EXCEPT !.size = n]
    BY <2>1 DEF Padded, Layouts
  <2> HIDE DEF n
  <2>4. Padded(row) \in Layouts /\ Padded(row).size = n
        /\ Padded(row).alignment = row.alignment
    BY <2>1, <2>2, <2>3 DEF Layouts
  <2> QED
    BY <2>1, <2>2, <2>4 DEF Whole
<1> QED
  BY <1>10, <1>11, <1>12 DEF Of

-----------------------------------------------------------------------------
(* What libffi computes: initialize_aggregate() and ffi_prep_cif().        *)

\* A call of initialize_aggregate() inside another goes one level deeper.
LEMMA InitializeDef ==
  \A n \in 0..Nesting : initialize_aggregate[n] =
    [m \in Memories |-> [p \in Structs |->
       IF n = 0 THEN m ELSE Aggregate(initialize_aggregate[n - 1], m, p)]]
<1> DEFINE Last == [m \in Memories |-> [p \in Structs |-> m]]
           More(init) == [m \in Memories |-> [p \in Structs |-> Aggregate(init, m, p)]]
           Body(f, n) == [m \in Memories |-> [p \in Structs |->
                            IF n = 0 THEN m ELSE Aggregate(f[n - 1], m, p)]]
           Solves(f, k) == f = [n \in 0..k |-> Body(f, n)]
           K == {k \in Nat : \E f : Solves(f, k)}
<1>0. Nesting \in Nat
  BY Graph DEF Nesting
<1>1. \A f, n : Body(f, n) = IF n = 0 THEN Last ELSE More(f[n - 1])
  OBVIOUS
<1> HIDE DEF Body, Last, More
<1>2. 0 \in K
  <2> DEFINE f == [n \in 0..0 |-> Last]
  <2>1. f = [n \in 0..0 |-> Body(f, n)]
    BY <1>1
  <2>2. Solves(f, 0)
    BY <2>1, Zenon
  <2> HIDE DEF f, Solves
  <2> QED
    BY <2>2
<1>3. ASSUME NEW k \in K PROVE k + 1 \in K
  <2>0. k \in Nat
    BY Zenon
  <2>1. PICK f : Solves(f, k)
    BY Zenon
  <2> HIDE DEF K
  <2> DEFINE g == [n \in 0..(k + 1) |-> IF n = 0 THEN Last ELSE More(f[n - 1])]
  <2>2. \A n \in 0..k : g[n] = f[n]
    <3>1. \A n \in 0..k : f[n] = Body(f, n)
      BY <2>1
    <3>2. \A n \in 0..k : f[n] = IF n = 0 THEN Last ELSE More(f[n - 1])
      BY <1>1, <3>1
    <3> QED
      BY <2>0, <3>2
  <2>3. \A n \in 0..(k + 1) : n # 0 => g[n - 1] = f[n - 1]
    <3>1. \A n \in 0..(k + 1) : n # 0 => n - 1 \in 0..k
      BY <2>0
    <3> HIDE DEF g
    <3> QED
      BY <2>2, <3>1
  <2>4. \A n \in 0..(k + 1) : Body(g, n) = IF n = 0 THEN Last ELSE More(f[n - 1])
    <3> HIDE DEF g
    <3> QED
      BY <1>1, <2>3
  <2>5. g = [n \in 0..(k + 1) |-> Body(g, n)]
    BY <2>4
  <2>6. Solves(g, k + 1)
    BY <2>5, Zenon
  <2>7. k + 1 \in Nat
    BY <2>0
  <2> HIDE DEF g, Solves
  <2> QED
    BY <2>6, <2>7 DEF K
<1>4. K = Nat
  BY <1>2, <1>3, Induction
<1>5. Nesting \in K
  BY <1>0, <1>4, Zenon
<1>6. \E f : Solves(f, Nesting)
  BY <1>5
<1>7. Solves(initialize_aggregate, Nesting)
  BY <1>6, Zenon DEF initialize_aggregate, Body
<1>8. \A n \in 0..Nesting : initialize_aggregate[n] = Body(initialize_aggregate, n)
  <2> HIDE DEF K
  <2> QED
    BY <1>7
<1> QED
  BY <1>8, Zenon DEF Body

\* initialize_aggregate() where n calls of it fit.
LEMMA InitializeApplied ==
  ASSUME NEW n \in 0..Nesting, NEW m \in Memories, NEW p \in Structs
  PROVE  initialize_aggregate[n][m][p] =
           IF n = 0 THEN m ELSE Aggregate(initialize_aggregate[n - 1], m, p)
<1> DEFINE Call(x, q) == IF n = 0 THEN x ELSE Aggregate(initialize_aggregate[n - 1], x, q)
<1>1. initialize_aggregate[n] = [x \in Memories |-> [q \in Structs |-> Call(x, q)]]
  BY InitializeDef
<1> HIDE DEF Call
<1>2. initialize_aggregate[n][m][p] = Call(m, p)
  BY <1>1
<1> QED
  BY <1>2 DEF Call

\* The size and alignment of one struct are written.
Write(x, p, s, a) == [x EXCEPT !.size[p] = s, !.alignment[p] = a]

\* The size of a struct is padded, and must not be 0.
Finish(x, p, s) == [x EXCEPT !.size[p] = s, !.ok = s # 0]

\* The steps of initialize_aggregate().
Aggregates(init, m, p, all) ==
  /\ all[0] = Write(m, p, 0, 0)
  /\ \A i \in 1..Len(m.elements[p]) :
       all[i] = AddElement(init, all[i - 1], p, m.elements[p][i])
  /\ Aggregate(init, m, p) =
       IF ~all[Len(m.elements[p])].ok THEN all[Len(m.elements[p])]
       ELSE Finish(all[Len(m.elements[p])], p,
                   AlignUp(all[Len(m.elements[p])].size[p],
                           all[Len(m.elements[p])].alignment[p]))

\* The elements are added one by one.
LEMMA AggregateDef ==
  ASSUME NEW init, NEW m, NEW p, Len(m.elements[p]) \in Nat
  PROVE  \E all : Aggregates(init, m, p, all)
<1> DEFINE N == Len(m.elements[p])
           Start == [m EXCEPT !.size[p] = 0, !.alignment[p] = 0]
           Add(x, i) == AddElement(init, x, p, m.elements[p][i])
           Solves(f, k) == f = [i \in 0..k |-> IF i = 0 THEN Start ELSE Add(f[i - 1], i)]
           K == {k \in Nat : \E f : Solves(f, k)}
<1> HIDE DEF Start
<1>1. 0 \in K
  <2> DEFINE f == [i \in 0..0 |-> Start]
  <2>1. Solves(f, 0)
    OBVIOUS
  <2> QED
    BY <2>1
<1>2. ASSUME NEW k \in K PROVE k + 1 \in K
  <2> HIDE DEF Add
  <2>1. PICK f : Solves(f, k)
    OBVIOUS
  <2> DEFINE g == [i \in 0..(k + 1) |-> IF i = 0 THEN Start ELSE Add(f[i - 1], i)]
  <2>2. \A i \in 0..k : g[i] = f[i]
    BY <2>1, SMTT(30)
  <2>3. \A i \in 0..(k + 1) : i # 0 => g[i - 1] = f[i - 1]
    <3>1. \A i \in 0..(k + 1) : i # 0 => i - 1 \in 0..k
      OBVIOUS
    <3> HIDE DEF g
    <3> QED
      BY <2>2, <3>1
  <2>4. g = [i \in 0..(k + 1) |-> IF i = 0 THEN Start ELSE Add(g[i - 1], i)]
    BY <2>3
  <2>5. Solves(g, k + 1)
    BY <2>4, Zenon
  <2>6. k + 1 \in Nat
    OBVIOUS
  <2> HIDE DEF g, Solves
  <2> QED
    BY <2>5, <2>6
<1>3. K = Nat
  BY <1>1, <1>2, Induction
<1>4. N \in K
  BY <1>3, Zenon
<1>5. \E f : Solves(f, N)
  BY <1>4
<1> DEFINE all == CHOOSE f : Solves(f, N)
<1>6. Solves(all, N)
  BY <1>5, Zenon
<1>7. Aggregate(init, m, p) =
        IF ~all[N].ok THEN all[N]
        ELSE Finish(all[N], p, AlignUp(all[N].size[p], all[N].alignment[p]))
  BY Zenon DEF Aggregate, Start, Finish
<1>8. all[0] = Start /\ \A i \in 1..N : all[i] = Add(all[i - 1], i)
  <2>1. N \in Nat
    OBVIOUS
  <2> HIDE DEF all, Add, N
  <2> QED
    BY <1>6, <2>1
<1>9. Start = Write(m, p, 0, 0)
  BY Zenon DEF Start, Write
<1> HIDE DEF all
<1>10. Aggregates(init, m, p, all)
  BY <1>7, <1>8, <1>9, Zenon DEF Aggregates
<1> QED
  BY <1>10

\* So are the arguments.
LEMMA PrepDef ==
  ASSUME NEW elems, NEW ffiTypes, Len(ffiTypes) \in Nat
  PROVE  \E each :
           /\ each[0] = [elements |-> elems, size |-> size, alignment |-> alignment,
                         ok |-> TRUE]
           /\ \A i \in 1..Len(ffiTypes) :
                each[i] = Initialized(initialize_aggregate[Nesting], each[i - 1], ffiTypes[i])
           /\ ffi_prep_cif(elems, ffiTypes) = each[Len(ffiTypes)]
<1> DEFINE N == Len(ffiTypes)
           Start == [elements |-> elems, size |-> size, alignment |-> alignment, ok |-> TRUE]
           Add(x, i) == Initialized(initialize_aggregate[Nesting], x, ffiTypes[i])
           Solves(f, k) == f = [i \in 0..k |-> IF i = 0 THEN Start ELSE Add(f[i - 1], i)]
           K == {k \in Nat : \E f : Solves(f, k)}
<1> HIDE DEF Start
<1>1. 0 \in K
  <2> DEFINE f == [i \in 0..0 |-> Start]
  <2>1. Solves(f, 0)
    OBVIOUS
  <2> QED
    BY <2>1
<1>2. ASSUME NEW k \in K PROVE k + 1 \in K
  <2> HIDE DEF Add
  <2>1. PICK f : Solves(f, k)
    OBVIOUS
  <2> DEFINE g == [i \in 0..(k + 1) |-> IF i = 0 THEN Start ELSE Add(f[i - 1], i)]
  <2>2. \A i \in 0..k : g[i] = f[i]
    BY <2>1, SMTT(30)
  <2>3. \A i \in 0..(k + 1) : i # 0 => g[i - 1] = f[i - 1]
    <3>1. \A i \in 0..(k + 1) : i # 0 => i - 1 \in 0..k
      OBVIOUS
    <3> HIDE DEF g
    <3> QED
      BY <2>2, <3>1
  <2>4. g = [i \in 0..(k + 1) |-> IF i = 0 THEN Start ELSE Add(g[i - 1], i)]
    BY <2>3
  <2>5. Solves(g, k + 1)
    BY <2>4, Zenon
  <2>6. k + 1 \in Nat
    OBVIOUS
  <2> HIDE DEF g, Solves
  <2> QED
    BY <2>5, <2>6
<1>3. K = Nat
  BY <1>1, <1>2, Induction
<1>4. N \in K
  BY <1>3, Zenon
<1>5. \E f : Solves(f, N)
  BY <1>4
<1> DEFINE each == CHOOSE f : Solves(f, N)
<1>6. Solves(each, N)
  BY <1>5, Zenon
<1>7. ffi_prep_cif(elems, ffiTypes) = each[N]
  BY Zenon DEF ffi_prep_cif, Start
<1>8. each[0] = Start /\ \A i \in 1..N : each[i] = Add(each[i - 1], i)
  <2> HIDE DEF each, Add
  <2> QED
    BY <1>6
<1> HIDE DEF each
<1> QED
  BY <1>7, <1>8, Zenon DEF Start

\* What libffi has noted of an ffi_type.
Noted(m, e) == [size |-> SizeIn(m, e), alignment |-> AlignmentIn(m, e), scalars |-> <<>>]

NotedOf(m, es, k) == [n \in 1..k |-> Noted(m, es[n])]

\* A struct that has a size has that of its elements, which have one too.
Agrees(m, p) ==
  m.size[p] # 0 =>
    /\ Len(m.elements[p]) # 0
    /\ \A n \in 1..Len(m.elements[p]) : SizeIn(m, m.elements[p][n]) # 0
    /\ LET l == Padded(Row(NotedOf(m, m.elements[p], Len(m.elements[p])))) IN
       m.size[p] = l.size /\ m.alignment[p] = l.alignment

\* Structs without elements, and those that begin with one.
Hollow(elems, E) ==
  \A u \in E : Len(elems[u]) = 0 \/ elems[u][1] \in E

\* The structs that have been built hold others of a lower level, and only the first
\* element of one may turn out to be hollow.
Sound(elems, level, built, solid) ==
  /\ elems \in [Structs -> Seq(FfiTypes)]
  /\ Leveled(level) /\ Nested(elems, level) /\ built \subseteq Structs
  /\ \A p \in built :
       /\ p \in solid => Len(elems[p]) # 0
       /\ \A n \in 1..Len(elems[p]) : elems[p][n] \in Structs =>
            /\ elems[p][n] \in built
            /\ p \in solid \/ elems[p][n] # elems[p][1] => elems[p][n] \in solid

\* What initialize_aggregate() does to the memory: r follows m.
Initializes(level, built, solid, m, p, r) ==
  /\ r \in Memories /\ r.elements = m.elements
  /\ \A q \in Structs : q # p /\ (level[q] >= level[p] \/ m.size[q] # 0) =>
       r.size[q] = m.size[q] /\ r.alignment[q] = m.alignment[q]
  /\ \A q \in Structs : q = p \/ level[q] < level[p] => Agrees(r, q)
  /\ r.ok => r.size[p] # 0
  /\ ~r.ok => \E E \in SUBSET (built \ solid) : Hollow(m.elements, E) /\ p \in E

\* What libffi has noted of an ffi_type is a layout.
LEMMA NotedType ==
  ASSUME NEW m \in Memories, NEW e \in FfiTypes
  PROVE  /\ Noted(m, e) \in Layouts /\ Noted(m, e).size = SizeIn(m, e)
         /\ Noted(m, e).alignment = AlignmentIn(m, e)
         /\ SizeIn(m, e) \in Nat /\ AlignmentIn(m, e) \in Nat
         /\ e \notin Structs => SizeIn(m, e) # 0
<1>1. SizeIn(m, e) \in Nat /\ AlignmentIn(m, e) \in Nat /\ (e \notin Structs => SizeIn(m, e) # 0)
  <2>1. CASE e \in Structs
    BY <2>1 DEF SizeIn, AlignmentIn, Memories
  <2>2. CASE e \notin Structs
    <3>1. FFI_TYPES[e] \in Alignments
      BY <2>2, Sizes DEF FfiTypes
    <3> QED
      BY <2>2, <3>1 DEF SizeIn, AlignmentIn, Alignments
  <2> QED
    BY <2>1, <2>2
<1> DEFINE s == SizeIn(m, e)
           a == AlignmentIn(m, e)
<1> HIDE DEF s, a
<1>2. Noted(m, e) = [size |-> s, alignment |-> a, scalars |-> <<>>]
  BY DEF Noted, s, a
<1>3. s \in Nat /\ a \in Nat /\ <<>> \in Seq(Nat \X Nat)
  BY <1>1 DEF s, a
<1>4. Noted(m, e) \in Layouts /\ Noted(m, e).size = s /\ Noted(m, e).alignment = a
  BY <1>2, <1>3 DEF Layouts
<1> QED
  BY <1>1, <1>4 DEF s, a

\* One more element.
LEMMA NotedMore ==
  ASSUME NEW m, NEW es, NEW k \in Nat
  PROVE  /\ Len(NotedOf(m, es, k)) = k
         /\ \A n \in 1..k : NotedOf(m, es, k)[n] = Noted(m, es[n])
         /\ Row(NotedOf(m, es, 0)) = Nothing
         /\ Row(NotedOf(m, es, k + 1)) = Place(Row(NotedOf(m, es, k)), Noted(m, es[k + 1]))
<1>1. \A i \in Nat : /\ Len(NotedOf(m, es, i)) = i
                     /\ \A n \in 1..i : NotedOf(m, es, i)[n] = Noted(m, es[n])
  BY DEF NotedOf
<1> DEFINE xs == NotedOf(m, es, k)
           ys == NotedOf(m, es, k + 1)
           none == NotedOf(m, es, 0)
<1>2. /\ Len(xs) \in Nat /\ Len(ys) = Len(xs) + 1 /\ ys[Len(ys)] = Noted(m, es[k + 1])
      /\ \A n \in 1..Len(xs) : ys[n] = xs[n]
  <2>1. k + 1 \in Nat /\ k + 1 \in 1..(k + 1) /\ \A n \in 1..k : n \in 1..(k + 1)
    OBVIOUS
  <2> HIDE DEF xs, ys
  <2>2. Len(xs) = k /\ \A n \in 1..k : xs[n] = Noted(m, es[n])
    BY <1>1 DEF xs
  <2>3. Len(ys) = k + 1 /\ \A n \in 1..(k + 1) : ys[n] = Noted(m, es[n])
    BY <1>1, <2>1 DEF ys
  <2> QED
    BY <2>1, <2>2, <2>3
<1>3. Len(none) = 0
  BY <1>1
<1> HIDE DEF xs, ys, none
<1>4. Row(ys) = Place(Row(xs), ys[Len(ys)]) /\ Row(none) = Nothing
  BY <1>2, <1>3, RowMore, RowNone
<1> QED
  BY <1>1, <1>2, <1>4 DEF xs, ys, none

\* The elements that libffi has added up make a layout.
LEMMA NotedRow ==
  ASSUME NEW m \in Memories, NEW es \in Seq(FfiTypes), NEW k \in 0..Len(es)
  PROVE  Row(NotedOf(m, es, k)) \in Layouts
<1> DEFINE R(i) == Row(NotedOf(m, es, i))
           K == {i \in Nat : i <= Len(es) => R(i) \in Layouts}
<1>1. 0 \in K
  <2>1. R(0) = Nothing
    BY NotedMore
  <2>2. Nothing \in Layouts
    BY DEF Nothing, Layouts
  <2> QED
    BY <2>1, <2>2
<1>2. ASSUME NEW i \in K PROVE i + 1 \in K
  <2>0. i \in Nat /\ (i <= Len(es) => R(i) \in Layouts)
    BY Zenon
  <2>1. R(i + 1) = Place(R(i), Noted(m, es[i + 1]))
    BY <2>0, NotedMore
  <2> HIDE DEF R
  <2> HIDE DEF K
  <2> SUFFICES ASSUME i + 1 <= Len(es) PROVE R(i + 1) \in Layouts
    BY <2>0 DEF K
  <2>2. R(i) \in Layouts /\ i + 1 \in 1..Len(es) /\ es[i + 1] \in FfiTypes
    BY <2>0
  <2>3. Noted(m, es[i + 1]) \in Layouts
    BY <2>2, NotedType
  <2> QED
    BY <2>1, <2>2, <2>3, PlaceDef
<1> HIDE DEF R
<1>3. K = Nat
  BY <1>1, <1>2, Induction
<1>4. k \in Nat /\ k <= Len(es)
  OBVIOUS
<1>5. k \in K
  BY <1>3, <1>4, Zenon
<1>6. R(k) \in Layouts
  BY <1>4, <1>5
<1> QED
  BY <1>6 DEF R

\* Padding, field by field.
LEMMA PaddedDef ==
  ASSUME NEW l \in Layouts
  PROVE  /\ Padded(l) \in Layouts /\ Padded(l).size = AlignUp(l.size, l.alignment)
         /\ Padded(l).alignment = l.alignment /\ Padded(l).scalars = l.scalars
<1> DEFINE n == AlignUp(l.size, l.alignment)
<1>1. n \in Nat
  BY AlignNat DEF Layouts
<1>2. Padded(l) = [l EXCEPT !.size = n]
  BY DEF Padded, Layouts
<1> HIDE DEF n
<1>3. /\ Padded(l) \in Layouts /\ Padded(l).size = n
      /\ Padded(l).alignment = l.alignment /\ Padded(l).scalars = l.scalars
  BY <1>1, <1>2 DEF Layouts
<1> QED
  BY <1>3 DEF n

\* It does not matter what happens to structs that are not inside.
LEMMA AgreesOn ==
  ASSUME NEW m \in Memories, NEW p \in Structs, Agrees(m, p), NEW r \in Memories,
         r.elements = m.elements, r.size[p] = m.size[p], r.alignment[p] = m.alignment[p],
         \A n \in 1..Len(m.elements[p]) :
           m.elements[p][n] \in Structs /\ m.size[m.elements[p][n]] # 0 =>
             /\ r.size[m.elements[p][n]] = m.size[m.elements[p][n]]
             /\ r.alignment[m.elements[p][n]] = m.alignment[m.elements[p][n]]
  PROVE  Agrees(r, p)
<1> DEFINE es == m.elements[p]
           k == Len(es)
<1> SUFFICES ASSUME m.size[p] # 0 PROVE Agrees(r, p)
  BY DEF Agrees
<1>1. \A n \in 1..k : SizeIn(m, es[n]) # 0
  BY DEF Agrees
<1>2. \A n \in 1..k : SizeIn(r, es[n]) = SizeIn(m, es[n])
                      /\ AlignmentIn(r, es[n]) = AlignmentIn(m, es[n])
  BY <1>1 DEF SizeIn, AlignmentIn
<1>3. NotedOf(r, es, k) = NotedOf(m, es, k)
  <2> HIDE DEF es, k
  <2> QED
    BY <1>2 DEF NotedOf, Noted
<1> QED
  BY <1>1, <1>2, <1>3 DEF Agrees

\* Hollow structs have no size.
LEMMA HollowZero ==
  ASSUME NEW m \in Memories, NEW level, Leveled(level), Nested(m.elements, level),
         NEW E \in SUBSET Structs, Hollow(m.elements, E), \A q \in E : Agrees(m, q)
  PROVE  \A u \in E : m.size[u] = 0
<1> DEFINE T == {i \in Nat : \E u \in E : m.size[u] # 0 /\ level[u] = i}
<1> SUFFICES ASSUME NEW v \in E, m.size[v] # 0 PROVE FALSE
  OBVIOUS
<1>1. \A u \in Structs : level[u] \in Nat
  BY Graph DEF Leveled
<1>2. T # {} /\ T \subseteq Nat
  BY <1>1
<1>3. PICK i \in T : \A j \in T : i <= j
  <2> HIDE DEF T
  <2> QED
    BY <1>2, Least
<1>4. PICK u \in E : m.size[u] # 0 /\ level[u] = i
  BY <1>3
<1> DEFINE e == m.elements[u][1]
<1>5. Len(m.elements[u]) # 0 /\ m.elements[u] \in Seq(FfiTypes)
  BY <1>4 DEF Agrees, Memories
<1>6. 1 \in 1..Len(m.elements[u]) /\ 1 \in DOMAIN m.elements[u]
  BY <1>5
<1>7. e \in E /\ SizeIn(m, e) # 0
  BY <1>4, <1>5, <1>6 DEF Agrees, Hollow
<1>8. level[e] < level[u]
  BY <1>6, <1>7 DEF Nested
<1> HIDE DEF e
<1>9. m.size[e] # 0
  BY <1>7 DEF SizeIn
<1>10. level[e] \in T
  BY <1>1, <1>7, <1>9
<1> HIDE DEF T
<1> QED
  BY <1>1, <1>3, <1>4, <1>7, <1>8, <1>10

Wrote(x, p, s, a, y) ==
  /\ y \in Memories /\ y.elements = x.elements /\ y.ok = x.ok
  /\ \A q \in Structs : q # p => y.size[q] = x.size[q] /\ y.alignment[q] = x.alignment[q]
  /\ y.size[p] = s /\ y.alignment[p] = a

\* Write() sets one size and one alignment.
LEMMA Written ==
  ASSUME NEW x \in Memories, NEW p \in Structs, NEW s \in Nat, NEW a \in Nat
  PROVE  Wrote(x, p, s, a, Write(x, p, s, a))
<1> DEFINE ss == [x.size EXCEPT ![p] = s]
           as == [x.alignment EXCEPT ![p] = a]
           el == x.elements
           ok == x.ok
           y == Write(x, p, s, a)
<1>1. /\ x.size \in [Structs -> Nat] /\ x.alignment \in [Structs -> Nat]
      /\ el \in [Structs -> Seq(FfiTypes)] /\ ok \in BOOLEAN
  BY DEF Memories
<1>2. /\ ss \in [Structs -> Nat] /\ as \in [Structs -> Nat] /\ ss[p] = s /\ as[p] = a
      /\ \A q \in Structs : q # p => ss[q] = x.size[q] /\ as[q] = x.alignment[q]
  BY <1>1
<1>3. y = [elements |-> el, size |-> ss, alignment |-> as, ok |-> ok]
  <2>1. x = [elements |-> x.elements, size |-> x.size, alignment |-> x.alignment, ok |-> x.ok]
    BY DEF Memories
  <2>2. y = [x EXCEPT !.size = ss, !.alignment = as]
    BY <2>1 DEF Write
  <2> HIDE DEF ss, as, y
  <2> QED
    BY <2>1, <2>2
<1> HIDE DEF ss, as, el, ok, y
<1>4. y.elements = el /\ y.ok = ok /\ y.size = ss /\ y.alignment = as /\ y \in Memories
  <2>1. y.elements = el /\ y.ok = ok /\ y.size = ss /\ y.alignment = as
    BY <1>3
  <2>2. el \in [Structs -> Seq(FfiTypes)] /\ ss \in [Structs -> Nat]
        /\ as \in [Structs -> Nat] /\ ok \in BOOLEAN
    BY <1>1, <1>2
  <2>3. y \in Memories
    BY <1>3, <2>2 DEF Memories
  <2> QED
    BY <2>1, <2>3
<1>5. \A q \in Structs : q # p => y.size[q] = x.size[q] /\ y.alignment[q] = x.alignment[q]
  BY <1>2, <1>4
<1>6. y.size[p] = s /\ y.alignment[p] = a
  BY <1>2, <1>4
<1> QED
  BY <1>4, <1>5, <1>6 DEF el, ok, y, Wrote

\* The size and alignment of a row of one element more.
LEMMA NotedNext ==
  ASSUME NEW x \in Memories, NEW es \in Seq(FfiTypes), NEW i \in Nat, i + 1 <= Len(es)
  PROVE  LET R == Row(NotedOf(x, es, i))
             S == Row(NotedOf(x, es, i + 1))
             e == es[i + 1] IN
         /\ R \in Layouts /\ S \in Layouts
         /\ S.size = AlignUp(R.size, AlignmentIn(x, e)) + SizeIn(x, e)
         /\ S.alignment = Larger(R.alignment, AlignmentIn(x, e))
<1> DEFINE R == Row(NotedOf(x, es, i))
           S == Row(NotedOf(x, es, i + 1))
           e == es[i + 1]
           l == Noted(x, e)
<1>1. i + 1 \in 1..Len(es) /\ e \in FfiTypes /\ i \in 0..Len(es)
  OBVIOUS
<1>2. R \in Layouts
  BY <1>1, NotedRow
<1>3. l \in Layouts /\ l.size = SizeIn(x, e) /\ l.alignment = AlignmentIn(x, e)
  BY <1>1, NotedType
<1>4. S = Place(R, l)
  BY NotedMore
<1> HIDE DEF R, S, l, e
<1>5. /\ Place(R, l).size = AlignUp(R.size, l.alignment) + l.size
      /\ Place(R, l).alignment = Larger(R.alignment, l.alignment)
      /\ Place(R, l) \in Layouts
  BY <1>2, <1>3, PlaceDef
<1>6. /\ R \in Layouts /\ S \in Layouts
      /\ S.size = AlignUp(R.size, AlignmentIn(x, e)) + SizeIn(x, e)
      /\ S.alignment = Larger(R.alignment, AlignmentIn(x, e))
  BY <1>2, <1>3, <1>4, <1>5
<1> QED
  BY <1>6 DEF R, S, e

\* What is noted of the others is the same.
LEMMA NotedSame ==
  ASSUME NEW x \in Memories, NEW y \in Memories, NEW es \in Seq(FfiTypes), NEW k \in 0..Len(es),
         \A j \in 1..k : es[j] \in Structs => y.size[es[j]] = x.size[es[j]]
                                          /\ y.alignment[es[j]] = x.alignment[es[j]]
  PROVE  /\ NotedOf(y, es, k) = NotedOf(x, es, k)
         /\ \A j \in 1..k : SizeIn(y, es[j]) = SizeIn(x, es[j])
                           /\ AlignmentIn(y, es[j]) = AlignmentIn(x, es[j])
<1>1. \A j \in 1..k : SizeIn(y, es[j]) = SizeIn(x, es[j])
                      /\ AlignmentIn(y, es[j]) = AlignmentIn(x, es[j])
  BY DEF SizeIn, AlignmentIn
<1> QED
  BY <1>1 DEF NotedOf, Noted

\* What a function in the place of initialize_aggregate() does.
Works(init, n, level, built, solid) ==
  \A m \in Memories : \A p \in built :
    /\ m.ok /\ Sound(m.elements, level, built, solid) /\ level[p] <= n /\ m.size[p] = 0
    /\ \A q \in Structs : level[q] < level[p] => Agrees(m, q)
    => Initializes(level, built, solid, m, p, init[m][p])

\* The memory y after libffi has seen to an element e of p.
Prepares(level, built, solid, x, p, e, y) ==
  /\ y \in Memories /\ y.elements = x.elements /\ (y.ok => SizeIn(y, e) # 0)
  /\ y.size[p] = x.size[p] /\ y.alignment[p] = x.alignment[p]
  /\ \A q \in Structs : level[q] >= level[p] \/ x.size[q] # 0 =>
       y.size[q] = x.size[q] /\ y.alignment[q] = x.alignment[q]
  /\ \A q \in Structs : level[q] < level[p] => Agrees(y, q)
  /\ ~y.ok => /\ SizeIn(x, e) = 0
              /\ \E E \in SUBSET (built \ solid) : Hollow(x.elements, E) /\ e \in E

\* An element without a size is initialized first.
LEMMA InitializedFirst ==
  ASSUME NEW level, NEW built, NEW solid, NEW n \in Nat, NEW init,
         Works(init, n, level, built, solid),
         NEW x \in Memories, x.ok, Sound(x.elements, level, built, solid),
         NEW p \in built, level[p] <= n + 1,
         \A q \in Structs : level[q] < level[p] => Agrees(x, q),
         NEW i \in 1..Len(x.elements[p])
  PROVE  LET e == x.elements[p][i] IN
         Prepares(level, built, solid, x, p, e, Initialized(init, x, e))
<1> DEFINE e == x.elements[p][i]
           y == Initialized(init, x, e)
<1> SUFFICES Prepares(level, built, solid, x, p, e, y)
  OBVIOUS
<1> HIDE DEF e, y
<1>1. /\ x.elements \in [Structs -> Seq(FfiTypes)] /\ p \in Structs
      /\ Leveled(level) /\ Nested(x.elements, level) /\ built \subseteq Structs
  BY DEF Sound
<1>2. e \in FfiTypes /\ i \in DOMAIN x.elements[p] /\ e = x.elements[p][i]
  BY <1>1 DEF e
<1>3. \A q \in Structs : level[q] \in Nat
  BY <1>1, Graph DEF Leveled
<1>4. CASE SizeIn(x, e) # 0
  <2>1. y = x
    BY <1>4 DEF Initialized, y
  <2> QED
    BY <1>4, <2>1 DEF Prepares
<1>5. CASE SizeIn(x, e) = 0
  <2>1. e \in Structs
    BY <1>2, <1>5, NotedType
  <2>2. y = init[x][e] /\ x.size[e] = 0
    BY <1>5, <2>1 DEF Initialized, SizeIn, y
  <2>3. e \in built
    BY <1>2, <2>1 DEF Sound
  <2>4. level[e] < level[p]
    BY <1>1, <1>2, <2>1 DEF Nested
  <2>5. level[e] <= n /\ \A q \in Structs : level[q] < level[e] => level[q] < level[p]
    BY <1>1, <1>3, <2>1, <2>4
  <2>6. Initializes(level, built, solid, x, e, y)
    BY <2>2, <2>3, <2>5 DEF Works
  <2>7. y \in Memories /\ y.elements = x.elements /\ (y.ok => y.size[e] # 0)
    BY <2>6 DEF Initializes
  <2>8. \A q \in Structs : q # e /\ (level[q] >= level[e] \/ x.size[q] # 0) =>
          y.size[q] = x.size[q] /\ y.alignment[q] = x.alignment[q]
    BY <2>6 DEF Initializes
  <2>9. \A q \in Structs : level[q] >= level[p] \/ x.size[q] # 0 =>
          y.size[q] = x.size[q] /\ y.alignment[q] = x.alignment[q]
    <3>1. \A q \in Structs : level[q] >= level[p] => q # e /\ level[q] >= level[e]
      BY <1>1, <1>3, <2>1, <2>4
    <3> QED
      BY <2>2, <2>8, <3>1
  <2>10. ASSUME NEW q \in Structs, level[q] < level[p] PROVE Agrees(y, q)
    <3>1. CASE q = e \/ level[q] < level[e]
      BY <2>6, <3>1 DEF Initializes
    <3>2. CASE q # e /\ ~(level[q] < level[e])
      <4>1. y.size[q] = x.size[q] /\ y.alignment[q] = x.alignment[q]
        BY <1>3, <2>1, <2>8, <3>2
      <4>2. Agrees(x, q)
        BY <2>10
      <4> QED
        BY <2>7, <2>9, <4>1, <4>2, AgreesOn
    <3> QED
      BY <3>1, <3>2
  <2>11. y.ok => SizeIn(y, e) # 0
    BY <2>1, <2>7 DEF SizeIn
  <2>12. ~y.ok => \E E \in SUBSET (built \ solid) : Hollow(x.elements, E) /\ e \in E
    BY <2>6 DEF Initializes
  <2>13. y.size[p] = x.size[p] /\ y.alignment[p] = x.alignment[p]
    BY <1>1, <1>3, <2>9
  <2> QED
    BY <1>5, <2>7, <2>9, <2>10, <2>11, <2>12, <2>13 DEF Prepares
<1> QED
  BY <1>4, <1>5

\* The memory x when libffi has added i elements of p, or given up before.
Added(level, built, solid, m, p, x, i) ==
  /\ x \in Memories /\ x.elements = m.elements
  /\ \A q \in Structs : q # p /\ (level[q] >= level[p] \/ m.size[q] # 0) =>
       x.size[q] = m.size[q] /\ x.alignment[q] = m.alignment[q]
  /\ \A q \in Structs : level[q] < level[p] => Agrees(x, q)
  /\ x.ok => LET R == Row(NotedOf(x, m.elements[p], i)) IN
             /\ \A j \in 1..i : SizeIn(x, m.elements[p][j]) # 0
             /\ x.size[p] = R.size /\ x.alignment[p] = R.alignment
  /\ ~x.ok => /\ x.size[p] = 0
              /\ \E E \in SUBSET (built \ solid) : Hollow(m.elements, E) /\ p \in E

\* What is not p's is not changed by writing p's size.
LEMMA AddedWrite ==
  ASSUME NEW level, NEW built, NEW solid, NEW m \in Memories,
         Sound(m.elements, level, built, solid), NEW p \in built,
         NEW x \in Memories, NEW i \in Nat, i + 1 <= Len(m.elements[p]),
         Added(level, built, solid, m, p, x, i), x.ok,
         SizeIn(x, m.elements[p][i + 1]) # 0,
         NEW z,
         z = Write(x, p, AlignUp(x.size[p], AlignmentIn(x, m.elements[p][i + 1]))
                           + SizeIn(x, m.elements[p][i + 1]),
                         Larger(x.alignment[p], AlignmentIn(x, m.elements[p][i + 1])))
  PROVE  Added(level, built, solid, m, p, z, i + 1)
<1> DEFINE es == m.elements[p]
           e == es[i + 1]
           R == Row(NotedOf(x, es, i))
           S == Row(NotedOf(x, es, i + 1))
<1>1. /\ m.elements \in [Structs -> Seq(FfiTypes)] /\ p \in Structs
      /\ Leveled(level) /\ Nested(m.elements, level)
  BY DEF Sound
<1>2. es \in Seq(FfiTypes) /\ i + 1 \in 1..Len(es) /\ i + 1 \in 0..Len(es)
  BY <1>1
<1>3. \A q \in Structs : level[q] \in Nat
  BY <1>1, Graph DEF Leveled
<1>4. R \in Layouts /\ S \in Layouts
      /\ S.size = AlignUp(R.size, AlignmentIn(x, e)) + SizeIn(x, e)
      /\ S.alignment = Larger(R.alignment, AlignmentIn(x, e))
  BY <1>2, NotedNext
<1>5. x.size[p] = R.size /\ x.alignment[p] = R.alignment
      /\ \A j \in 1..i : SizeIn(x, es[j]) # 0
  BY DEF Added
<1> HIDE DEF R, S, e
<1>6. PICK s \in Nat, a \in Nat : s = S.size /\ a = S.alignment
  BY <1>4 DEF Layouts
<1>7. z = Write(x, p, s, a)
  BY <1>4, <1>5, <1>6 DEF e, es
<1>8. \A j \in 1..Len(es) : es[j] \in Structs => es[j] # p /\ level[es[j]] < level[p]
  BY <1>1, <1>3 DEF Nested
<1> HIDE DEF es
<1>9. /\ z \in Memories /\ z.elements = x.elements /\ z.ok = x.ok
      /\ \A q \in Structs : q # p => z.size[q] = x.size[q] /\ z.alignment[q] = x.alignment[q]
      /\ z.size[p] = s /\ z.alignment[p] = a
  <2>1. Wrote(x, p, s, a, Write(x, p, s, a))
    BY <1>1, Written, Zenon
  <2>2. Wrote(x, p, s, a, z)
    BY <1>7, <2>1, Zenon
  <2> QED
    BY <2>2, Zenon DEF Wrote
<1>10. \A j \in 1..(i + 1) : es[j] \in Structs =>
         z.size[es[j]] = x.size[es[j]] /\ z.alignment[es[j]] = x.alignment[es[j]]
  <2>1. ASSUME NEW j \in 1..(i + 1) PROVE j \in 1..Len(es)
    BY <1>2
  <2> QED
    BY <1>8, <1>9, <2>1, Zenon
<1>11. /\ NotedOf(z, es, i + 1) = NotedOf(x, es, i + 1)
       /\ \A j \in 1..(i + 1) : SizeIn(z, es[j]) = SizeIn(x, es[j])
  BY <1>2, <1>9, <1>10, NotedSame
<1>12. \A j \in 1..(i + 1) : SizeIn(z, es[j]) # 0
  <2>1. \A j \in 1..(i + 1) : j \in 1..i \/ j = i + 1
    OBVIOUS
  <2> QED
    BY <1>5, <1>11, <2>1 DEF e, es
<1>13. ASSUME NEW q \in Structs, level[q] < level[p] PROVE Agrees(z, q)
  <2>0. q # p
    BY <1>1, <1>3, <1>13
  <2>1. q # p /\ Agrees(x, q) /\ x.elements = m.elements
    BY <1>13, <2>0 DEF Added
  <2>2. z.size[q] = x.size[q] /\ z.alignment[q] = x.alignment[q]
    BY <1>9, <2>1
  <2>3. \A n \in 1..Len(x.elements[q]) : x.elements[q][n] \in Structs => x.elements[q][n] # p
    BY <1>1, <1>3, <1>13, <2>1 DEF Nested
  <2>4. \A n \in 1..Len(x.elements[q]) :
          x.elements[q][n] \in Structs /\ x.size[x.elements[q][n]] # 0 =>
            /\ z.size[x.elements[q][n]] = x.size[x.elements[q][n]]
            /\ z.alignment[x.elements[q][n]] = x.alignment[x.elements[q][n]]
    BY <1>9, <2>3
  <2>5. z \in Memories /\ z.elements = x.elements /\ Agrees(x, q)
    BY <1>9, <2>1
  <2> QED
    BY <2>2, <2>4, <2>5, AgreesOn, Zenon
<1>14. \A q \in Structs : q # p /\ (level[q] >= level[p] \/ m.size[q] # 0) =>
         z.size[q] = m.size[q] /\ z.alignment[q] = m.alignment[q]
  BY <1>9 DEF Added
<1>15. z.elements = m.elements /\ z.ok
  BY <1>9 DEF Added
<1>16. z.size[p] = Row(NotedOf(z, es, i + 1)).size
       /\ z.alignment[p] = Row(NotedOf(z, es, i + 1)).alignment
  BY <1>6, <1>9, <1>11 DEF S
<1> QED
  BY <1>9, <1>12, <1>13, <1>14, <1>15, <1>16 DEF Added, es

\* AddElement() adds the next element, or finds that there is a hollow one.
LEMMA AddedMore ==
  ASSUME NEW level, NEW built, NEW solid, NEW n \in Nat, NEW init,
         Works(init, n, level, built, solid), NEW m \in Memories,
         Sound(m.elements, level, built, solid), NEW p \in built, level[p] <= n + 1,
         NEW x, NEW i \in Nat, i + 1 <= Len(m.elements[p]),
         Added(level, built, solid, m, p, x, i)
  PROVE  Added(level, built, solid, m, p,
               AddElement(init, x, p, m.elements[p][i + 1]), i + 1)
<1> DEFINE es == m.elements[p]
           e == es[i + 1]
           y == Initialized(init, x, e)
           r == AddElement(init, x, p, e)
<1>1. /\ m.elements \in [Structs -> Seq(FfiTypes)] /\ p \in Structs
      /\ Leveled(level) /\ Nested(m.elements, level) /\ x \in Memories
      /\ x.elements = m.elements
  BY DEF Sound, Added
<1>2. es \in Seq(FfiTypes) /\ i + 1 \in 1..Len(es) /\ e \in FfiTypes
  BY <1>1
<1>3. CASE ~x.ok
  <2>1. y = x
    BY <1>3 DEF Initialized
  <2>2. r = x
    BY <1>3, <2>1 DEF AddElement
  <2> HIDE DEF r
  <2>3. Added(level, built, solid, m, p, r, i + 1)
    BY <1>3, <2>2 DEF Added
  <2> QED
    BY <2>3 DEF r
<1>4. CASE x.ok
  <2>1. Prepares(level, built, solid, x, p, e, y)
    <3>1. /\ Sound(x.elements, level, built, solid)
          /\ \A q \in Structs : level[q] < level[p] => Agrees(x, q)
      BY <1>1 DEF Added
    <3>2. e = x.elements[p][i + 1] /\ i + 1 \in 1..Len(x.elements[p])
      BY <1>1, <1>2
    <3> HIDE DEF es, e
    <3>3. Prepares(level, built, solid, x, p, x.elements[p][i + 1],
                   Initialized(init, x, x.elements[p][i + 1]))
      BY <1>1, <1>4, <3>1, <3>2, InitializedFirst
    <3> QED
      BY <3>2, <3>3, Zenon
  <2> HIDE DEF y
  <2>2. \A q \in Structs : q # p /\ (level[q] >= level[p] \/ m.size[q] # 0) =>
          y.size[q] = m.size[q] /\ y.alignment[q] = m.alignment[q]
    <3>1. \A q \in Structs : q # p /\ (level[q] >= level[p] \/ m.size[q] # 0) =>
            x.size[q] = m.size[q] /\ x.alignment[q] = m.alignment[q]
      BY DEF Added
    <3> QED
      BY <2>1, <3>1 DEF Prepares
  <2>3. /\ \A j \in 1..i : SizeIn(x, es[j]) # 0
        /\ x.size[p] = Row(NotedOf(x, es, i)).size
        /\ x.alignment[p] = Row(NotedOf(x, es, i)).alignment
    BY <1>4 DEF Added
  <2>4. CASE ~y.ok
    <3>1. r = y
      BY <2>4 DEF AddElement, y
    <3>2. PICK E \in SUBSET (built \ solid) : Hollow(m.elements, E) /\ e \in E
      BY <1>1, <2>1, <2>4 DEF Prepares
    <3>3. SizeIn(x, e) = 0
      BY <2>1, <2>4 DEF Prepares
    <3>4. e \in Structs
      BY <1>1, <1>2, <3>3, NotedType
    <3>5. p \notin solid /\ e = es[1]
      BY <1>2, <3>2, <3>4 DEF Sound
    <3>6. i = 0
      <4>1. i # 0 => 1 \in 1..i
        OBVIOUS
      <4> QED
        BY <2>3, <3>3, <3>5, <4>1
    <3>7. y.size[p] = 0
      <4>1. Row(NotedOf(x, es, 0)) = Nothing
        BY NotedMore
      <4> QED
        BY <2>1, <2>3, <3>6, <4>1 DEF Nothing, Prepares
    <3>8. E \union {p} \in SUBSET (built \ solid) /\ Hollow(m.elements, E \union {p})
      BY <3>2, <3>5 DEF Hollow
    <3> HIDE DEF r
    <3>9. Added(level, built, solid, m, p, r, i + 1)
      BY <1>1, <2>1, <2>2, <2>4, <3>1, <3>7, <3>8 DEF Added, Prepares
    <3> QED
      BY <3>9 DEF r
  <2>5. CASE y.ok
    <3> DEFINE z == Write(y, p, AlignUp(y.size[p], AlignmentIn(y, e)) + SizeIn(y, e),
                                Larger(y.alignment[p], AlignmentIn(y, e)))
    <3>1. r = z
      BY <2>5 DEF AddElement, y, Write
    <3>2. SizeIn(y, e) # 0
      BY <2>1, <2>5 DEF Prepares
    <3>3. \A j \in 1..i : es[j] \in Structs =>
            y.size[es[j]] = x.size[es[j]] /\ y.alignment[es[j]] = x.alignment[es[j]]
      <4>1. \A j \in 1..i : es[j] \in Structs => x.size[es[j]] # 0
        BY <2>3 DEF SizeIn
      <4> QED
        BY <2>1, <4>1 DEF Prepares
    <3>4. /\ NotedOf(y, es, i) = NotedOf(x, es, i)
          /\ \A j \in 1..i : SizeIn(y, es[j]) = SizeIn(x, es[j])
      <4>1. i \in 0..Len(es)
        BY <1>2
      <4> HIDE DEF es
      <4> QED
        BY <1>1, <1>2, <2>1, <3>3, <4>1, NotedSame DEF Prepares
    <3>5. Added(level, built, solid, m, p, y, i)
      BY <1>1, <2>1, <2>2, <2>3, <2>5, <3>4 DEF Added, Prepares
    <3> HIDE DEF r
    <3>6. Added(level, built, solid, m, p, r, i + 1)
      BY <2>1, <2>5, <3>1, <3>2, <3>5, AddedWrite DEF Prepares
    <3> QED
      BY <3>6 DEF r
  <2> QED
    BY <2>4, <2>5
<1> QED
  BY <1>3, <1>4

Finished(x, p, s, y) ==
  /\ y \in Memories /\ y.elements = x.elements /\ y.ok = (s # 0)
  /\ y.size[p] = s /\ y.alignment[p] = x.alignment[p]
  /\ \A q \in Structs : q # p => y.size[q] = x.size[q] /\ y.alignment[q] = x.alignment[q]

\* Finish() sets one size, and ok.
LEMMA FinishedMemory ==
  ASSUME NEW x \in Memories, NEW p \in Structs, NEW s \in Nat
  PROVE  Finished(x, p, s, Finish(x, p, s))
<1> DEFINE ss == [x.size EXCEPT ![p] = s]
           as == x.alignment
           el == x.elements
           ok == s # 0
           y == Finish(x, p, s)
<1>1. /\ x.size \in [Structs -> Nat] /\ as \in [Structs -> Nat]
      /\ el \in [Structs -> Seq(FfiTypes)] /\ ok \in BOOLEAN
  BY DEF Memories
<1>2. /\ ss \in [Structs -> Nat] /\ ss[p] = s
      /\ \A q \in Structs : q # p => ss[q] = x.size[q]
  BY <1>1
<1>3. y = [elements |-> el, size |-> ss, alignment |-> as, ok |-> ok]
  <2>1. x = [elements |-> x.elements, size |-> x.size, alignment |-> x.alignment, ok |-> x.ok]
    BY DEF Memories
  <2>2. y = [x EXCEPT !.size = ss, !.ok = ok]
    BY <2>1 DEF Finish
  <2> HIDE DEF ss, ok, y
  <2> QED
    BY <2>1, <2>2
<1> HIDE DEF ss, as, el, ok, y
<1>4. y.elements = el /\ y.ok = ok /\ y.size = ss /\ y.alignment = as
  BY <1>3
<1>5. y \in Memories
  BY <1>1, <1>2, <1>3 DEF Memories
<1>6. Finished(x, p, s, y)
  BY <1>2, <1>4, <1>5 DEF Finished, el, ok, as
<1> QED
  BY <1>6 DEF y

\* After the last element, if there is one.
LEMMA AggregateWorks ==
  ASSUME NEW level, NEW built, NEW solid, NEW n \in Nat, NEW init,
         Works(init, n, level, built, solid), NEW m \in Memories, m.ok,
         Sound(m.elements, level, built, solid), NEW p \in built, level[p] <= n + 1,
         m.size[p] = 0, \A q \in Structs : level[q] < level[p] => Agrees(m, q)
  PROVE  Initializes(level, built, solid, m, p, Aggregate(init, m, p))
<1> DEFINE es == m.elements[p]
           k == Len(es)
<1>1. /\ m.elements \in [Structs -> Seq(FfiTypes)] /\ p \in Structs /\ built \subseteq Structs
      /\ Leveled(level) /\ Nested(m.elements, level)
  BY DEF Sound
<1>2. es \in Seq(FfiTypes) /\ k \in Nat
  BY <1>1
<1>3. \A q \in Structs : level[q] \in Nat
  BY <1>1, Graph DEF Leveled
<1>4. PICK all : Aggregates(init, m, p, all)
  BY <1>2, AggregateDef
<1> DEFINE K == {i \in Nat : i <= k => Added(level, built, solid, m, p, all[i], i)}
           none == Row(NotedOf(all[0], es, 0))
<1>5. 0 \in K
  <2>1. all[0] = Write(m, p, 0, 0)
    BY <1>4, Zenon DEF Aggregates
  <2>2. Wrote(m, p, 0, 0, all[0])
    BY <1>1, <2>1, Written
  <2>3. none = Nothing
    BY NotedMore
  <2> HIDE DEF none
  <2>4. ASSUME NEW q \in Structs, level[q] < level[p] PROVE Agrees(all[0], q)
    <3>1. q # p
      BY <1>1, <1>3, <2>4
    <3>2. Agrees(m, q)
      BY <2>4
    <3>3. \A i \in 1..Len(m.elements[q]) : m.elements[q][i] \in Structs => m.elements[q][i] # p
      BY <1>1, <1>3, <2>4 DEF Nested
    <3>4. \A i \in 1..Len(m.elements[q]) :
            m.elements[q][i] \in Structs /\ m.size[m.elements[q][i]] # 0 =>
              /\ all[0].size[m.elements[q][i]] = m.size[m.elements[q][i]]
              /\ all[0].alignment[m.elements[q][i]] = m.alignment[m.elements[q][i]]
      BY <2>2, <3>3 DEF Wrote
    <3>5. /\ all[0] \in Memories /\ all[0].elements = m.elements
          /\ all[0].size[q] = m.size[q] /\ all[0].alignment[q] = m.alignment[q]
      BY <2>2, <3>1 DEF Wrote
    <3> QED
      BY <3>2, <3>4, <3>5, AgreesOn, Zenon
  <2>5. all[0].size[p] = none.size /\ all[0].alignment[p] = none.alignment
    BY <2>2, <2>3 DEF Wrote, Nothing
  <2>6. Added(level, built, solid, m, p, all[0], 0)
    <3>1. \A j \in 1..0 : FALSE
      OBVIOUS
    <3> QED
      BY <2>2, <2>4, <2>5, <3>1 DEF Added, Wrote, none
  <2> QED
    BY <2>6
<1>6. ASSUME NEW i \in K PROVE i + 1 \in K
  <2>0. i \in Nat /\ (i <= k => Added(level, built, solid, m, p, all[i], i))
    BY Zenon
  <2> HIDE DEF K
  <2> SUFFICES ASSUME i + 1 <= k PROVE Added(level, built, solid, m, p, all[i + 1], i + 1)
    BY <2>0 DEF K
  <2>1. /\ i + 1 \in 1..k /\ (i + 1) - 1 = i /\ i + 1 <= k
        /\ Added(level, built, solid, m, p, all[i], i)
    BY <1>2, <2>0
  <2>2. all[i + 1] = AddElement(init, all[i], p, es[i + 1])
    <3>1. \A j \in 1..k : all[j] = AddElement(init, all[j - 1], p, es[j])
      BY <1>4, Zenon DEF Aggregates
    <3> QED
      BY <2>1, <3>1
  <2>3. Added(level, built, solid, m, p, AddElement(init, all[i], p, es[i + 1]), i + 1)
    BY <2>0, <2>1, AddedMore
  <2> QED
    BY <2>2, <2>3
<1>7. K = Nat
  BY <1>5, <1>6, Induction
<1>8. k \in K
  BY <1>2, <1>7, Zenon
<1> DEFINE x == all[k]
           padded == AlignUp(x.size[p], x.alignment[p])
           r == Finish(x, p, padded)
           R == Row(NotedOf(x, es, k))
<1>9. Added(level, built, solid, m, p, x, k)
  BY <1>2, <1>8
<1>10. Aggregate(init, m, p) = IF ~x.ok THEN x ELSE r
  BY <1>4, Zenon DEF Aggregates
<1> HIDE DEF K, x
<1>11. x \in Memories /\ x.elements = m.elements
  BY <1>9 DEF Added
<1>12. CASE ~x.ok
  <2>1. x.size[p] = 0
    BY <1>9, <1>12 DEF Added
  <2>2. Agrees(x, p)
    BY <2>1 DEF Agrees
  <2>3. \A q \in Structs : q = p \/ level[q] < level[p] => Agrees(x, q)
    BY <1>9, <2>2 DEF Added
  <2>4. Initializes(level, built, solid, m, p, x)
    BY <1>9, <1>12, <2>3 DEF Added, Initializes
  <2> QED
    BY <1>10, <1>12, <2>4
<1>13. CASE x.ok
  <2>1. /\ \A j \in 1..k : SizeIn(x, es[j]) # 0
        /\ x.size[p] = R.size /\ x.alignment[p] = R.alignment
    BY <1>9, <1>13 DEF Added
  <2>2. R \in Layouts
    <3>1. k \in 0..Len(es)
      BY <1>2
    <3> QED
      BY <1>2, <1>11, <3>1, NotedRow
  <2>3. R.size \in Nat /\ R.alignment \in Nat
    BY <2>2 DEF Layouts
  <2>4. padded \in Nat /\ padded >= R.size /\ padded = AlignUp(R.size, R.alignment)
    BY <2>1, <2>3, AlignNat
  <2>5. Padded(R).size = padded /\ Padded(R).alignment = R.alignment
    BY <2>2, <2>4, PaddedDef
  <2>6. PICK s \in Nat : s = padded
    BY <2>4
  <2>7. /\ r \in Memories /\ r.elements = x.elements /\ r.ok = (s # 0)
        /\ r.size[p] = s /\ r.alignment[p] = x.alignment[p]
        /\ \A q \in Structs : q # p => r.size[q] = x.size[q] /\ r.alignment[q] = x.alignment[q]
    <3>1. Finished(x, p, s, Finish(x, p, s))
      BY <1>1, <1>11, <2>6, FinishedMemory, Zenon
    <3>2. r = Finish(x, p, s)
      BY <2>6, Zenon
    <3>3. Finished(x, p, s, r)
      BY <3>1, <3>2, Zenon
    <3> QED
      BY <3>3, Zenon DEF Finished
  <2> HIDE DEF r, padded
  <2>8. \A j \in 1..k : es[j] \in Structs => es[j] # p
    BY <1>1, <1>2, <1>3 DEF Nested
  <2>9. /\ NotedOf(r, es, k) = NotedOf(x, es, k)
        /\ \A j \in 1..k : SizeIn(r, es[j]) = SizeIn(x, es[j])
    <3>1. \A j \in 1..k : es[j] \in Structs => r.size[es[j]] = x.size[es[j]]
                                             /\ r.alignment[es[j]] = x.alignment[es[j]]
      BY <2>7, <2>8
    <3>2. k \in 0..Len(es)
      BY <1>2
    <3> HIDE DEF es, k
    <3> QED
      BY <1>2, <1>11, <2>7, <3>1, <3>2, NotedSame
  <2>10. k # 0 => s # 0
    <3> SUFFICES ASSUME k # 0 PROVE s # 0
      OBVIOUS
    <3>1. k - 1 \in Nat /\ (k - 1) + 1 = k /\ k \in 1..k
      BY <1>2
    <3>2. /\ Row(NotedOf(x, es, k - 1)) \in Layouts
          /\ R.size = AlignUp(Row(NotedOf(x, es, k - 1)).size, AlignmentIn(x, es[k]))
                      + SizeIn(x, es[k])
      <4>1. (k - 1) + 1 <= Len(es)
        BY <1>2, <3>1
      <4>2. /\ Row(NotedOf(x, es, k - 1)) \in Layouts
            /\ Row(NotedOf(x, es, (k - 1) + 1)).size =
                 AlignUp(Row(NotedOf(x, es, k - 1)).size, AlignmentIn(x, es[(k - 1) + 1]))
                   + SizeIn(x, es[(k - 1) + 1])
        BY <1>2, <1>11, <3>1, <4>1, NotedNext
      <4> QED
        BY <3>1, <4>2
    <3>3. es[k] \in FfiTypes
      BY <1>2, <3>1
    <3>4. SizeIn(x, es[k]) \in Nat /\ SizeIn(x, es[k]) # 0 /\ AlignmentIn(x, es[k]) \in Nat
      BY <1>11, <2>1, <3>1, <3>3, NotedType
    <3> DEFINE b == Row(NotedOf(x, es, k - 1))
               a == AlignmentIn(x, es[k])
    <3>5. AlignUp(b.size, a) \in Nat
      <4>1. b.size \in Nat /\ a \in Nat
        BY <3>2, <3>4 DEF Layouts
      <4> HIDE DEF b, a
      <4> QED
        BY <4>1, AlignNat
    <3>6. R.size > 0
      BY <3>2, <3>4, <3>5
    <3> QED
      BY <2>3, <2>4, <2>6, <3>6
  <2>11. k = 0 => s = 0
    <3>1. k = 0 => R = Nothing
      BY NotedMore
    <3>2. AlignUp(0, 0) = 0
      BY DEF AlignUp
    <3> QED
      BY <2>4, <2>6, <3>1, <3>2 DEF Nothing
  <2>12. Agrees(r, p)
    <3> SUFFICES ASSUME s # 0 PROVE Agrees(r, p)
      BY <2>7 DEF Agrees
    <3>1. k # 0 /\ \A j \in 1..k : SizeIn(r, es[j]) # 0
      BY <2>1, <2>9, <2>11
    <3>2. r.elements[p] = es
      BY <1>11, <2>7
    <3>3. r.size[p] = Padded(R).size /\ r.alignment[p] = Padded(R).alignment
      BY <2>1, <2>5, <2>6, <2>7
    <3>4. R = Row(NotedOf(r, es, k))
      BY <2>9
    <3> HIDE DEF es
    <3> QED
      BY <3>1, <3>2, <3>3, <3>4 DEF Agrees
  <2>13. ASSUME NEW q \in Structs, level[q] < level[p] PROVE Agrees(r, q)
    <3>1. q # p
      BY <1>1, <1>3, <2>13
    <3>2. Agrees(x, q)
      BY <1>9, <2>13 DEF Added
    <3>3. \A i \in 1..Len(x.elements[q]) : x.elements[q][i] \in Structs => x.elements[q][i] # p
      BY <1>1, <1>3, <1>11, <2>13 DEF Nested
    <3>4. \A i \in 1..Len(x.elements[q]) :
            x.elements[q][i] \in Structs /\ x.size[x.elements[q][i]] # 0 =>
              /\ r.size[x.elements[q][i]] = x.size[x.elements[q][i]]
              /\ r.alignment[x.elements[q][i]] = x.alignment[x.elements[q][i]]
      BY <2>7, <3>3
    <3>5. /\ r \in Memories /\ r.elements = x.elements
          /\ r.size[q] = x.size[q] /\ r.alignment[q] = x.alignment[q]
      BY <2>7, <3>1
    <3> QED
      BY <1>11, <3>2, <3>4, <3>5, AgreesOn, Zenon
  <2>14. ~r.ok => \E E \in SUBSET (built \ solid) : Hollow(m.elements, E) /\ p \in E
    <3> SUFFICES ASSUME ~r.ok
                 PROVE  {p} \in SUBSET (built \ solid) /\ Hollow(m.elements, {p}) /\ p \in {p}
      BY Zenon
    <3>1. k = 0
      BY <2>7, <2>10
    <3>2. p \notin solid
      BY <3>1 DEF Sound
    <3> QED
      BY <3>1, <3>2 DEF Hollow
  <2>15. \A q \in Structs : q # p /\ (level[q] >= level[p] \/ m.size[q] # 0) =>
           r.size[q] = m.size[q] /\ r.alignment[q] = m.alignment[q]
    BY <1>9, <2>7 DEF Added
  <2>16. r.ok => r.size[p] # 0
    BY <2>7
  <2>17. r \in Memories /\ r.elements = m.elements
    BY <1>11, <2>7
  <2>18. \A q \in Structs : q = p \/ level[q] < level[p] => Agrees(r, q)
    BY <2>12, <2>13
  <2>19. Initializes(level, built, solid, m, p, r)
    BY <2>14, <2>15, <2>16, <2>17, <2>18 DEF Initializes
  <2> QED
    BY <1>10, <1>13, <2>19
<1> QED
  BY <1>12, <1>13

\* By induction on the depth of the calls.
LEMMA InitializeWorks ==
  ASSUME NEW level, NEW built, NEW solid, Leveled(level)
  PROVE  Works(initialize_aggregate[Nesting], Nesting, level, built, solid)
<1> DEFINE K == {n \in Nat : n <= Nesting =>
                   Works(initialize_aggregate[n], n, level, built, solid)}
<1>1. Nesting \in Nat
  BY Graph DEF Nesting
<1>2. \A q \in Structs : level[q] \in Nat /\ level[q] # 0
  BY Graph DEF Leveled
<1>3. 0 \in K
  <2>1. \A m \in Memories : \A p \in built :
          Sound(m.elements, level, built, solid) => ~(level[p] <= 0)
    BY <1>2 DEF Sound
  <2>2. Works(initialize_aggregate[0], 0, level, built, solid)
    BY <2>1 DEF Works
  <2> QED
    BY <2>2
<1>4. ASSUME NEW n \in K PROVE n + 1 \in K
  <2>0. n \in Nat /\ (n <= Nesting => Works(initialize_aggregate[n], n, level, built, solid))
    BY Zenon
  <2> HIDE DEF K
  <2> SUFFICES ASSUME n + 1 <= Nesting
               PROVE  Works(initialize_aggregate[n + 1], n + 1, level, built, solid)
    BY <2>0 DEF K
  <2>1. /\ Works(initialize_aggregate[n], n, level, built, solid)
        /\ n + 1 \in 0..Nesting /\ n + 1 # 0 /\ (n + 1) - 1 = n
    BY <1>1, <2>0
  <2> SUFFICES ASSUME NEW m \in Memories, NEW p \in built, m.ok,
                      Sound(m.elements, level, built, solid), level[p] <= n + 1,
                      m.size[p] = 0, \A q \in Structs : level[q] < level[p] => Agrees(m, q)
               PROVE  Initializes(level, built, solid, m, p, initialize_aggregate[n + 1][m][p])
    BY DEF Works
  <2>2. p \in Structs
    BY DEF Sound
  <2>3. initialize_aggregate[n + 1][m][p] = Aggregate(initialize_aggregate[n], m, p)
    BY <2>1, <2>2, InitializeApplied
  <2>4. Initializes(level, built, solid, m, p, Aggregate(initialize_aggregate[n], m, p))
    BY <2>0, <2>1, AggregateWorks
  <2> QED
    BY <2>3, <2>4
<1>5. K = Nat
  BY <1>3, <1>4, Induction
<1>6. Nesting \in K
  BY <1>1, <1>5, Zenon
<1> QED
  BY <1>1, <1>6

\* The memory y after libffi has seen to i of the types ts.
Prepped(built, solid, m, ts, i, y) ==
  /\ y \in Memories /\ y.elements = m.elements
  /\ \A q \in Structs : Agrees(y, q)
  /\ \A q \in Structs : m.size[q] # 0 =>
       y.size[q] = m.size[q] /\ y.alignment[q] = m.alignment[q]
  /\ y.ok => \A j \in 1..i : SizeIn(y, ts[j]) # 0
  /\ ~y.ok => \E E \in SUBSET (built \ solid) :
                Hollow(m.elements, E) /\ \E j \in 1..i : ts[j] \in E

\* One more.
LEMMA PreppedMore ==
  ASSUME NEW level, NEW built, NEW solid, NEW m \in Memories,
         Sound(m.elements, level, built, solid), NEW ts \in Seq(FfiTypes),
         \A j \in 1..Len(ts) : ts[j] \in Structs => ts[j] \in built,
         NEW i \in Nat, i + 1 <= Len(ts), NEW x, Prepped(built, solid, m, ts, i, x)
  PROVE  Prepped(built, solid, m, ts, i + 1,
                 Initialized(initialize_aggregate[Nesting], x, ts[i + 1]))
<1> DEFINE e == ts[i + 1]
           init == initialize_aggregate[Nesting]
           y == Initialized(init, x, e)
<1>1. /\ x \in Memories /\ x.elements = m.elements /\ Leveled(level)
      /\ \A q \in Structs : Agrees(x, q)
  BY DEF Prepped, Sound
<1>2. e \in FfiTypes /\ (e \in Structs => e \in built)
  BY DEF e
<1>3. \A j \in 1..(i + 1) : j \in 1..i \/ j = i + 1
  OBVIOUS
<1>4. \A j \in 1..i : j \in 1..(i + 1)
  OBVIOUS
<1>5. CASE ~(x.ok /\ SizeIn(x, e) = 0)
  <2>1. y = x
    BY <1>5 DEF Initialized
  <2> HIDE DEF y
  <2>2. y.ok => \A j \in 1..(i + 1) : SizeIn(y, ts[j]) # 0
    BY <1>3, <1>5, <2>1 DEF Prepped, e
  <2>3. Prepped(built, solid, m, ts, i + 1, y)
    BY <1>4, <2>1, <2>2 DEF Prepped
  <2> QED
    BY <2>3 DEF y
<1>6. CASE x.ok /\ SizeIn(x, e) = 0
  <2>1. e \in Structs /\ e \in built
    BY <1>1, <1>2, <1>6, NotedType
  <2>2. y = init[x][e] /\ x.size[e] = 0
    BY <1>6, <2>1 DEF Initialized, SizeIn
  <2>3. Nesting \in Nat /\ level[e] <= Nesting /\ \A q \in Structs : level[q] \in Nat
    <3>1. Cardinality(Structs) \in Nat /\ Nesting = Cardinality(Structs) + 1
      BY Graph DEF Nesting
    <3> QED
      BY <1>1, <2>1, <3>1 DEF Leveled
  <2>4. Works(init, Nesting, level, built, solid)
    BY <1>1, InitializeWorks
  <2> HIDE DEF init, y, e
  <2>5. Initializes(level, built, solid, x, e, y)
    BY <1>1, <1>6, <2>1, <2>2, <2>3, <2>4 DEF Works
  <2>6. y \in Memories /\ y.elements = m.elements /\ (y.ok => y.size[e] # 0)
    BY <1>1, <2>5 DEF Initializes
  <2>7. \A q \in Structs : q # e /\ (level[q] >= level[e] \/ x.size[q] # 0) =>
          y.size[q] = x.size[q] /\ y.alignment[q] = x.alignment[q]
    BY <2>5 DEF Initializes
  <2>8. \A q \in Structs : x.size[q] # 0 =>
          y.size[q] = x.size[q] /\ y.alignment[q] = x.alignment[q]
    BY <2>2, <2>7
  <2>9. ASSUME NEW q \in Structs PROVE Agrees(y, q)
    <3>1. CASE q = e \/ level[q] < level[e]
      BY <2>5, <3>1 DEF Initializes
    <3>2. CASE q # e /\ ~(level[q] < level[e])
      <4>1. y.size[q] = x.size[q] /\ y.alignment[q] = x.alignment[q]
        BY <2>1, <2>3, <2>7, <3>2
      <4>2. Agrees(x, q) /\ x \in Memories /\ y \in Memories /\ y.elements = x.elements
        BY <1>1, <2>6
      <4>3. \A n \in 1..Len(x.elements[q]) :
              x.elements[q][n] \in Structs /\ x.size[x.elements[q][n]] # 0 =>
                /\ y.size[x.elements[q][n]] = x.size[x.elements[q][n]]
                /\ y.alignment[x.elements[q][n]] = x.alignment[x.elements[q][n]]
        BY <2>8
      <4> QED
        BY <4>1, <4>2, <4>3, AgreesOn, Zenon
    <3> QED
      BY <3>1, <3>2
  <2>10. ASSUME y.ok PROVE \A j \in 1..(i + 1) : SizeIn(y, ts[j]) # 0
    <3>1. SizeIn(y, e) # 0
      BY <2>1, <2>6, <2>10 DEF SizeIn
    <3>2. \A j \in 1..i : SizeIn(x, ts[j]) # 0
      BY <1>6 DEF Prepped
    <3>3. \A j \in 1..i : SizeIn(y, ts[j]) # 0
      BY <2>8, <3>2 DEF SizeIn
    <3> QED
      BY <1>3, <3>1, <3>3 DEF e
  <2>11. ~y.ok => \E E \in SUBSET (built \ solid) :
                    Hollow(m.elements, E) /\ \E j \in 1..(i + 1) : ts[j] \in E
    <3>1. i + 1 \in 1..(i + 1)
      OBVIOUS
    <3> QED
      BY <1>1, <2>5, <3>1 DEF Initializes, e
  <2>12. \A q \in Structs : m.size[q] # 0 =>
           y.size[q] = m.size[q] /\ y.alignment[q] = m.alignment[q]
    BY <2>8 DEF Prepped
  <2>13. Prepped(built, solid, m, ts, i + 1, y)
    BY <2>6, <2>9, <2>10, <2>11, <2>12 DEF Prepped
  <2> QED
    BY <2>13 DEF y, e, init
<1> QED
  BY <1>5, <1>6

\* All of them.
LEMMA PrepWorks ==
  ASSUME NEW level, NEW built, NEW solid, NEW elems, Sound(elems, level, built, solid),
         NEW m \in Memories,
         m = [elements |-> elems, size |-> size, alignment |-> alignment, ok |-> TRUE],
         \A q \in Structs : Agrees(m, q), NEW ts \in Seq(FfiTypes),
         \A j \in 1..Len(ts) : ts[j] \in Structs => ts[j] \in built
  PROVE  Prepped(built, solid, m, ts, Len(ts), ffi_prep_cif(elems, ts))
<1>0. m.elements = elems /\ m.ok
  OBVIOUS
<1>1. PICK each :
        /\ each[0] = m
        /\ \A i \in 1..Len(ts) :
             each[i] = Initialized(initialize_aggregate[Nesting], each[i - 1], ts[i])
        /\ ffi_prep_cif(elems, ts) = each[Len(ts)]
  <2>1. Len(ts) \in Nat
    OBVIOUS
  <2> QED
    BY <2>1, PrepDef
<1> DEFINE K == {i \in Nat : i <= Len(ts) => Prepped(built, solid, m, ts, i, each[i])}
<1>2. 0 \in K
  <2>1. \A j \in 1..0 : FALSE
    OBVIOUS
  <2>2. Prepped(built, solid, m, ts, 0, each[0])
    BY <1>0, <1>1, <2>1 DEF Prepped
  <2> QED
    BY <2>2
<1>3. ASSUME NEW i \in K PROVE i + 1 \in K
  <2>0. i \in Nat /\ (i <= Len(ts) => Prepped(built, solid, m, ts, i, each[i]))
    BY Zenon
  <2> HIDE DEF K
  <2> SUFFICES ASSUME i + 1 <= Len(ts) PROVE Prepped(built, solid, m, ts, i + 1, each[i + 1])
    BY <2>0 DEF K
  <2>1. Prepped(built, solid, m, ts, i, each[i]) /\ i + 1 \in 1..Len(ts) /\ (i + 1) - 1 = i
    BY <2>0
  <2>2. each[i + 1] = Initialized(initialize_aggregate[Nesting], each[i], ts[i + 1])
    BY <1>1, <2>1
  <2>3. Sound(m.elements, level, built, solid)
    BY <1>0
  <2>4. Prepped(built, solid, m, ts, i + 1,
                Initialized(initialize_aggregate[Nesting], each[i], ts[i + 1]))
    BY <2>0, <2>1, <2>3, PreppedMore
  <2> QED
    BY <2>2, <2>4
<1>4. K = Nat
  BY <1>2, <1>3, Induction
<1>5. Len(ts) \in Nat
  OBVIOUS
<1>6. Len(ts) \in K
  BY <1>4, <1>5, Zenon
<1> QED
  BY <1>1, <1>5, <1>6

-----------------------------------------------------------------------------
(* Which calls of Type() throw: there is a set of types that lead to none  *)
(* of the ffi_types, and stays one.                                        *)

\* Only structs and scalars get an ffi_type, and scalars none that no name tells.
Plainly(owns) ==
  /\ \A t \in Types \ (Structs \union Scalars) : owns[t] = "unset"
  /\ \A t \in Scalars : NamedAtLoad(NameOf[t]) = "unset" => owns[t] \in {"unset", "undefined"}

\* The elements are the right ffi_types of a struct's first fields.
BuiltFrom(u, es, n) ==
  \E got \in Seq(FfiTypes) :
    /\ Len(got) = n /\ es = Elements(SubSeq(Declared[u], 1, n), got)
    /\ \A i \in 1..n : Right(got[i], Member(Declared[u][i]))

\* A struct has been built from the fields that it had, which are all it has unless
\* there are late ones.
Exact(owns, elems) ==
  \A u \in Structs : owns[u] = u =>
    \E n \in Given[u]..defined[u] :
      BuiltFrom(u, elems[u], n) /\ (n = defined[u] \/ DefinesLate)

GivenOK == \A t \in Structs : Given[t] <= defined[t]

\* Scalars for which there is no ffi_type, and structs that have one inside.
Bad(B, owns) ==
  \A t \in B :
    \/ t \in Scalars /\ ~Hope(t)
    \/ t \in Structs /\ owns[t] = "unset" /\ \E i \in 1..defined[t] : Member(Declared[t][i]) \in B

Above(level, u, t) == t \in Structs => level[t] < level[u]

\* What more there is to say of a call of Type(t) in state s that comes back in r,
\* if n calls fit on the stack.
Answers(level, n, s, t, r) ==
  /\ Plainly(r.own) /\ Exact(r.own, r.elements)
  /\ \A u \in Structs : Above(level, u, t) => r.own[u] = s.own[u]
  /\ \A B \in SUBSET Types : Bad(B, s.own) => Bad(B, r.own) /\ (t \in B => r.threw)
  /\ ~r.threw => \E p : r.got = Append(s.got, p) /\ Right(p, t)
  /\ r.threw /\ ~s.threw /\ n # 0 /\ (t \in Structs => level[t] < n) =>
       \E B \in SUBSET Types : t \in B /\ Bad(B, r.own)

Ready(s) == Fine(s) /\ Plainly(s.own) /\ Exact(s.own, s.elements)

Answering(level, n, call) ==
  \A s : Ready(s) /\ ~s.threw => \A t \in Types : Answers(level, n, s, t, call[s][t])

\* What stands for a scalar that has hope is right for it.
LEMMA ScalarRight ==
  ASSUME InheritsItsWidth, NEW t \in Scalars, Hope(t), NEW p, NEW owns, Stands(p, t, owns)
  PROVE  Right(p, t)
<1>1. t \notin Structs
  BY DEF Scalars, Structs
<1> QED
  BY <1>1 DEF Stands, Right

\* Scalars that tell no ffi_type have none.
LEMMA HopelessProperty ==
  ASSUME NEW owns, Plainly(owns), NEW t \in Scalars, ~Hope(t)
  PROVE  Property(owns, t) = "undefined"
<1> DEFINE set == {n \in DOMAIN Chain[t] : owns[Chain[t][n]] # "unset"}
<1>1. Kind[t] = "scalar"
  BY DEF Scalars
<1>2. CASE set = {}
  BY <1>1, <1>2 DEF Property
<1>3. CASE set # {}
  <2>0. set \subseteq Nat
    BY ChainOf
  <2>1. First(set) \in set
    <3> HIDE DEF set
    <3> QED
      BY <1>3, <2>0, FirstIn
  <2> DEFINE c == Chain[t][First(set)]
  <2>2. c \in Scalars /\ c \in Range(Chain[t]) /\ owns[c] # "unset"
    BY <2>1, ChainOf DEF Range
  <2>3. Property(owns, t) = owns[c]
    BY <1>1, <1>3 DEF Property
  <2> HIDE DEF c
  <2>4. NamedAtLoad(NameOf[c]) = "unset"
    BY <2>2 DEF Hope
  <2> QED
    BY <2>2, <2>3, <2>4 DEF Plainly
<1> QED
  BY <1>2, <1>3

\* Calls that set nothing.
LEMMA SameAnswers ==
  ASSUME NEW level, NEW n, NEW s, NEW t \in Types, NEW r,
         Plainly(s.own), Exact(s.own, s.elements),
         r.own = s.own, r.elements = s.elements,
         \A B \in SUBSET Types : Bad(B, s.own) /\ t \in B => r.threw,
         ~r.threw => \E p : r.got = Append(s.got, p) /\ Right(p, t),
         r.threw => \/ s.threw \/ n = 0
                    \/ \E B \in SUBSET Types : t \in B /\ Bad(B, s.own)
  PROVE  Answers(level, n, s, t, r)
BY DEF Answers

\* An exception changes nothing else.
LEMMA AssertsSets ==
  ASSUME NEW s \in Calls
  PROVE  /\ Asserts(s).own = s.own /\ Asserts(s).elements = s.elements
         /\ Asserts(s).threw /\ Asserts(s).got = s.got /\ Asserts(s) \in Calls
BY DEF Asserts, Calls

\* A return changes nothing else.
LEMMA ReturnsSets ==
  ASSUME NEW s \in Calls, NEW p \in FfiTypes
  PROVE  /\ Returns(s, p).own = s.own /\ Returns(s, p).elements = s.elements
         /\ Returns(s, p).threw = s.threw /\ Returns(s, p).got = Append(s.got, p)
<1> DEFINE g == Append(s.got, p)
<1>2. Returns(s, p) = [s EXCEPT !.got = g]
  BY DEF Returns, Calls
<1> HIDE DEF g
<1>3. /\ Returns(s, p).own = s.own /\ Returns(s, p).elements = s.elements
      /\ Returns(s, p).threw = s.threw /\ Returns(s, p).got = g
  BY <1>2 DEF Calls
<1> QED
  BY <1>3 DEF g

\* A type that has an ffi_type, or an array.
LEMMA PropertyAnswers ==
  ASSUME WellDeclared, NEW level, NEW n, NEW s, Ready(s), NEW t \in Types,
         Property(s.own, t) # "undefined"
  PROVE  Answers(level, n, s, t, Returns(s, Property(s.own, t)))
<1> DEFINE p == Property(s.own, t)
           r == Returns(s, p)
<1>0. InheritsItsWidth
  BY DEF WellDeclared
<1>1. Stands(p, t, s.own) /\ s \in Calls /\ p \in FfiTypes
  BY PropertyStands DEF Ready, Fine, Stands
<1>2. r.own = s.own /\ r.elements = s.elements /\ r.threw = s.threw /\ r.got = Append(s.got, p)
  BY <1>1, ReturnsSets
<1> HIDE DEF r
<1>3. t \in Scalars => Hope(t)
  BY HopelessProperty DEF Ready
<1>4. t \in Structs => s.own[t] = t /\ p = t
  <2>1. t \in Structs => s.own[t] \in {t, "unset"}
    BY DEF Ready, Fine, Typed
  <2>2. t \in Structs => Kind[t] = "struct" /\ t \notin Scalars
    BY DEF Structs, Scalars
  <2>3. t \in Structs /\ s.own[t] # "unset" => p = s.own[t]
    BY <2>2 DEF Property
  <2>4. t \in Structs /\ s.own[t] = "unset" => p = "undefined"
    BY <2>2 DEF Property
  <2> QED
    BY <2>1, <2>3, <2>4
<1>5. t \notin Structs \union Scalars => p = "pointer"
  <2> SUFFICES ASSUME t \notin Structs \union Scalars PROVE p = "pointer"
    OBVIOUS
  <2>1. s.own[t] = "unset" /\ Kind[t] \notin {"struct", "scalar"} /\ t \notin Scalars
    BY DEF Ready, Plainly, Structs, Scalars
  <2> QED
    BY <2>1 DEF Property
<1> HIDE DEF p
<1>6. Right(p, t)
  <2>1. CASE t \in Scalars
    BY <1>0, <1>1, <1>3, <2>1, ScalarRight
  <2>2. CASE t \notin Scalars
    BY <1>1, <1>4, <1>5, <2>2 DEF Right
  <2> QED
    BY <2>1, <2>2
<1>7. \A B \in SUBSET Types : Bad(B, s.own) => t \notin B
  BY <1>3, <1>4, Names DEF Bad
<1>8. Answers(level, n, s, t, r)
  BY <1>2, <1>6, <1>7, SameAnswers DEF Ready
<1> QED
  BY <1>8 DEF r, p

\* An array is a pointer.
LEMMA ArrayAnswers ==
  ASSUME NEW level, NEW n, NEW s, Ready(s), NEW t \in Types, Kind[t] = "array"
  PROVE  Answers(level, n, s, t, Returns(s, "pointer"))
<1> DEFINE r == Returns(s, "pointer")
<1>1. s \in Calls /\ "pointer" \in FfiTypes
  BY Names DEF Ready, Fine
<1>2. r.own = s.own /\ r.elements = s.elements /\ r.threw = s.threw
      /\ r.got = Append(s.got, "pointer")
  BY <1>1, ReturnsSets
<1> HIDE DEF r
<1>3. t \notin Structs /\ t \notin Scalars
  BY DEF Structs, Scalars
<1>4. Right("pointer", t)
  BY <1>1, <1>3 DEF Right
<1>5. \A B \in SUBSET Types : Bad(B, s.own) => t \notin B
  BY <1>3 DEF Bad
<1>6. Answers(level, n, s, t, r)
  BY <1>2, <1>4, <1>5, SameAnswers DEF Ready
<1> QED
  BY <1>6 DEF r

\* An exception is the answer where there is a reason for one.
LEMMA AssertsAnswers ==
  ASSUME NEW level, NEW n, NEW s, Ready(s), NEW t \in Types,
         s.threw \/ n = 0 \/ \E B \in SUBSET Types : t \in B /\ Bad(B, s.own)
  PROVE  Answers(level, n, s, t, Asserts(s))
<1>1. s \in Calls
  BY DEF Ready, Fine
<1> QED
  BY <1>1, AssertsSets, SameAnswers DEF Ready

\* A name with an entry in FFI_TYPES is one that is set at load.
LEMMA EntryNamed ==
  ASSUME NEW c, Entry(c) # "undefined"
  PROVE  NamedAtLoad(NameOf[c]) # "unset"
<1> DEFINE m == NameOf[c]
<1>1. m \in DOMAIN FFI_TYPES
  BY DEF Entry
<1> HIDE DEF m
<1>2. NamedAtLoad(m) # "unset"
  BY <1>1, Names DEF NamedAtLoad
<1> QED
  BY <1>2 DEF m

\* So is CString.
LEMMA CStringNamed ==
  NamedAtLoad("CString") # "unset"
BY DEF NamedAtLoad

\* A scalar has an ffi_type if and only if its prototypes lead to one.
LEMMA HopeNamed ==
  ASSUME WellDeclared, NEW t \in Scalars
  PROVE  Hope(t) <=> \/ NameOf[t] = "CString"
                     \/ \E i \in DOMAIN Chain[t] : Entry(Chain[t][i]) # "undefined"
<1>0. /\ InheritsItsWidth
      /\ \/ SizeInC[NameOf[t]] # 0 \/ NameOf[t] = "void"
         \/ \A c \in Range(Chain[t]) : NamedAtLoad(NameOf[c]) = "unset"
  BY DEF WellDeclared
<1>1. 1 \in DOMAIN Chain[t] /\ Chain[t][1] = t /\ t \in Range(Chain[t])
  <2>1. Chain[t] \in Seq(Scalars) /\ Chain[t] # <<>> /\ Head(Chain[t]) = t
    BY ScalarAssumption
  <2> QED
    BY <2>1 DEF Range
<1>2. ASSUME NameOf[t] = "CString" PROVE Hope(t)
  BY <1>1, <1>2, CStringNamed DEF Hope
<1>3. ASSUME NEW i \in DOMAIN Chain[t], Entry(Chain[t][i]) # "undefined" PROVE Hope(t)
  BY <1>3, EntryNamed DEF Hope, Range
<1>4. ASSUME Hope(t), NameOf[t] # "CString"
      PROVE  \E i \in DOMAIN Chain[t] : Entry(Chain[t][i]) # "undefined"
  <2>1. CASE SizeInC[NameOf[t]] # 0
    BY <1>0, <1>4, <2>1 DEF InheritsItsWidth, Range
  <2>2. CASE NameOf[t] = "void"
    BY <1>1, <2>2, Names DEF Entry
  <2> QED
    BY <1>0, <1>4, <2>1, <2>2 DEF Hope
<1> QED
  BY <1>2, <1>3, <1>4

\* What the loop up the prototypes sets, and when it throws.
LEMMA NamedSets ==
  ASSUME NEW s \in Calls, NEW t \in Scalars
  PROVE  LET r == NamedType(s, t) IN
         /\ r.elements = s.elements
         /\ \A u \in Types : \/ r.own[u] = s.own[u]
                             \/ /\ u \in Scalars
                                /\ \/ NamedAtLoad(NameOf[u]) # "unset"
                                   \/ r.own[u] = "undefined"
         /\ NameOf[t] # "CString" /\ (\A i \in DOMAIN Chain[t] : Entry(Chain[t][i]) = "undefined")
              => r.threw
         /\ NameOf[t] = "CString" \/ (\E i \in DOMAIN Chain[t] : Entry(Chain[t][i]) # "undefined")
              => r.threw = s.threw
<1> DEFINE named == {n \in DOMAIN Chain[t] : Entry(Chain[t][n]) # "undefined"}
           visited == {Chain[t][n] : n \in {m \in DOMAIN Chain[t] :
                                              \A k \in named : m <= k}}
           owns == [c \in Types |-> IF c \in visited THEN Entry(c) ELSE s.own[c]]
           r == [s EXCEPT !.own = owns]
           q == [s EXCEPT !.own[t] = "pointer"]
           R == NamedType(s, t)
<1>1. t \in Types /\ "pointer" \in FfiTypes /\ "pointer" \in OwnProperties
  BY Names DEF Scalars, OwnProperties
<1>2. \A c : Entry(c) \in OwnProperties /\ (Entry(c) # "undefined" => Entry(c) \in FfiTypes)
  BY Names DEF Entry, OwnProperties, FfiTypes
<1>3. CASE NameOf[t] = "CString"
  <2>1. /\ q \in Calls /\ q.elements = s.elements /\ q.threw = s.threw
        /\ \A u \in Types : q.own[u] = IF u = t THEN "pointer" ELSE s.own[u]
    BY <1>1 DEF Calls
  <2>2. R = Returns(q, "pointer")
    BY <1>3 DEF NamedType
  <2> HIDE DEF q
  <2>3. R.own = q.own /\ R.elements = q.elements /\ R.threw = q.threw
    BY <1>1, <2>1, <2>2, ReturnsSets
  <2> HIDE DEF R
  <2>4. \A u \in Types : R.own[u] = s.own[u] \/ u = t
    BY <2>1, <2>3
  <2> QED
    BY <1>3, <2>1, <2>3, <2>4, CStringNamed DEF R
<1>4. CASE NameOf[t] # "CString"
  <2>1. visited \subseteq Scalars
    BY ChainOf
  <2>9. named # {} <=> \E i \in DOMAIN Chain[t] : Entry(Chain[t][i]) # "undefined"
    OBVIOUS
  <2> HIDE DEF visited, named
  <2>2. owns \in [Types -> OwnProperties]
    BY <1>1, <1>2 DEF Calls
  <2>3. \A u \in Types : owns[u] = IF u \in visited THEN Entry(u) ELSE s.own[u]
    OBVIOUS
  <2> HIDE DEF owns
  <2>4. r \in Calls /\ r.elements = s.elements /\ r.own = owns /\ r.threw = s.threw
    BY <2>2 DEF Calls
  <2> HIDE DEF r
  <2>5. R.own = owns /\ R.elements = s.elements
        /\ (named = {} => R.threw) /\ (named # {} => R.threw = s.threw)
    <3>1. CASE named = {}
      <4>1. R = Asserts(r)
        BY <1>4, <3>1 DEF NamedType, r, owns, named, visited
      <4> QED
        BY <2>4, <3>1, <4>1, AssertsSets
    <3>2. CASE named # {}
      <4> DEFINE p == Entry(Chain[t][First(named)])
      <4>1. R = Returns(r, p)
        BY <1>4, <3>2 DEF NamedType, r, owns, named, visited
      <4>2. named \subseteq Nat
        BY ChainOf DEF named
      <4>3. First(named) \in named
        BY <3>2, <4>2, FirstIn
      <4>4. p \in FfiTypes
        BY <1>2, <4>3 DEF named
      <4> HIDE DEF p
      <4> QED
        BY <2>4, <3>2, <4>1, <4>4, ReturnsSets
    <3> QED
      BY <3>1, <3>2
  <2> HIDE DEF R
  <2>6. ASSUME NEW u \in Types
        PROVE  \/ R.own[u] = s.own[u]
               \/ u \in Scalars /\ (NamedAtLoad(NameOf[u]) # "unset" \/ R.own[u] = "undefined")
    BY <2>1, <2>3, <2>5, EntryNamed
  <2> QED
    BY <1>4, <2>5, <2>6, <2>9 DEF R
<1> QED
  BY <1>3, <1>4

\* NamedType() answers for any scalar.
LEMMA NamedAnswers ==
  ASSUME WellDeclared, NEW level, NEW n, NEW s, Ready(s), NEW t \in Scalars
  PROVE  Answers(level, n, s, t, NamedType(s, t))
<1> DEFINE r == NamedType(s, t)
<1>1. s \in Calls /\ t \in Types /\ t \notin Structs
  BY DEF Ready, Fine, Scalars, Structs
<1>2. /\ r.elements = s.elements
      /\ \A u \in Types : \/ r.own[u] = s.own[u]
                          \/ /\ u \in Scalars
                             /\ NamedAtLoad(NameOf[u]) # "unset" \/ r.own[u] = "undefined"
      /\ ~Hope(t) => r.threw
      /\ Hope(t) => r.threw = s.threw
  BY <1>1, NamedSets, HopeNamed
<1>3. Back(s, t, r)
  BY NamedBack DEF Ready
<1> HIDE DEF r
<1>4. \A u \in Structs : r.own[u] = s.own[u]
  BY <1>2 DEF Structs, Scalars
<1>5. Plainly(r.own)
  BY <1>2, Names DEF Plainly, Ready
<1>6. Exact(r.own, r.elements)
  BY <1>2, <1>4 DEF Exact, Ready
<1>7. \A B \in SUBSET Types : Bad(B, s.own) => Bad(B, r.own) /\ (t \in B => r.threw)
  BY <1>1, <1>2, <1>4 DEF Bad
<1>8. ~r.threw => \E p : r.got = Append(s.got, p) /\ Right(p, t)
  <2> SUFFICES ASSUME ~r.threw PROVE \E p : r.got = Append(s.got, p) /\ Right(p, t)
    OBVIOUS
  <2>1. PICK p : r.got = Append(s.got, p) /\ Stands(p, t, r.own)
    BY <1>3 DEF Back
  <2>2. Hope(t) /\ InheritsItsWidth
    BY <1>2 DEF WellDeclared
  <2> QED
    BY <2>1, <2>2, ScalarRight
<1>9. r.threw /\ ~s.threw => {t} \in SUBSET Types /\ t \in {t} /\ Bad({t}, r.own)
  BY <1>1, <1>2 DEF Bad
<1>10. Answers(level, n, s, t, r)
  BY <1>4, <1>5, <1>6, <1>7, <1>8, <1>9 DEF Answers
<1> QED
  BY <1>10 DEF r

\* The state r after i calls, for ts in turn, from state s.
EachAnswer(level, n, s, ts, i, r) ==
  /\ Ready(r) /\ Grown(s, r)
  /\ \A u \in Structs : (\A j \in 1..i : Above(level, u, ts[j])) => r.own[u] = s.own[u]
  /\ \A B \in SUBSET Types : Bad(B, s.own) =>
       Bad(B, r.own) /\ ((\E j \in 1..i : ts[j] \in B) => r.threw)
  /\ ~r.threw => /\ Len(r.got) = i
                 /\ \A j \in 1..i : Right(r.got[j], ts[j])
  /\ r.threw /\ ~s.threw /\ n # 0 /\ (\A j \in 1..i : ts[j] \in Structs => level[ts[j]] < n) =>
       \E B \in SUBSET Types : Bad(B, r.own) /\ \E j \in 1..i : ts[j] \in B

\* One more type of a list.
LEMMA EachAnswerMore ==
  ASSUME NEW level, NEW n, NEW call, Calling(call), Answering(level, n, call),
         NEW s, NEW ts \in Seq(Types), NEW i \in Nat, i + 1 <= Len(ts),
         NEW q, EachAnswer(level, n, s, ts, i, q)
  PROVE  EachAnswer(level, n, s, ts, i + 1, Then(call, q, ts[i + 1]))
<1> DEFINE t == ts[i + 1]
           r == Then(call, q, t)
<1>1. t \in Types /\ i + 1 \in 1..(i + 1)
  OBVIOUS
<1>2. \A j \in 1..(i + 1) : j \in 1..i \/ j = i + 1
  OBVIOUS
<1>3. \A j \in 1..i : j \in 1..(i + 1)
  OBVIOUS
<1>4. CASE q.threw
  <2>1. r = q
    BY <1>4 DEF Then
  <2> HIDE DEF r
  <2>2. EachAnswer(level, n, s, ts, i + 1, r)
    BY <1>3, <1>4, <2>1 DEF EachAnswer
  <2> QED
    BY <2>2 DEF r
<1>5. CASE ~q.threw
  <2>1. r = call[q][t]
    BY <1>5 DEF Then
  <2> HIDE DEF r, t
  <2>2. Ready(q) /\ Fine(q) /\ Grown(s, q)
    BY DEF EachAnswer, Ready
  <2>3. Answers(level, n, q, t, r)
    BY <1>1, <1>5, <2>1, <2>2 DEF Answering
  <2>4. Back(q, t, r)
    BY <1>1, <2>1, <2>2 DEF Calling
  <2>5. Ready(r) /\ Grown(s, r)
    BY <2>2, <2>3, <2>4, GrownOn DEF Ready, Back, Answers
  <2>6. ASSUME NEW u \in Structs, \A j \in 1..(i + 1) : Above(level, u, ts[j])
        PROVE  r.own[u] = s.own[u]
    <3>1. q.own[u] = s.own[u]
      BY <1>3, <2>6 DEF EachAnswer
    <3>2. Above(level, u, t)
      BY <1>1, <2>6 DEF t
    <3> QED
      BY <2>3, <3>1, <3>2 DEF Answers
  <2>7. ASSUME NEW B \in SUBSET Types, Bad(B, s.own)
        PROVE  Bad(B, r.own) /\ ((\E j \in 1..(i + 1) : ts[j] \in B) => r.threw)
    <3>1. Bad(B, q.own) /\ ~ \E j \in 1..i : ts[j] \in B
      BY <1>5, <2>7 DEF EachAnswer
    <3>2. Bad(B, r.own) /\ (t \in B => r.threw)
      BY <2>3, <3>1 DEF Answers
    <3> QED
      BY <1>2, <3>1, <3>2 DEF t
  <2>8. ASSUME ~r.threw
        PROVE  Len(r.got) = i + 1 /\ \A j \in 1..(i + 1) : Right(r.got[j], ts[j])
    <3>1. PICK p : r.got = Append(q.got, p) /\ Right(p, t)
      BY <2>3, <2>8 DEF Answers
    <3>2. q.got \in Seq(FfiTypes) /\ Len(q.got) = i /\ \A j \in 1..i : Right(q.got[j], ts[j])
      BY <1>5, <2>2 DEF EachAnswer, Fine, Calls
    <3>3. /\ Len(r.got) = i + 1 /\ r.got[i + 1] = p
          /\ \A j \in 1..i : r.got[j] = q.got[j]
      BY <3>1, <3>2
    <3> QED
      BY <1>2, <3>1, <3>2, <3>3 DEF t
  <2>9. ASSUME r.threw, ~s.threw, n # 0,
               \A j \in 1..(i + 1) : ts[j] \in Structs => level[ts[j]] < n
        PROVE  \E B \in SUBSET Types : Bad(B, r.own) /\ \E j \in 1..(i + 1) : ts[j] \in B
    <3>1. t \in Structs => level[t] < n
      BY <1>1, <2>9 DEF t
    <3>2. PICK B \in SUBSET Types : t \in B /\ Bad(B, r.own)
      BY <1>5, <2>3, <2>9, <3>1 DEF Answers
    <3> QED
      BY <1>1, <3>2 DEF t
  <2>10. EachAnswer(level, n, s, ts, i + 1, r)
    BY <2>5, <2>6, <2>7, <2>8, <2>9 DEF EachAnswer
  <2> QED
    BY <2>10 DEF r, t
<1> QED
  BY <1>4, <1>5

\* Every type of a list.
LEMMA EachAnswers ==
  ASSUME NEW level, NEW n, NEW call, Calling(call), Answering(level, n, call),
         NEW s, Ready(s), s.got = <<>>, ~s.threw, NEW ts \in Seq(Types)
  PROVE  EachAnswer(level, n, s, ts, Len(ts), TypeOfEach(call, s, ts))
<1>1. PICK each : /\ each[0] = s
                  /\ \A i \in 1..Len(ts) : each[i] = Then(call, each[i - 1], ts[i])
                  /\ TypeOfEach(call, s, ts) = each[Len(ts)]
  BY TypeOfEachDef
<1> DEFINE K == {i \in Nat : i <= Len(ts) => EachAnswer(level, n, s, ts, i, each[i])}
<1>2. 0 \in K
  <2>1. \A j \in 1..0 : FALSE
    OBVIOUS
  <2>2. Len(s.got) = 0 /\ Grown(s, s)
    BY DEF Grown
  <2>3. EachAnswer(level, n, s, ts, 0, s)
    BY <2>1, <2>2 DEF EachAnswer
  <2> QED
    BY <1>1, <2>3
<1>3. ASSUME NEW i \in K PROVE i + 1 \in K
  <2>0. i \in Nat /\ (i <= Len(ts) => EachAnswer(level, n, s, ts, i, each[i]))
    BY Zenon
  <2> HIDE DEF K
  <2> SUFFICES ASSUME i + 1 <= Len(ts) PROVE EachAnswer(level, n, s, ts, i + 1, each[i + 1])
    BY <2>0 DEF K
  <2>1. EachAnswer(level, n, s, ts, i, each[i]) /\ i + 1 \in 1..Len(ts) /\ (i + 1) - 1 = i
    BY <2>0
  <2>2. each[i + 1] = Then(call, each[i], ts[i + 1])
    BY <1>1, <2>1
  <2>3. EachAnswer(level, n, s, ts, i + 1, Then(call, each[i], ts[i + 1]))
    BY <2>0, <2>1, EachAnswerMore
  <2> QED
    BY <2>2, <2>3
<1>4. K = Nat
  BY <1>2, <1>3, Induction
<1>5. Len(ts) \in Nat
  OBVIOUS
<1>6. Len(ts) \in K
  BY <1>4, <1>5, Zenon
<1> QED
  BY <1>1, <1>5, <1>6

\* A struct's fields are below it.
LEMMA StructAnswers ==
  ASSUME DefinedOK, GivenOK, NEW level, Leveled(level), NEW n \in Nat,
         NEW call, Calling(call), Answering(level, n, call),
         NEW s, Ready(s), ~s.threw, NEW t \in Structs, s.own[t] = "unset"
  PROVE  Answers(level, n + 1, s, t, StructType(call, s, t))
<1> DEFINE fs == fields(t)
           ts == ElementTypes(fs)
           s0 == [s EXCEPT !.got = <<>>]
           r == TypeOfEach(call, s0, ts)
           es == Elements(fs, r.got)
           q == [r EXCEPT !.own[t] = t, !.elements[t] = es, !.got = Append(s.got, t)]
           R == StructType(call, s, t)
<1>1. R = IF r.threw THEN r ELSE q
  BY DEF StructType
<1>2. s0 \in Calls /\ s0.own = s.own /\ s0.elements = s.elements /\ s0.got = <<>>
      /\ s0.threw = s.threw
  <2>1. s \in Calls /\ <<>> \in Seq(FfiTypes)
    BY DEF Ready, Fine
  <2> QED
    BY <2>1 DEF Calls
<1>3. Ready(s0) /\ ~s0.threw
  BY <1>2 DEF Ready, Fine
<1> HIDE DEF s0
<1>4. ts \in Seq(Types) /\ Len(ts) = defined[t] /\ fs \in Seq(Types) /\ Len(fs) = defined[t]
      /\ defined[t] \in Nat /\ \A i \in 1..defined[t] : ts[i] = Member(Declared[t][i])
  BY FieldsOf
<1>0. \A q1 \in Structs : level[q1] \in Nat /\ level[q1] # 0
  BY Graph DEF Leveled
<1>5. \A i \in 1..Len(ts) : ts[i] \in Structs => level[ts[i]] < level[t]
  <2>1. defined[t] \in 0..Len(Declared[t]) /\ Declared[t] \in Seq(Types)
    BY OthersAssumption DEF DefinedOK
  <2>2. \A i \in 1..defined[t] : i \in DOMAIN Declared[t]
    BY <2>1
  <2> QED
    BY <1>4, <2>2 DEF Leveled
<1> HIDE DEF fs, ts
<1>6. EachAnswer(level, n, s0, ts, Len(ts), r)
  BY <1>2, <1>3, <1>4, EachAnswers
<1> HIDE DEF r
<1>7. Ready(r) /\ r \in Calls
  BY <1>6 DEF EachAnswer, Ready, Fine
<1>8. \A u \in Structs : Above(level, u, t) \/ u = t => r.own[u] = s.own[u]
  <2> SUFFICES ASSUME NEW u \in Structs, Above(level, u, t) \/ u = t PROVE r.own[u] = s.own[u]
    OBVIOUS
  <2>1. \A j \in 1..Len(ts) : Above(level, u, ts[j])
    BY <1>0, <1>5 DEF Above
  <2> QED
    BY <1>2, <1>6, <2>1 DEF EachAnswer
<1>9. \A B \in SUBSET Types : Bad(B, s.own) => Bad(B, r.own) /\ (t \in B => r.threw)
  <2> SUFFICES ASSUME NEW B \in SUBSET Types, Bad(B, s.own)
               PROVE  Bad(B, r.own) /\ (t \in B => r.threw)
    OBVIOUS
  <2>1. Bad(B, r.own) /\ ((\E j \in 1..Len(ts) : ts[j] \in B) => r.threw)
    BY <1>2, <1>6 DEF EachAnswer
  <2>2. t \in B => \E j \in 1..defined[t] : Member(Declared[t][j]) \in B
    BY DEF Bad, Structs, Scalars
  <2> QED
    BY <1>4, <2>1, <2>2
<1>10. CASE r.threw
  <2>1. level[t] < n + 1 => \E B \in SUBSET Types : t \in B /\ Bad(B, r.own)
    <3> SUFFICES ASSUME level[t] < n + 1
                 PROVE  \E B \in SUBSET Types : t \in B /\ Bad(B, r.own)
      OBVIOUS
    <3>1. n # 0 /\ \A j \in 1..Len(ts) : ts[j] \in Structs => level[ts[j]] < n
      BY <1>0, <1>5
    <3>2. PICK B \in SUBSET Types : Bad(B, r.own) /\ \E j \in 1..Len(ts) : ts[j] \in B
      BY <1>3, <1>6, <1>10, <3>1 DEF EachAnswer
    <3>3. r.own[t] = "unset" /\ \E j \in 1..defined[t] : Member(Declared[t][j]) \in B
      BY <1>4, <1>8, <3>2
    <3>4. Bad(B \union {t}, r.own)
      BY <3>2, <3>3 DEF Bad
    <3>5. B \union {t} \in SUBSET Types
      BY Names
    <3> QED
      BY <3>4, <3>5
  <2>2. Answers(level, n + 1, s, t, r)
    BY <1>7, <1>8, <1>9, <1>10, <2>1 DEF Answers, Ready
  <2>3. R = r
    BY <1>1, <1>10
  <2> QED
    BY <2>2, <2>3, Zenon
<1>11. CASE ~r.threw
  <2>1. r.got \in Seq(FfiTypes) /\ Len(r.got) = Len(fs)
        /\ \A j \in 1..Len(ts) : Right(r.got[j], ts[j])
    BY <1>4, <1>6, <1>7, <1>11 DEF EachAnswer, Calls
  <2>2. es \in Seq(FfiTypes)
    BY <1>4, <2>1, ElementsOf
  <2> HIDE DEF es
  <2> DEFINE g == Append(s.got, t)
  <2>3. t \in Types /\ t \in FfiTypes /\ t \in OwnProperties /\ g \in Seq(FfiTypes)
    BY DEF Structs, FfiTypes, OwnProperties, Ready, Fine, Calls
  <2> HIDE DEF g
  <2>4. q = [r EXCEPT !.own[t] = t, !.elements[t] = es, !.got = g]
    BY DEF g
  <2> HIDE DEF q
  <2>5. /\ q \in Calls /\ q.got = g /\ q.threw = r.threw
        /\ \A u \in Types : q.own[u] = IF u = t THEN t ELSE r.own[u]
        /\ \A u \in Structs : q.elements[u] = IF u = t THEN es ELSE r.elements[u]
    BY <1>7, <2>2, <2>3, <2>4 DEF Calls
  <2>6. Plainly(q.own)
    <3>1. t \notin Scalars
      BY DEF Structs, Scalars
    <3> QED
      BY <1>7, <2>5, <3>1, Names DEF Plainly, Ready
  <2>7. Exact(q.own, q.elements)
    <3> SUFFICES ASSUME NEW u \in Structs, q.own[u] = u
                 PROVE  \E n1 \in Given[u]..defined[u] :
                          BuiltFrom(u, q.elements[u], n1) /\ (n1 = defined[u] \/ DefinesLate)
      BY DEF Exact
    <3>1. CASE u = t
      <4>1. q.elements[u] = Elements(SubSeq(Declared[u], 1, defined[u]), r.got)
        BY <2>5, <3>1 DEF es, fs, fields
      <4>2. Len(r.got) = defined[u]
            /\ \A i \in 1..defined[u] : Right(r.got[i], Member(Declared[u][i]))
        BY <1>4, <2>1, <3>1
      <4>3. BuiltFrom(u, q.elements[u], defined[u])
        BY <2>1, <4>1, <4>2 DEF BuiltFrom
      <4>4. defined[u] \in Given[u]..defined[u]
        BY <1>4, <3>1, OthersAssumption DEF GivenOK
      <4> QED
        BY <4>3, <4>4
    <3>2. CASE u # t
      <4>1. r.own[u] = u /\ q.elements[u] = r.elements[u]
        BY <2>5, <3>2, Names
      <4> QED
        BY <1>7, <4>1 DEF Ready, Exact
    <3> QED
      BY <3>1, <3>2
  <2>8. \A u \in Structs : Above(level, u, t) => q.own[u] = s.own[u]
    <3>1. \A u \in Structs : Above(level, u, t) => u # t
      BY <1>0 DEF Above
    <3> QED
      BY <1>8, <2>5, <3>1, Names
  <2>9. \A B \in SUBSET Types : Bad(B, s.own) => Bad(B, q.own) /\ t \notin B
    <3> SUFFICES ASSUME NEW B \in SUBSET Types, Bad(B, s.own)
                 PROVE  Bad(B, q.own) /\ t \notin B
      OBVIOUS
    <3>1. Bad(B, r.own) /\ t \notin B
      BY <1>9, <1>11
    <3>2. \A u \in B : q.own[u] = r.own[u]
      BY <2>5, <3>1
    <3> QED
      BY <3>1, <3>2 DEF Bad
  <2>10. Right(t, t)
    BY <2>3 DEF Right, Structs, Scalars
  <2>11. Answers(level, n + 1, s, t, q)
    BY <1>11, <2>5, <2>6, <2>7, <2>8, <2>9, <2>10 DEF Answers, g
  <2>12. R = q
    BY <1>1, <1>11 DEF q
  <2> QED
    BY <2>11, <2>12, Zenon
<1> QED
  BY <1>10, <1>11

\* By induction on the depth of the stack.
LEMMA WithinAnswers ==
  ASSUME WellDeclared, DefinedOK, GivenOK, NEW level, Leveled(level)
  PROVE  \A n \in 0..Nesting : Answering(level, n, TypeWithin[n])
<1> DEFINE K == {n \in Nat : n <= Nesting => Answering(level, n, TypeWithin[n])}
<1>0. Nesting \in Nat
  BY Graph DEF Nesting
<1>1. ASSUME NEW n \in 0..Nesting, NEW s, Ready(s), NEW t \in Types
      PROVE  TypeWithin[n][s][t] =
               LET set == Property(s.own, t) IN
               IF n = 0 THEN Asserts(s)
               ELSE IF set # "undefined" THEN Returns(s, set)
               ELSE NewType(TypeWithin[n - 1], s, t)
  BY <1>1, TypeWithinApplied DEF Ready, Fine
<1>2. 0 \in K
  <2>1. 0 \in 0..Nesting
    BY <1>0
  <2>2. ASSUME NEW s, Ready(s), NEW t \in Types PROVE Answers(level, 0, s, t, TypeWithin[0][s][t])
    <3>1. TypeWithin[0][s][t] = Asserts(s)
      BY <1>1, <2>1, <2>2
    <3>2. Answers(level, 0, s, t, Asserts(s))
      BY <2>2, AssertsAnswers
    <3> QED
      BY <3>1, <3>2
  <2> QED
    BY <2>2 DEF Answering
<1>3. ASSUME NEW n \in K PROVE n + 1 \in K
  <2>0. n \in Nat /\ (n <= Nesting => Answering(level, n, TypeWithin[n]))
    BY Zenon
  <2> HIDE DEF K
  <2> SUFFICES ASSUME n + 1 <= Nesting PROVE Answering(level, n + 1, TypeWithin[n + 1])
    BY <2>0 DEF K
  <2>1. /\ Answering(level, n, TypeWithin[n]) /\ Calling(TypeWithin[n])
        /\ n + 1 \in 0..Nesting /\ n + 1 # 0 /\ (n + 1) - 1 = n
    BY <1>0, <2>0, WithinBack
  <2> SUFFICES ASSUME NEW s, Ready(s), ~s.threw, NEW t \in Types
               PROVE  Answers(level, n + 1, s, t, TypeWithin[n + 1][s][t])
    BY DEF Answering
  <2> DEFINE set == Property(s.own, t)
             r == TypeWithin[n + 1][s][t]
  <2>2. r = IF set # "undefined" THEN Returns(s, set) ELSE NewType(TypeWithin[n], s, t)
    BY <1>1, <2>1
  <2> HIDE DEF r
  <2>3. CASE set # "undefined"
    <3>1. Answers(level, n + 1, s, t, Returns(s, set))
      BY <2>3, PropertyAnswers
    <3>2. r = Returns(s, set)
      BY <2>2, <2>3
    <3> QED
      BY <3>1, <3>2, Zenon DEF r
  <2>4. CASE set = "undefined" /\ Kind[t] = "array"
    <3>1. r = Returns(s, "pointer")
      BY <2>2, <2>4 DEF NewType
    <3>2. Answers(level, n + 1, s, t, Returns(s, "pointer"))
      BY <2>4, ArrayAnswers
    <3> QED
      BY <3>1, <3>2, Zenon DEF r
  <2>5. CASE set = "undefined" /\ Kind[t] = "struct"
    <3>1. r = StructType(TypeWithin[n], s, t)
      BY <2>2, <2>5 DEF NewType
    <3>2. t \in Structs
      BY <2>5 DEF Structs
    <3>3. s.own[t] = "unset"
      <4>1. s.own[t] # "unset" => set = s.own[t]
        BY <2>5 DEF Property, Scalars
      <4>2. s.own[t] \in {t, "unset"}
        BY <3>2 DEF Ready, Fine, Typed
      <4> QED
        BY <2>5, <4>1, <4>2, Names
    <3>4. Answers(level, n + 1, s, t, StructType(TypeWithin[n], s, t))
      BY <2>0, <2>1, <3>2, <3>3, StructAnswers
    <3> QED
      BY <3>1, <3>4, Zenon DEF r
  <2>6. CASE set = "undefined" /\ Kind[t] = "scalar"
    <3>1. r = NamedType(s, t)
      BY <2>2, <2>6 DEF NewType
    <3>2. t \in Scalars
      BY <2>6 DEF Scalars
    <3>3. Answers(level, n + 1, s, t, NamedType(s, t))
      BY <3>2, NamedAnswers
    <3> QED
      BY <3>1, <3>3, Zenon DEF r
  <2>7. CASE set = "undefined" /\ Kind[t] \in {"pointer", "function"}
    BY <2>7 DEF Property, Scalars
  <2>8. Kind[t] \in {"scalar", "pointer", "function", "array", "struct"}
    BY KindAssumption
  <2> QED
    BY <2>3, <2>4, <2>5, <2>6, <2>7, <2>8
<1>4. K = Nat
  BY <1>2, <1>3, Induction
<1>5. ASSUME NEW n \in 0..Nesting PROVE Answering(level, n, TypeWithin[n])
  <2>1. n \in Nat /\ n <= Nesting
    BY <1>0
  <2>2. n \in K
    BY <1>4, <2>1, Zenon
  <2> QED
    BY <2>1, <2>2
<1> QED
  BY <1>5

\* The types of a signature are resolved, all of them or none for good.
Resolved(sig, s, r) ==
  /\ Ready(r) /\ Grown(s, r)
  /\ \A B \in SUBSET Types : Bad(B, s.own) =>
       Bad(B, r.own) /\ (Range(sig) \intersect B # {} => r.threw)
  /\ ~r.threw => /\ r.got \in Seq(FfiTypes) /\ Len(r.got) = Len(sig)
                 /\ \A i \in 1..Len(sig) :
                      Right(r.got[i], sig[i]) /\ (sig[i] \in Structs => r.own[sig[i]] = sig[i])
  /\ r.threw => \E B \in SUBSET Types : Bad(B, r.own) /\ Range(sig) \intersect B # {}

\* The types of a signature are resolved, or one of them is bad.
LEMMA SignatureResolved ==
  ASSUME WellDeclared, DefinedOK, GivenOK, NEW level, Leveled(level), Ready(Now),
         NEW sig \in Seq(Types)
  PROVE  Resolved(sig, Now, TypeOfEach(Type, Now, sig))
<1> DEFINE r == TypeOfEach(Type, Now, sig)
<1>1. Nesting \in 0..Nesting /\ Nesting # 0
      /\ \A t \in Structs : level[t] < Nesting
  <2>1. Cardinality(Structs) \in Nat /\ Nesting = Cardinality(Structs) + 1
    BY Graph DEF Nesting
  <2> QED
    BY <2>1 DEF Leveled
<1>2. Calling(Type) /\ Answering(level, Nesting, Type)
  BY <1>1, WithinBack, WithinAnswers DEF Type
<1>3. Now.got = <<>> /\ ~Now.threw /\ Fine(Now)
  BY DEF Now, Ready
<1>4. EachAnswer(level, Nesting, Now, sig, Len(sig), r)
  BY <1>2, <1>3, EachAnswers
<1>5. ~r.threw => \A i \in 1..Len(sig) : Stands(r.got[i], sig[i], r.own)
  BY <1>2, <1>3, EachBack
<1> HIDE DEF r
<1>6. Range(sig) = {sig[i] : i \in 1..Len(sig)}
  BY DEF Range
<1>7. r.got \in Seq(FfiTypes)
  BY <1>4 DEF EachAnswer, Ready, Fine, Calls
<1>8. ASSUME ~r.threw, NEW i \in 1..Len(sig)
      PROVE  Right(r.got[i], sig[i]) /\ (sig[i] \in Structs => r.own[sig[i]] = sig[i])
  <2>1. Right(r.got[i], sig[i])
    BY <1>4, <1>8 DEF EachAnswer
  <2> QED
    BY <1>5, <1>8, <2>1 DEF Right, Stands
<1>9. r.threw => \E B \in SUBSET Types : Bad(B, r.own) /\ Range(sig) \intersect B # {}
  BY <1>1, <1>3, <1>4, <1>6 DEF EachAnswer
<1>10. \A B \in SUBSET Types : Bad(B, Now.own) =>
         Bad(B, r.own) /\ (Range(sig) \intersect B # {} => r.threw)
  BY <1>4, <1>6 DEF EachAnswer
<1>11. Resolved(sig, Now, r)
  BY <1>4, <1>7, <1>8, <1>9, <1>10 DEF Resolved, EachAnswer
<1> QED
  BY <1>11 DEF r

-----------------------------------------------------------------------------
(* The second invariant: what has been built, prepared and rejected.       *)

\* The first field is the first element.
LEMMA FirstElement ==
  ASSUME NEW fs \in Seq(Types), NEW ffiTypes \in Seq(FfiTypes), Len(ffiTypes) = Len(fs),
         Len(fs) # 0
  PROVE  Len(Elements(fs, ffiTypes)) # 0 /\ Elements(fs, ffiTypes)[1] = ffiTypes[1]
<1>1. PICK all : /\ all[0] = <<>>
                 /\ \A i \in 1..Len(fs) :
                      all[i] = all[i - 1] \o [j \in 1..Counts(fs[i]) |-> ffiTypes[i]]
                 /\ Elements(fs, ffiTypes) = all[Len(fs)]
  BY ElementsDef
<1> DEFINE Q(s) == s \in Seq(FfiTypes) /\ Len(s) # 0 /\ s[1] = ffiTypes[1]
           K == {n \in Nat : n + 1 <= Len(fs) => Q(all[n + 1])}
<1>0. Len(fs) \in Nat
  OBVIOUS
<1>2. ASSUME NEW n \in Nat, n + 1 <= Len(fs)
      PROVE  /\ all[n + 1] = all[n] \o [j \in 1..Counts(fs[n + 1]) |-> ffiTypes[n + 1]]
             /\ [j \in 1..Counts(fs[n + 1]) |-> ffiTypes[n + 1]] \in Seq(FfiTypes)
             /\ Counts(fs[n + 1]) \in Nat \ {0}
  <2>1. n + 1 \in 1..Len(fs) /\ (n + 1) - 1 = n /\ fs[n + 1] \in Types
        /\ ffiTypes[n + 1] \in FfiTypes
    BY <1>0, <1>2
  <2>2. Counts(fs[n + 1]) \in Nat \ {0}
    BY <2>1, OthersAssumption DEF Counts, Fixed, Arrays
  <2>3. all[n + 1] = all[n] \o [j \in 1..Counts(fs[n + 1]) |-> ffiTypes[n + 1]]
    BY <1>1, <2>1
  <2>4. [j \in 1..Counts(fs[n + 1]) |-> ffiTypes[n + 1]] \in Seq(FfiTypes)
    BY <2>1, <2>2
  <2> QED
    BY <2>2, <2>3, <2>4
<1>3. 0 \in K
  <2> DEFINE c == Counts(fs[1])
             more == [j \in 1..c |-> ffiTypes[1]]
  <2>1. 0 + 1 = 1 /\ 1 <= Len(fs)
    BY <1>0
  <2>2. all[1] = <<>> \o more /\ more \in Seq(FfiTypes) /\ c \in Nat \ {0}
    BY <1>1, <1>2, <2>1
  <2> HIDE DEF c
  <2>3. Len(more) = c /\ more[1] = ffiTypes[1]
    BY <2>2
  <2> HIDE DEF more
  <2>4. Q(all[1])
    BY <2>2, <2>3
  <2> QED
    BY <2>1, <2>4
<1>4. ASSUME NEW n \in K PROVE n + 1 \in K
  <2>0. n \in Nat /\ (n + 1 <= Len(fs) => Q(all[n + 1]))
    BY Zenon
  <2> HIDE DEF K
  <2> SUFFICES ASSUME (n + 1) + 1 <= Len(fs) PROVE Q(all[(n + 1) + 1])
    BY <2>0 DEF K
  <2>1. n + 1 \in Nat /\ n + 1 <= Len(fs)
    BY <1>0, <2>0
  <2> DEFINE more == [j \in 1..Counts(fs[(n + 1) + 1]) |-> ffiTypes[(n + 1) + 1]]
  <2>2. all[(n + 1) + 1] = all[n + 1] \o more /\ more \in Seq(FfiTypes)
    BY <1>2, <2>1
  <2> HIDE DEF more
  <2>3. Q(all[n + 1])
    BY <2>0, <2>1
  <2> QED
    BY <2>2, <2>3
<1>5. K = Nat
  BY <1>3, <1>4, Induction
<1>6. Len(fs) - 1 \in Nat /\ (Len(fs) - 1) + 1 = Len(fs)
  BY <1>0
<1>7. Len(fs) - 1 \in K
  BY <1>5, <1>6, Zenon
<1>8. Q(all[Len(fs)])
  BY <1>6, <1>7
<1> QED
  BY <1>1, <1>8

\* Structs that begin with a struct that may be empty are those that may be, too.
Solid(solid) ==
  /\ solid \in SUBSET {t \in Structs : Given[t] > 0}
  /\ \A t \in Structs : \A n \in DOMAIN Declared[t] :
       (t \in solid \/ n > 1) /\ Member(Declared[t][n]) \in Structs =>
         Member(Declared[t][n]) \in solid

BuiltBy(owns) == {p \in Structs : owns[p] = p}

\* What Type() has built is what libffi expects to find.
LEMMA ExactSound ==
  ASSUME DefinedOK, NEW level, Leveled(level),
         NEW solid, Solid(solid), NEW r, Ready(r)
  PROVE  Sound(r.elements, level, BuiltBy(r.own), solid)
<1>1. /\ r.elements \in [Structs -> Seq(FfiTypes)]
      /\ Typed(r.own, r.elements) /\ Built(r.own, r.elements) /\ Exact(r.own, r.elements)
  BY DEF Ready, Fine, Calls
<1>2. Nested(r.elements, level)
  <2> SUFFICES ASSUME NEW p \in Structs, NEW n \in DOMAIN r.elements[p],
                      r.elements[p][n] \in Structs
               PROVE  level[r.elements[p][n]] < level[p]
    BY DEF Nested
  <2> DEFINE e == r.elements[p][n]
  <2>1. r.own[p] = p
    <3>1. r.elements[p] # <<>>
      OBVIOUS
    <3> QED
      BY <1>1, <3>1 DEF Typed
  <2>2. e \in Range(r.elements[p]) \intersect Structs
    BY DEF Range
  <2> HIDE DEF e
  <2>3. Direct(p, e)
    BY <1>1, <2>1, <2>2 DEF Built
  <2>4. PICK i \in 1..defined[p] : Member(Declared[p][i]) = e
    BY <2>3 DEF Direct
  <2>5. i \in DOMAIN Declared[p]
    BY OthersAssumption DEF DefinedOK
  <2>6. level[e] < level[p]
    BY <2>2, <2>4, <2>5 DEF Leveled
  <2> QED
    BY <2>6 DEF e
<1>3. ASSUME NEW p \in BuiltBy(r.own)
      PROVE  /\ p \in solid => Len(r.elements[p]) # 0
             /\ \A n \in 1..Len(r.elements[p]) : r.elements[p][n] \in Structs =>
                  /\ r.elements[p][n] \in BuiltBy(r.own)
                  /\ p \in solid \/ r.elements[p][n] # r.elements[p][1] =>
                       r.elements[p][n] \in solid
  <2> DEFINE es == r.elements[p]
  <2>1. p \in Structs /\ r.own[p] = p
    BY DEF BuiltBy
  <2>0. PICK k \in Given[p]..defined[p] : BuiltFrom(p, es, k)
    BY <1>1, <2>1 DEF Exact
  <2> DEFINE fs == SubSeq(Declared[p], 1, k)
  <2>2. PICK got \in Seq(FfiTypes) :
          /\ Len(got) = k /\ es = Elements(fs, got)
          /\ \A i \in 1..k : Right(got[i], Member(Declared[p][i]))
    BY <2>0 DEF BuiltFrom
  <2>3. /\ fs \in Seq(Types) /\ Len(fs) = k
        /\ k \in 0..Len(Declared[p]) /\ Declared[p] \in Seq(Types)
    <3>1. /\ Declared[p] \in Seq(Types) /\ Given[p] \in Nat
          /\ defined[p] \in 0..Len(Declared[p])
      BY <2>1, OthersAssumption DEF DefinedOK
    <3> QED
      BY <3>1
  <2> HIDE DEF fs
  <2>4. /\ es \in Seq(FfiTypes)
        /\ \A e \in Range(es) : \E i \in 1..k : e = got[i]
    BY <2>2, <2>3, ElementsOf
  <2>5. k # 0 => Len(es) # 0 /\ es[1] = got[1]
    BY <2>2, <2>3, FirstElement
  <2>6. p \in solid => k # 0
    BY <2>1, <2>3, OthersAssumption DEF Solid
  <2> HIDE DEF es
  <2>7. ASSUME NEW n \in 1..Len(es), es[n] \in Structs
        PROVE  es[n] \in BuiltBy(r.own) /\ (p \in solid \/ es[n] # es[1] => es[n] \in solid)
    <3>1. es[n] \in Range(es) /\ n \in DOMAIN es
      BY <2>4 DEF Range
    <3>2. r.own[es[n]] = es[n]
      BY <1>1, <2>1, <2>7, <3>1 DEF Built, es
    <3>3. PICK i \in 1..k : es[n] = got[i]
      BY <2>4, <3>1
    <3>4. Right(got[i], Member(Declared[p][i]))
      BY <2>2
    <3>5. Member(Declared[p][i]) = es[n]
      <4>1. Member(Declared[p][i]) \in Structs
        <5>1. "pointer" \notin Structs
          BY Names
        <5> QED
          BY <2>7, <3>3, <3>4, <5>1 DEF Right
      <4> QED
        BY <3>3, <3>4, <4>1 DEF Right
    <3>6. es[n] # es[1] => i > 1
      BY <2>3, <2>5, <3>3
    <3>7. i \in DOMAIN Declared[p]
      BY <2>3
    <3>8. (p \in solid \/ i > 1) => es[n] \in solid
      BY <2>1, <2>7, <3>5, <3>7 DEF Solid
    <3> QED
      BY <2>7, <3>2, <3>6, <3>8 DEF BuiltBy
  <2> QED
    BY <2>5, <2>6, <2>7 DEF es
<1> QED
  BY <1>1, <1>2, <1>3 DEF Sound, BuiltBy

\* Resolving types does not change the elements of a struct that has a size.
LEMMA GrownAgrees ==
  ASSUME NEW m \in Memories, \A q \in Structs : Agrees(m, q),
         NEW s, Fine(s), s.elements = m.elements, NEW r, Grown(s, r),
         NEW x \in Memories, x.elements = r.elements, x.size = m.size, x.alignment = m.alignment
  PROVE  \A q \in Structs : Agrees(x, q)
<1> SUFFICES ASSUME NEW q \in Structs, x.size[q] # 0 PROVE Agrees(x, q)
  BY DEF Agrees
<1>1. m.size[q] # 0 /\ Agrees(m, q)
  OBVIOUS
<1>2. Len(m.elements[q]) # 0
  BY <1>1 DEF Agrees
<1>3. s.own[q] # "unset"
  <2>1. Len(<<>>) = 0
    OBVIOUS
  <2> QED
    BY <1>2, <2>1 DEF Fine, Typed
<1>4. x.elements[q] = m.elements[q]
  BY <1>3 DEF Grown
<1>5. \A e : SizeIn(x, e) = SizeIn(m, e) /\ AlignmentIn(x, e) = AlignmentIn(m, e)
  BY DEF SizeIn, AlignmentIn
<1>6. \A es, k : NotedOf(x, es, k) = NotedOf(m, es, k)
  BY <1>5 DEF NotedOf, Noted
<1> QED
  BY <1>1, <1>4, <1>5, <1>6 DEF Agrees

\* libffi's memory between two calls.
Libffi == [elements |-> elements, size |-> size, alignment |-> alignment, ok |-> TRUE]

\* Structs that have been built, and will never have a size.
HollowBuilt(E, owns, elems) == Hollow(elems, E) /\ \A u \in E : owns[u] = u

\* Why a signature is not accepted.
Refused(sig, owns, elems) ==
  \/ \E B \in SUBSET Types : Bad(B, owns) /\ Range(sig) \intersect B # {}
  \/ \E E \in SUBSET Structs : HollowBuilt(E, owns, elems) /\ Range(sig) \intersect E # {}

\* What an ffi_cif was prepared with.
Accepted(cif, owns, sizes) ==
  /\ cif.sig \in Signatures
  /\ \A i \in 1..Len(cif.sig) :
       /\ Right(cif.ffiTypes[i], cif.sig[i])
       /\ cif.sig[i] \in Structs => owns[cif.sig[i]] = cif.sig[i] /\ sizes[cif.sig[i]] # 0

MInv ==
  /\ Plainly(own) /\ Exact(own, elements)
  /\ GivenOK
  /\ Libffi \in Memories /\ \A q \in Structs : Agrees(Libffi, q)
  /\ \A cif \in cifs : Accepted(cif, own, size)
  /\ \A sig \in rejected : Refused(sig, own, elements)

\* It holds at first.
LEMMA MInvInit ==
  ASSUME Init
  PROVE  MInv
<1>1. own = [t \in Types |-> FfiTypeAtLoad(t)]
  BY DEF Init
<1>2. \A t \in Types \ Scalars : own[t] = "unset"
  BY <1>1 DEF FfiTypeAtLoad
<1>3. Plainly(own)
  <2>1. \A t \in Scalars : own[t] \in {"unset", "undefined", NamedAtLoad(NameOf[t])}
    BY <1>1, Names DEF FfiTypeAtLoad
  <2> QED
    BY <1>2, <2>1 DEF Plainly
<1>4. Exact(own, elements)
  <2>1. \A u \in Structs : own[u] # u
    BY <1>2, Names DEF Structs, Scalars
  <2> QED
    BY <2>1 DEF Exact
<1>5. /\ elements = [t \in Structs |-> <<>>] /\ size = [t \in Structs |-> 0]
      /\ alignment = [t \in Structs |-> 0]
  BY DEF Init
<1>6. Libffi \in Memories
  <2>1. elements \in [Structs -> Seq(FfiTypes)]
    BY <1>5
  <2>2. size \in [Structs -> Nat] /\ alignment \in [Structs -> Nat]
    BY <1>5
  <2> QED
    BY <2>1, <2>2 DEF Libffi, Memories
<1>7. \A q \in Structs : Agrees(Libffi, q)
  BY <1>5 DEF Agrees, Libffi
<1>8. GivenOK
  BY OthersAssumption DEF Init, GivenOK
<1> QED
  BY <1>3, <1>4, <1>6, <1>7, <1>8 DEF MInv, Init

\* It depends on what is built and prepared, and not on what the program keeps.
LEMMA MInvUnchanged ==
  ASSUME MInv, UNCHANGED <<defined, own, elements, size, alignment, rejected>>, cifs' \subseteq cifs
  PROVE  MInv'
<1>1. Exact(own, elements)'
  BY DEF MInv, Exact, BuiltFrom
<1>2. Libffi' = Libffi
  BY DEF Libffi
<1>3. \A sig \in rejected' : Refused(sig, own, elements)'
  <2>1. \A B : Bad(B, own) => Bad(B, own)'
    BY DEF Bad
  <2> QED
    BY <2>1 DEF MInv, Refused
<1> QED
  BY <1>1, <1>2, <1>3 DEF MInv, GivenOK

\* A new field changes nothing about a struct that has been built from the others.
LEMMA DefineFieldLayout ==
  ASSUME LInv, MInv, NEW t \in Structs, DefineField(t)
  PROVE  MInv'
<1>1. /\ UNCHANGED <<own, elements, size, alignment, cifs, rejected>>
      /\ DefinesLate \/ own[t] = "unset"
      /\ defined' = [defined EXCEPT ![t] = @ + 1]
  BY DEF DefineField, memory
<1>2. defined \in [Structs -> Nat] /\ Given \in [Structs -> Nat]
  BY OthersAssumption DEF LInv, TypeOK
<1>3. \A u \in Structs : defined'[u] = IF u = t THEN defined[t] + 1 ELSE defined[u]
  BY <1>1, <1>2
<1>4. Exact(own, elements)'
  <2> SUFFICES ASSUME NEW u \in Structs, own[u] = u
               PROVE  \E n \in Given[u]..(defined'[u]) :
                        BuiltFrom(u, elements[u], n) /\ (n = defined'[u] \/ DefinesLate)
    BY <1>1 DEF Exact, BuiltFrom
  <2>1. PICK n \in Given[u]..defined[u] :
          BuiltFrom(u, elements[u], n) /\ (n = defined[u] \/ DefinesLate)
    BY DEF MInv, Exact
  <2>2. ~DefinesLate => u # t
    BY <1>1, Names
  <2>3. n \in Given[u]..(defined'[u]) /\ (n = defined'[u] \/ DefinesLate)
    BY <1>2, <1>3, <2>1, <2>2
  <2> QED
    BY <2>1, <2>3
<1>5. GivenOK'
  BY <1>2, <1>3 DEF MInv, GivenOK
<1>6. Libffi' = Libffi
  BY <1>1 DEF Libffi
<1>7. \A sig \in rejected' : Refused(sig, own, elements)'
  <2>1. \A u \in Structs : 1..defined[u] \subseteq 1..(defined'[u])
    BY <1>2, <1>3
  <2>2. \A B : Bad(B, own) => Bad(B, own)'
    BY <1>1, <2>1 DEF Bad
  <2> QED
    BY <1>1, <2>2 DEF MInv, Refused
<1> QED
  BY <1>1, <1>4, <1>5, <1>6, <1>7 DEF MInv

\* Any call of Type() starts from a state that is ready.
LEMMA ReadyNow ==
  ASSUME LInv, MInv
  PROVE  Ready(Now)
BY DEF LInv, MInv, Ready, Now

\* CIF() keeps it, whether Type() throws, libffi refuses, or the ffi_cif is prepared.
LEMMA CIFLayout ==
  ASSUME WellDeclared, LInv, MInv, NEW sig \in Signatures, CIF(sig)
  PROVE  MInv'
<1> DEFINE r == TypeOfEach(Type, Now, sig)
<1>1. /\ Throws(sig, r) \/ BadAbi(r) \/ Prepare(sig, r)
      /\ own' = r.own /\ elements' = r.elements
      /\ UNCHANGED defined
  BY DEF CIF
<1>2. sig \in Seq(Types)
  BY OthersAssumption
<1>3. DefinedOK /\ Ready(Now) /\ Now.own = own /\ Now.elements = elements
  BY TypeOKDefined, ReadyNow DEF LInv, Now
<1>4. PICK level : Leveled(level)
  BY LevelExists DEF WellDeclared, NoneInItself
<1>5. PICK solid : Solid(solid)
  BY DEF WellDeclared, Solid
<1>6. Resolved(sig, Now, r)
  BY <1>2, <1>3, <1>4, SignatureResolved DEF MInv
<1> DEFINE prep == ffi_prep_cif(r.elements, r.got)
<1>7. \/ /\ r.threw /\ UNCHANGED <<size, alignment, cifs>>
         /\ rejected' = rejected \union {sig}
      \/ /\ ~r.threw /\ UNCHANGED <<size, alignment, cifs, rejected>>
      \/ /\ ~r.threw /\ size' = prep.size /\ alignment' = prep.alignment
         /\ cifs' = cifs \union {c \in {[sig |-> sig, ffiTypes |-> r.got]} : prep.ok}
         /\ rejected' = rejected \union {g \in {sig} : ~prep.ok}
  BY <1>1 DEF Throws, BadAbi, Prepare
<1> HIDE DEF r, prep
<1>8. Ready(r) /\ Grown(Now, r) /\ r.elements \in [Structs -> Seq(FfiTypes)]
  BY <1>6 DEF Resolved, Ready, Fine, Calls
<1>9. GivenOK'
  BY <1>1 DEF MInv, GivenOK
<1>10. Plainly(own') /\ Exact(own, elements)'
  <2>1. Plainly(r.own) /\ Exact(r.own, r.elements)
    BY <1>8 DEF Ready
  <2> QED
    BY <1>1, <2>1 DEF Exact, BuiltFrom
<1>11. \A B : Bad(B, r.own) => Bad(B, own)'
  BY <1>1 DEF Bad
<1>12. \A u \in Structs : own[u] = u => own'[u] = u /\ elements'[u] = elements[u]
  BY <1>1, <1>3, <1>8, Names DEF Grown
<1>13. ASSUME NEW g \in rejected PROVE Refused(g, own, elements)'
  <2>1. Refused(g, own, elements)
    BY <1>13 DEF MInv
  <2>2. \A B \in SUBSET Types : Bad(B, own) => Bad(B, own)'
    BY <1>3, <1>6, <1>11 DEF Resolved
  <2>3. \A E \in SUBSET Structs : HollowBuilt(E, own, elements) => HollowBuilt(E, own', elements')
    BY <1>12 DEF HollowBuilt, Hollow
  <2> QED
    BY <2>1, <2>2, <2>3 DEF Refused
<1> DEFINE m == [elements |-> r.elements, size |-> size, alignment |-> alignment, ok |-> TRUE]
<1>14. m \in Memories /\ \A q \in Structs : Agrees(m, q)
  <2>1. m \in Memories
    BY <1>8 DEF MInv, Libffi, Memories
  <2>2. /\ m.elements = r.elements /\ m.size = Libffi.size /\ m.alignment = Libffi.alignment
        /\ Now.elements = Libffi.elements
    BY <1>3 DEF Libffi
  <2>3. /\ Libffi \in Memories /\ \A q \in Structs : Agrees(Libffi, q)
        /\ Fine(Now)
    BY <1>3 DEF MInv, Ready
  <2> HIDE DEF m
  <2> QED
    BY <1>8, <2>1, <2>2, <2>3, GrownAgrees
<1>15. CASE r.threw
  <2>1. /\ UNCHANGED <<size, alignment, cifs>> /\ rejected' = rejected \union {sig}
    BY <1>7, <1>15
  <2>2. Libffi' = m
    BY <1>1, <2>1 DEF Libffi
  <2>3. \A cif \in cifs' : Accepted(cif, own', size')
    BY <1>12, <2>1 DEF MInv, Accepted
  <2>4. Refused(sig, own, elements)'
    BY <1>6, <1>11, <1>15 DEF Resolved, Refused
  <2>5. \A g \in rejected' : Refused(g, own, elements)'
    BY <1>13, <2>1, <2>4
  <2> HIDE DEF m
  <2> QED
    BY <1>1, <1>9, <1>10, <1>14, <2>2, <2>3, <2>5 DEF MInv
<1>16. CASE ~r.threw /\ UNCHANGED <<size, alignment, cifs, rejected>>
  <2>1. Libffi' = m
    BY <1>1, <1>16 DEF Libffi
  <2>2. \A cif \in cifs' : Accepted(cif, own', size')
    BY <1>12, <1>16 DEF MInv, Accepted
  <2>3. \A g \in rejected' : Refused(g, own, elements)'
    BY <1>13, <1>16
  <2> HIDE DEF m
  <2> QED
    BY <1>1, <1>9, <1>10, <1>14, <2>1, <2>2, <2>3 DEF MInv
<1>17. CASE /\ ~r.threw /\ size' = prep.size /\ alignment' = prep.alignment
            /\ cifs' = cifs \union {c \in {[sig |-> sig, ffiTypes |-> r.got]} : prep.ok}
            /\ rejected' = rejected \union {g \in {sig} : ~prep.ok}
  <2> DEFINE built == BuiltBy(r.own)
  <2>1. Sound(r.elements, level, built, solid)
    BY <1>3, <1>4, <1>5, <1>8, ExactSound
  <2>2. /\ r.got \in Seq(FfiTypes) /\ Len(r.got) = Len(sig)
        /\ \A i \in 1..Len(sig) :
             Right(r.got[i], sig[i]) /\ (sig[i] \in Structs => r.own[sig[i]] = sig[i])
    BY <1>6, <1>17 DEF Resolved
  <2>3. \A i \in 1..Len(sig) : r.got[i] \in Structs => r.got[i] = sig[i] /\ sig[i] \in Structs
    BY <2>2, Names DEF Right
  <2>4. \A i \in 1..Len(r.got) : r.got[i] \in Structs => r.got[i] \in built
    BY <2>2, <2>3 DEF BuiltBy
  <2> HIDE DEF built
  <2>5. Prepped(built, solid, m, r.got, Len(r.got), prep)
    <3>1. Prepped(built, solid, m, r.got, Len(r.got), ffi_prep_cif(r.elements, r.got))
      BY <1>14, <2>1, <2>2, <2>4, PrepWorks
    <3> QED
      BY <3>1, Zenon DEF prep
  <2>6. /\ prep \in Memories /\ prep.elements = elements'
        /\ \A q \in Structs : Agrees(prep, q)
        /\ \A q \in Structs : size[q] # 0 => size'[q] = size[q]
    BY <1>1, <1>17, <2>5 DEF Prepped
  <2>7. Libffi' \in Memories /\ Libffi'.elements = prep.elements
        /\ Libffi'.size = prep.size /\ Libffi'.alignment = prep.alignment
    BY <1>17, <2>6 DEF Libffi, Memories
  <2>8. \A q \in Structs : Agrees(Libffi', q)
    <3> HIDE DEF Libffi
    <3> SUFFICES ASSUME NEW q \in Structs PROVE Agrees(Libffi', q)
      OBVIOUS
    <3>1. Agrees(prep, q)
      BY <2>6
    <3> QED
      BY <2>6, <2>7, <3>1, AgreesOn
  <2>9. ASSUME prep.ok, NEW cif, cif = [sig |-> sig, ffiTypes |-> r.got]
        PROVE  Accepted(cif, own', size')
    <3>1. cif.sig = sig /\ cif.ffiTypes = r.got
      BY <2>9
    <3>2. \A i \in 1..Len(sig) : SizeIn(prep, r.got[i]) # 0
      BY <2>2, <2>5, <2>9 DEF Prepped
    <3>3. \A i \in 1..Len(sig) : sig[i] \in Structs => r.got[i] = sig[i] /\ size'[sig[i]] # 0
      BY <1>17, <2>2, <3>2 DEF Right, SizeIn
    <3> QED
      BY <1>1, <2>2, <3>1, <3>3 DEF Accepted
  <2>10. \A cif \in cifs : Accepted(cif, own', size')
    BY <1>12, <2>6 DEF MInv, Accepted
  <2>11. \A cif \in cifs' : Accepted(cif, own', size')
    BY <1>17, <2>9, <2>10
  <2>12. ASSUME ~prep.ok PROVE Refused(sig, own, elements)'
    <3>1. PICK E \in SUBSET (built \ solid) :
            Hollow(r.elements, E) /\ \E j \in 1..Len(r.got) : r.got[j] \in E
      BY <2>5, <2>12 DEF Prepped
    <3>2. E \in SUBSET Structs /\ HollowBuilt(E, own', elements')
      BY <1>1, <3>1 DEF HollowBuilt, BuiltBy, built
    <3>3. Range(sig) \intersect E # {}
      BY <1>2, <2>2, <2>3, <3>1, <3>2 DEF Range
    <3> QED
      BY <3>2, <3>3 DEF Refused
  <2>13. \A g \in rejected' : Refused(g, own, elements)'
    BY <1>13, <1>17, <2>12
  <2> HIDE DEF m
  <2> QED
    BY <1>1, <1>9, <1>10, <2>7, <2>8, <2>11, <2>13 DEF MInv
<1> QED
  BY <1>7, <1>15, <1>16, <1>17

\* Every step keeps both invariants.
LEMMA MInvHolds ==
  ASSUME WellDeclared
  PROVE  Spec => [](LInv /\ MInv)
<1>1. Init => MInv
  BY MInvInit
<1>2. LInv /\ MInv /\ [Next]_vars => MInv'
  <2> SUFFICES ASSUME LInv, MInv, [Next]_vars PROVE MInv'
    OBVIOUS
  <2>1. ASSUME NEW sig \in Signatures, CIF(sig) PROVE MInv'
    BY <2>1, CIFLayout
  <2>2. ASSUME NEW sig \in Variadic, NEW n \in 0..(Len(sig) - 1), CIF_var(sig, n)
        PROVE  MInv'
    BY <2>2, CIFLayout, OthersAssumption DEF CIF_var
  <2>3. ASSUME NEW t \in Structs, DefineField(t) PROVE MInv'
    BY <2>3, DefineFieldLayout
  <2>4. ASSUME NEW t \in Structs, Forget(t) \/ Collect(t) PROVE MInv'
    BY <2>4, MInvUnchanged DEF Forget, Collect, memory
  <2>5. ASSUME NEW cif \in cifs, DropCif(cif) PROVE MInv'
    BY <2>5, MInvUnchanged DEF DropCif, memory
  <2>6. CASE UNCHANGED vars
    BY <2>6, MInvUnchanged DEF vars, memory
  <2> QED
    BY <2>1, <2>2, <2>3, <2>4, <2>5, <2>6 DEF Next
<1> QED
  BY <1>1, <1>2, LInvHolds, PTL DEF Spec

-----------------------------------------------------------------------------
(* What follows: the layouts of the ffi_types, and the properties.         *)

\* Every field is an element.
LEMMA AllElements ==
  ASSUME NEW fs \in Seq(Types), NEW ffiTypes \in Seq(FfiTypes), Len(ffiTypes) = Len(fs)
  PROVE  \A i \in 1..Len(fs) : ffiTypes[i] \in Range(Elements(fs, ffiTypes))
<1>1. PICK all : /\ all[0] = <<>>
                 /\ \A i \in 1..Len(fs) :
                      all[i] = all[i - 1] \o [j \in 1..Counts(fs[i]) |-> ffiTypes[i]]
                 /\ Elements(fs, ffiTypes) = all[Len(fs)]
  BY ElementsDef
<1> DEFINE Q(s, n) == s \in Seq(FfiTypes)
                      /\ \A i \in 1..n : \E j \in 1..Len(s) : s[j] = ffiTypes[i]
           K == {n \in Nat : n <= Len(fs) => Q(all[n], n)}
<1>0. Len(fs) \in Nat
  OBVIOUS
<1>2. 0 \in K
  <2>1. <<>> \in Seq(FfiTypes) /\ \A i \in 1..0 : FALSE
    OBVIOUS
  <2> QED
    BY <1>1, <2>1
<1>3. ASSUME NEW n \in K PROVE n + 1 \in K
  <2>0. n \in Nat /\ (n <= Len(fs) => Q(all[n], n))
    BY Zenon
  <2> HIDE DEF K
  <2> SUFFICES ASSUME n + 1 <= Len(fs) PROVE Q(all[n + 1], n + 1)
    BY <2>0 DEF K
  <2>1. n + 1 \in 1..Len(fs) /\ (n + 1) - 1 = n /\ fs[n + 1] \in Types
        /\ ffiTypes[n + 1] \in FfiTypes /\ Q(all[n], n)
    BY <1>0, <2>0
  <2> DEFINE c == Counts(fs[n + 1])
             more == [j \in 1..c |-> ffiTypes[n + 1]]
             s == all[n]
             t == all[n + 1]
  <2>2. c \in Nat \ {0}
    BY <2>1, OthersAssumption DEF Counts, Fixed, Arrays
  <2>3. t = s \o more
    BY <1>1, <2>1
  <2> HIDE DEF c, s, t
  <2>4. more \in Seq(FfiTypes) /\ Len(more) = c /\ more[1] = ffiTypes[n + 1]
    BY <2>1, <2>2
  <2> HIDE DEF more
  <2>5. /\ s \in Seq(FfiTypes)
        /\ \A i \in 1..n : \E j \in 1..Len(s) : s[j] = ffiTypes[i]
    BY <2>1 DEF s
  <2>6. /\ t \in Seq(FfiTypes) /\ Len(t) = Len(s) + c /\ Len(s) \in Nat
        /\ \A j \in 1..Len(s) : t[j] = s[j]
        /\ t[Len(s) + 1] = ffiTypes[n + 1]
    <3>1. 1 \in 1..Len(more)
      BY <2>2, <2>4
    <3>2. /\ s \o more \in Seq(FfiTypes) /\ Len(s \o more) = Len(s) + Len(more)
          /\ Len(s) \in Nat
          /\ \A j \in 1..Len(s) : (s \o more)[j] = s[j]
          /\ \A j \in 1..Len(more) : (s \o more)[Len(s) + j] = more[j]
      <4>1. s \in Seq(FfiTypes) /\ more \in Seq(FfiTypes)
        BY <2>4, <2>5
      <4> QED
        BY <4>1, Joined
    <3>3. (s \o more)[Len(s) + 1] = more[1]
      BY <3>1, <3>2
    <3> QED
      BY <2>3, <2>4, <3>2, <3>3
  <2>7. ASSUME NEW i \in 1..(n + 1) PROVE \E j \in 1..Len(t) : t[j] = ffiTypes[i]
    <3>1. CASE i = n + 1
      <4>1. Len(s) + 1 \in 1..Len(t)
        BY <2>2, <2>6
      <4> QED
        BY <2>6, <3>1, <4>1
    <3>2. CASE i # n + 1
      <4>1. i \in 1..n
        BY <2>0, <3>2
      <4>2. PICK j \in 1..Len(s) : s[j] = ffiTypes[i]
        BY <2>5, <4>1
      <4>3. j \in 1..Len(t)
        BY <2>2, <2>6
      <4> QED
        BY <2>6, <4>2, <4>3
    <3> QED
      BY <3>1, <3>2
  <2> QED
    BY <2>6, <2>7 DEF t
<1>4. K = Nat
  BY <1>2, <1>3, Induction
<1>5. Len(fs) \in K
  BY <1>0, <1>4, Zenon
<1>6. Q(all[Len(fs)], Len(fs))
  BY <1>0, <1>5
<1> QED
  BY <1>1, <1>6 DEF Range

\* The size of a row is told by the sizes and alignments of what is in it.
LEMMA RowSizes ==
  ASSUME NEW xs, NEW ys, Len(xs) \in Nat, Len(ys) = Len(xs),
         \A i \in 1..Len(xs) : /\ xs[i] \in Layouts /\ ys[i] \in Layouts
                               /\ xs[i].size = ys[i].size /\ xs[i].alignment = ys[i].alignment
  PROVE  /\ Row(xs) \in Layouts /\ Row(ys) \in Layouts
         /\ Row(xs).size = Row(ys).size /\ Row(xs).alignment = Row(ys).alignment
<1>1. PICK px : /\ px[0] = Nothing
                /\ \A i \in 1..Len(xs) : px[i] = Place(px[i - 1], xs[i])
                /\ Row(xs) = px[Len(xs)]
  BY RowDef
<1>2. PICK py : /\ py[0] = Nothing
                /\ \A i \in 1..Len(xs) : py[i] = Place(py[i - 1], ys[i])
                /\ Row(ys) = py[Len(xs)]
  BY RowDef
<1> DEFINE Q(x, y) == /\ x \in Layouts /\ y \in Layouts
                      /\ x.size = y.size /\ x.alignment = y.alignment
           K == {n \in Nat : n <= Len(xs) => Q(px[n], py[n])}
<1>3. 0 \in K
  <2>1. Nothing \in Layouts
    BY DEF Nothing, Layouts
  <2> QED
    BY <1>1, <1>2, <2>1
<1>4. ASSUME NEW n \in K PROVE n + 1 \in K
  <2>0. n \in Nat /\ (n <= Len(xs) => Q(px[n], py[n]))
    BY Zenon
  <2> HIDE DEF K
  <2> SUFFICES ASSUME n + 1 <= Len(xs) PROVE Q(px[n + 1], py[n + 1])
    BY <2>0 DEF K
  <2>1. n + 1 \in 1..Len(xs) /\ (n + 1) - 1 = n /\ Q(px[n], py[n])
    BY <2>0
  <2>2. px[n + 1] = Place(px[n], xs[n + 1]) /\ py[n + 1] = Place(py[n], ys[n + 1])
    BY <1>1, <1>2, <2>1
  <2>3. Q(xs[n + 1], ys[n + 1])
    BY <2>1
  <2> DEFINE a == px[n]
             b == py[n]
             x == xs[n + 1]
             y == ys[n + 1]
  <2> HIDE DEF a, b, x, y
  <2>4. Q(Place(a, x), Place(b, y))
    <3>1. Q(a, b) /\ Q(x, y)
      BY <2>1, <2>3 DEF a, b, x, y
    <3>2. /\ Place(a, x) \in Layouts /\ Place(b, y) \in Layouts
          /\ Place(a, x).size = AlignUp(a.size, x.alignment) + x.size
          /\ Place(b, y).size = AlignUp(b.size, y.alignment) + y.size
          /\ Place(a, x).alignment = Larger(a.alignment, x.alignment)
          /\ Place(b, y).alignment = Larger(b.alignment, y.alignment)
      BY <3>1, PlaceDef
    <3> QED
      BY <3>1, <3>2
  <2> QED
    BY <2>2, <2>4 DEF a, b, x, y
<1>5. K = Nat
  BY <1>3, <1>4, Induction
<1>6. Len(xs) \in K
  BY <1>5, Zenon
<1>7. Q(px[Len(xs)], py[Len(xs)])
  BY <1>6
<1> QED
  BY <1>1, <1>2, <1>7

\* libffi's layout of a struct that has a size is the declared one.
AsDeclared(p) ==
  /\ LibffiLayout[p] = DeclaredLayout[p] /\ Whole(DeclaredLayout[p])
  /\ size[p] = DeclaredLayout[p].size /\ alignment[p] = DeclaredLayout[p].alignment

\* A struct with a size is laid out as declared if those inside it are.
LEMMA StructAsDeclared ==
  ASSUME WellDeclared, ~DefinesLate, LInv, MInv,
         NEW level, Leveled(level), Nested(elements, level),
         NEW p \in Structs, size[p] # 0,
         \A q \in Structs : level[q] < level[p] /\ size[q] # 0 => AsDeclared(q)
  PROVE  AsDeclared(p)
<1> DEFINE es == elements[p]
           k == Len(es)
<1>1. /\ DefinedOK /\ elements \in [Structs -> Seq(FfiTypes)] /\ Typed(own, elements)
      /\ Exact(own, elements) /\ Agrees(Libffi, p) /\ Libffi \in Memories
  BY TypeOKDefined, FineNow DEF LInv, MInv
<1>2. /\ Libffi.elements = elements /\ Libffi.size = size /\ Libffi.alignment = alignment
  BY DEF Libffi
<1>3. /\ k # 0 /\ \A n \in 1..k : SizeIn(Libffi, es[n]) # 0
      /\ size[p] = Padded(Row(NotedOf(Libffi, es, k))).size
      /\ alignment[p] = Padded(Row(NotedOf(Libffi, es, k))).alignment
  BY <1>1, <1>2 DEF Agrees
<1>4. es \in Seq(FfiTypes) /\ k \in Nat /\ DOMAIN es = 1..k
  BY <1>1
<1>5. own[p] = p
  <2>1. es # <<>>
    BY <1>3
  <2> QED
    BY <1>1, <2>1 DEF Typed
<1>6. PICK got \in Seq(FfiTypes) :
        /\ Len(got) = defined[p] /\ es = Elements(fields(p), got)
        /\ \A i \in 1..defined[p] : Right(got[i], Member(Declared[p][i]))
  BY <1>1, <1>5 DEF Exact, BuiltFrom, fields
<1>7. fields(p) \in Seq(Types) /\ Len(fields(p)) = defined[p] /\ defined[p] \in Nat
  BY <1>1, FieldsOf
<1>8. ASSUME NEW n \in 1..k
      PROVE  /\ es[n] \in FfiTypes /\ (es[n] \in Structs => AsDeclared(es[n]))
             /\ LayoutOf(es[n]) = LibffiLayout[es[n]] /\ Whole(LayoutOf(es[n]))
             /\ SizeIn(Libffi, es[n]) = LayoutOf(es[n]).size
             /\ AlignmentIn(Libffi, es[n]) = LayoutOf(es[n]).alignment
  <2> DEFINE e == es[n]
  <2>1. e \in FfiTypes
    BY <1>4
  <2>2. CASE e \in Structs
    <3>1. level[e] < level[p]
      BY <1>4, <2>2 DEF Nested
    <3>2. size[e] # 0
      BY <1>2, <1>3, <2>2 DEF SizeIn
    <3> HIDE DEF e
    <3>3. AsDeclared(e)
      BY <2>2, <3>1, <3>2
    <3>4. /\ LayoutOf(e) = LibffiLayout[e] /\ Whole(LayoutOf(e))
          /\ SizeIn(Libffi, e) = LayoutOf(e).size
          /\ AlignmentIn(Libffi, e) = LayoutOf(e).alignment
      BY <1>2, <2>2, <3>3 DEF AsDeclared, LayoutOf, SizeIn, AlignmentIn
    <3> QED
      BY <2>1, <3>3, <3>4 DEF e
  <2>3. CASE e \notin Structs
    <3> HIDE DEF e
    <3>1. FFI_TYPES[e] \in Alignments
      BY <2>1, <2>3, Sizes DEF FfiTypes
    <3>2. LibffiLayout[e] = ScalarLayout(FFI_TYPES[e])
      BY <1>1, <2>1, <2>3, LibffiLayoutDef
    <3>3. Whole(ScalarLayout(FFI_TYPES[e]))
      BY <3>1, WholeScalar
    <3>4. LayoutOf(e) = ScalarLayout(FFI_TYPES[e])
      BY <2>3 DEF LayoutOf
    <3>5. SizeIn(Libffi, e) = LayoutOf(e).size /\ AlignmentIn(Libffi, e) = LayoutOf(e).alignment
      BY <2>3, <3>4 DEF SizeIn, AlignmentIn, ScalarLayout
    <3> QED
      BY <2>1, <2>3, <3>2, <3>3, <3>4, <3>5 DEF e
  <2> QED
    BY <2>2, <2>3
<1>9. /\ StructLayout([n \in DOMAIN es |-> LayoutOf(es[n])]) = DeclaredLayout[p]
      /\ Whole(DeclaredLayout[p])
  <2>1. defined[p] > 0
    <3>1. es[1] \in Range(es)
      BY <1>3, <1>4 DEF Range
    <3>2. \E i \in 1..defined[p] : es[1] = got[i]
      BY <1>6, <1>7, <3>1, ElementsOf
    <3> QED
      BY <1>7, <3>2
  <2>2. ASSUME NEW n \in 1..defined[p], got[n] \in Structs PROVE Whole(LayoutOf(got[n]))
    <3>1. got[n] \in Range(es)
      BY <1>6, <1>7, AllElements
    <3>2. PICK j \in 1..k : es[j] = got[n]
      BY <1>4, <3>1 DEF Range
    <3> QED
      BY <1>8, <3>2
  <2> HIDE DEF es
  <2> QED
    BY <1>1, <1>6, <2>1, <2>2, Unrolled
<1> DEFINE xs == NotedOf(Libffi, es, k)
           ys == [n \in DOMAIN es |-> LayoutOf(es[n])]
           L == DeclaredLayout[p]
<1>10. L = Padded(Row(ys))
  BY <1>9, StructLayoutRow
<1>11. /\ Row(xs) \in Layouts /\ Row(ys) \in Layouts
       /\ Row(xs).size = Row(ys).size /\ Row(xs).alignment = Row(ys).alignment
  <2>1. Len(xs) = k /\ \A n \in 1..k : xs[n] = Noted(Libffi, es[n])
    <3>1. k \in Nat
      BY <1>4
    <3> HIDE DEF es, k
    <3>2. \A i \in Nat : /\ Len(NotedOf(Libffi, es, i)) = i
                         /\ \A n \in 1..i : NotedOf(Libffi, es, i)[n] = Noted(Libffi, es[n])
      BY NotedMore, Zenon
    <3> QED
      BY <3>1, <3>2, Zenon
  <2>2. Len(ys) = k /\ \A n \in 1..k : ys[n] = LayoutOf(es[n])
    BY <1>4
  <2> HIDE DEF xs, ys
  <2>3. \A n \in 1..k : /\ xs[n] \in Layouts /\ ys[n] \in Layouts
                        /\ xs[n].size = ys[n].size /\ xs[n].alignment = ys[n].alignment
    <3> SUFFICES ASSUME NEW n \in 1..k
                 PROVE  /\ xs[n] \in Layouts /\ ys[n] \in Layouts
                        /\ xs[n].size = ys[n].size /\ xs[n].alignment = ys[n].alignment
      OBVIOUS
    <3>1. /\ Noted(Libffi, es[n]) \in Layouts
          /\ Noted(Libffi, es[n]).size = SizeIn(Libffi, es[n])
          /\ Noted(Libffi, es[n]).alignment = AlignmentIn(Libffi, es[n])
      BY <1>1, <1>8, NotedType
    <3> QED
      BY <1>8, <2>1, <2>2, <3>1 DEF Whole
  <2> QED
    BY <1>4, <2>1, <2>2, <2>3, RowSizes
<1>12. size[p] = L.size /\ alignment[p] = L.alignment
  <2> HIDE DEF xs, ys, L
  <2>1. /\ Padded(Row(xs)).size = AlignUp(Row(xs).size, Row(xs).alignment)
        /\ Padded(Row(xs)).alignment = Row(xs).alignment
        /\ Padded(Row(ys)).size = AlignUp(Row(ys).size, Row(ys).alignment)
        /\ Padded(Row(ys)).alignment = Row(ys).alignment
    BY <1>11, PaddedDef
  <2> QED
    BY <1>3, <1>10, <1>11, <2>1 DEF xs
<1>13. LibffiLayout[p] = L
  <2> DEFINE ls == [i \in DOMAIN elements[p] |-> LibffiLayout[elements[p][i]]]
  <2>1. LibffiLayout[p] = [StructLayout(ls) EXCEPT !.size = size[p], !.alignment = alignment[p]]
    <3>1. p \in FfiTypes
      BY DEF FfiTypes
    <3> QED
      BY <1>1, <3>1, LibffiLayoutDef
  <2>2. ls = ys
    BY <1>4, <1>8
  <2>3. StructLayout(ls) = L
    BY <1>9, <2>2
  <2> HIDE DEF ls, L
  <2>4. LibffiLayout[p] = [L EXCEPT !.size = size[p], !.alignment = alignment[p]]
    BY <2>1, <2>3
  <2>5. L = [size |-> L.size, alignment |-> L.alignment, scalars |-> L.scalars]
    BY <1>9 DEF Whole, Layouts, L
  <2> QED
    BY <1>12, <2>4, <2>5
<1> QED
  BY <1>9, <1>12, <1>13 DEF AsDeclared

\* The structs' ffi_types hold none of the same or a higher level.
LEMMA ElementsNested ==
  ASSUME WellDeclared, LInv, MInv
  PROVE  \E level : Leveled(level) /\ Nested(elements, level)
<1>1. DefinedOK /\ Ready(Now) /\ Now.own = own /\ Now.elements = elements
  BY TypeOKDefined, ReadyNow DEF LInv, Now
<1>2. PICK level : Leveled(level)
  BY LevelExists DEF WellDeclared, NoneInItself
<1>3. PICK solid : Solid(solid)
  BY DEF WellDeclared, Solid
<1>4. Nested(elements, level)
  <2>1. Sound(Now.elements, level, BuiltBy(Now.own), solid)
    BY <1>1, <1>2, <1>3, ExactSound
  <2> QED
    BY <1>1, <2>1 DEF Sound
<1> QED
  BY <1>2, <1>4

\* So it is for all that have a size.
LEMMA AllAsDeclared ==
  ASSUME WellDeclared, ~DefinesLate, LInv, MInv
  PROVE  \A p \in Structs : size[p] # 0 => AsDeclared(p)
<1>1. PICK level : Leveled(level) /\ Nested(elements, level)
  BY ElementsNested
<1>5. \A p \in Structs : level[p] \in Nat
  BY <1>1, Graph DEF Leveled
<1> DEFINE T == {i \in Nat : \E p \in Structs : level[p] = i /\ size[p] # 0 /\ ~AsDeclared(p)}
<1> SUFFICES ASSUME NEW v \in Structs, size[v] # 0, ~AsDeclared(v) PROVE FALSE
  OBVIOUS
<1>6. level[v] \in T
  BY <1>5
<1>7. PICK i \in T : \A j \in T : i <= j
  <2> HIDE DEF T
  <2>1. T # {} /\ T \in SUBSET Nat
    BY <1>6 DEF T
  <2> QED
    BY <2>1, Least
<1>8. PICK p \in Structs : level[p] = i /\ size[p] # 0 /\ ~AsDeclared(p)
  OBVIOUS
<1>9. ASSUME NEW q \in Structs, level[q] < level[p], size[q] # 0 PROVE AsDeclared(q)
  <2> SUFFICES ASSUME ~AsDeclared(q) PROVE FALSE
    OBVIOUS
  <2>1. level[q] \in T
    BY <1>5, <1>9
  <2> HIDE DEF T
  <2> QED
    BY <1>5, <1>7, <1>8, <1>9, <2>1
<1> QED
  BY <1>1, <1>8, <1>9, StructAsDeclared

\* What a signature is refused for keeps it from ever being accepted: a type that
\* leads to no ffi_type, or a struct without a size.
LEMMA RefusedApart ==
  ASSUME WellDeclared, LInv, MInv, NEW cif \in cifs, Refused(cif.sig, own, elements)
  PROVE  FALSE
<1>1. /\ Accepted(cif, own, size) /\ cif.sig \in Seq(Types)
      /\ DOMAIN cif.sig = 1..Len(cif.sig)
  <2>1. Accepted(cif, own, size)
    BY DEF MInv
  <2>2. cif.sig \in Seq(Types)
    BY <2>1, OthersAssumption DEF Accepted
  <2> QED
    BY <2>1, <2>2
<1>2. ASSUME NEW B \in SUBSET Types, Bad(B, own), Range(cif.sig) \intersect B # {}
      PROVE  FALSE
  <2>1. PICK i \in 1..Len(cif.sig) : cif.sig[i] \in B
    BY <1>1, <1>2 DEF Range
  <2>2. \/ cif.sig[i] \in Scalars /\ ~Hope(cif.sig[i])
        \/ cif.sig[i] \in Structs /\ own[cif.sig[i]] = "unset"
    BY <1>2, <2>1 DEF Bad
  <2>3. Right(cif.ffiTypes[i], cif.sig[i])
        /\ (cif.sig[i] \in Structs => own[cif.sig[i]] = cif.sig[i])
    BY <1>1 DEF Accepted
  <2> QED
    BY <2>2, <2>3, Names DEF Right
<1>3. ASSUME NEW E \in SUBSET Structs, HollowBuilt(E, own, elements),
             Range(cif.sig) \intersect E # {}
      PROVE  FALSE
  <2>1. PICK i \in 1..Len(cif.sig) : cif.sig[i] \in E
    BY <1>1, <1>3 DEF Range
  <2>2. size[cif.sig[i]] # 0
    BY <1>1, <2>1 DEF Accepted
  <2>3. PICK level : Leveled(level) /\ Nested(elements, level)
    BY ElementsNested
  <2>4. /\ Libffi \in Memories /\ Libffi.elements = elements /\ Libffi.size = size
        /\ \A q \in E : Agrees(Libffi, q)
    BY DEF MInv, Libffi
  <2>5. Hollow(Libffi.elements, E) /\ Nested(Libffi.elements, level)
    BY <1>3, <2>3, <2>4 DEF HollowBuilt
  <2>6. Libffi.size[cif.sig[i]] = 0
    <3> HIDE DEF Libffi
    <3> QED
      BY <2>1, <2>3, <2>4, <2>5, HollowZero
  <2> QED
    BY <2>2, <2>4, <2>6
<1> QED
  BY <1>2, <1>3 DEF Refused

\* A signature that CIF() once threw for is never accepted later, whatever other
\* calls have left on its types, and whenever fields are defined.
THEOREM RejectedKept ==
  ASSUME WellDeclared
  PROVE  Spec => []RejectedForGood
<1>1. LInv /\ MInv => RejectedForGood
  <2> SUFFICES ASSUME LInv, MInv, NEW cif \in cifs, cif.sig \in rejected PROVE FALSE
    BY DEF RejectedForGood
  <2>1. Refused(cif.sig, own, elements)
    BY DEF MInv
  <2> QED
    BY <2>1, RefusedApart
<1>2. Spec => [](LInv /\ MInv)
  BY MInvHolds
<1> QED
  BY <1>1, <1>2, PTL

\* libffi takes what is passed for a type to have the layout that C gives it.
LEMMA PassedAsDeclared ==
  ASSUME WellDeclared, ~DefinesLate, LInv, MInv, NEW cif \in cifs, NEW i \in DOMAIN cif.sig,
         NEW t, t = cif.sig[i], NEW p, p = cif.ffiTypes[i]
  PROVE  /\ t \in Types /\ p \in FfiTypes
         /\ t \in Structs => p = t /\ AsDeclared(t)
         /\ t \notin Structs => /\ p \notin Structs /\ FFI_TYPES[p] \in Alignments
                                /\ LibffiLayout[p] = ScalarLayout(FFI_TYPES[p])
         /\ PassedLayout(t).size # 0 => LibffiLayout[p] = PassedLayout(t)
<1>1. Right(p, t) /\ t \in Types /\ (t \in Structs => size[t] # 0)
  <2>1. Accepted(cif, own, size)
    BY DEF MInv
  <2>2. cif.sig \in Seq(Types)
    BY <2>1, OthersAssumption DEF Accepted
  <2>3. i \in 1..Len(cif.sig) /\ t \in Types
    BY <2>2
  <2> QED
    BY <2>1, <2>3 DEF Accepted
<1>2. p \in FfiTypes /\ (t \in Structs => p = t) /\ (t \notin Structs => p \notin Structs)
  BY <1>1, Names DEF Right
<1>3. t \in Structs => AsDeclared(t)
  BY <1>1, AllAsDeclared
<1>4. ASSUME t \notin Structs
      PROVE  FFI_TYPES[p] \in Alignments /\ LibffiLayout[p] = ScalarLayout(FFI_TYPES[p])
  <2>1. PICK level : Leveled(level) /\ Nested(elements, level)
    BY ElementsNested
  <2>2. elements \in [Structs -> Seq(FfiTypes)]
    BY FineNow DEF LInv
  <2> QED
    BY <1>2, <1>4, <2>1, <2>2, LibffiLayoutDef, Sizes DEF FfiTypes
<1>5. ASSUME PassedLayout(t).size # 0 PROVE LibffiLayout[p] = PassedLayout(t)
  <2>1. CASE Kind[t] = "array"
    <3>1. t \notin Structs /\ t \notin Scalars
      BY <2>1 DEF Structs, Scalars
    <3>2. p = "pointer"
      BY <1>1, <3>1 DEF Right
    <3> QED
      BY <1>4, <2>1, <3>1, <3>2, Sizes DEF PassedLayout
  <2>2. CASE Kind[t] # "array"
    <3>1. DefinedOK /\ ~Fixed(t) /\ PassedLayout(t) = DeclaredLayout[t]
      BY <2>2, TypeOKDefined DEF LInv, Fixed, PassedLayout
    <3>2. CASE t \in Structs
      BY <1>2, <1>3, <3>1, <3>2 DEF AsDeclared
    <3>3. CASE t \notin Structs
      <4>1. t \in Scalars => SizeInC[NameOf[t]] # 0
        <5>1. DeclaredLayout[t] =
                ScalarLayout(IF t \in Scalars THEN SizeInC[NameOf[t]] ELSE PointerSize)
          BY <1>1, <3>1, <3>3, DeclaredLayoutDef DEF WellDeclared, NoneInItself
        <5> QED
          BY <1>5, <3>1, <5>1 DEF ScalarLayout
      <4>2. LayoutOf(p) = DeclaredLayout[t]
        BY <1>1, <3>1, <4>1, RightLayout
      <4> QED
        BY <1>2, <1>4, <3>1, <3>3, <4>2 DEF LayoutOf
    <3> QED
      BY <3>2, <3>3
  <2> QED
    BY <2>1, <2>2
<1> QED
  BY <1>1, <1>2, <1>3, <1>4, <1>5

\* Every argument and result of an ffi_cif is passed in the layout of its declared
\* C type, for any structs nested to any depth and any calls before.
THEOREM MatchesDeclaration ==
  ASSUME WellDeclared, ~DefinesLate
  PROVE  Spec => []CifMatchesDeclaration
<1>1. LInv /\ MInv => CifMatchesDeclaration
  BY PassedAsDeclared DEF CifMatchesDeclaration
<1>2. Spec => [](LInv /\ MInv)
  BY MInvHolds
<1> QED
  BY <1>1, <1>2, PTL

\* The Buffer of a result has room for what libffi writes to it, where a long has
\* the size of an ffi_arg.
THEOREM ResultsFit ==
  ASSUME WellDeclared, ~DefinesLate, LongSize = 8
  PROVE  Spec => []ResultFits
<1>1. LInv /\ MInv => ResultFits
  <2> SUFFICES ASSUME LInv, MInv, NEW cif \in cifs
               PROVE  ResultSize(cif.sig[1]) >=
                        Larger(FfiArgSize, LibffiLayout[cif.ffiTypes[1]].size)
    BY DEF ResultFits
  <2> DEFINE t == cif.sig[1]
             p == cif.ffiTypes[1]
             L == DeclaredLayout[t]
  <2>1. 1 \in DOMAIN cif.sig
    <3>1. cif.sig \in Seq(Types) \ {<<>>}
      BY OthersAssumption DEF MInv, Accepted
    <3> QED
      BY <3>1
  <2>2. /\ t \in Structs => p = t /\ AsDeclared(t)
        /\ t \notin Structs => /\ FFI_TYPES[p] \in Alignments
                               /\ LibffiLayout[p] = ScalarLayout(FFI_TYPES[p])
    BY <2>1, PassedAsDeclared
  <2> HIDE DEF t, p, L
  <2>3. ResultSize(t) = IF L.size >= 8 THEN L.size ELSE 8
    BY DEF ResultSize, FfiArgSize, L
  <2>4. CASE t \in Structs
    <3>1. L.size \in Nat /\ LibffiLayout[p] = L
      BY <2>2, <2>4 DEF AsDeclared, Whole, Layouts, L
    <3>2. ResultSize(t) >= Larger(8, L.size)
      BY <2>3, <3>1 DEF Larger
    <3> QED
      BY <3>1, <3>2 DEF FfiArgSize, t, p
  <2>5. CASE t \notin Structs
    <3>1. LibffiLayout[p].size \in {1, 4, 8}
      BY <2>2, <2>5 DEF ScalarLayout, Alignments
    <3>2. Larger(FfiArgSize, LibffiLayout[p].size) = 8
      BY <3>1 DEF Larger, FfiArgSize
    <3>3. ResultSize(t) >= 8
      BY <2>3
    <3> QED
      BY <3>2, <3>3 DEF t, p
  <2> QED
    BY <2>4, <2>5
<1>2. Spec => [](LInv /\ MInv)
  BY MInvHolds
<1> QED
  BY <1>1, <1>2, PTL
=============================================================================
