------------------------ MODULE DynamicLibrary_proof ------------------------
(***************************************************************************)
(* The invariants of DynamicLibrary for any number of libraries and files: *)
(* what is open stays mapped in programs that close each library at most   *)
(* once, and a constructor follows linker scripts to their end in any.     *)
(***************************************************************************)
EXTENDS DynamicLibrary, TLAPS, FiniteSetTheorems, WellFoundedInduction

USE FilesAssumption, StackAssumption, ProgramAssumption, ObjectsAssumption

-----------------------------------------------------------------------------
(* The inductive invariant.                                                *)

Types ==
  /\ status \in [Objects -> Outcomes \union {"none", "opening", "nullHandle"}]
  /\ asked \in [Objects -> Paths \union {None}]
  /\ path \in [Objects -> Paths \union {None}]
  /\ handle \in [Objects -> Elfs \union {None}]
  /\ depth \in 0..CallStack
  /\ refs \in [Elfs -> Nat]
  /\ closed \subseteq Objects /\ private \subseteq Objects
  /\ library \in [Libraries -> {"none", "opening", "defining", "done", "threw"}]
  /\ dl \in [Libraries -> Objects \union {None}]
  /\ todo \in [Libraries -> SUBSET Symbols]
  /\ funcs \in [Libraries -> SUBSET Symbols]

\* A handle is there exactly when the library is open.
Handles ==
  /\ \A o \in Objects : status[o] = "open" <=> handle[o] # None
  /\ \A o \in Objects : status[o] \in {"opening", "nullHandle"} => path[o] \in Paths
  /\ \A o \in closed : status[o] = "open"

\* The objects that the loader counts for a file.
Users(f) == {o \in Objects : handle[o] = f /\ o \notin closed}
Counted == \A f \in Elfs : refs[f] = Cardinality(Users(f))

\* A Library() call defines functions only once its library is open.
Defines ==
  \A l \in Libraries :
    /\ library[l] \in {"none", "opening"} => funcs[l] = {}
    /\ library[l] # "none" => dl[l] \in Objects
    /\ library[l] \in {"defining", "done"} \/ funcs[l] # {} => status[dl[l]] = "open"
    /\ funcs[l] # {} /\ dl[l] \notin closed => funcs[l] \subseteq Exports[handle[dl[l]]]

DInv == Types /\ Handles /\ Counted /\ Defines

-----------------------------------------------------------------------------
(* Counting.                                                               *)

LEMMA UsersFinite ==
  ASSUME NEW f \in Elfs
  PROVE  /\ IsFiniteSet(Users(f)) /\ Cardinality(Users(f)) \in Nat
         /\ Cardinality(Users(f)) <= Cardinality(Objects)
<1>1. Users(f) \subseteq Objects
  BY DEF Users
<1> QED
  BY <1>1, FS_Subset, FS_CardinalityType

\* What is used is mapped.
LEMMA UsedIsMapped ==
  ASSUME DInv, NEW o \in Objects, status[o] = "open", o \notin closed
  PROVE  refs[handle[o]] > 0
<1>1. handle[o] \in Elfs
  BY DEF DInv, Types, Handles
<1>2. o \in Users(handle[o])
  BY DEF Users
<1>3. Cardinality(Users(handle[o])) # 0
  BY <1>1, <1>2, UsersFinite, FS_EmptySet
<1> QED
  BY <1>1, <1>3, UsersFinite DEF DInv, Counted

LEMMA InitInv == Init => DInv
<1> SUFFICES ASSUME Init PROVE DInv
  OBVIOUS
<1>1. Types
  BY DEF Init, Types
<1>2. Handles
  BY DEF Init, Handles
<1>3. Counted
  <2>1. \A f \in Elfs : Users(f) = {}
    BY DEF Init, Users, Paths
  <2> QED
    BY <2>1, FS_EmptySet DEF Init, Counted
<1>4. Defines
  BY DEF Init, Defines
<1> QED
  BY <1>1, <1>2, <1>3, <1>4 DEF DInv

-----------------------------------------------------------------------------
(* Constructors.                                                           *)

\* Beginning a constructor touches no library that is open.
LEMMA BeginInv ==
  ASSUME DInv, NEW o \in Objects, NEW p \in Paths, Begin(o, p),
         UNCHANGED <<refs, closed>>
  PROVE  /\ status' \in [Objects -> Outcomes \union {"none", "opening", "nullHandle"}]
         /\ asked' \in [Objects -> Paths \union {None}]
         /\ path' \in [Objects -> Paths \union {None}]
         /\ depth' \in 0..CallStack
         /\ Handles' /\ Counted' /\ UNCHANGED handle
         /\ \A q \in Objects : status'[q] = "open" <=> status[q] = "open"
<1> USE DEF DInv, Begin, Types, Outcomes
<1>1. \A q \in Objects : status'[q] = IF q = o THEN "opening" ELSE status[q]
  OBVIOUS
<1>2. Handles'
  BY <1>1 DEF Handles
<1>3. Counted'
  BY DEF Counted, Users
<1> QED
  BY <1>1, <1>2, <1>3

LEMMA NewInv ==
  ASSUME DInv, NEW o \in Objects, NEW p \in Paths, New(o, p)
  PROVE  DInv'
<1>1. Begin(o, p) /\ UNCHANGED <<refs, closed, library, dl, private, todo, funcs>>
  BY DEF New, libraryVars
<1>2. Types'
  BY <1>1, BeginInv DEF DInv, Types
<1>3. Defines'
  BY <1>1, BeginInv DEF DInv, Defines, Types
<1> QED
  BY <1>1, <1>2, <1>3, BeginInv DEF DInv

LEMMA DlopenInv ==
  ASSUME DInv, NEW o \in Objects, Dlopen(o)
  PROVE  DInv'
<1>1. UNCHANGED <<asked, path, depth, closed, library, dl, private, todo, funcs>>
      /\ status[o] = "opening" /\ handle[o] = None /\ o \notin closed
      /\ path[o] \in Paths
  BY DEF Dlopen, libraryVars, DInv, Handles
<1>2. CASE path[o] \in Elfs
  <2>0. PICK f \in Elfs : f = path[o]
    BY <1>2
  <2>1. /\ status' = [status EXCEPT ![o] = "open"]
        /\ handle' = [handle EXCEPT ![o] = f]
        /\ refs' = [refs EXCEPT ![f] = @ + 1]
    BY <1>2, <2>0 DEF Dlopen
  <2>2. f \in Elfs /\ f # None
    BY DEF Paths
  <2>3. /\ \A q \in Objects : status'[q] = IF q = o THEN "open" ELSE status[q]
        /\ \A q \in Objects : handle'[q] = IF q = o THEN f ELSE handle[q]
        /\ \A g \in Elfs : refs'[g] = IF g = f THEN refs[g] + 1 ELSE refs[g]
    BY <2>1, <2>2 DEF DInv, Types
  <2>4. Types'
    BY <1>1, <2>1, <2>2 DEF DInv, Types, Outcomes
  <2>5. Handles'
    BY <1>1, <2>2, <2>3 DEF DInv, Types, Handles
  <2>6. Counted'
    <3>1. Users(f)' = Users(f) \union {o} /\ o \notin Users(f)
      BY <1>1, <2>2, <2>3 DEF Users
    <3>2. Cardinality(Users(f)') = Cardinality(Users(f)) + 1
      BY <3>1, <2>2, UsersFinite, FS_AddElement
    <3>3. \A g \in Elfs : g # f => Users(g)' = Users(g)
      BY <1>1, <2>2, <2>3 DEF Users, Paths
    <3> QED
      BY <2>2, <2>3, <3>2, <3>3 DEF DInv, Counted
  <2>7. Defines'
    BY <1>1, <2>3 DEF DInv, Defines, Types
  <2> QED
    BY <2>4, <2>5, <2>6, <2>7 DEF DInv
<1>3. CASE path[o] \notin Elfs
  <2>1. /\ status' = [status EXCEPT ![o] = "nullHandle"]
        /\ UNCHANGED <<handle, refs>>
    BY <1>3 DEF Dlopen
  <2>2. \A q \in Objects : status'[q] = IF q = o THEN "nullHandle" ELSE status[q]
    BY <2>1 DEF DInv, Types
  <2>3. Types' /\ Handles' /\ Defines'
    BY <1>1, <2>1, <2>2 DEF DInv, Types, Handles, Defines, Outcomes
  <2>4. Counted'
    BY <1>1, <2>1 DEF DInv, Counted, Users
  <2> QED
    BY <2>3, <2>4 DEF DInv
<1> QED
  BY <1>2, <1>3

\* A constructor that got no handle tries again, or throws.
LEMMA NullHandleInv ==
  ASSUME DInv, NEW o \in Objects,
         \/ FollowScript(o) \/ StackOverflows(o) \/ ReadFails(o) \/ LinkingError(o)
  PROVE  DInv'
<1>1. /\ status[o] = "nullHandle"
      /\ \E how \in {"opening", "RangeError", "ENOENT", "linkingError"} :
           status' = [status EXCEPT ![o] = how]
      /\ UNCHANGED <<asked, handle, refs, closed, library, dl, private, todo, funcs>>
  BY DEF FollowScript, StackOverflows, ReadFails, LinkingError, Ends, libraryVars
<1>2. path' \in [Objects -> Paths \union {None}] /\ depth' \in 0..CallStack
      /\ \A q \in Objects : path[q] \in Paths => path'[q] \in Paths
  <2>1. CASE FollowScript(o)
    BY <2>1 DEF FollowScript, DInv, Types
  <2>2. CASE UNCHANGED <<path, depth>>
    BY <2>2 DEF DInv, Types
  <2> QED
    BY <2>1, <2>2 DEF StackOverflows, ReadFails, LinkingError, Ends
<1>3. \A q \in Objects :
        /\ status'[q] = "open" <=> status[q] = "open"
        /\ status'[q] \in {"opening", "nullHandle"} =>
             status[q] \in {"opening", "nullHandle"}
  BY <1>1 DEF DInv, Types
<1>4. Types'
  <2>1. status' \in [Objects -> Outcomes \union {"none", "opening", "nullHandle"}]
    BY <1>1 DEF DInv, Types, Outcomes
  <2> QED
    BY <1>1, <1>2, <2>1 DEF DInv, Types
<1>5. Handles'
  BY <1>1, <1>2, <1>3 DEF DInv, Types, Handles
<1>6. Counted'
  BY <1>1 DEF DInv, Counted, Users
<1>7. Defines'
  BY <1>1, <1>3 DEF DInv, Types, Defines
<1> QED
  BY <1>4, <1>5, <1>6, <1>7 DEF DInv

\* close() takes away the use that its library had.
LEMMA CloseInv ==
  ASSUME DInv, MayCloseAgain = FALSE, NEW o \in Objects, Close(o)
  PROVE  DInv'
<1>0. handle[o] \in Elfs
  BY DEF Close, DInv, Types, Handles
<1> PICK f \in Elfs : f = handle[o]
  BY <1>0
<1>1. status[o] = "open" /\ o \notin closed /\ closed' = closed \union {o}
      /\ UNCHANGED <<status, asked, path, handle, depth, library, dl, private,
                     todo, funcs>>
      /\ refs' = [refs EXCEPT ![f] = IF @ > 0 THEN @ - 1 ELSE 0]
  BY DEF Close, Dlclose, objectVars, libraryVars
<1>2. f \in Elfs /\ refs[f] \in Nat /\ refs[f] > 0
  BY <1>1, UsedIsMapped DEF DInv, Types, Handles
<1>3. \A g \in Elfs : refs'[g] = IF g = f THEN refs[g] - 1 ELSE refs[g]
  BY <1>1, <1>2 DEF DInv, Types
<1>4. Types'
  BY <1>1, <1>2 DEF DInv, Types
<1>5. Handles' /\ Defines'
  BY <1>1 DEF DInv, Handles, Defines
<1>6. Counted'
  <2>1. Users(f)' = Users(f) \ {o} /\ o \in Users(f)
    BY <1>1 DEF Users
  <2>2. Cardinality(Users(f)') = Cardinality(Users(f)) - 1
    BY <2>1, <1>2, UsersFinite, FS_RemoveElement, ZenonT(40)
  <2>3. \A g \in Elfs : g # f => Users(g)' = Users(g)
    BY <1>1 DEF Users
  <2>4. UNCHANGED handle
    BY <1>1
  <2> QED
    BY <1>2, <1>3, <2>2, <2>3, <2>4 DEF DInv, Counted
<1> QED
  BY <1>4, <1>5, <1>6 DEF DInv

-----------------------------------------------------------------------------
(* Library().                                                              *)

LEMMA LibraryOfPathInv ==
  ASSUME DInv, NEW l \in Libraries, NEW o \in Objects, NEW p \in Paths,
         NEW symbols \in SUBSET Symbols, LibraryOfPath(l, o, p, symbols)
  PROVE  DInv'
<1>1. /\ Begin(o, p) /\ library[l] = "none" /\ UNCHANGED <<refs, closed, funcs>>
      /\ library' = [library EXCEPT ![l] = "opening"]
      /\ dl' = [dl EXCEPT ![l] = o] /\ private' = private \union {o}
      /\ todo' = [todo EXCEPT ![l] = symbols]
  BY DEF LibraryOfPath
<1>2. Types'
  BY <1>1, BeginInv DEF DInv, Types
<1>3. UNCHANGED handle
      /\ \A q \in Objects : status'[q] = "open" <=> status[q] = "open"
  BY <1>1, BeginInv
<1>4. \A m \in Libraries :
        /\ library'[m] = IF m = l THEN "opening" ELSE library[m]
        /\ dl'[m] = IF m = l THEN o ELSE dl[m]
  BY <1>1 DEF DInv, Types
<1>5. Defines'
  <2>1. funcs[l] = {}
    BY <1>1 DEF DInv, Defines
  <2>2. \A m \in Libraries : library[m] = "none" => funcs[m] = {}
    BY DEF DInv, Defines
  <2>3. \A m \in Libraries : m # l =>
          /\ library'[m] \in {"none", "opening"} => funcs'[m] = {}
          /\ library'[m] # "none" => dl'[m] \in Objects
          /\ library'[m] \in {"defining", "done"} \/ funcs'[m] # {} =>
               status'[dl'[m]] = "open"
          /\ funcs'[m] # {} /\ dl'[m] \notin closed' =>
               funcs'[m] \subseteq Exports[handle'[dl'[m]]]
    BY <1>1, <1>3, <1>4, <2>2 DEF DInv, Defines
  <2> QED
    BY <1>1, <1>4, <2>1, <2>3 DEF Defines
<1> QED
  BY <1>1, <1>2, <1>5, BeginInv DEF DInv

LEMMA LibraryOfObjectInv ==
  ASSUME DInv, NEW l \in Libraries, NEW o \in Objects,
         NEW symbols \in SUBSET Symbols, LibraryOfObject(l, o, symbols)
  PROVE  DInv'
<1> USE DEF LibraryOfObject, objectVars
<1>1. Types'
  BY DEF DInv, Types
<1>2. Handles' /\ Counted'
  BY DEF DInv, Handles, Counted, Users
<1>3. Defines'
  BY DEF DInv, Types, Defines
<1> QED
  BY <1>1, <1>2, <1>3 DEF DInv

LEMMA LibraryGoesOnInv ==
  ASSUME DInv, NEW l \in Libraries,
         \/ Opened(l) \/ Done(l)
         \/ \E symbol \in Symbols : DefineFails(l, symbol)
  PROVE  DInv'
<1> USE DEF objectVars
<1>1. /\ UNCHANGED <<status, asked, path, handle, depth, refs, closed, dl,
                     private, todo, funcs>>
      /\ library[l] \in {"opening", "defining"}
      /\ \E how \in {"defining", "done", "threw"} :
           /\ library' = [library EXCEPT ![l] = how]
           /\ how \in {"defining", "done"} =>
                status[dl[l]] = "open" \/ library[l] = "defining"
  BY DEF Opened, Done, DefineFails
<1>2. Types'
  BY <1>1 DEF DInv, Types
<1>3. Handles' /\ Counted'
  BY <1>1 DEF DInv, Handles, Counted, Users
<1>4. Defines'
  BY <1>1 DEF DInv, Types, Defines
<1> QED
  BY <1>2, <1>3, <1>4 DEF DInv

LEMMA DefineInv ==
  ASSUME DInv, NEW l \in Libraries, NEW symbol \in Symbols, Define(l, symbol)
  PROVE  DInv'
<1> USE DEF Define, objectVars
<1>0. dl[l] \in Objects /\ (dl[l] \notin closed => symbol \in Exports[handle[dl[l]]])
  BY UsedIsMapped DEF DInv, Defines, Gets
<1>1. Types'
  BY DEF DInv, Types
<1>2. Handles' /\ Counted'
  BY DEF DInv, Handles, Counted, Users
<1>3. Defines'
  BY <1>0 DEF DInv, Types, Defines
<1> QED
  BY <1>1, <1>2, <1>3 DEF DInv

-----------------------------------------------------------------------------
(* The theorems.                                                           *)

LEMMA NextInv ==
  ASSUME MayCloseAgain = FALSE
  PROVE  DInv /\ [Next]_vars => DInv'
<1> SUFFICES ASSUME DInv, [Next]_vars PROVE DInv'
  OBVIOUS
<1>1. CASE \E o \in Objects, p \in Paths : New(o, p)
  BY <1>1, NewInv
<1>2. CASE \E o \in Objects :
             \/ Dlopen(o) \/ FollowScript(o) \/ StackOverflows(o)
             \/ ReadFails(o) \/ LinkingError(o) \/ Close(o)
  BY <1>2, DlopenInv, NullHandleInv, CloseInv
<1>3. CASE \E l \in Libraries, o \in Objects, symbols \in SUBSET Symbols :
             \/ LibraryOfObject(l, o, symbols)
             \/ \E p \in Paths : LibraryOfPath(l, o, p, symbols)
  BY <1>3, LibraryOfObjectInv, LibraryOfPathInv
<1>4. CASE \E l \in Libraries :
             \/ Opened(l) \/ Done(l)
             \/ \E symbol \in Symbols : Define(l, symbol) \/ DefineFails(l, symbol)
  BY <1>4, LibraryGoesOnInv, DefineInv
<1>5. CASE UNCHANGED vars
  BY <1>5 DEF vars, objectVars, libraryVars, DInv, Types, Handles, Counted,
     Users, Defines
<1> QED
  BY <1>1, <1>2, <1>3, <1>4, <1>5 DEF Next

\* The loader never counts more uses of a file than there are objects, and
\* every other variable has its type.
THEOREM TypeCorrect ==
  ASSUME MayCloseAgain = FALSE
  PROVE  Spec => []TypeOK
<1>1. DInv => TypeOK
  <2> SUFFICES ASSUME DInv PROVE TypeOK
    OBVIOUS
  <2>1. Cardinality(Objects) \in Nat
    BY FS_CardinalityType
  <2>2. \A f \in Elfs : refs[f] \in 0..Cardinality(Objects)
    BY <2>1, UsersFinite DEF DInv, Counted
  <2> QED
    BY <2>2 DEF DInv, Types, Handles, TypeOK
<1> QED
  BY <1>1, InitInv, NextInv, PTL DEF Spec

\* A shared object is mapped as long as an object that was not closed has it
\* open, however many open and close it.
THEOREM StaysMapped ==
  ASSUME MayCloseAgain = FALSE
  PROVE  Spec => []OpenStaysMapped
<1>1. DInv => OpenStaysMapped
  BY UsedIsMapped DEF OpenStaysMapped
<1> QED
  BY <1>1, InitInv, NextInv, PTL DEF Spec

\* Functions that Library() has defined exist in an object that is mapped, also
\* those defined before it threw.
THEOREM Usable ==
  ASSUME MayCloseAgain = FALSE
  PROVE  Spec => []FunctionsUsable
<1>1. DInv => FunctionsUsable
  <2> SUFFICES ASSUME DInv, NEW l \in Libraries, funcs[l] # {}, dl[l] \notin closed
               PROVE  /\ refs[handle[dl[l]]] > 0
                      /\ funcs[l] \subseteq Exports[handle[dl[l]]]
    BY DEF FunctionsUsable
  <2>1. dl[l] \in Objects /\ status[dl[l]] = "open"
    BY DEF DInv, Types, Defines
  <2> QED
    BY <2>1, UsedIsMapped DEF DInv, Defines
<1> QED
  BY <1>1, InitInv, NextInv, PTL DEF Spec

-----------------------------------------------------------------------------
(* Numbers.                                                                *)

\* Induction, as a fact about sets: a set of numbers that contains 0, and with
\* each number the next, contains them all.
LEMMA Induction ==
  ASSUME NEW S \in SUBSET Nat, 0 \in S, \A n \in S : n + 1 \in S
  PROVE  S = Nat
<1> DEFINE T == Nat \ S
           R == {ss \in Nat \X Nat : ss[1] < ss[2]}
<1> SUFFICES ASSUME T # {} PROVE FALSE
  OBVIOUS
<1>1. OpToRel(<, Nat) = R
  BY Zenon DEF OpToRel
<1>2. IsWellFoundedOn(R, Nat)
  BY <1>1, NatLessThanWellFounded, Zenon
<1>3. T \subseteq Nat
  OBVIOUS
<1>4. \A x, y \in Nat : <<x, y>> \in R <=> x < y
  OBVIOUS
<1> HIDE DEF T, R
<1>5. PICK n \in T : \A y \in T : ~(<<y, n>> \in R)
  BY <1>2, <1>3, WFMin, Zenon
<1>6. n \in Nat /\ n # 0 /\ n - 1 \in Nat
  BY DEF T
<1>7. PICK m \in Nat : m = n - 1 /\ m < n
  BY <1>6
<1>8. <<m, n>> \in R
  BY <1>4, <1>6, <1>7
<1>9. m \notin T
  BY <1>5, <1>8, Zenon
<1> QED
  BY <1>6, <1>7, <1>9 DEF T

-----------------------------------------------------------------------------
(* Chains of scripts.                                                      *)

\* leadsTo is the function that its definition describes.
LEMMA LeadsToDef ==
  leadsTo = [n \in 0..CallStack |->
               IF n = 0 THEN [p \in Paths |-> p]
               ELSE [p \in Paths |-> LET q == leadsTo[n - 1][p]
                                     IN IF q \in Followed THEN Target[Blamed[q]] ELSE q]]
<1> DEFINE First == [p \in Paths |-> p]
           After(h) == [p \in Paths |-> LET q == h[p]
                                        IN IF q \in Followed THEN Target[Blamed[q]] ELSE q]
           Solves(f, k) ==
             f = [n \in 0..k |-> IF n = 0 THEN First ELSE After(f[n - 1])]
           S == {k \in Nat : \E f : Solves(f, k)}
<1>1. 0 \in S
  <2> DEFINE f == [n \in 0..0 |-> First]
  <2>1. Solves(f, 0)
    OBVIOUS
  <2> QED
    BY <2>1
<1>2. ASSUME NEW k \in S PROVE k + 1 \in S
  <2> HIDE DEF First, After
  <2>1. PICK f : Solves(f, k)
    OBVIOUS
  <2> DEFINE g == [n \in 0..(k + 1) |-> IF n = 0 THEN First ELSE After(f[n - 1])]
  <2>2. \A n \in 0..k : g[n] = f[n]
    BY <2>1
  <2>3. \A n \in 0..(k + 1) : n # 0 => n - 1 \in 0..k /\ g[n - 1] = f[n - 1]
    BY <2>1, <2>2
  <2>4. g = [n \in 0..(k + 1) |-> IF n = 0 THEN First ELSE After(g[n - 1])]
    BY <2>3
  <2>5. Solves(g, k + 1)
    BY <2>4, Zenon
  <2>6. k + 1 \in Nat
    OBVIOUS
  <2> HIDE DEF g, Solves
  <2> QED
    BY <2>5, <2>6
<1>3. S = Nat
  BY <1>1, <1>2, Induction
<1>4. \E f : Solves(f, CallStack)
  BY <1>3
<1> QED
  BY <1>4, Zenon DEF leadsTo


\* The paths along a chain.
LEMMA LeadsTo ==
  ASSUME NEW p \in Paths
  PROVE  /\ leadsTo[0][p] = p
         /\ \A n \in 0..CallStack :
              /\ leadsTo[n][p] \in Paths
              /\ n < CallStack =>
                   leadsTo[n + 1][p] = IF leadsTo[n][p] \in Followed
                                       THEN Target[Blamed[leadsTo[n][p]]] ELSE leadsTo[n][p]
<1>1. leadsTo[0][p] = p
  BY LeadsToDef
<1>2. \A n \in 0..CallStack : n < CallStack =>
        leadsTo[n + 1][p] = IF leadsTo[n][p] \in Followed
                            THEN Target[Blamed[leadsTo[n][p]]] ELSE leadsTo[n][p]
  <2> SUFFICES ASSUME NEW n \in 0..CallStack, n < CallStack
               PROVE  leadsTo[n + 1][p] = IF leadsTo[n][p] \in Followed
                            THEN Target[Blamed[leadsTo[n][p]]] ELSE leadsTo[n][p]
    OBVIOUS
  <2>1. n + 1 \in 0..CallStack /\ n + 1 # 0 /\ (n + 1) - 1 = n
    OBVIOUS
  <2>2. leadsTo[n + 1] = [r \in Paths |-> LET q == leadsTo[(n + 1) - 1][r]
                                         IN IF q \in Followed THEN Target[Blamed[q]] ELSE q]
    BY <2>1, LeadsToDef
  <2> QED
    BY <2>1, <2>2
<1>3. \A n \in 0..CallStack : leadsTo[n][p] \in Paths
  <2> DEFINE S == {n \in Nat : n <= CallStack => leadsTo[n][p] \in Paths}
  <2>1. 0 \in S
    BY <1>1
  <2>2. ASSUME NEW n \in S PROVE n + 1 \in S
    BY <1>2 DEF Followed
  <2>3. S = Nat
    BY <2>1, <2>2, Induction
  <2> QED
    BY <2>3
<1> QED
  BY <1>1, <1>2, <1>3

\* A chain that has ended stays where it is.
LEMMA EndStays ==
  ASSUME NEW p \in Paths, NEW m \in 0..CallStack, NEW n \in m..CallStack,
         leadsTo[m][p] \notin Followed
  PROVE  leadsTo[n][p] = leadsTo[m][p]
<1> DEFINE S == {k \in Nat : m + k <= CallStack => leadsTo[m + k][p] = leadsTo[m][p]}
<1>1. 0 \in S
  OBVIOUS
<1>2. ASSUME NEW k \in S PROVE k + 1 \in S
  <2>1. m + (k + 1) = (m + k) + 1
    OBVIOUS
  <2> QED
    BY <2>1, LeadsTo
<1>3. S = Nat
  BY <1>1, <1>2, Induction
<1>4. PICK k \in Nat : m + k = n
  <2>1. n - m \in Nat /\ m + (n - m) = n
    OBVIOUS
  <2> QED
    BY <2>1
<1>5. k \in S
  BY <1>3, Zenon
<1> QED
  BY <1>4, <1>5

\* Two places of a chain with the same path are followed by the same paths.
LEMMA ChainRepeats ==
  ASSUME NEW p \in Paths, NEW i \in 0..CallStack, NEW j \in 0..CallStack, i <= j,
         leadsTo[i][p] = leadsTo[j][p]
  PROVE  leadsTo[i + (CallStack - j)][p] = Last(p)
<1> DEFINE S == {k \in Nat : j + k <= CallStack => leadsTo[i + k][p] = leadsTo[j + k][p]}
<1>1. 0 \in S
  OBVIOUS
<1>2. ASSUME NEW k \in S PROVE k + 1 \in S
  <2>1. i + (k + 1) = (i + k) + 1 /\ j + (k + 1) = (j + k) + 1
    OBVIOUS
  <2> QED
    BY <2>1, LeadsTo
<1>3. S = Nat
  BY <1>1, <1>2, Induction
<1>4. PICK k \in Nat : k = CallStack - j /\ j + k = CallStack
  OBVIOUS
<1>5. k \in S
  BY <1>3, Zenon
<1> QED
  BY <1>4, <1>5 DEF Last

\* A chain that fills the stack passes some path twice, and has no end.
LEMMA FullStackIsCycle ==
  ASSUME NEW p \in Paths, leadsTo[CallStack - 1][p] \in Followed
  PROVE  Last(p) \in Followed
<1>1. \A m \in 0..(CallStack - 1) : leadsTo[m][p] \in Followed
  BY EndStays
<1> DEFINE D == 0..(CallStack - 1)
           f == [m \in D |-> leadsTo[m][p]]
<1>2. IsFiniteSet(D) /\ Cardinality(D) = CallStack
  BY FS_Interval
<1>3. Cardinality(Paths) < Cardinality(D)
  BY <1>2
<1>4. f \in [D -> Paths]
  BY LeadsTo
<1>5. PICK i, j \in D : i # j /\ f[i] = f[j]
  <2> HIDE DEF D, f
  <2> QED
    BY <1>2, <1>3, <1>4, FS_PigeonHole
<1>6. \A a, b \in D : a < b /\ leadsTo[a][p] = leadsTo[b][p] => Last(p) \in Followed
  <2> SUFFICES ASSUME NEW a \in D, NEW b \in D, a < b, leadsTo[a][p] = leadsTo[b][p]
               PROVE  Last(p) \in Followed
    OBVIOUS
  <2>1. a + (CallStack - b) \in D
    OBVIOUS
  <2>2. leadsTo[a + (CallStack - b)][p] = Last(p)
    BY ChainRepeats
  <2> QED
    BY <1>1, <2>1, <2>2
<1> QED
  BY <1>5, <1>6


-----------------------------------------------------------------------------
(* Constructors follow scripts.                                            *)

ObjectTypes ==
  /\ status \in [Objects -> Outcomes \union {"none", "opening", "nullHandle"}]
  /\ asked \in [Objects -> Paths \union {None}]
  /\ path \in [Objects -> Paths \union {None}]
  /\ handle \in [Objects -> Elfs \union {None}]
  /\ depth \in 0..CallStack

\* One constructor is at work at most, and is as far along the chain from what
\* it was asked for as the stack is deep.
Begun(o) == status[o] \in {"opening", "nullHandle"}
OnChain(o) ==
  /\ depth \in 1..CallStack /\ asked[o] \in Paths
  /\ path[o] = leadsTo[depth - 1][asked[o]]
  /\ status[o] = "nullHandle" => path[o] \notin Elfs

EndsWell(o) ==
  /\ status[o] = "open" <=> Last(asked[o]) \in Elfs
  /\ status[o] = "open" => handle[o] = Last(asked[o])
  /\ status[o] = "RangeError" <=> Last(asked[o]) \in Followed

ScriptInv ==
  /\ ObjectTypes
  /\ \A o, q \in Objects : Begun(o) /\ Begun(q) => o = q
  /\ \A o \in Objects : Begun(o) => OnChain(o)
  /\ \A o \in Objects : status[o] \in Outcomes => EndsWell(o)

LEMMA InitScripts == Init => ScriptInv
BY DEF Init, ScriptInv, ObjectTypes, Begun, Outcomes

LEMMA BeginScripts ==
  ASSUME ScriptInv, NEW o \in Objects, NEW p \in Paths, ~Constructing, Begin(o, p)
  PROVE  ScriptInv'
<1>1. \A q \in Objects : ~Begun(q)
  BY DEF Constructing, Begun
<1>2. \A q \in Objects :
        /\ status'[q] = IF q = o THEN "opening" ELSE status[q]
        /\ asked'[q] = IF q = o THEN p ELSE asked[q]
        /\ path'[q] = IF q = o THEN p ELSE path[q]
        /\ handle'[q] = handle[q]
  BY DEF Begin, ScriptInv, ObjectTypes
<1>3. ObjectTypes'
  BY DEF Begin, ScriptInv, ObjectTypes
<1>4. OnChain(o)'
  BY <1>2, LeadsTo DEF Begin, OnChain
<1>5. \A q \in Objects : q # o => ~Begun(q)'
  BY <1>1, <1>2 DEF Begun
<1>6. \A q \in Objects : status'[q] \in Outcomes => EndsWell(q)'
  BY <1>2 DEF ScriptInv, Outcomes, EndsWell
<1> QED
  BY <1>3, <1>4, <1>5, <1>6 DEF ScriptInv

LEMMA DlopenScripts ==
  ASSUME ScriptInv, NEW o \in Objects, Dlopen(o)
  PROVE  ScriptInv'
<1>1. Begun(o) /\ OnChain(o) /\ path[o] \in Paths
      /\ UNCHANGED <<asked, path, depth>>
  BY LeadsTo DEF Dlopen, ScriptInv, Begun, OnChain
<1>2. \A q \in Objects : q # o => ~Begun(q) /\ status'[q] = status[q]
                                   /\ handle'[q] = handle[q]
  BY <1>1 DEF Dlopen, ScriptInv, ObjectTypes
<1>3. ObjectTypes'
  BY <1>1 DEF Dlopen, ScriptInv, ObjectTypes, Outcomes
<1>4. CASE path[o] \in Elfs
  <2>1. status'[o] = "open" /\ handle'[o] = path[o]
    BY <1>4 DEF Dlopen, ScriptInv, ObjectTypes
  <2>2. Last(asked[o]) = path[o] /\ path[o] \notin Followed
    BY <1>1, <1>4, EndStays DEF OnChain, Last, Followed
  <2>3. EndsWell(o)'
    BY <1>1, <1>4, <2>1, <2>2 DEF EndsWell
  <2>4. \A q \in Objects : ~Begun(q)'
    BY <1>2, <2>1 DEF Begun
  <2> QED
    BY <1>1, <1>2, <1>3, <2>3, <2>4 DEF ScriptInv, EndsWell
<1>5. CASE path[o] \notin Elfs
  <2>1. status'[o] = "nullHandle"
    BY <1>5 DEF Dlopen, ScriptInv, ObjectTypes
  <2>2. OnChain(o)'
    BY <1>1, <1>5 DEF OnChain
  <2>3. \A q \in Objects : q # o => ~Begun(q)'
    BY <1>2 DEF Begun
  <2>4. \A q \in Objects : status'[q] \in Outcomes => EndsWell(q)'
    BY <1>1, <1>2, <2>1 DEF ScriptInv, Outcomes, EndsWell
  <2> QED
    BY <1>3, <2>2, <2>3, <2>4 DEF ScriptInv
<1> QED
  BY <1>4, <1>5

\* The path of a constructor that got no handle is no shared object's.
LEMMA NullHandle ==
  ASSUME ScriptInv, NEW o \in Objects, status[o] = "nullHandle"
  PROVE  Begun(o) /\ OnChain(o) /\ path[o] \in Paths \ Elfs
<1>1. Begun(o) /\ OnChain(o)
  BY DEF ScriptInv, Begun
<1>2. depth - 1 \in 0..CallStack
  BY <1>1 DEF OnChain
<1> QED
  BY <1>1, <1>2, LeadsTo DEF OnChain

LEMMA TryAgainScripts ==
  ASSUME ScriptInv, NEW o \in Objects, FollowScript(o)
  PROVE  ScriptInv'
<1>1. /\ Begun(o) /\ OnChain(o)
      /\ path[o] \in Followed /\ depth < CallStack /\ depth' = depth + 1
      /\ UNCHANGED <<asked, handle>>
  BY NullHandle DEF FollowScript, MatchesElfPattern, Followed
<1>2. \A q \in Objects :
        /\ status'[q] = IF q = o THEN "opening" ELSE status[q]
        /\ path'[q] = IF q = o THEN Target[Blamed[path[o]]] ELSE path[q]
  BY DEF FollowScript, ScriptInv, ObjectTypes
<1>3. ObjectTypes'
  BY <1>1 DEF FollowScript, ScriptInv, ObjectTypes, Followed
<1>4. OnChain(o)'
  <2>1. depth \in 1..CallStack /\ depth - 1 \in 0..CallStack /\ depth - 1 < CallStack
        /\ (depth - 1) + 1 = depth /\ (depth + 1) - 1 = depth
        /\ depth + 1 \in 1..CallStack
    BY <1>1 DEF OnChain
  <2>2. leadsTo[depth][asked[o]] = Target[Blamed[path[o]]]
    BY <1>1, <2>1, LeadsTo DEF OnChain
  <2> QED
    BY <1>1, <1>2, <2>1, <2>2 DEF OnChain
<1>5. \A q \in Objects : q # o => ~Begun(q)'
  BY <1>1, <1>2 DEF ScriptInv, Begun
<1>6. \A q \in Objects : status'[q] \in Outcomes => EndsWell(q)'
  BY <1>1, <1>2 DEF ScriptInv, Outcomes, EndsWell
<1> QED
  BY <1>3, <1>4, <1>5, <1>6 DEF ScriptInv

LEMMA EndScripts ==
  ASSUME ScriptInv, NEW o \in Objects,
         StackOverflows(o) \/ ReadFails(o) \/ LinkingError(o)
  PROVE  ScriptInv'
<1>1. PICK how \in {"RangeError", "ENOENT", "linkingError"} :
        /\ Ends(o, how)
        /\ how = "RangeError" <=> path[o] \in Followed
        /\ how = "RangeError" => depth = CallStack
  BY NullHandle
     DEF StackOverflows, ReadFails, LinkingError, Ends, MatchesElfPattern, Followed
<1>2. /\ Begun(o) /\ OnChain(o) /\ path[o] \notin Elfs
      /\ UNCHANGED <<asked, path, handle, depth>>
  BY <1>1 DEF Ends, ScriptInv, Begun, OnChain
<1>3. \A q \in Objects : status'[q] = IF q = o THEN how ELSE status[q]
  BY <1>1 DEF Ends, ScriptInv, ObjectTypes
<1>4. ObjectTypes'
  BY <1>1 DEF Ends, ScriptInv, ObjectTypes, Outcomes
<1>5. \A q \in Objects : ~Begun(q)'
  BY <1>2, <1>3 DEF ScriptInv, Begun
<1>6. EndsWell(o)'
  <2>1. CASE path[o] \in Followed
    <3>1. Last(asked[o]) \in Followed
      BY <1>1, <1>2, <2>1, FullStackIsCycle DEF OnChain
    <3> QED
      BY <1>1, <1>2, <1>3, <2>1, <3>1 DEF EndsWell, Followed
  <2>2. CASE path[o] \notin Followed
    <3>1. Last(asked[o]) = path[o]
      BY <1>2, <2>2, EndStays DEF OnChain, Last
    <3> QED
      BY <1>1, <1>2, <1>3, <2>2, <3>1 DEF EndsWell
  <2> QED
    BY <2>1, <2>2
<1>7. \A q \in Objects : q # o /\ status'[q] \in Outcomes => EndsWell(q)'
  BY <1>2, <1>3 DEF ScriptInv, EndsWell
<1> QED
  BY <1>4, <1>5, <1>6, <1>7 DEF ScriptInv

\* The rest of the program has no part in it.
LEMMA OthersScripts ==
  ASSUME ScriptInv, UNCHANGED objectVars
  PROVE  ScriptInv'
BY DEF objectVars, ScriptInv, ObjectTypes, Begun, OnChain, EndsWell

\* In any program, a constructor opens the shared object at the end of its chain of
\* files, if it has one, and no other; it runs out of stack, having read the same
\* files again and again, exactly when the chain has no end.  What a chain is rests
\* on the code's own test, '.so' in the name that dlopen's error begins with.
THEOREM ScriptsFollowed == Spec => []FollowsScripts
<1>1. ScriptInv /\ [Next]_vars => ScriptInv'
  <2> SUFFICES ASSUME ScriptInv, [Next]_vars PROVE ScriptInv'
    OBVIOUS
  <2>1. CASE \E o \in Objects, p \in Paths : New(o, p)
    BY <2>1, BeginScripts DEF New
  <2>2. CASE \E o \in Objects : Dlopen(o)
    BY <2>2, DlopenScripts
  <2>3. CASE \E o \in Objects : FollowScript(o)
    BY <2>3, TryAgainScripts
  <2>4. CASE \E o \in Objects : StackOverflows(o) \/ ReadFails(o) \/ LinkingError(o)
    BY <2>4, EndScripts
  <2>5. CASE \E l \in Libraries, o \in Objects, p \in Paths, symbols \in SUBSET Symbols :
               LibraryOfPath(l, o, p, symbols)
    BY <2>5, BeginScripts DEF LibraryOfPath
  <2>6. CASE UNCHANGED objectVars
    BY <2>6, OthersScripts
  <2>7. CASE \E o \in Objects : Close(o)
    BY <2>6, <2>7 DEF Close
  <2>8. CASE \E l \in Libraries :
               \/ \E o \in Objects, symbols \in SUBSET Symbols :
                    LibraryOfObject(l, o, symbols)
               \/ Opened(l) \/ Done(l)
               \/ \E symbol \in Symbols : Define(l, symbol) \/ DefineFails(l, symbol)
    BY <2>6, <2>8 DEF LibraryOfObject, Opened, Done, Define, DefineFails
  <2> QED
    BY <2>1, <2>2, <2>3, <2>4, <2>5, <2>6, <2>7, <2>8 DEF Next, vars
<1>2. ScriptInv => FollowsScripts
  BY DEF ScriptInv, FollowsScripts, EndsWell
<1> QED
  BY <1>1, <1>2, InitScripts, PTL DEF Spec
=============================================================================
