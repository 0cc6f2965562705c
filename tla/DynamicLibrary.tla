---------------------------- MODULE DynamicLibrary ----------------------------
(***************************************************************************)
(* DynamicLibrary and Library (src/lib/dynamic_library.js, library.js):    *)
(* opening a shared object, if need be through linker scripts, fetching    *)
(* symbols, closing, and defining functions on an object one by one.       *)
(*                                                                         *)
(* All of it runs synchronously on one thread, so a constructor or a call  *)
(* of Library() that has begun ends before anything else happens.  The     *)
(* system's loader counts how often each object is open; a handle is       *)
(* modelled as the path of the object it stands for.                       *)
(***************************************************************************)
EXTENDS Integers, FiniteSets

CONSTANTS
  Objects,         \* instances of DynamicLibrary
  Libraries,       \* calls of Library()
  Elfs,            \* paths of shared objects
  Scripts,         \* paths of linker scripts with a GROUP
  Texts,           \* paths of other files, those of broken objects included
  Missing,         \* paths of no file
  SoNamed,         \* paths that contain '.so'
  Blamed,          \* the file that dlopen's error begins with: the path itself,
                   \* or a dependency that is missing
  Target,          \* the first file name in each script's GROUP
  Symbols, Exports,\* the symbols of each shared object
  None,            \* no path, no object
  CallStack,       \* how many constructors the JavaScript stack has room for
  MayCloseAgain    \* may the program close a library twice?

Paths == Elfs \union Scripts \union Texts \union Missing

ASSUME FilesAssumption ==
  /\ Target \in [Scripts -> Paths] /\ Blamed \in [Paths -> Paths]
  /\ Exports \in [Elfs -> SUBSET Symbols]
  /\ SoNamed \subseteq Paths
  /\ None \notin Paths \union Objects
  /\ Scripts \intersect (Elfs \union Missing) = {}
ASSUME StackAssumption ==
  /\ IsFiniteSet(Paths)
  /\ CallStack \in Nat \ {0} /\ CallStack > Cardinality(Paths)
ASSUME ObjectsAssumption == IsFiniteSet(Objects)
ASSUME ProgramAssumption == MayCloseAgain \in BOOLEAN

VARIABLES
  status,          \* of each DynamicLibrary
  asked,           \* the path it was created with
  path,            \* its _path
  handle,          \* its _handle
  depth,           \* constructors on the stack
  refs,            \* the loader's count of each shared object
  closed,          \* objects on which close() was called
  library,         \* what each Library() call is doing
  dl,              \* the DynamicLibrary it uses
  private,         \* objects that Library() opened and tells nobody of
  todo,            \* symbols it has not come to
  funcs            \* functions it defined

objectVars == <<status, asked, path, handle, depth>>
libraryVars == <<library, dl, private, todo, funcs>>
vars == <<objectVars, refs, closed, libraryVars>>

Init ==
  /\ status = [o \in Objects |-> "none"]
  /\ asked = [o \in Objects |-> None]
  /\ path = [o \in Objects |-> None]
  /\ handle = [o \in Objects |-> None]
  /\ depth = 0
  /\ refs = [f \in Elfs |-> 0]
  /\ closed = {}
  /\ library = [l \in Libraries |-> "none"]
  /\ dl = [l \in Libraries |-> None]
  /\ private = {}
  /\ todo = [l \in Libraries |-> {}]
  /\ funcs = [l \in Libraries |-> {}]

\* Nothing else runs while a constructor or a Library() call does.
Constructing == \E o \in Objects : status[o] \in {"opening", "nullHandle"}
Defining == \E l \in Libraries : library[l] \in {"opening", "defining"}

-----------------------------------------------------------------------------
(* new DynamicLibrary(p), called by the program or by Library().           *)

Begin(o, p) ==
  /\ status[o] = "none"
  /\ status' = [status EXCEPT ![o] = "opening"]
  /\ asked' = [asked EXCEPT ![o] = p]
  /\ path' = [path EXCEPT ![o] = p]
  /\ depth' = 1
  /\ UNCHANGED handle

New(o, p) ==
  /\ ~Constructing /\ ~Defining
  /\ Begin(o, p)
  /\ UNCHANGED <<refs, closed, libraryVars>>

\* dlopen: the loader counts one more use of the shared object, or fails.
Dlopen(o) ==
  /\ status[o] = "opening"
  /\ IF path[o] \in Elfs
     THEN /\ status' = [status EXCEPT ![o] = "open"]
          /\ handle' = [handle EXCEPT ![o] = path[o]]
          /\ refs' = [refs EXCEPT ![path[o]] = @ + 1]
     ELSE /\ status' = [status EXCEPT ![o] = "nullHandle"]
          /\ UNCHANGED <<handle, refs>>
  /\ UNCHANGED <<asked, path, depth, closed, libraryVars>>

\* The error's text begins with the name of a file and a colon, whatever the
\* error, and the pattern asks for no more than '.so' in the name.
MatchesElfPattern(p) == Blamed[p] \in SoNamed

\* What becomes of a constructor that got a null handle.
Ends(o, how) ==
  /\ status[o] = "nullHandle"
  /\ status' = [status EXCEPT ![o] = how]
  /\ UNCHANGED <<asked, path, handle, depth, refs, closed, libraryVars>>

\* Mutant: the constructor calls itself with the path it was given.
FollowSelf(o) ==
  /\ status[o] = "nullHandle"
  /\ MatchesElfPattern(path[o]) /\ Blamed[path[o]] \in Scripts
  /\ depth < CallStack
  /\ status' = [status EXCEPT ![o] = "opening"]
  /\ depth' = depth + 1
  /\ UNCHANGED <<asked, path, handle, refs, closed, libraryVars>>

\* The file that the error names is read; it has a GROUP, and the constructor calls
\* itself on the same object with the name found there ...
FollowScript(o) ==
  /\ status[o] = "nullHandle"
  /\ MatchesElfPattern(path[o]) /\ Blamed[path[o]] \in Scripts
  /\ depth < CallStack
  /\ path' = [path EXCEPT ![o] = Target[Blamed[path[o]]]]
  /\ status' = [status EXCEPT ![o] = "opening"]
  /\ depth' = depth + 1
  /\ UNCHANGED <<asked, handle, refs, closed, libraryVars>>

\* ... until the stack overflows ...
StackOverflows(o) ==
  /\ Ends(o, "RangeError")
  /\ MatchesElfPattern(path[o]) /\ Blamed[path[o]] \in Scripts
  /\ depth = CallStack

\* ... there is no such file, and readFileSync throws ...
ReadFails(o) ==
  /\ Ends(o, "ENOENT")
  /\ MatchesElfPattern(path[o]) /\ Blamed[path[o]] \in Missing

\* ... or the name does not match, or the file has no GROUP.
LinkingError(o) ==
  /\ Ends(o, "linkingError")
  /\ MatchesElfPattern(path[o]) => Blamed[path[o]] \notin Scripts \union Missing

-----------------------------------------------------------------------------
(* Methods.                                                                *)

\* dlclose: the loader counts one use less, or reports that there is none.
Dlclose(f) == refs' = [refs EXCEPT ![f] = IF @ > 0 THEN @ - 1 ELSE 0]

\* Mutant: close() forgets the handle, and get() is not told.
CloseForgets(o) ==
  /\ ~Constructing /\ ~Defining
  /\ status[o] = "open" /\ o \notin private
  /\ Dlclose(handle[o])
  /\ closed' = closed \union {o}
  /\ handle' = [handle EXCEPT ![o] = None]
  /\ UNCHANGED <<status, asked, path, depth, libraryVars>>

\* close(): _handle stays as it is.
Close(o) ==
  /\ ~Constructing /\ ~Defining
  /\ status[o] = "open" /\ o \notin private
  /\ o \in closed => MayCloseAgain
  /\ Dlclose(handle[o])
  /\ closed' = closed \union {o}
  /\ UNCHANGED <<objectVars, libraryVars>>

\* get(): a symbol that the object exports, or an error.  The handle of an object
\* that is no longer mapped dangles, and dlsym may do either.
Gets(o, symbol) == refs[handle[o]] > 0 => symbol \in Exports[handle[o]]
GetThrows(o, symbol) == refs[handle[o]] > 0 => symbol \notin Exports[handle[o]]

-----------------------------------------------------------------------------
(* Library(path or DynamicLibrary, functions).                             *)

LibraryOfPath(l, o, p, symbols) ==
  /\ ~Constructing /\ ~Defining
  /\ library[l] = "none"
  /\ Begin(o, p)
  /\ library' = [library EXCEPT ![l] = "opening"]
  /\ dl' = [dl EXCEPT ![l] = o]
  /\ private' = private \union {o}
  /\ todo' = [todo EXCEPT ![l] = symbols]
  /\ UNCHANGED <<refs, closed, funcs>>

LibraryOfObject(l, o, symbols) ==
  /\ ~Constructing /\ ~Defining
  /\ library[l] = "none"
  /\ status[o] = "open" /\ o \notin private
  /\ library' = [library EXCEPT ![l] = "defining"]
  /\ dl' = [dl EXCEPT ![l] = o]
  /\ todo' = [todo EXCEPT ![l] = symbols]
  /\ UNCHANGED <<objectVars, refs, closed, private, funcs>>

\* The constructor it called has returned or thrown.
Opened(l) ==
  /\ library[l] = "opening" /\ ~Constructing
  /\ library' = [library EXCEPT ![l] = IF status[dl[l]] = "open"
                                       THEN "defining" ELSE "threw"]
  /\ UNCHANGED <<objectVars, refs, closed, dl, private, todo, funcs>>

\* Mutant: a symbol that is not found is defined all the same.
DefineUnchecked(l, symbol) ==
  /\ library[l] = "defining" /\ symbol \in todo[l]
  /\ todo' = [todo EXCEPT ![l] = @ \ {symbol}]
  /\ funcs' = [funcs EXCEPT ![l] = @ \union {symbol}]
  /\ UNCHANGED <<objectVars, refs, closed, library, dl, private>>

\* The next function is defined: dlsym and its ForeignFunction succeed ...
Define(l, symbol) ==
  /\ library[l] = "defining" /\ symbol \in todo[l]
  /\ Gets(dl[l], symbol)
  /\ todo' = [todo EXCEPT ![l] = @ \ {symbol}]
  /\ funcs' = [funcs EXCEPT ![l] = @ \union {symbol}]
  /\ UNCHANGED <<objectVars, refs, closed, library, dl, private>>

\* ... or its symbol is not found, or its types or ABI are refused; the functions
\* before it stay.
DefineFails(l, symbol) ==
  /\ library[l] = "defining" /\ symbol \in todo[l]
  /\ \E refused \in BOOLEAN : refused \/ GetThrows(dl[l], symbol)
  /\ library' = [library EXCEPT ![l] = "threw"]
  /\ UNCHANGED <<objectVars, refs, closed, dl, private, todo, funcs>>

\* Mutant: the library is closed once its functions are known.
DoneAndClosed(l) ==
  /\ library[l] = "defining" /\ todo[l] = {}
  /\ library' = [library EXCEPT ![l] = "done"]
  /\ Dlclose(handle[dl[l]])
  /\ UNCHANGED <<objectVars, closed, dl, private, todo, funcs>>

Done(l) ==
  /\ library[l] = "defining" /\ todo[l] = {}
  /\ library' = [library EXCEPT ![l] = "done"]
  /\ UNCHANGED <<objectVars, refs, closed, dl, private, todo, funcs>>

Next ==
  \/ \E o \in Objects :
       \/ \E p \in Paths : New(o, p)
       \/ Dlopen(o) \/ FollowScript(o) \/ StackOverflows(o)
       \/ ReadFails(o) \/ LinkingError(o)
       \/ Close(o)
  \/ \E l \in Libraries :
       \/ \E o \in Objects, symbols \in SUBSET Symbols :
            \/ LibraryOfObject(l, o, symbols)
            \/ \E p \in Paths : LibraryOfPath(l, o, p, symbols)
       \/ Opened(l) \/ Done(l)
       \/ \E symbol \in Symbols : Define(l, symbol) \/ DefineFails(l, symbol)

Spec == Init /\ [][Next]_vars

-----------------------------------------------------------------------------
(* Properties.                                                             *)

Outcomes == {"open", "RangeError", "ENOENT", "linkingError"}

\* Every variable has its type, and an open object has a handle.
TypeOK ==
  /\ status \in [Objects -> Outcomes \union {"none", "opening", "nullHandle"}]
  /\ {asked, path} \subseteq [Objects -> Paths \union {None}]
  /\ handle \in [Objects -> Elfs \union {None}]
  /\ \A o \in Objects : status[o] = "open" <=> handle[o] # None
  /\ depth \in 0..CallStack
  /\ refs \in [Elfs -> 0..Cardinality(Objects)]
  /\ closed \subseteq Objects /\ private \subseteq Objects
  /\ library \in [Libraries -> {"none", "opening", "defining", "done", "threw"}]
  /\ dl \in [Libraries -> Objects \union {None}]
  /\ todo \in [Libraries -> SUBSET Symbols]
  /\ funcs \in [Libraries -> SUBSET Symbols]

\* What a path stands for, told without a constructor: the path that a chain
\* of scripts named '.so', or of objects that lack one, leads to in n steps.
Followed == {p \in Paths \ Elfs : Blamed[p] \in Scripts \intersect SoNamed}
leadsTo[n \in 0..CallStack] ==
  IF n = 0 THEN [p \in Paths |-> p]
  ELSE [p \in Paths |-> LET q == leadsTo[n - 1][p]
                        IN IF q \in Followed THEN Target[Blamed[q]] ELSE q]
Last(p) == leadsTo[CallStack][p]

\* A constructor opens the shared object at the end of its chain of files if there
\* is one, and overflows the stack exactly if the chain has no end.  A file is
\* followed if '.so' is in the name that the error begins with, as in the code.
FollowsScripts ==
  \A o \in Objects : status[o] \in Outcomes =>
    /\ status[o] = "open" <=> Last(asked[o]) \in Elfs
    /\ status[o] = "open" => handle[o] = Last(asked[o])
    /\ status[o] = "RangeError" <=> Last(asked[o]) \in Followed

\* A shared object stays mapped while an object that was not closed has it
\* open, whoever else opens and closes it; so functions of a Library() that
\* opened its own object can be called for ever.
OpenStaysMapped ==
  \A o \in Objects : status[o] = "open" /\ o \notin closed => refs[handle[o]] > 0

\* Functions that a Library() call defined before it threw are as good as those
\* of one that succeeded: they exist in a shared object that is mapped unless
\* the program closed the object it passed.
FunctionsUsable ==
  \A l \in Libraries : funcs[l] # {} /\ dl[l] \notin closed =>
    /\ refs[handle[dl[l]]] > 0
    /\ funcs[l] \subseteq Exports[handle[dl[l]]]

\* The comment on path() (dynamic_library.js:130): it returns the path
\* originally passed to the constructor.
PathIsOriginal == \A o \in Objects : status[o] = "open" => path[o] = asked[o]

\* The comment in the constructor (dynamic_library.js:48-62): only an invalid
\* ELF header makes it look for a script, and otherwise the error is dlopen's.
MissingIsLinkingError ==
  \A o \in Objects : status[o] # "none" /\ asked[o] \in Missing =>
    status[o] \in {"opening", "nullHandle", "linkingError"}
=============================================================================
