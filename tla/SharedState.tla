----------------------------- MODULE SharedState -----------------------------
(***************************************************************************)
(* Goroutines that call the methods of a component, and the RWMutexes of   *)
(* Go that they meet at. A method is known by its paths (see Paths). Where *)
(* a method holds no mutex its path is cut in two, and a call is of one    *)
(* piece: a goroutine that holds nothing may go on with any piece, so the  *)
(* pieces in the method's own order are among what is covered.             *)
(* A sync.Mutex is an RWMutex that nobody reads under.                     *)
(***************************************************************************)
EXTENDS Integers, FiniteSets, Sequences, Paths

CONSTANTS
  Goroutines,
  Mutexes,
  Methods,       \* per component: the paths of its methods
  Suspects,      \* per component: those that can hang
  Rank,          \* per component and mutex: the outer ranks above the inner
  Guard,         \* per component and variable: the mutex that protects it
  Racy           \* per component: the variables that no mutex protects

LockSteps == [op : {"Lock", "Unlock", "RLock", "RUnlock"}, on : Mutexes]
AccessSteps == [op : {"Read", "Write"}, on : STRING]

ASSUME SharedStateAssumption ==
  \A c \in DOMAIN Methods :
    /\ Methods[c] \subseteq Seq(LockSteps \cup AccessSteps)
    /\ Rank[c] \in [Mutexes -> Nat]
    /\ \A var \in DOMAIN Guard[c] : Guard[c][var] \in Mutexes

-----------------------------------------------------------------------------
(* How often path p has taken this step before its place i.                *)
Times(p, i, step) == Cardinality({j \in 1..(i - 1) : p[j] = step})

Locks(p, i, m) == Times(p, i, Step("Lock", m)) - Times(p, i, Step("Unlock", m))
ReadLocks(p, i, m) == Times(p, i, Step("RLock", m)) - Times(p, i, Step("RUnlock", m))

(* On path p mutex m protects a variable: it is written under the write    *)
(* lock, and read under either.                                            *)
Protects(m, var, p) ==
  \A i \in DOMAIN p : p[i].on = var =>
    /\ p[i].op = "Write" => Locks(p, i, m) > 0
    /\ p[i].op = "Read" => Locks(p, i, m) > 0 \/ ReadLocks(p, i, m) > 0

(* The guards do protect what they are said to.                            *)
Guarded(c, p) == \A var \in DOMAIN Guard[c] : Protects(Guard[c][var], var, p)

(* What is released is held.                                               *)
Owned(p) ==
  \A i \in DOMAIN p :
    /\ p[i].op = "Unlock" => Locks(p, i, p[i].on) > 0
    /\ p[i].op = "RUnlock" => ReadLocks(p, i, p[i].on) > 0

(* A path ends with nothing held.                                          *)
Balanced(p) ==
  \A m \in Mutexes : Locks(p, Len(p) + 1, m) = 0 /\ ReadLocks(p, Len(p) + 1, m) = 0

(* A mutex is taken by who holds none of its rank or below.                *)
Ordered(c, p) ==
  \A i \in DOMAIN p : \A m \in Mutexes :
    p[i].op \in {"Lock", "RLock"} /\ (Locks(p, i, m) > 0 \/ ReadLocks(p, i, m) > 0) =>
      Rank[c][p[i].on] < Rank[c][m]

Disciplined(c, p) ==
  /\ Guarded(c, p)
  /\ Owned(p)
  /\ Balanced(p)
  /\ p \notin Suspects[c] => Ordered(c, p)

(* The variables that methods write, and those of them that no mutex       *)
(* protects on all the paths.                                              *)
Written(c) ==
  UNION {{p[i].on : i \in {j \in DOMAIN p : p[j].op = "Write"}} : p \in Methods[c]}
Unprotected(c) ==
  {var \in Written(c) : \A m \in Mutexes : \E p \in Methods[c] : ~Protects(m, var, p)}

(* Components all of whose paths are disciplined, and those whose races    *)
(* are the ones that are known.                                            *)
DisciplinedComponents == {c \in DOMAIN Methods : \A p \in Methods[c] : Disciplined(c, p)}
ComponentsOfKnownRaces ==
  {c \in DOMAIN Methods :
     Unprotected(c) = Racy[c] /\ Written(c) \subseteq DOMAIN Guard[c] \cup Racy[c]}

-----------------------------------------------------------------------------
VARIABLES
  component,     \* the one whose methods are called
  path,          \* per goroutine: the path it is on
  at,            \* per goroutine: the place of its next step
  announced,     \* per mutex: who has called Lock and keeps new readers out
  writer,        \* per mutex: who has locked it
  readers        \* per mutex and goroutine: how many read locks it holds

vars == <<component, path, at, announced, writer, readers>>

Init ==
  /\ component \in DOMAIN Methods
  /\ path = [g \in Goroutines |-> <<>>]
  /\ at = [g \in Goroutines |-> 1]
  /\ announced = [m \in Mutexes |-> {}]
  /\ writer = [m \in Mutexes |-> {}]
  /\ readers = [m \in Mutexes |-> [g \in Goroutines |-> 0]]

Busy(g) == at[g] <= Len(path[g])

(* Goroutine g is about to take this step.                                 *)
About(g, op, on) == Busy(g) /\ path[g][at[g]] = Step(op, on)

(* The mutex that the next step of g is on, if it is on one.               *)
NextMutex(g) == IF Busy(g) THEN {path[g][at[g]].on} \cap Mutexes ELSE {}

Advance(g) == at' = [at EXCEPT ![g] = @ + 1] /\ UNCHANGED <<component, path>>

Holds(g, m) == g \in writer[m] \/ readers[m][g] > 0

-----------------------------------------------------------------------------
Call(g) ==
  /\ ~Busy(g)
  /\ \E p \in Methods[component] : path' = [path EXCEPT ![g] = p]
  /\ at' = [at EXCEPT ![g] = 1]
  /\ UNCHANGED <<component, announced, writer, readers>>

(* Lock takes two steps: it shuts new readers out, then waits for those    *)
(* that are in. Nobody else announces meanwhile, nor until Unlock.         *)
Announce(g, m) ==
  /\ About(g, "Lock", m) /\ announced[m] = {}
  /\ announced' = [announced EXCEPT ![m] = {g}]
  /\ UNCHANGED <<component, path, at, writer, readers>>

(* Mutant: a writer waits for the other writers alone.                     *)
Lock_IgnoringReaders(g, m) ==
  /\ About(g, "Lock", m) /\ announced[m] = {g} /\ writer[m] = {}
  /\ writer' = [writer EXCEPT ![m] = {g}]
  /\ Advance(g)
  /\ UNCHANGED <<announced, readers>>

Lock(g, m) ==
  /\ About(g, "Lock", m) /\ announced[m] = {g}
  /\ \A h \in Goroutines : ~Holds(h, m)
  /\ writer' = [writer EXCEPT ![m] = {g}]
  /\ Advance(g)
  /\ UNCHANGED <<announced, readers>>

Unlock(g, m) ==
  /\ About(g, "Unlock", m) /\ writer[m] = {g}
  /\ writer' = [writer EXCEPT ![m] = {}]
  /\ announced' = [announced EXCEPT ![m] = {}]
  /\ Advance(g)
  /\ UNCHANGED readers

RLock(g, m) ==
  /\ About(g, "RLock", m) /\ announced[m] = {}
  /\ readers' = [readers EXCEPT ![m][g] = @ + 1]
  /\ Advance(g)
  /\ UNCHANGED <<announced, writer>>

RUnlock(g, m) ==
  /\ About(g, "RUnlock", m) /\ readers[m][g] > 0
  /\ readers' = [readers EXCEPT ![m][g] = @ - 1]
  /\ Advance(g)
  /\ UNCHANGED <<announced, writer>>

Access(g) ==
  /\ Busy(g) /\ path[g][at[g]].op \in {"Read", "Write"}
  /\ Advance(g)
  /\ UNCHANGED <<announced, writer, readers>>

Next ==
  \E g \in Goroutines :
    \/ Call(g)
    \/ Access(g)
    \/ \E m \in NextMutex(g) :
         Announce(g, m) \/ Lock(g, m) \/ Unlock(g, m) \/ RLock(g, m) \/ RUnlock(g, m)

Spec == Init /\ [][Next]_vars

-----------------------------------------------------------------------------
(* The variables range over what their declarations say; a writer is alone *)
(* with its mutex.                                                         *)
TypeOK ==
  /\ component \in DOMAIN Methods
  /\ path \in [Goroutines -> Methods[component] \cup {<<>>}]
  /\ at \in [Goroutines -> Nat \ {0}]
  /\ announced \in [Mutexes -> SUBSET Goroutines]
  /\ writer \in [Mutexes -> SUBSET Goroutines]
  /\ readers \in [Mutexes -> [Goroutines -> Nat]]
  /\ \A m \in Mutexes : \A g \in announced[m] : announced[m] = {g}
  /\ \A m \in Mutexes : \A g \in writer[m] :
       announced[m] = {g} /\ \A h \in Goroutines : readers[m][h] = 0

(* Whatever way a method returns, it has released what it took: no early   *)
(* return between a Lock and its Unlock leaves the mutex taken for good.   *)
NothingLeftHeld ==
  \A g \in Goroutines : \A m \in Mutexes : ~Busy(g) => ~Holds(g, m)

(* Nobody releases a mutex that he does not hold, which would end the      *)
(* process: Go does not let a program recover from it.                     *)
UnlocksHeld ==
  \A g \in Goroutines : \A m \in NextMutex(g) :
    /\ About(g, "Unlock", m) => g \in writer[m]
    /\ About(g, "RUnlock", m) => readers[m][g] > 0

(* What a method takes it releases, and it releases nothing else.          *)
LocksPaired == NothingLeftHeld /\ UnlocksHeld

(* No two goroutines are about to access one variable, one of them to      *)
(* write it: that is a data race, whose outcome Go leaves open, and the    *)
(* end of the process when the variable is a map. The variables with no    *)
(* guard are not claimed: RacesKnown says which they are.                  *)
NoRace ==
  \A g, h \in Goroutines : \A var \in DOMAIN Guard[component] :
    g # h /\ About(g, "Write", var) =>
      ~About(h, "Write", var) /\ ~About(h, "Read", var)

(* The races of a component are those that are known, no more and no less: *)
(* what its methods write is guarded, but for the variables that no one    *)
(* mutex is held for at every access.                                      *)
RacesKnown == component \in ComponentsOfKnownRaces

(* Who has to act for g to go on.                                          *)
WaitsFor(g) ==
  { h \in Goroutines : \E m \in NextMutex(g) :
      \/ About(g, "RLock", m) /\ h \in announced[m]
      \/ About(g, "Lock", m) /\ announced[m] # {g} /\ h \in announced[m]
      \/ About(g, "Lock", m) /\ announced[m] = {g} /\ Holds(h, m) }

(* Goroutines wait for one another in a circle (one of them for itself is  *)
(* a circle too).                                                          *)
Circle(D) == D # {} /\ \A g \in D : WaitsFor(g) \cap D # {}

(* The calls that can hang are known: in every circle is a goroutine that  *)
(* is on the path of a suspect. The other methods, however they meet, and  *)
(* with more locks and readers and writers than a test sets up, never wait *)
(* for one another in a circle.                                            *)
NoDeadlock ==
  \A D \in SUBSET Goroutines :
    Circle(D) => \E g \in D : path[g] \in Suspects[component]

(* No call hangs at all.                                                   *)
NeverHangs == \A D \in SUBSET Goroutines : ~Circle(D)

(* The paths, each read alone, keep the discipline that makes any number   *)
(* of them safe together: guards, one order of the mutexes, what is taken  *)
(* released. Only the suspects break the order.                            *)
Discipline == component \in DisciplinedComponents

(* What is read off the paths of a component, on which the theorems about  *)
(* any number of goroutines rest.                                          *)
PathsKnown == Discipline /\ RacesKnown
=============================================================================
