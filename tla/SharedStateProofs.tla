-------------------------- MODULE SharedStateProofs --------------------------
(***************************************************************************)
(* The discipline of SharedState is enough: methods that keep it, each on  *)
(* its own, neither race nor hang together, however many goroutines call   *)
(* them, over any number of mutexes and variables.                         *)
(***************************************************************************)
EXTENDS SharedState, FiniteSetTheorems, WellFoundedInduction, TLAPS

Paths_ == Seq(LockSteps \cup AccessSteps)

-----------------------------------------------------------------------------
(* Counting the steps of a path. *)

LEMMA TimesType ==
  ASSUME NEW p, NEW i \in Nat, NEW step
  PROVE  Times(p, i, step) \in Nat
<1> DEFINE S == {j \in 1..(i - 1) : p[j] = step}
<1>1. IsFiniteSet(1..(i - 1))
  BY FS_Interval
<1>2. IsFiniteSet(S)
  BY <1>1, FS_Subset
<1> QED
  BY <1>2, FS_CardinalityType DEF Times

LEMMA TimesFirst ==
  ASSUME NEW p, NEW step
  PROVE  Times(p, 1, step) = 0
<1>1. {j \in 1..(1 - 1) : p[j] = step} = {}
  OBVIOUS
<1> QED
  BY <1>1, FS_EmptySet DEF Times

LEMMA TimesNext ==
  ASSUME NEW p, NEW i \in Nat \ {0}, NEW step
  PROVE  Times(p, i + 1, step) = IF p[i] = step THEN Times(p, i, step) + 1
                                                ELSE Times(p, i, step)
<1> DEFINE S == {j \in 1..(i - 1) : p[j] = step}
           T == {j \in 1..(i + 1 - 1) : p[j] = step}
<1>1. IsFiniteSet(S)
  <2>1. IsFiniteSet(1..(i - 1))
    BY FS_Interval
  <2> QED
    BY <2>1, FS_Subset
<1>2. CASE p[i] = step
  <2>1. T = S \cup {i} /\ i \notin S
    BY <1>2
  <2>2. Cardinality(T) = Cardinality(S) + 1
    BY <1>1, <2>1, FS_AddElement
  <2> QED
    BY <1>2, <2>2 DEF Times
<1>3. CASE p[i] # step
  <2>1. T = S
    BY <1>3
  <2> QED
    BY <1>3, <2>1 DEF Times
<1> QED
  BY <1>2, <1>3

LEMMA LocksFirst ==
  ASSUME NEW p, NEW m
  PROVE  Locks(p, 1, m) = 0 /\ ReadLocks(p, 1, m) = 0
BY TimesFirst DEF Locks, ReadLocks

LEMMA LocksType ==
  ASSUME NEW p, NEW i \in Nat, NEW m
  PROVE  Locks(p, i, m) \in Int /\ ReadLocks(p, i, m) \in Int
<1>1. \A step : Times(p, i, step) \in Nat
  BY TimesType
<1> QED
  BY <1>1 DEF Locks, ReadLocks

LEMMA LocksNext ==
  ASSUME NEW p, NEW i \in Nat \ {0}, NEW m
  PROVE  Locks(p, i + 1, m) = IF p[i] = Step("Lock", m) THEN Locks(p, i, m) + 1
                              ELSE IF p[i] = Step("Unlock", m) THEN Locks(p, i, m) - 1
                              ELSE Locks(p, i, m)
<1>1. \A step : Times(p, i, step) \in Nat
  BY TimesType
<1>2. Step("Lock", m) # Step("Unlock", m)
  BY DEF Step
<1> QED
  BY <1>1, <1>2, TimesNext DEF Locks

LEMMA ReadLocksNext ==
  ASSUME NEW p, NEW i \in Nat \ {0}, NEW m
  PROVE  ReadLocks(p, i + 1, m) = IF p[i] = Step("RLock", m) THEN ReadLocks(p, i, m) + 1
                                  ELSE IF p[i] = Step("RUnlock", m) THEN ReadLocks(p, i, m) - 1
                                  ELSE ReadLocks(p, i, m)
<1>1. \A step : Times(p, i, step) \in Nat
  BY TimesType
<1>2. Step("RLock", m) # Step("RUnlock", m)
  BY DEF Step
<1> QED
  BY <1>1, <1>2, TimesNext DEF ReadLocks

(* What one step does to what a path holds.                                *)
LEMMA StepLevels ==
  ASSUME NEW p, NEW i \in Nat \ {0}, NEW op, NEW on, p[i] = Step(op, on), NEW m
  PROVE  /\ Locks(p, i + 1, m) = IF on = m /\ op = "Lock" THEN Locks(p, i, m) + 1
                                 ELSE IF on = m /\ op = "Unlock" THEN Locks(p, i, m) - 1
                                 ELSE Locks(p, i, m)
         /\ ReadLocks(p, i + 1, m) = IF on = m /\ op = "RLock" THEN ReadLocks(p, i, m) + 1
                                     ELSE IF on = m /\ op = "RUnlock" THEN ReadLocks(p, i, m) - 1
                                     ELSE ReadLocks(p, i, m)
<1>1. \A o : p[i] = Step(o, m) <=> on = m /\ op = o
  BY DEF Step
<1> QED
  BY <1>1, LocksNext, ReadLocksNext

-----------------------------------------------------------------------------
(* The invariant: who holds what is what the paths up to here have taken   *)
(* and not released, and who has announced itself without having locked is *)
(* at its Lock.                                                            *)

PlaceOK ==
  \A g \in Goroutines : path[g] \in Paths_ /\ at[g] \in 1..(Len(path[g]) + 1)

HeldOK ==
  \A g \in Goroutines : \A m \in Mutexes :
    /\ Locks(path[g], at[g], m) = IF g \in writer[m] THEN 1 ELSE 0
    /\ ReadLocks(path[g], at[g], m) = readers[m][g]

AnnouncedOK ==
  \A m \in Mutexes : \A g \in announced[m] : g \in writer[m] \/ About(g, "Lock", m)

Inv == TypeOK /\ PlaceOK /\ HeldOK /\ AnnouncedOK

LEMMA InitInv == Init => Inv
<1> SUFFICES ASSUME Init PROVE Inv
  OBVIOUS
<1>1. TypeOK
  BY DEF Init, TypeOK
<1>2. PlaceOK
  BY DEF Init, PlaceOK, Paths_
<1>3. HeldOK
  BY LocksFirst DEF Init, HeldOK
<1>4. AnnouncedOK
  BY DEF Init, AnnouncedOK
<1> QED
  BY <1>1, <1>2, <1>3, <1>4 DEF Inv
LEMMA AdvanceMoves ==
  ASSUME TypeOK, PlaceOK, NEW g \in Goroutines, Busy(g), Advance(g)
  PROVE  /\ PlaceOK'
         /\ path' = path /\ component' = component
         /\ at'[g] = at[g] + 1 /\ at[g] \in Nat \ {0}
         /\ \A h \in Goroutines : h # g => at'[h] = at[h]
<1>1. path' = path /\ component' = component
  BY DEF Advance
<1>2. at'[g] = at[g] + 1 /\ \A h \in Goroutines : h # g => at'[h] = at[h]
  BY DEF Advance, TypeOK
<1>3. at[g] \in Nat \ {0}
  BY DEF TypeOK
<1>4. at'[g] \in 1..(Len(path'[g]) + 1)
  <2>1. path[g] \in Paths_
    BY DEF PlaceOK
  <2>2. Len(path[g]) \in Nat
    BY <2>1 DEF Paths_
  <2> QED
    BY <1>1, <1>2, <1>3, <2>2 DEF Busy
<1>5. PlaceOK'
  BY <1>1, <1>2, <1>4 DEF PlaceOK
<1> QED
  BY <1>1, <1>2, <1>3, <1>5

(* A goroutine takes a step other than Unlock and RUnlock, or one that     *)
(* releases what it holds: the others' standing is what it was.            *)
LEMMA OthersStand ==
  ASSUME Inv, NEW g \in Goroutines, path' = path,
         \A h \in Goroutines : h # g => at'[h] = at[h],
         NEW h \in Goroutines, h # g, NEW m \in Mutexes
  PROVE  /\ Locks(path'[h], at'[h], m) = IF h \in writer[m] THEN 1 ELSE 0
         /\ ReadLocks(path'[h], at'[h], m) = readers[m][h]
         /\ \A op, on : About(h, op, on)' <=> About(h, op, on)
BY DEF Inv, HeldOK, About, Busy

LEMMA CallInv ==
  ASSUME Inv, NEW g \in Goroutines, Call(g), Discipline
  PROVE  Inv'
<1>1. PICK p \in Methods[component] : path' = [path EXCEPT ![g] = p]
  BY DEF Call
<1>2. /\ at' = [at EXCEPT ![g] = 1] /\ component' = component
      /\ announced' = announced /\ writer' = writer /\ readers' = readers
  BY DEF Call
<1>3. component \in DOMAIN Methods
  BY DEF Inv, TypeOK
<1>4. path \in [Goroutines -> Methods[component] \cup {<<>>}] /\ at \in [Goroutines -> Nat \ {0}]
  BY DEF Inv, TypeOK
<1>5. /\ path'[g] = p /\ at'[g] = 1
      /\ \A h \in Goroutines : h # g => path'[h] = path[h] /\ at'[h] = at[h]
  BY <1>1, <1>2, <1>4
<1>6. path' \in [Goroutines -> Methods[component] \cup {<<>>}] /\ at' \in [Goroutines -> Nat \ {0}]
  BY <1>1, <1>2, <1>4
<1>7. TypeOK'
  BY <1>2, <1>6 DEF Inv, TypeOK
<1>8. p \in Paths_
  BY <1>3, SharedStateAssumption DEF SharedStateAssumption, Paths_
<1>9. PlaceOK'
  <2>1. 1 \in 1..(Len(p) + 1)
    BY <1>8 DEF Paths_
  <2> QED
    BY <1>5, <1>8, <2>1 DEF Inv, PlaceOK
<1>10. \A m \in Mutexes : g \notin writer[m] /\ readers[m][g] = 0
  <2> TAKE m \in Mutexes
  <2>1. path[g] \in Paths_ /\ Len(path[g]) \in Nat /\ at[g] \in 1..(Len(path[g]) + 1)
    BY DEF Inv, PlaceOK, Paths_
  <2>2. at[g] = Len(path[g]) + 1
    BY <2>1 DEF Call, Busy
  <2>3. Locks(path[g], at[g], m) = 0 /\ ReadLocks(path[g], at[g], m) = 0
    <3>1. CASE path[g] = <<>>
      BY <2>2, <3>1, LocksFirst
    <3>2. CASE path[g] \in Methods[component]
      BY <1>3, <2>2, <3>2 DEF Discipline, DisciplinedComponents, Disciplined, Balanced
    <3> QED
      BY <1>4, <3>1, <3>2
  <2> QED
    BY <2>3 DEF Inv, HeldOK
<1>11. HeldOK'
  <2> SUFFICES ASSUME NEW h \in Goroutines, NEW m \in Mutexes
               PROVE  /\ Locks(path'[h], at'[h], m) = IF h \in writer'[m] THEN 1 ELSE 0
                      /\ ReadLocks(path'[h], at'[h], m) = readers'[m][h]
    BY DEF HeldOK
  <2>1. CASE h = g
    BY <1>2, <1>5, <1>10, <2>1, LocksFirst
  <2>2. CASE h # g
    BY <1>2, <1>5, <2>2 DEF Inv, HeldOK
  <2> QED
    BY <2>1, <2>2
<1>12. AnnouncedOK'
  <2> SUFFICES ASSUME NEW m \in Mutexes, NEW h \in announced'[m]
               PROVE  h \in writer'[m] \/ About(h, "Lock", m)'
    BY DEF AnnouncedOK
  <2>1. h \in Goroutines /\ (h \in writer[m] \/ About(h, "Lock", m))
    BY <1>2 DEF Inv, TypeOK, AnnouncedOK
  <2>2. CASE h = g
    BY <1>2, <1>10, <2>1, <2>2 DEF Call, About
  <2>3. CASE h # g
    BY <1>2, <1>5, <2>1, <2>3 DEF About, Busy
  <2> QED
    BY <2>2, <2>3
<1> QED
  BY <1>7, <1>9, <1>11, <1>12 DEF Inv

LEMMA AnnounceInv ==
  ASSUME Inv, NEW g \in Goroutines, NEW m \in Mutexes, Announce(g, m)
  PROVE  Inv'
<1>1. /\ component' = component /\ path' = path /\ at' = at
      /\ writer' = writer /\ readers' = readers
  BY DEF Announce
<1>2. announced' = [announced EXCEPT ![m] = {g}] /\ announced[m] = {} /\ About(g, "Lock", m)
  BY DEF Announce
<1>3. announced \in [Mutexes -> SUBSET Goroutines]
  BY DEF Inv, TypeOK
<1>4. /\ announced'[m] = {g} /\ announced' \in [Mutexes -> SUBSET Goroutines]
      /\ \A n \in Mutexes : n # m => announced'[n] = announced[n]
  BY <1>2, <1>3
<1>5. writer[m] = {}
  <2> SUFFICES ASSUME NEW h \in writer[m] PROVE FALSE
    OBVIOUS
  <2>1. announced[m] = {h}
    BY DEF Inv, TypeOK
  <2> QED
    BY <1>2, <2>1
<1>6. \A n \in Mutexes : \A h \in announced'[n] : announced'[n] = {h}
  BY <1>4 DEF Inv, TypeOK
<1>7. \A n \in Mutexes : \A h \in writer'[n] :
        announced'[n] = {h} /\ \A k \in Goroutines : readers'[n][k] = 0
  BY <1>1, <1>4, <1>5 DEF Inv, TypeOK
<1>8. TypeOK'
  BY <1>1, <1>4, <1>6, <1>7 DEF Inv, TypeOK
<1>9. PlaceOK' /\ HeldOK'
  BY <1>1 DEF Inv, PlaceOK, HeldOK
<1>10. AnnouncedOK'
  BY <1>1, <1>2, <1>4 DEF Inv, AnnouncedOK, About, Busy
<1> QED
  BY <1>8, <1>9, <1>10 DEF Inv

LEMMA LockInv ==
  ASSUME Inv, NEW g \in Goroutines, NEW m \in Mutexes, Lock(g, m)
  PROVE  Inv'
<1>1. About(g, "Lock", m) /\ Advance(g)
  BY DEF Lock
<1>2. TypeOK /\ PlaceOK /\ Busy(g) /\ path[g][at[g]] = Step("Lock", m)
  BY <1>1 DEF Inv, About
<1>3. /\ PlaceOK' /\ path' = path /\ component' = component
      /\ at'[g] = at[g] + 1 /\ at[g] \in Nat \ {0}
      /\ \A h \in Goroutines : h # g => at'[h] = at[h]
  BY <1>1, <1>2, AdvanceMoves
<1>4. at' \in [Goroutines -> Nat \ {0}]
  BY <1>1, <1>2 DEF Advance, TypeOK
<1>5. /\ announced' = announced /\ readers' = readers
      /\ writer' = [writer EXCEPT ![m] = {g}]
      /\ announced[m] = {g} /\ \A h \in Goroutines : ~Holds(h, m)
  BY DEF Lock
<1>6. /\ writer'[m] = {g} /\ writer[m] = {}
      /\ \A n \in Mutexes : n # m => writer'[n] = writer[n]
      /\ \A h \in Goroutines : readers[m][h] = 0
  <2>1. writer \in [Mutexes -> SUBSET Goroutines] /\ readers \in [Mutexes -> [Goroutines -> Nat]]
    BY <1>2 DEF TypeOK
  <2>2. \A h \in Goroutines : h \notin writer[m] /\ readers[m][h] = 0
    BY <1>5, <2>1 DEF Holds
  <2> QED
    BY <1>5, <2>1, <2>2
<1>7. TypeOK'
  <2>1. writer' \in [Mutexes -> SUBSET Goroutines]
    BY <1>2, <1>5 DEF TypeOK
  <2>2. \A n \in Mutexes : \A h \in writer'[n] :
          announced'[n] = {h} /\ \A k \in Goroutines : readers'[n][k] = 0
    BY <1>2, <1>5, <1>6 DEF TypeOK
  <2> QED
    BY <1>2, <1>3, <1>4, <1>5, <2>1, <2>2 DEF TypeOK
<1>8. HeldOK'
  <2> SUFFICES ASSUME NEW h \in Goroutines, NEW n \in Mutexes
               PROVE  /\ Locks(path'[h], at'[h], n) = IF h \in writer'[n] THEN 1 ELSE 0
                      /\ ReadLocks(path'[h], at'[h], n) = readers'[n][h]
    BY DEF HeldOK
  <2>1. CASE h # g
    BY <1>3, <1>5, <1>6, <2>1, OthersStand
  <2>2. CASE h = g
    <3>1. /\ Locks(path[g], at[g], n) = IF g \in writer[n] THEN 1 ELSE 0
          /\ ReadLocks(path[g], at[g], n) = readers[n][g]
      BY DEF Inv, HeldOK
    <3>2. readers[n][g] \in Nat
      BY <1>2 DEF TypeOK
    <3> QED
      BY <1>2, <1>3, <1>5, <1>6, <2>2, <3>1, <3>2, StepLevels
  <2> QED
    BY <2>1, <2>2
<1>9. AnnouncedOK'
  <2> SUFFICES ASSUME NEW n \in Mutexes, NEW h \in announced'[n]
               PROVE  h \in writer'[n] \/ About(h, "Lock", n)'
    BY DEF AnnouncedOK
  <2>1. h \in Goroutines /\ h \in announced[n] /\ (h \in writer[n] \/ About(h, "Lock", n))
    BY <1>2, <1>5, <1>6 DEF Inv, TypeOK, AnnouncedOK
  <2>2. CASE h # g
    BY <1>3, <1>5, <1>6, <2>1, <2>2, OthersStand
  <2>3. CASE h = g
    BY <1>2, <1>5, <1>6, <2>1, <2>3 DEF About, Step
  <2> QED
    BY <2>2, <2>3
<1> QED
  BY <1>3, <1>7, <1>8, <1>9 DEF Inv

LEMMA UnlockInv ==
  ASSUME Inv, NEW g \in Goroutines, NEW m \in Mutexes, Unlock(g, m)
  PROVE  Inv'
<1>1. About(g, "Unlock", m) /\ Advance(g)
  BY DEF Unlock
<1>2. TypeOK /\ PlaceOK /\ Busy(g) /\ path[g][at[g]] = Step("Unlock", m)
  BY <1>1 DEF Inv, About
<1>3. /\ PlaceOK' /\ path' = path /\ component' = component
      /\ at'[g] = at[g] + 1 /\ at[g] \in Nat \ {0}
      /\ \A h \in Goroutines : h # g => at'[h] = at[h]
  BY <1>1, <1>2, AdvanceMoves
<1>4. at' \in [Goroutines -> Nat \ {0}]
  BY <1>1, <1>2 DEF Advance, TypeOK
<1>5. /\ readers' = readers /\ writer[m] = {g}
      /\ writer' = [writer EXCEPT ![m] = {}]
      /\ announced' = [announced EXCEPT ![m] = {}]
  BY DEF Unlock
<1>6. /\ writer'[m] = {} /\ announced'[m] = {}
      /\ \A n \in Mutexes : n # m => writer'[n] = writer[n] /\ announced'[n] = announced[n]
  BY <1>2, <1>5 DEF TypeOK
<1>7. TypeOK'
  <2>1. writer' \in [Mutexes -> SUBSET Goroutines] /\ announced' \in [Mutexes -> SUBSET Goroutines]
    BY <1>2, <1>5 DEF TypeOK
  <2>2. \A n \in Mutexes : \A h \in announced'[n] : announced'[n] = {h}
    BY <1>2, <1>6 DEF TypeOK
  <2>3. \A n \in Mutexes : \A h \in writer'[n] :
          announced'[n] = {h} /\ \A k \in Goroutines : readers'[n][k] = 0
    BY <1>2, <1>5, <1>6 DEF TypeOK
  <2> QED
    BY <1>2, <1>3, <1>4, <1>5, <2>1, <2>2, <2>3 DEF TypeOK
<1>8. HeldOK'
  <2> SUFFICES ASSUME NEW h \in Goroutines, NEW n \in Mutexes
               PROVE  /\ Locks(path'[h], at'[h], n) = IF h \in writer'[n] THEN 1 ELSE 0
                      /\ ReadLocks(path'[h], at'[h], n) = readers'[n][h]
    BY DEF HeldOK
  <2>1. CASE h # g
    BY <1>3, <1>5, <1>6, <2>1, OthersStand
  <2>2. CASE h = g
    <3>1. /\ Locks(path[g], at[g], n) = IF g \in writer[n] THEN 1 ELSE 0
          /\ ReadLocks(path[g], at[g], n) = readers[n][g]
      BY DEF Inv, HeldOK
    <3>2. readers[n][g] \in Nat
      BY <1>2 DEF TypeOK
    <3> QED
      BY <1>2, <1>3, <1>5, <1>6, <2>2, <3>1, <3>2, StepLevels
  <2> QED
    BY <2>1, <2>2
<1>9. AnnouncedOK'
  <2> SUFFICES ASSUME NEW n \in Mutexes, NEW h \in announced'[n]
               PROVE  h \in writer'[n] \/ About(h, "Lock", n)'
    BY DEF AnnouncedOK
  <2>1. h \in Goroutines /\ h \in announced[n] /\ (h \in writer[n] \/ About(h, "Lock", n))
    BY <1>2, <1>5, <1>6 DEF Inv, TypeOK, AnnouncedOK
  <2>2. CASE h # g
    BY <1>3, <1>5, <1>6, <2>1, <2>2, OthersStand
  <2>3. CASE h = g
    BY <1>2, <1>5, <1>6, <2>1, <2>3 DEF About, Step
  <2> QED
    BY <2>2, <2>3
<1> QED
  BY <1>3, <1>7, <1>8, <1>9 DEF Inv

LEMMA RLockInv ==
  ASSUME Inv, NEW g \in Goroutines, NEW m \in Mutexes, RLock(g, m)
  PROVE  Inv'
<1>1. About(g, "RLock", m) /\ Advance(g)
  BY DEF RLock
<1>2. TypeOK /\ PlaceOK /\ Busy(g) /\ path[g][at[g]] = Step("RLock", m)
  BY <1>1 DEF Inv, About
<1>3. /\ PlaceOK' /\ path' = path /\ component' = component
      /\ at'[g] = at[g] + 1 /\ at[g] \in Nat \ {0}
      /\ \A h \in Goroutines : h # g => at'[h] = at[h]
  BY <1>1, <1>2, AdvanceMoves
<1>4. at' \in [Goroutines -> Nat \ {0}]
  BY <1>1, <1>2 DEF Advance, TypeOK
<1>5. /\ announced' = announced /\ writer' = writer
      /\ readers' = [readers EXCEPT ![m][g] = @ + 1] /\ announced[m] = {}
  BY DEF RLock
<1>6. /\ readers'[m][g] = readers[m][g] + 1
      /\ \A n \in Mutexes : \A h \in Goroutines :
           n # m \/ h # g => readers'[n][h] = readers[n][h]
  BY <1>2, <1>5 DEF TypeOK
<1>7. TypeOK'
  <2>1. readers' \in [Mutexes -> [Goroutines -> Nat]]
    BY <1>2, <1>5 DEF TypeOK
  <2>2. \A n \in Mutexes : \A h \in writer'[n] :
          announced'[n] = {h} /\ \A k \in Goroutines : readers'[n][k] = 0
    <3> SUFFICES ASSUME NEW n \in Mutexes, NEW h \in writer'[n]
                 PROVE  announced'[n] = {h} /\ \A k \in Goroutines : readers'[n][k] = 0
      OBVIOUS
    <3>1. announced[n] = {h} /\ \A k \in Goroutines : readers[n][k] = 0
      BY <1>2, <1>5 DEF TypeOK
    <3>2. n # m
      BY <1>5, <3>1
    <3> QED
      BY <1>5, <1>6, <3>1, <3>2
  <2> QED
    BY <1>2, <1>3, <1>4, <1>5, <2>1, <2>2 DEF TypeOK
<1>8. HeldOK'
  <2> SUFFICES ASSUME NEW h \in Goroutines, NEW n \in Mutexes
               PROVE  /\ Locks(path'[h], at'[h], n) = IF h \in writer'[n] THEN 1 ELSE 0
                      /\ ReadLocks(path'[h], at'[h], n) = readers'[n][h]
    BY DEF HeldOK
  <2>1. CASE h # g
    BY <1>3, <1>5, <1>6, <2>1, OthersStand
  <2>2. CASE h = g
    <3>1. /\ Locks(path[g], at[g], n) = IF g \in writer[n] THEN 1 ELSE 0
          /\ ReadLocks(path[g], at[g], n) = readers[n][g]
      BY DEF Inv, HeldOK
    <3>2. readers[n][g] \in Nat
      BY <1>2 DEF TypeOK
    <3> QED
      BY <1>2, <1>3, <1>5, <1>6, <2>2, <3>1, <3>2, StepLevels
  <2> QED
    BY <2>1, <2>2
<1>9. AnnouncedOK'
  <2> SUFFICES ASSUME NEW n \in Mutexes, NEW h \in announced'[n]
               PROVE  h \in writer'[n] \/ About(h, "Lock", n)'
    BY DEF AnnouncedOK
  <2>1. h \in Goroutines /\ h \in announced[n] /\ (h \in writer[n] \/ About(h, "Lock", n))
    BY <1>2, <1>5, <1>6 DEF Inv, TypeOK, AnnouncedOK
  <2>2. CASE h # g
    BY <1>3, <1>5, <1>6, <2>1, <2>2, OthersStand
  <2>3. CASE h = g
    BY <1>2, <1>5, <1>6, <2>1, <2>3 DEF About, Step
  <2> QED
    BY <2>2, <2>3
<1> QED
  BY <1>3, <1>7, <1>8, <1>9 DEF Inv

LEMMA RUnlockInv ==
  ASSUME Inv, NEW g \in Goroutines, NEW m \in Mutexes, RUnlock(g, m)
  PROVE  Inv'
<1>1. About(g, "RUnlock", m) /\ Advance(g)
  BY DEF RUnlock
<1>2. TypeOK /\ PlaceOK /\ Busy(g) /\ path[g][at[g]] = Step("RUnlock", m)
  BY <1>1 DEF Inv, About
<1>3. /\ PlaceOK' /\ path' = path /\ component' = component
      /\ at'[g] = at[g] + 1 /\ at[g] \in Nat \ {0}
      /\ \A h \in Goroutines : h # g => at'[h] = at[h]
  BY <1>1, <1>2, AdvanceMoves
<1>4. at' \in [Goroutines -> Nat \ {0}]
  BY <1>1, <1>2 DEF Advance, TypeOK
<1>5. /\ announced' = announced /\ writer' = writer
      /\ readers' = [readers EXCEPT ![m][g] = @ - 1] /\ readers[m][g] > 0
  BY DEF RUnlock
<1>6. /\ readers'[m][g] = readers[m][g] - 1
      /\ \A n \in Mutexes : \A h \in Goroutines :
           n # m \/ h # g => readers'[n][h] = readers[n][h]
  BY <1>2, <1>5 DEF TypeOK
<1>7. TypeOK'
  <2>1. readers' \in [Mutexes -> [Goroutines -> Nat]]
    BY <1>2, <1>5 DEF TypeOK
  <2>2. \A n \in Mutexes : \A h \in writer'[n] :
          announced'[n] = {h} /\ \A k \in Goroutines : readers'[n][k] = 0
    BY <1>2, <1>5, <1>6 DEF TypeOK
  <2> QED
    BY <1>2, <1>3, <1>4, <1>5, <2>1, <2>2 DEF TypeOK
<1>8. HeldOK'
  <2> SUFFICES ASSUME NEW h \in Goroutines, NEW n \in Mutexes
               PROVE  /\ Locks(path'[h], at'[h], n) = IF h \in writer'[n] THEN 1 ELSE 0
                      /\ ReadLocks(path'[h], at'[h], n) = readers'[n][h]
    BY DEF HeldOK
  <2>1. CASE h # g
    BY <1>3, <1>5, <1>6, <2>1, OthersStand
  <2>2. CASE h = g
    <3>1. /\ Locks(path[g], at[g], n) = IF g \in writer[n] THEN 1 ELSE 0
          /\ ReadLocks(path[g], at[g], n) = readers[n][g]
      BY DEF Inv, HeldOK
    <3>2. readers[n][g] \in Nat
      BY <1>2 DEF TypeOK
    <3> QED
      BY <1>2, <1>3, <1>5, <1>6, <2>2, <3>1, <3>2, StepLevels
  <2> QED
    BY <2>1, <2>2
<1>9. AnnouncedOK'
  <2> SUFFICES ASSUME NEW n \in Mutexes, NEW h \in announced'[n]
               PROVE  h \in writer'[n] \/ About(h, "Lock", n)'
    BY DEF AnnouncedOK
  <2>1. h \in Goroutines /\ h \in announced[n] /\ (h \in writer[n] \/ About(h, "Lock", n))
    BY <1>2, <1>5, <1>6 DEF Inv, TypeOK, AnnouncedOK
  <2>2. CASE h # g
    BY <1>3, <1>5, <1>6, <2>1, <2>2, OthersStand
  <2>3. CASE h = g
    BY <1>2, <1>5, <1>6, <2>1, <2>3 DEF About, Step
  <2> QED
    BY <2>2, <2>3
<1> QED
  BY <1>3, <1>7, <1>8, <1>9 DEF Inv

LEMMA AccessInv ==
  ASSUME Inv, NEW g \in Goroutines, Access(g)
  PROVE  Inv'
<1>1. /\ Busy(g) /\ Advance(g) /\ path[g][at[g]].op \in {"Read", "Write"}
      /\ announced' = announced /\ writer' = writer /\ readers' = readers
  BY DEF Access
<1>2. TypeOK /\ PlaceOK
  BY DEF Inv
<1>3. /\ PlaceOK' /\ path' = path /\ component' = component
      /\ at'[g] = at[g] + 1 /\ at[g] \in Nat \ {0}
      /\ \A h \in Goroutines : h # g => at'[h] = at[h]
  BY <1>1, <1>2, AdvanceMoves
<1>4. at' \in [Goroutines -> Nat \ {0}]
  BY <1>1, <1>2 DEF Advance, TypeOK
<1>5. TypeOK'
  BY <1>1, <1>2, <1>3, <1>4 DEF TypeOK
<1>6. \A n : \A op \in {"Lock", "Unlock", "RLock", "RUnlock"} :
        path[g][at[g]] # Step(op, n)
  BY <1>1 DEF Step
<1>7. HeldOK'
  <2> SUFFICES ASSUME NEW h \in Goroutines, NEW n \in Mutexes
               PROVE  /\ Locks(path'[h], at'[h], n) = IF h \in writer'[n] THEN 1 ELSE 0
                      /\ ReadLocks(path'[h], at'[h], n) = readers'[n][h]
    BY DEF HeldOK
  <2>1. CASE h # g
    BY <1>1, <1>3, <2>1, OthersStand
  <2>2. CASE h = g
    <3>1. /\ Locks(path[g], at[g], n) = IF g \in writer[n] THEN 1 ELSE 0
          /\ ReadLocks(path[g], at[g], n) = readers[n][g]
      BY DEF Inv, HeldOK
    <3> QED
      BY <1>1, <1>3, <1>6, <2>2, <3>1, LocksNext, ReadLocksNext
  <2> QED
    BY <2>1, <2>2
<1>8. AnnouncedOK'
  <2> SUFFICES ASSUME NEW n \in Mutexes, NEW h \in announced'[n]
               PROVE  h \in writer'[n] \/ About(h, "Lock", n)'
    BY DEF AnnouncedOK
  <2>1. h \in Goroutines /\ (h \in writer[n] \/ About(h, "Lock", n))
    BY <1>1, <1>2 DEF Inv, TypeOK, AnnouncedOK
  <2>2. CASE h # g
    BY <1>1, <1>3, <2>1, <2>2, OthersStand
  <2>3. CASE h = g
    BY <1>1, <1>6, <2>1, <2>3 DEF About
  <2> QED
    BY <2>2, <2>3
<1> QED
  BY <1>3, <1>5, <1>7, <1>8 DEF Inv

LEMMA NextInv ==
  ASSUME Inv, [Next]_vars, Discipline
  PROVE  Inv'
<1>1. CASE UNCHANGED vars
  BY <1>1 DEF vars, Inv, TypeOK, PlaceOK, HeldOK, AnnouncedOK, About, Busy
<1>2. ASSUME NEW g \in Goroutines, Call(g) PROVE Inv'
  BY <1>2, CallInv
<1>3. ASSUME NEW g \in Goroutines, Access(g) PROVE Inv'
  BY <1>3, AccessInv
<1>4. ASSUME NEW g \in Goroutines, NEW m \in Mutexes, Announce(g, m) PROVE Inv'
  BY <1>4, AnnounceInv
<1>5. ASSUME NEW g \in Goroutines, NEW m \in Mutexes, Lock(g, m) PROVE Inv'
  BY <1>5, LockInv
<1>6. ASSUME NEW g \in Goroutines, NEW m \in Mutexes, Unlock(g, m) PROVE Inv'
  BY <1>6, UnlockInv
<1>7. ASSUME NEW g \in Goroutines, NEW m \in Mutexes, RLock(g, m) PROVE Inv'
  BY <1>7, RLockInv
<1>8. ASSUME NEW g \in Goroutines, NEW m \in Mutexes, RUnlock(g, m) PROVE Inv'
  BY <1>8, RUnlockInv
<1> QED
  BY <1>1, <1>2, <1>3, <1>4, <1>5, <1>6, <1>7, <1>8 DEF Next, NextMutex

(* The invariant is kept by every step of the methods of a component whose *)
(* paths keep the discipline.                                              *)
THEOREM SharedStateInductive == Spec /\ Discipline => [](Inv /\ Discipline)
<1>1. Init => Inv
  BY InitInv
<1>2. Inv /\ Discipline /\ [Next]_vars => Inv'
  BY NextInv
<1>3. Discipline /\ [Next]_vars => Discipline'
  BY DEF Discipline, Next, Call, Access, Announce, Lock, Unlock, RLock, RUnlock, Advance, vars
<1> QED
  BY <1>1, <1>2, <1>3, PTL DEF Spec

-----------------------------------------------------------------------------
(* What the goroutines hold is known from their paths. *)

LEMMA HoldsIsLevel ==
  ASSUME Inv, NEW g \in Goroutines, NEW m \in Mutexes
  PROVE  Holds(g, m) <=> Locks(path[g], at[g], m) > 0 \/ ReadLocks(path[g], at[g], m) > 0
<1>1. readers[m][g] \in Nat
  BY DEF Inv, TypeOK
<1> QED
  BY <1>1 DEF Inv, HeldOK, Holds

(* Who is busy is at a place of a disciplined path.                        *)
LEMMA BusyPath ==
  ASSUME Inv, NEW g \in Goroutines, Busy(g)
  PROVE  /\ path[g] \in Methods[component] /\ component \in DOMAIN Methods
         /\ at[g] \in DOMAIN path[g]
         /\ path[g][at[g]] \in LockSteps \cup AccessSteps
<1>1. /\ path[g] \in Methods[component] \cup {<<>>} /\ component \in DOMAIN Methods
      /\ at[g] \in Nat \ {0}
  BY DEF Inv, TypeOK
<1>2. path[g] \in Seq(LockSteps \cup AccessSteps)
  BY DEF Inv, PlaceOK, Paths_
<1>3. path[g] # <<>>
  BY <1>1 DEF Busy
<1> QED
  BY <1>1, <1>2, <1>3 DEF Busy

LEMMA InvNothingLeftHeld ==
  ASSUME Inv, Discipline
  PROVE  NothingLeftHeld
<1> SUFFICES ASSUME NEW g \in Goroutines, NEW m \in Mutexes, ~Busy(g)
             PROVE  ~Holds(g, m)
  BY DEF NothingLeftHeld
<1>1. path[g] \in Seq(LockSteps \cup AccessSteps) /\ at[g] \in 1..(Len(path[g]) + 1)
  BY DEF Inv, PlaceOK, Paths_
<1>2. at[g] = Len(path[g]) + 1
  BY <1>1 DEF Busy
<1>3. path[g] \in Methods[component] \cup {<<>>} /\ component \in DOMAIN Methods
  BY DEF Inv, TypeOK
<1>4. Locks(path[g], at[g], m) = 0 /\ ReadLocks(path[g], at[g], m) = 0
  <2>1. CASE path[g] = <<>>
    BY <1>2, <2>1, LocksFirst
  <2>2. CASE path[g] \in Methods[component]
    BY <1>2, <1>3, <2>2 DEF Discipline, DisciplinedComponents, Disciplined, Balanced
  <2> QED
    BY <1>3, <2>1, <2>2
<1> QED
  BY <1>4, HoldsIsLevel

LEMMA InvUnlocksHeld ==
  ASSUME Inv, Discipline
  PROVE  UnlocksHeld
<1> SUFFICES ASSUME NEW g \in Goroutines, NEW m \in NextMutex(g)
             PROVE  /\ About(g, "Unlock", m) => g \in writer[m]
                    /\ About(g, "RUnlock", m) => readers[m][g] > 0
  BY DEF UnlocksHeld
<1>1. m \in Mutexes /\ Busy(g)
  BY DEF NextMutex
<1>2. path[g] \in Methods[component] /\ component \in DOMAIN Methods /\ at[g] \in DOMAIN path[g]
  BY <1>1, BusyPath
<1>3. Owned(path[g])
  BY <1>2 DEF Discipline, DisciplinedComponents, Disciplined
<1>4. /\ Locks(path[g], at[g], m) = IF g \in writer[m] THEN 1 ELSE 0
      /\ ReadLocks(path[g], at[g], m) = readers[m][g]
  BY <1>1 DEF Inv, HeldOK
<1>5. ASSUME About(g, "Unlock", m) PROVE g \in writer[m]
  <2>1. Locks(path[g], at[g], m) > 0
    BY <1>2, <1>3, <1>5 DEF Owned, About, Step
  <2> QED
    BY <1>4, <2>1
<1>6. ASSUME About(g, "RUnlock", m) PROVE readers[m][g] > 0
  BY <1>2, <1>3, <1>4, <1>6 DEF Owned, About, Step
<1> QED
  BY <1>5, <1>6

LEMMA InvNoRace ==
  ASSUME Inv, Discipline
  PROVE  NoRace
<1> SUFFICES ASSUME NEW g \in Goroutines, NEW h \in Goroutines,
                    NEW var \in DOMAIN Guard[component], g # h, About(g, "Write", var),
                    NEW op \in {"Write", "Read"}, About(h, op, var)
             PROVE  FALSE
  BY DEF NoRace
<1> DEFINE m == Guard[component][var]
<1>1. component \in DOMAIN Methods /\ m \in Mutexes
  BY SharedStateAssumption DEF SharedStateAssumption, Inv, TypeOK
<1>2. Locks(path[g], at[g], m) > 0
  <2>1. /\ path[g] \in Methods[component] /\ at[g] \in DOMAIN path[g]
        /\ path[g][at[g]].op = "Write" /\ path[g][at[g]].on = var
    BY BusyPath DEF About, Step
  <2>2. Guarded(component, path[g])
    BY <1>1, <2>1 DEF Discipline, DisciplinedComponents, Disciplined
  <2> QED
    BY <2>1, <2>2 DEF Guarded, Protects
<1>3. Locks(path[h], at[h], m) > 0 \/ ReadLocks(path[h], at[h], m) > 0
  <2>1. /\ path[h] \in Methods[component] /\ at[h] \in DOMAIN path[h]
        /\ path[h][at[h]].op = op /\ path[h][at[h]].on = var
    BY BusyPath DEF About, Step
  <2>2. Guarded(component, path[h])
    BY <1>1, <2>1 DEF Discipline, DisciplinedComponents, Disciplined
  <2> QED
    BY <2>1, <2>2 DEF Guarded, Protects
<1>4. g \in writer[m]
  BY <1>1, <1>2 DEF Inv, HeldOK
<1>5. announced[m] = {g} /\ \A k \in Goroutines : readers[m][k] = 0
  BY <1>1, <1>4 DEF Inv, TypeOK
<1>6. h \notin writer[m]
  <2> SUFFICES ASSUME h \in writer[m] PROVE FALSE
    OBVIOUS
  <2>1. announced[m] = {h}
    BY <1>1 DEF Inv, TypeOK
  <2> QED
    BY <1>5, <2>1
<1> QED
  BY <1>1, <1>3, <1>5, <1>6, HoldsIsLevel DEF Holds

(* Among natural numbers one is the least.                                 *)
LEMMA LeastOf ==
  ASSUME NEW T \in SUBSET Nat, T # {}
  PROVE  \E x \in T : \A y \in T : ~(y < x)
<1> DEFINE Below == {pair \in Nat \X Nat : pair[1] < pair[2]}
<1>1. IsWellFoundedOn(Below, Nat)
  BY NatLessThanWellFounded, Zenon DEF OpToRel
<1>2. \E x \in T : \A y \in T : <<y, x>> \notin Below
  <2> HIDE DEF Below
  <2> QED
    BY <1>1, WFMin, Zenon
<1> QED
  BY <1>2

(* Whoever is on a circle is about to take a mutex.                        *)
LEMMA WaiterTakes ==
  ASSUME Inv, NEW g \in Goroutines, NEW h \in WaitsFor(g)
  PROVE  \E m \in Mutexes :
           /\ About(g, "Lock", m) \/ About(g, "RLock", m)
           /\ \/ Holds(h, m)
              \/ announced[m] = {h} /\ About(h, "Lock", m) /\ h \in Goroutines
<1>1. h \in Goroutines
  BY DEF WaitsFor
<1>2. PICK m \in Mutexes :
        \/ About(g, "RLock", m) /\ h \in announced[m]
        \/ About(g, "Lock", m) /\ announced[m] # {g} /\ h \in announced[m]
        \/ About(g, "Lock", m) /\ announced[m] = {g} /\ Holds(h, m)
  BY DEF WaitsFor, NextMutex
<1>3. CASE Holds(h, m)
  BY <1>2, <1>3
<1>4. CASE ~Holds(h, m)
  <2>1. h \in announced[m] /\ announced[m] = {h}
    BY <1>2, <1>4 DEF Inv, TypeOK
  <2>2. About(h, "Lock", m)
    BY <1>4, <2>1 DEF Inv, AnnouncedOK, Holds
  <2> QED
    BY <1>1, <1>2, <2>1, <2>2
<1> QED
  BY <1>3, <1>4

(* Of the mutexes that the goroutines of a circle wait for, take one of    *)
(* the lowest rank. Somebody on the circle holds it and waits for another, *)
(* which ranks below it if his path is in order.                           *)
LEMMA InvNoDeadlock ==
  ASSUME Inv, Discipline
  PROVE  NoDeadlock
<1> SUFFICES ASSUME NEW D \in SUBSET Goroutines, Circle(D),
                    \A g \in D : path[g] \notin Suspects[component]
             PROVE  FALSE
  BY DEF NoDeadlock
<1> DEFINE Takes(g, m) == About(g, "Lock", m) \/ About(g, "RLock", m)
           rank == Rank[component]
           Wanted == {m \in Mutexes : \E g \in D : Takes(g, m)}
           Ranks == {rank[m] : m \in Wanted}
<1>1. component \in DOMAIN Methods /\ rank \in [Mutexes -> Nat]
  BY SharedStateAssumption DEF SharedStateAssumption, Inv, TypeOK
<1>2. \A g \in D : \E h \in D : h \in WaitsFor(g)
  BY DEF Circle
<1>3. ASSUME NEW g \in D, NEW m \in Mutexes, Holds(g, m)
      PROVE  \E n \in Wanted : rank[n] < rank[m]
  <2>1. PICK n \in Mutexes : Takes(g, n)
    BY <1>2, WaiterTakes
  <2>2. /\ path[g] \in Methods[component] /\ at[g] \in DOMAIN path[g]
        /\ path[g][at[g]].op \in {"Lock", "RLock"} /\ path[g][at[g]].on = n
    BY <2>1, BusyPath DEF About, Step
  <2>3. Ordered(component, path[g])
    BY <1>1, <2>2 DEF Discipline, DisciplinedComponents, Disciplined
  <2>4. Locks(path[g], at[g], m) > 0 \/ ReadLocks(path[g], at[g], m) > 0
    BY <1>3, HoldsIsLevel
  <2>5. rank[n] < rank[m]
    BY <2>2, <2>3, <2>4 DEF Ordered
  <2> QED
    BY <2>1, <2>5
<1>4. PICK m \in Wanted : \A n \in Wanted : ~(rank[n] < rank[m])
  <2>1. Wanted # {}
    BY <1>2, WaiterTakes DEF Circle
  <2>2. Ranks \in SUBSET Nat /\ Ranks # {}
    BY <1>1, <2>1
  <2>3. PICK x \in Ranks : \A y \in Ranks : ~(y < x)
    BY <2>2, LeastOf
  <2> QED
    BY <2>3
<1>5. \A g \in D : ~Holds(g, m)
  BY <1>3, <1>4
<1>6. PICK g \in D : Takes(g, m)
  OBVIOUS
<1>7. \A n \in Mutexes : Takes(g, n) => n = m
  BY <1>6 DEF About, Step
<1>8. PICK h \in D : announced[m] = {h} /\ About(h, "Lock", m)
  <2>1. PICK h \in D : h \in WaitsFor(g)
    BY <1>2
  <2> QED
    BY <1>5, <1>7, <2>1, WaiterTakes
<1>9. \A n \in Mutexes : Takes(h, n) => n = m /\ ~About(h, "RLock", n)
  BY <1>8 DEF About, Step
<1>10. PICK k \in D : k \in WaitsFor(h)
  BY <1>2
<1>11. Holds(k, m)
  BY <1>8, <1>9, <1>10 DEF WaitsFor, NextMutex
<1> QED
  BY <1>5, <1>11

-----------------------------------------------------------------------------
(***************************************************************************)
(* What each path keeps alone is enough for all of them together, however  *)
(* many goroutines call the methods and whatever they share. Discipline    *)
(* speaks of the component's paths only, which no step changes.            *)
(***************************************************************************)

(* A writer is alone with its mutex, and its announcement keeps the others *)
(* out (sync.RWMutex, as every method of internal/engines uses it).        *)
THEOREM WriterAlone == Spec /\ Discipline => []TypeOK
<1>1. Inv => TypeOK
  BY DEF Inv
<1> QED
  BY <1>1, SharedStateInductive, PTL

(* Whatever way a method returns, it has released what it took, and no     *)
(* goroutine releases a mutex that another one holds, or that none does.   *)
THEOREM LocksAlwaysPaired == Spec /\ Discipline => []LocksPaired
<1>1. Inv /\ Discipline => LocksPaired
  BY InvNothingLeftHeld, InvUnlocksHeld DEF LocksPaired
<1> QED
  BY <1>1, SharedStateInductive, PTL

(* No two goroutines race for a variable that has a guard.                 *)
THEOREM GuardsExclude == Spec /\ Discipline => []NoRace
BY SharedStateInductive, InvNoRace, PTL

(* No circle of goroutines waits unless one is on the path of a suspect.   *)
THEOREM DisciplineSuffices == Spec /\ Discipline => []NoDeadlock
BY SharedStateInductive, InvNoDeadlock, PTL

-----------------------------------------------------------------------------
(* What the paths of one component say besides: which of its variables may *)
(* be raced for, and that none of its methods is a suspect.                *)
OnlyKnownRaces ==
  \A g, h \in Goroutines : \A var \in Written(component) :
    /\ g # h /\ About(g, "Write", var)
    /\ About(h, "Write", var) \/ About(h, "Read", var)
    => var \in Racy[component]

Unsuspected == Suspects[component] = {}

LEMMA ComponentStays ==
  ASSUME [Next]_vars
  PROVE  component' = component
BY DEF Next, Call, Access, Announce, Lock, Unlock, RLock, RUnlock, Advance, vars

(* Two goroutines race for the variables that are listed as racy, and for  *)
(* no other variable that a method of the component writes.                *)
THEOREM NoOtherRaces == Spec /\ Discipline /\ RacesKnown => []OnlyKnownRaces
<1>1. ASSUME NoRace, RacesKnown
      PROVE  OnlyKnownRaces
  <2>1. Written(component) \subseteq DOMAIN Guard[component] \cup Racy[component]
    BY <1>1 DEF RacesKnown, ComponentsOfKnownRaces
  <2> QED
    BY <1>1, <2>1 DEF NoRace, OnlyKnownRaces
<1>2. RacesKnown /\ [Next]_vars => RacesKnown'
  BY ComponentStays DEF RacesKnown
<1> QED
  BY <1>1, <1>2, GuardsExclude, PTL DEF Spec

(* A call of a component without suspects never waits in a circle: not for *)
(* itself, and not for the other calls, however many there are.            *)
THEOREM UnsuspectedNeverHang == Spec /\ Discipline /\ Unsuspected => []NeverHangs
<1>1. ASSUME NoDeadlock, Unsuspected
      PROVE  NeverHangs
  BY <1>1 DEF NoDeadlock, NeverHangs, Unsuspected
<1>2. Unsuspected /\ [Next]_vars => Unsuspected'
  BY ComponentStays DEF Unsuspected
<1> QED
  BY <1>1, <1>2, DisciplineSuffices, PTL DEF Spec
=============================================================================
