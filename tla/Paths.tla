-------------------------------- MODULE Paths --------------------------------
(***************************************************************************)
(* What a method does to the state that goroutines share, as the set of    *)
(* the paths through it: a path is a sequence of steps, a step takes or    *)
(* releases a mutex, or reads or writes a variable. Everything else that   *)
(* the method does is its own.                                             *)
(***************************************************************************)
LOCAL INSTANCE Sequences

Step(op, on) == [op |-> op, on |-> on]

Reads(var) == {<<Step("Read", var)>>}
Writes(var) == {<<Step("Write", var)>>}

(* First one, then the other.                                              *)
A ** B == {a \o b : a \in A, b \in B}

(* What a condition, or a loop over what may be empty, lets through.       *)
Maybe(A) == A \cup {<<>>}

(* Lock, the body, and the Unlock or the deferred Unlock.                  *)
Hold(mutex, A) == {<<Step("Lock", mutex)>>} ** A ** {<<Step("Unlock", mutex)>>}

(* RLock, the body, RUnlock.                                               *)
Share(mutex, A) == {<<Step("RLock", mutex)>>} ** A ** {<<Step("RUnlock", mutex)>>}
=============================================================================
