---------------------------- MODULE BestFitting ----------------------------
(***************************************************************************)
(* The parallel search of Worker.GetBestFittingTx.  Goroutine n of N looks *)
(* at the places n, n + N, n + 2N, ... of the list of ready transactions,  *)
(* most expensive first, and stops at the first that fits; all share the   *)
(* best place found so far.  The worker's mutex is held during the whole   *)
(* search, so the list does not change.  The module Worker takes the       *)
(* result for granted: the first place that fits.                          *)
(***************************************************************************)
EXTENDS Integers, FiniteSets

CONSTANTS
  N,  \* runtime.NumCPU()
  L   \* length of the list

ASSUME BestFittingAssumption == N \in Nat \ {0} /\ L \in Nat

VARIABLES
  fits,     \* fits[i]: the transaction at place i fits into the resources
  place,    \* place[n]: the loop variable of goroutine n
  pc,       \* pc[n]
  foundAt   \* the best place so far, or -1

vars == <<fits, place, pc, foundAt>>

Goroutine == 0..(N - 1)
Place == 0..(L - 1)

Init ==
  /\ fits \in [Place -> BOOLEAN]
  /\ place = [n \in Goroutine |-> n]
  /\ pc = [n \in Goroutine |-> "look"]
  /\ foundAt = -1

Goto(n, l) == pc' = [pc EXCEPT ![n] = l]

\* The head of the loop and, under the read lock, the test whether another
\* goroutine already has a better place.
Look(n) ==
  /\ pc[n] = "look"
  /\ Goto(n, IF place[n] >= L \/ (foundAt # -1 /\ place[n] > foundAt)
             THEN "done" ELSE "try")
  /\ UNCHANGED <<fits, place, foundAt>>

\* Faulty variant: the loop does not advance.
Try_Stays(n) ==
  /\ pc[n] = "try"
  /\ Goto(n, IF fits[place[n]] THEN "record" ELSE "look")
  /\ UNCHANGED <<fits, place, foundAt>>

\* Sub on the goroutine's own copy of the resources.
Try(n) ==
  /\ pc[n] = "try"
  /\ IF fits[place[n]]
     THEN Goto(n, "record") /\ UNCHANGED place
     ELSE Goto(n, "look") /\ place' = [place EXCEPT ![n] = @ + N]
  /\ UNCHANGED <<fits, foundAt>>

\* Faulty variant: the last goroutine wins.
Record_Overwrites(n) ==
  /\ pc[n] = "record"
  /\ foundAt' = place[n]
  /\ Goto(n, "done")
  /\ UNCHANGED <<fits, place>>

\* Under the write lock; another goroutine may have been faster.
Record(n) ==
  /\ pc[n] = "record"
  /\ foundAt' = IF foundAt = -1 \/ foundAt > place[n] THEN place[n] ELSE foundAt
  /\ Goto(n, "done")
  /\ UNCHANGED <<fits, place>>

Step(n) == Look(n) \/ Try(n) \/ Record(n)
Next == \E n \in Goroutine : Step(n)
Spec == Init /\ [][Next]_vars /\ \A n \in Goroutine : WF_vars(Step(n))

-----------------------------------------------------------------------------
\* The variables have their types.
TypeOK ==
  /\ fits \in [Place -> BOOLEAN]
  /\ place \in [Goroutine -> Nat]
  /\ pc \in [Goroutine -> {"look", "try", "record", "done"}]
  /\ foundAt \in Place \cup {-1}

AllDone == \A n \in Goroutine : pc[n] = "done"
Fitting == {i \in Place : fits[i]}

\* When all goroutines have returned, the place found is the first one that
\* fits, whatever the order in which they ran, and none is found only when
\* none fits.
FindsFirst ==
  AllDone => IF Fitting = {} THEN foundAt = -1
             ELSE foundAt \in Fitting /\ \A i \in Fitting : foundAt <= i

\* GetBestFittingTx returns: the wait group reaches zero.
Returns == <>AllDone
=============================================================================
