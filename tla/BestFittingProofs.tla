------------------------- MODULE BestFittingProofs -------------------------
(***************************************************************************)
(* The parallel search of GetBestFittingTx finds the first place that fits *)
(* for every number of goroutines and every length of the list.            *)
(***************************************************************************)
EXTENDS BestFitting, TLAPS

USE BestFittingAssumption

-----------------------------------------------------------------------------
\* Division with remainder by the number of goroutines.
LEMMA DivMod ==
  ASSUME NEW i \in Nat
  PROVE  /\ i % N \in Goroutine
         /\ i \div N \in Nat
         /\ i = N * (i \div N) + (i % N)
BY DEF Goroutine

\* Two places of one goroutine are at least N apart.
LEMMA LanesApart ==
  ASSUME NEW i \in Nat, NEW j \in Nat, i % N = j % N, i < j
  PROVE  i + N <= j
<1> DEFINE a == i \div N
           b == j \div N
           r == i % N
<1>1. a \in Nat /\ b \in Nat /\ r \in Nat /\ i = N * a + r /\ j = N * b + r
  BY DivMod DEF Goroutine
<1> HIDE DEF a, b, r
<1>2. a + 1 <= b
  BY <1>1
<1>3. N * (a + 1) <= N * b
  BY <1>1, <1>2
<1>4. N * (a + 1) = N * a + N
  BY <1>1
<1> QED BY <1>1, <1>3, <1>4

\* The loop stays in the lane of its goroutine.
LEMMA LaneNext ==
  ASSUME NEW i \in Nat
  PROVE  (i + N) % N = i % N
<1> DEFINE a == (i \div N) + 1
           b == (i + N) \div N
           r == i % N
           s == (i + N) % N
<1>1. /\ a \in Nat /\ b \in Nat
      /\ r \in Goroutine /\ s \in Goroutine
      /\ i = N * (i \div N) + r /\ i + N = N * b + s
  <2>1. i + N \in Nat
    OBVIOUS
  <2> QED BY <2>1, DivMod
<1>2. N * a = N * (i \div N) + N
  BY DivMod
<1>3. N * a + r = N * b + s
  BY <1>1, <1>2, DivMod DEF Goroutine
<1> HIDE DEF a, b, r, s
<1>4. CASE a < b
  <2>1. N * (a + 1) <= N * b
    BY <1>1, <1>4
  <2>2. N * (a + 1) = N * a + N
    BY <1>1
  <2> QED BY <1>1, <1>3, <2>1, <2>2 DEF Goroutine
<1>5. CASE b < a
  <2>1. N * (b + 1) <= N * a
    BY <1>1, <1>5
  <2>2. N * (b + 1) = N * b + N
    BY <1>1
  <2> QED BY <1>1, <1>3, <2>1, <2>2 DEF Goroutine
<1>6. CASE a = b
  BY <1>1, <1>3, <1>6 DEF r, s, Goroutine
<1> QED BY <1>1, <1>4, <1>5, <1>6

-----------------------------------------------------------------------------
(***************************************************************************)
(* The inductive invariant.  A goroutine never passes a place of its lane  *)
(* that fits, and returns only when a place at or before it was recorded.  *)
(***************************************************************************)
IInv ==
  /\ TypeOK
  /\ foundAt # -1 => fits[foundAt]
  /\ \A n \in Goroutine :
       /\ place[n] % N = n
       /\ pc[n] \in {"try", "record"} => place[n] < L
       /\ pc[n] = "record" => fits[place[n]]
  /\ \A i \in Fitting : LET n == i % N IN
       /\ place[n] <= i
       /\ pc[n] = "done" => foundAt # -1 /\ foundAt <= i

\* The invariant holds when the search starts.
LEMMA InitIInv == Init => IInv
<1> SUFFICES ASSUME Init PROVE IInv
  OBVIOUS
<1>1. TypeOK
  BY DEF Init, TypeOK, Goroutine
<1>2. \A n \in Goroutine : n % N = n
  BY DEF Goroutine
<1>3. \A i \in Fitting : i \in Nat /\ i % N \in Goroutine /\ i % N <= i
  BY DivMod DEF Fitting, Place, Goroutine
<1> QED BY <1>1, <1>2, <1>3 DEF Init, IInv

\* One step of a goroutine keeps the invariant.
LEMMA StepIInv ==
  ASSUME IInv, NEW n \in Goroutine, Step(n)
  PROVE  IInv'
<1>0. \A i \in Fitting : i \in Place /\ i \in Nat /\ i % N \in Goroutine
  BY DivMod DEF Fitting, Place
<1>1. CASE Look(n)
  <2>1. /\ UNCHANGED <<fits, place, foundAt>>
        /\ \/ /\ pc' = [pc EXCEPT ![n] = "done"]
              /\ place[n] >= L \/ (foundAt # -1 /\ place[n] > foundAt)
           \/ /\ pc' = [pc EXCEPT ![n] = "try"]
              /\ ~(place[n] >= L)
    BY <1>1 DEF Look, Goto
  <2>2. TypeOK'
    BY <2>1 DEF IInv, TypeOK
  <2>3. ASSUME NEW i \in Fitting, pc'[i % N] = "done"
        PROVE  foundAt # -1 /\ foundAt <= i
    BY <1>0, <2>1, <2>3 DEF IInv, TypeOK, Place
  <2>4. ASSUME NEW m \in Goroutine
        PROVE  /\ pc'[m] \in {"try", "record"} => place[m] < L
               /\ pc'[m] = "record" => pc[m] = "record"
    BY <2>1 DEF IInv, TypeOK
  <2> QED BY <2>1, <2>2, <2>3, <2>4 DEF IInv, Fitting
<1>2. CASE Try(n)
  <2>1. place[n] \in Nat /\ place[n] \in Place
    BY <1>2 DEF Try, IInv, TypeOK, Place
  <2>2. CASE fits[place[n]]
    <3>1. pc' = [pc EXCEPT ![n] = "record"] /\ UNCHANGED <<fits, place, foundAt>>
      BY <1>2, <2>2 DEF Try, Goto
    <3>2. TypeOK'
      BY <3>1 DEF IInv, TypeOK
    <3>3. ASSUME NEW m \in Goroutine
          PROVE  /\ pc'[m] \in {"try", "record"} => place[m] < L
                 /\ pc'[m] = "record" => m = n \/ pc[m] = "record"
                 /\ pc'[m] = "done" => pc[m] = "done"
      BY <2>1, <3>1 DEF IInv, TypeOK, Place
    <3> QED BY <1>0, <2>2, <3>1, <3>2, <3>3 DEF IInv, Fitting
  <2>3. CASE ~fits[place[n]]
    <3>1. (place[n] + N) % N = n
      BY <2>1, LaneNext DEF IInv
    <3>2. \A i \in Fitting : i % N = n => place[n] + N <= i
      <4> SUFFICES ASSUME NEW i \in Fitting, i % N = n
                   PROVE  place[n] + N <= i
        OBVIOUS
      <4>1. place[n] < i
        BY <1>0, <2>1, <2>3 DEF IInv, Fitting
      <4>2. place[n] % N = i % N
        BY DEF IInv
      <4> QED BY <1>0, <2>1, <4>1, <4>2, LanesApart
    <3>3. /\ pc' = [pc EXCEPT ![n] = "look"]
          /\ place' = [place EXCEPT ![n] = @ + N]
          /\ UNCHANGED <<fits, foundAt>>
      BY <1>2, <2>3 DEF Try, Goto
    <3>4. TypeOK'
      BY <2>1, <3>3 DEF IInv, TypeOK
    <3> QED BY <1>0, <2>1, <3>1, <3>2, <3>3, <3>4 DEF IInv, TypeOK, Fitting
  <2> QED BY <2>2, <2>3
<1>3. CASE Record(n)
  <2>1. place[n] \in Place /\ fits[place[n]]
    BY <1>3 DEF Record, IInv, TypeOK, Place
  <2>2. /\ foundAt' # -1 /\ foundAt' <= place[n] /\ foundAt' \in Place
        /\ foundAt' = place[n] \/ (foundAt' = foundAt /\ foundAt # -1)
    BY <1>3, <2>1 DEF Record, IInv, TypeOK, Place
  <2>3. foundAt # -1 => foundAt' <= foundAt
    BY <1>3, <2>1 DEF Record, IInv, TypeOK, Place
  <2>4. /\ pc' = [pc EXCEPT ![n] = "done"]
        /\ UNCHANGED <<fits, place>>
    BY <1>3 DEF Record, Goto
  <2>5. TypeOK'
    BY <2>2, <2>4 DEF IInv, TypeOK
  <2>6. ASSUME NEW i \in Fitting'
        PROVE  /\ place'[i % N] <= i
               /\ pc'[i % N] = "done" => foundAt' # -1 /\ foundAt' <= i
    <3>1. i \in Fitting /\ i \in Nat /\ i % N \in Goroutine
      BY <1>0, <2>4 DEF Fitting
    <3>2. CASE i % N = n
      BY <2>1, <2>2, <2>4, <3>1, <3>2 DEF IInv, Place
    <3>3. CASE i % N # n
      BY <2>2, <2>3, <2>4, <3>1, <3>3 DEF IInv, TypeOK, Place
    <3> QED BY <3>2, <3>3
  <2>7. fits'[foundAt']
    BY <2>1, <2>2, <2>4 DEF IInv
  <2>8. ASSUME NEW m \in Goroutine
        PROVE  pc'[m] \in {"try", "record"} => pc'[m] = pc[m]
    BY <2>4 DEF IInv, TypeOK
  <2> QED BY <2>4, <2>5, <2>6, <2>7, <2>8 DEF IInv
<1> QED BY <1>1, <1>2, <1>3 DEF Step

\* Every step of the search keeps the invariant.
LEMMA NextIInv == IInv /\ [Next]_vars => IInv'
<1> SUFFICES ASSUME IInv, [Next]_vars PROVE IInv'
  OBVIOUS
<1>1. CASE Next
  BY <1>1, StepIInv DEF Next
<1>2. CASE UNCHANGED vars
  BY <1>2 DEF vars, IInv, TypeOK, Fitting
<1> QED BY <1>1, <1>2

\* The invariant implies that what was found is the first.
LEMMA IInvImpliesFindsFirst == IInv => FindsFirst
<1> SUFFICES ASSUME IInv, AllDone
             PROVE  IF Fitting = {} THEN foundAt = -1
                    ELSE foundAt \in Fitting /\ \A i \in Fitting : foundAt <= i
  BY DEF FindsFirst
<1>1. \A i \in Fitting : i % N \in Goroutine
  BY DivMod DEF Fitting, Place
<1>2. \A i \in Fitting : foundAt # -1 /\ foundAt <= i
  BY <1>1 DEF IInv, AllDone
<1>3. foundAt # -1 => foundAt \in Fitting
  BY DEF IInv, TypeOK, Fitting
<1> QED BY <1>2, <1>3

\* The goroutines of GetBestFittingTx, however many there are and however they
\* interleave, return the first transaction of the list that fits, and nil
\* only when none does.
THEOREM SearchFindsFirst == Spec => []FindsFirst
<1>1. Init => IInv
  BY InitIInv
<1>2. IInv /\ [Next]_vars => IInv'
  BY NextIInv
<1>3. IInv => FindsFirst
  BY IInvImpliesFindsFirst
<1> QED BY <1>1, <1>2, <1>3, PTL DEF Spec
=============================================================================
