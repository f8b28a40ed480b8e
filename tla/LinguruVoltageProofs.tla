------------------------- MODULE LinguruVoltageProofs -------------------------
(***************************************************************************)
(* Proofs about the voltage sensor, for any readers and any number of      *)
(* requests: the invariant IInv of LinguruVoltage is inductive, and the    *)
(* age of what a reader returns follows from it.                           *)
(***************************************************************************)
EXTENDS LinguruVoltage, TLAPS

(* Nobody has asked, nothing is pending.                                   *)
LEMMA InitHolds == Init => IInv
<1> SUFFICES ASSUME Init PROVE IInv
  OBVIOUS
<1> USE DEF Init
<1>1. TypeInv
  BY DEF TypeInv, Steps
<1>2. \A r \in Readers : at[r] = "idle"
  OBVIOUS
<1>3. Exclusive /\ Latest /\ Fresh
  BY <1>2 DEF Exclusive, Holds, Latest, Fresh
<1>4. InOrder
  BY DEF InOrder
<1>5. Lag
  BY <1>2 DEF Lag
<1> QED
  BY <1>1, <1>3, <1>4, <1>5 DEF IInv

(* Moving one reader leaves the others where they are.                     *)
LEMMA GotoMoves ==
  ASSUME NEW r \in Readers, NEW step \in Steps, TypeInv, Goto(r, step)
  PROVE  /\ at' \in [Readers -> Steps]
         /\ at'[r] = step
         /\ \A s \in Readers : s # r => at'[s] = at[s]
  BY DEF Goto, TypeInv

(* A reader asks: nothing the invariant speaks of changes.                 *)
LEMMA AskStep ==
  ASSUME IInv, NEW r \in Readers, linguru_volt_read_raw(r)
  PROVE  IInv'
<1> USE DEF IInv, linguru_volt_read_raw, deviceVars
<1>1. /\ at' \in [Readers -> Steps] /\ at'[r] = "asking" /\ at[r] = "idle"
      /\ \A s \in Readers : s # r => at'[s] = at[s]
  BY GotoMoves DEF Steps
<1>2. TypeInv'
  BY <1>1 DEF TypeInv
<1>3. Exclusive'
  BY <1>1 DEF Exclusive, Holds
<1>4. InOrder' /\ Latest'
  BY <1>1 DEF InOrder, Latest
<1>5. Lag'
  BY <1>1 DEF Lag
<1>6. Fresh'
  BY <1>1 DEF Fresh
<1> QED
  BY <1>2, <1>3, <1>4, <1>5, <1>6

(* The mutex is taken: whoever completes before has been forgotten.        *)
LEMMA LockStep ==
  ASSUME IInv, NEW r \in Readers, Lock(r)
  PROVE  IInv'
<1> USE DEF IInv, Lock, deviceVars
<1>1. /\ at' \in [Readers -> Steps] /\ at'[r] = "locked" /\ at[r] = "asking"
      /\ \A s \in Readers : s # r => at'[s] = at[s]
  BY GotoMoves DEF Steps
<1>2. TypeInv'
  BY <1>1 DEF TypeInv
<1>3. \A s \in Readers : ~Holds(s)
  BY DEF Exclusive
<1>4. \A s \in Readers : s # r => at'[s] \notin {"locked", "waiting", "woken"}
  BY <1>1, <1>3 DEF Holds
<1>5. Exclusive'
  BY <1>1, <1>4 DEF Exclusive, Holds
<1>6. InOrder' /\ Latest'
  BY <1>1, <1>4 DEF InOrder, Latest
<1>7. nreq <= answered + timeouts /\ done' = 0
  BY DEF Lag
<1>8. Lag'
  BY <1>1, <1>4, <1>7 DEF Lag, TypeInv
<1>9. quiet'[r] => pending' = {} /\ rx' = "idle" /\ done' = 0
  BY DEF TypeInv
<1>10. Fresh'
  BY <1>1, <1>4, <1>9 DEF Fresh
<1> QED
  BY <1>2, <1>5, <1>6, <1>8, <1>10

(* What every step of the reader that holds the mutex starts from.         *)
LEMMA Alone ==
  ASSUME IInv, NEW r \in Readers, Holds(r), NEW step \in Steps, Goto(r, step)
  PROVE  /\ lock
         /\ at' \in [Readers -> Steps] /\ at'[r] = step
         /\ \A s \in Readers : s # r =>
              at'[s] \notin {"locked", "waiting", "woken"}
  BY GotoMoves DEF IInv, Exclusive, Holds

(* The request is sent, or the reader returns the error.                   *)
LEMMA SendStep ==
  ASSUME IInv, NEW r \in Readers, Send(r)
  PROVE  IInv'
<1> USE DEF IInv, Send, deviceVars
<1>0. Holds(r)
  BY DEF Holds
<1>1. CASE nreq' = nreq + 1 /\ pending' = pending \cup {nreq + 1}
           /\ own' = [own EXCEPT ![r] = nreq + 1] /\ Goto(r, "waiting")
           /\ lock' = lock
  <2>1. /\ lock
        /\ at' \in [Readers -> Steps] /\ at'[r] = "waiting"
        /\ \A s \in Readers : s # r =>
             at'[s] \notin {"locked", "waiting", "woken"}
    BY <1>0, <1>1, Alone DEF Steps
  <2>2. TypeInv'
    <3>1. pending' \in SUBSET (1 .. nreq')
      BY <1>1 DEF TypeInv
    <3>2. nreq' \in Nat /\ own' \in [Readers -> Nat]
      BY <1>1 DEF TypeInv
    <3>3. /\ quiet' \in [Readers -> BOOLEAN] /\ lock' \in BOOLEAN
          /\ done' \in Nat /\ voltage' \in Nat /\ rx' \in {"idle", "stored"}
          /\ answered' \in Nat /\ timeouts' \in Nat
      BY <1>1 DEF TypeInv
    <3> QED
      BY <2>1, <3>1, <3>2, <3>3 DEF TypeInv
  <2>3. Exclusive'
    BY <1>1, <2>1 DEF Exclusive, Holds
  <2>4. InOrder'
    BY <1>1 DEF InOrder, TypeInv
  <2>5. own'[r] = nreq'
    BY <1>1 DEF TypeInv
  <2>6. Latest'
    BY <2>1, <2>5 DEF Latest
  <2>7. nreq' + (IF done' > 0 THEN 1 ELSE 0) <= answered' + timeouts' + 1
    BY <1>1 DEF Lag, TypeInv
  <2>8. Lag'
    BY <1>1, <2>1, <2>7 DEF Lag
  <2>9. quiet'[r] => pending' \subseteq {nreq'} /\ rx' = "idle" /\ done' = 0
    BY <1>1 DEF Fresh
  <2>10. Fresh'
    BY <2>1, <2>9 DEF Fresh
  <2> QED
    BY <2>2, <2>3, <2>4, <2>6, <2>8, <2>10
<1>2. CASE Goto(r, "idle") /\ lock' = FALSE /\ UNCHANGED <<own, deviceVars>>
  <2>1. /\ at' \in [Readers -> Steps]
        /\ \A s \in Readers : at'[s] \notin {"locked", "waiting", "woken"}
    BY <1>0, <1>2, Alone DEF Steps
  <2>2. TypeInv'
    BY <1>2, <2>1 DEF TypeInv
  <2>3. Exclusive' /\ InOrder' /\ Latest' /\ Fresh'
    BY <1>2, <2>1 DEF Exclusive, Holds, InOrder, Latest, Fresh
  <2>4. nreq <= answered + timeouts
    BY DEF Lag, TypeInv
  <2>5. Lag'
    BY <1>2, <2>1, <2>4 DEF Lag
  <2> QED
    BY <2>2, <2>3, <2>5
<1> QED
  BY <1>1, <1>2

(* One completion is consumed.                                             *)
LEMMA WakeStep ==
  ASSUME IInv, NEW r \in Readers, Wake(r)
  PROVE  IInv'
<1> USE DEF IInv, Wake, deviceVars
<1>0. Holds(r)
  BY DEF Holds
<1>1. /\ lock
      /\ at' \in [Readers -> Steps] /\ at'[r] = "woken"
      /\ \A s \in Readers : s # r =>
           at'[s] \notin {"locked", "waiting", "woken"}
  BY <1>0, Alone DEF Steps
<1>2. TypeInv'
  <2>1. done' \in Nat
    BY DEF TypeInv
  <2>2. /\ own' \in [Readers -> Nat] /\ quiet' \in [Readers -> BOOLEAN]
        /\ lock' \in BOOLEAN /\ voltage' \in Nat /\ nreq' \in Nat
        /\ answered' \in Nat /\ timeouts' \in Nat
        /\ rx' \in {"idle", "stored"} /\ pending' \in SUBSET (1 .. nreq')
    BY DEF TypeInv
  <2> QED
    BY <1>1, <2>1, <2>2 DEF TypeInv
<1>3. Exclusive'
  BY <1>1 DEF Exclusive, Holds
<1>4. InOrder'
  BY DEF InOrder
<1>5. own'[r] = nreq'
  BY DEF Latest
<1>6. Latest'
  BY <1>1, <1>5 DEF Latest
<1>7. nreq' <= answered' + timeouts'
  BY DEF Lag, TypeInv
<1>8. Lag'
  BY <1>1, <1>7 DEF Lag
<1>9. quiet'[r] => voltage' = nreq'
  BY DEF Fresh
<1>10. Fresh'
  BY <1>1, <1>9 DEF Fresh
<1> QED
  BY <1>2, <1>3, <1>4, <1>6, <1>8, <1>10

(* The wait ends without an answer: the lag may grow by one.               *)
LEMMA TimeoutStep ==
  ASSUME IInv, NEW r \in Readers, Timeout(r)
  PROVE  IInv'
<1> USE DEF IInv, Timeout, deviceVars
<1>0. Holds(r)
  BY DEF Holds
<1>1. /\ at' \in [Readers -> Steps]
      /\ \A s \in Readers : at'[s] \notin {"locked", "waiting", "woken"}
  BY <1>0, Alone DEF Steps
<1>2. TypeInv'
  <2>1. timeouts' \in Nat
    BY DEF TypeInv
  <2>2. /\ own' \in [Readers -> Nat] /\ quiet' \in [Readers -> BOOLEAN]
        /\ lock' \in BOOLEAN /\ voltage' \in Nat /\ nreq' \in Nat
        /\ answered' \in Nat /\ done' \in Nat
        /\ rx' \in {"idle", "stored"} /\ pending' \in SUBSET (1 .. nreq')
    BY DEF TypeInv
  <2> QED
    BY <1>1, <2>1, <2>2 DEF TypeInv
<1>3. Exclusive' /\ InOrder' /\ Latest' /\ Fresh'
  BY <1>1 DEF Exclusive, Holds, InOrder, Latest, Fresh
<1>4. nreq' <= answered' + timeouts'
  BY DEF Lag, TypeInv
<1>5. Lag'
  BY <1>1, <1>4 DEF Lag
<1> QED
  BY <1>2, <1>3, <1>5

(* The reader takes the voltage and unlocks.                               *)
LEMMA ReturnStep ==
  ASSUME IInv, NEW r \in Readers, Return(r)
  PROVE  IInv'
<1> USE DEF IInv, Return, deviceVars
<1>0. Holds(r)
  BY DEF Holds
<1>1. /\ at' \in [Readers -> Steps]
      /\ \A s \in Readers : at'[s] \notin {"locked", "waiting", "woken"}
  BY <1>0, Alone DEF Steps
<1>2. TypeInv'
  BY <1>1 DEF TypeInv
<1>3. Exclusive' /\ InOrder' /\ Latest' /\ Fresh'
  BY <1>1 DEF Exclusive, Holds, InOrder, Latest, Fresh
<1>4. nreq' <= answered' + timeouts'
  BY DEF Lag, TypeInv
<1>5. Lag'
  BY <1>1, <1>4 DEF Lag
<1> QED
  BY <1>2, <1>3, <1>5

(* The oldest answer arrives: it is newer than what is stored and older    *)
(* than what remains.                                                      *)
LEMMA ReplyStep ==
  ASSUME IInv, linguru_volt_reply
  PROVE  IInv'
<1> USE DEF IInv, linguru_volt_reply, readerVars
<1>1. PICK n \in pending : /\ \A m \in pending : n <= m
                           /\ voltage' = n
                           /\ pending' = pending \ {n}
  OBVIOUS
<1>2. n \in Nat /\ n <= nreq /\ voltage < n /\ answered = voltage
  BY DEF TypeInv, InOrder
<1>3. TypeInv'
  BY <1>1, <1>2 DEF TypeInv
<1>4. Exclusive' /\ Latest'
  BY DEF Exclusive, Holds, Latest
<1>5. \A m \in pending' : voltage' < m
  BY <1>1, <1>2 DEF TypeInv
<1>6. InOrder'
  BY <1>1, <1>2, <1>5 DEF InOrder, TypeInv
<1>7. Lag'
  BY DEF Lag
<1>8. ASSUME NEW r \in Readers, quiet'[r]
      PROVE  /\ at'[r] # "locked"
             /\ at'[r] = "waiting" => pending' = {} /\ voltage' = nreq'
             /\ at'[r] # "woken"
  <2>1. at[r] # "locked"
    BY <1>1, <1>8 DEF Fresh
  <2>2. at[r] = "waiting" => pending \subseteq {nreq}
    BY <1>8 DEF Fresh
  <2>3. at[r] = "woken" => voltage = nreq
    BY <1>8 DEF Fresh
  <2>4. at[r] # "woken"
    BY <1>2, <2>3 DEF TypeInv
  <2> QED
    BY <1>1, <2>1, <2>2, <2>4
<1>9. Fresh'
  BY <1>8 DEF Fresh
<1> QED
  BY <1>3, <1>4, <1>6, <1>7, <1>9

(* The completion is signalled: one more, and one answer less to come.     *)
LEMMA CompleteStep ==
  ASSUME IInv, complete
  PROVE  IInv'
<1> USE DEF IInv, complete, readerVars, deviceVars
<1>1. TypeInv'
  BY DEF TypeInv
<1>2. Exclusive' /\ Latest'
  BY DEF Exclusive, Holds, Latest
<1>3. InOrder'
  BY DEF InOrder, TypeInv
<1>4. answered + 1 <= answered' /\ done' > 0
  BY DEF InOrder, TypeInv
<1>5. /\ ~lock' => nreq' <= answered' + timeouts'
      /\ \A r \in Readers :
           /\ at'[r] = "locked" => nreq' + 1 <= answered' + timeouts'
           /\ at'[r] = "waiting" => nreq' + 1 <= answered' + timeouts' + 1
           /\ at'[r] = "woken" => nreq' <= answered' + timeouts'
  <2>1. /\ ~lock => nreq <= answered + timeouts
        /\ \A r \in Readers :
             /\ at[r] = "locked" => nreq <= answered + timeouts
             /\ at[r] = "waiting" => nreq <= answered + timeouts + 1
             /\ at[r] = "woken" => nreq <= answered + timeouts
    BY DEF Lag, TypeInv
  <2>2. answered' \in Nat /\ answered \in Nat /\ nreq \in Nat /\ timeouts \in Nat
    BY DEF TypeInv
  <2> QED
    BY <1>4, <2>1, <2>2
<1>6. Lag'
  BY <1>4, <1>5 DEF Lag
<1>7. Fresh'
  BY DEF Fresh
<1> QED
  BY <1>1, <1>2, <1>3, <1>6, <1>7

(* An answer will not come: nothing that was promised depended on it.      *)
LEMMA LoseStep ==
  ASSUME IInv, LoseRequest
  PROVE  IInv'
<1> USE DEF IInv, LoseRequest, readerVars
<1>1. TypeInv'
  BY DEF TypeInv
<1>2. Exclusive' /\ Latest' /\ Lag'
  BY DEF Exclusive, Holds, Latest, Lag
<1>3. InOrder'
  BY DEF InOrder
<1>4. Fresh'
  BY DEF Fresh
<1> QED
  BY <1>1, <1>2, <1>3, <1>4

(* IInv is inductive: it holds in the initial states and every step keeps  *)
(* it.                                                                     *)
THEOREM Inductive == Spec => []IInv
<1>1. Init => IInv
  BY InitHolds
<1>2. IInv /\ [Next]_vars => IInv'
  <2> SUFFICES ASSUME IInv, [Next]_vars PROVE IInv'
    OBVIOUS
  <2>1. CASE UNCHANGED vars
    BY <2>1 DEF IInv, vars, readerVars, deviceVars, TypeInv, Exclusive, Holds,
                InOrder, Latest, Lag, Fresh
  <2>2. ASSUME NEW r \in Readers, ReadStep(r) PROVE IInv'
    BY <2>2, SendStep, WakeStep, TimeoutStep, ReturnStep DEF ReadStep
  <2> QED
    BY <2>1, <2>2, AskStep, LockStep, ReplyStep, CompleteStep, LoseStep
       DEF Next
<1> QED
  BY <1>1, <1>2, PTL DEF Spec

(* Every variable keeps its type.                                          *)
THEOREM TypeCorrect == Spec => []TypeInv
  BY Inductive, PTL DEF IInv

(* What a reader returns is at most one request older per timeout so far.  *)
THEOREM LagIsBounded == Spec => []LagBounded
<1>1. IInv => LagBounded
  <2> SUFFICES ASSUME IInv, NEW r \in Readers, at[r] = "woken"
               PROVE  own[r] <= voltage + timeouts
    BY DEF LagBounded
  <2>1. own[r] = nreq /\ nreq <= answered + timeouts /\ answered <= voltage
    BY DEF IInv, Latest, Lag, InOrder
  <2> QED
    BY <2>1 DEF IInv, TypeInv
<1> QED
  BY <1>1, Inductive, PTL

(* A reader that starts when nothing is outstanding returns the answer to  *)
(* its own request.                                                        *)
THEOREM QuietReadsFresh == Spec => []QuietIsFresh
<1>1. IInv => QuietIsFresh
  BY DEF IInv, Latest, Fresh, QuietIsFresh
<1> QED
  BY <1>1, Inductive, PTL
=============================================================================
